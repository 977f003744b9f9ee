------------------------- MODULE TracePacker_proofs -------------------------
(***************************************************************************)
(* Proofs about packing a trace list: a record packer always works on the  *)
(* segment it was made for, the list stays well formed through every       *)
(* interleaving of adding and packing, what this says of the stream of     *)
(* records and of the end of packing, and that packing loses no sample of  *)
(* the list and, when its errors leave nothing out, repeats none.          *)
(***************************************************************************)
EXTENDS TracePacker, TraceListSeries_proofs, TraceListSamples_proofs

-----------------------------------------------------------------------------
(* Positions in the list.                                                  *)

Position == [id : Nat, seg : Nat]

ListOK(list) == list \in [Keys -> TraceID] /\ \A k \in Keys : IDOK(list[k])

(* The list of trace IDs names every key. *)
LEMMA OrderFacts ==
  /\ Len(IdOrder) \in Nat /\ DOMAIN IdOrder = 1 .. Len(IdOrder)
  /\ \A id \in DOMAIN IdOrder : IdOrder[id] \in Keys
  /\ \A k \in Keys : \E id \in DOMAIN IdOrder : IdOrder[id] = k
<1>1. IdOrder \in Seq(Keys) /\ Range(IdOrder) = Keys
  BY PackingAssumption
<1>2. \A k \in Keys : \E id \in DOMAIN IdOrder : IdOrder[id] = k
  BY <1>1 DEF Range
<1> QED BY <1>1, <1>2, ElementOfSeq

(* A position names a trace ID of the list and a segment of it. *)
LEMMA PositionFacts ==
  ASSUME NEW list, ListOK(list), NEW p
  PROVE  p \in Positions(list) <=>
           /\ p = At(p.id, p.seg)
           /\ p.id \in 1 .. Len(IdOrder)
           /\ p.seg \in 1 .. Len(list[IdOrder[p.id]].segs)
<1>1. \A id \in DOMAIN IdOrder : /\ list[IdOrder[id]].segs \in Seq(Segment)
                                 /\ DOMAIN list[IdOrder[id]].segs = 1 .. Len(list[IdOrder[id]].segs)
  <2> SUFFICES ASSUME NEW id \in DOMAIN IdOrder PROVE list[IdOrder[id]].segs \in Seq(Segment)
    BY LenProperties
  <2>1. list[IdOrder[id]] \in TraceID
    BY OrderFacts DEF ListOK
  <2> QED BY <2>1 DEF TraceID
<1>2. p \in Positions(list) <=> \E id \in DOMAIN IdOrder :
                                   \E seg \in DOMAIN list[IdOrder[id]].segs : p = At(id, seg)
  BY DEF Positions
<1>3. \A id, seg : At(id, seg).id = id /\ At(id, seg).seg = seg
  BY DEF At
<1> QED BY <1>1, <1>2, <1>3, OrderFacts, SMTT(40)

LEMMA PositionSegment ==
  ASSUME NEW list, ListOK(list), NEW p \in Positions(list)
  PROVE  /\ p \in Position /\ p.id # 0 /\ p = At(p.id, p.seg)
         /\ p.id \in 1 .. Len(IdOrder) /\ IdOrder[p.id] \in Keys
         /\ IDOK(list[IdOrder[p.id]]) /\ list[IdOrder[p.id]].segs \in Seq(Segment)
         /\ p.seg \in 1 .. Len(list[IdOrder[p.id]].segs)
         /\ SegAt(list, p) = list[IdOrder[p.id]].segs[p.seg]
         /\ SegAt(list, p) \in Segment
         /\ SegAt(list, p) \in Members(list[IdOrder[p.id]].segs)
         /\ NotBefore(p, At(1, 1))
<1>1. /\ p = At(p.id, p.seg) /\ p.id \in 1 .. Len(IdOrder)
      /\ p.seg \in 1 .. Len(list[IdOrder[p.id]].segs)
  BY PositionFacts
<1>2. IdOrder[p.id] \in Keys /\ Len(IdOrder) \in Nat
  BY <1>1, OrderFacts
<1>3. IDOK(list[IdOrder[p.id]]) /\ list[IdOrder[p.id]].segs \in Seq(Segment)
  BY <1>2 DEF ListOK, IDOK, TraceID
<1>4. p \in Position /\ p.id # 0
  <2>1. p.id \in Nat /\ p.seg \in Nat
    BY <1>1, <1>2, <1>3
  <2> QED BY <1>1, <2>1 DEF Position, At
<1>5. SegAt(list, p) = list[IdOrder[p.id]].segs[p.seg]
  BY DEF SegAt
<1>6. SegAt(list, p) \in Segment /\ SegAt(list, p) \in Members(list[IdOrder[p.id]].segs)
  BY <1>1, <1>3, <1>5, ElementOfSeq DEF Members
<1>7. NotBefore(p, At(1, 1))
  <2>1. At(1, 1).id = 1 /\ At(1, 1).seg = 1
    BY DEF At
  <2>2. p.id \in Nat /\ p.id >= 1 /\ p.seg \in Nat /\ p.seg >= 1
    BY <1>1, <1>2, <1>3
  <2> QED BY <2>1, <2>2 DEF NotBefore
<1> QED BY <1>1, <1>2, <1>3, <1>4, <1>5, <1>6, <1>7

(* A set of positions that is not empty has a first one. *)
LEMMA FirstExists ==
  ASSUME NEW S \in SUBSET Position, S # {}
  PROVE  \E p \in S : \A q \in S : NotBefore(q, p)
<1>1. \A p \in S : p.id \in Nat /\ p.seg \in Nat
  BY DEF Position
<1> DEFINE I == {p.id : p \in S}
<1>2. I \in SUBSET Nat /\ I # {}
  BY <1>1
<1>3. PICK i \in I : \A j \in I : i <= j
  <2> HIDE DEF I
  <2> QED BY <1>2, LeastNat
<1> DEFINE J == {p.seg : p \in {q \in S : q.id = i}}
<1>4. J \in SUBSET Nat /\ J # {}
  BY <1>1
<1>5. PICK j \in J : \A m \in J : j <= m
  <2> HIDE DEF J
  <2> QED BY <1>4, LeastNat
<1>6. PICK p \in S : p.id = i /\ p.seg = j
  BY <1>5
<1>7. ASSUME NEW q \in S PROVE NotBefore(q, p)
  <2>1. q.id \in I /\ i <= q.id /\ q.id \in Nat /\ i \in Nat
    BY <1>1, <1>2, <1>3
  <2>2. q.id = i => q.seg \in J /\ j <= q.seg
    BY <1>5
  <2>3. q.seg \in Nat /\ j \in Nat
    BY <1>1, <1>4, <1>5
  <2> QED BY <2>1, <2>2, <2>3, <1>6 DEF NotBefore
<1> QED BY <1>6, <1>7

(* The scan stops at a segment that gives a record, or there is none. *)
LEMMA FirstReadyFacts ==
  ASSUME NEW list, ListOK(list), NEW from, NEW flush,
         NEW first, first = FirstReady(list, from, flush)
  PROVE  \/ /\ first \in Ready(list, flush) /\ first \in Positions(list) /\ first.id # 0
            /\ NotBefore(first, from)
         \/ /\ first = At(0, 0) /\ first.id = 0
            /\ \A p \in Ready(list, flush) : ~NotBefore(p, from)
<1> DEFINE ready == {p \in Ready(list, flush) : NotBefore(p, from)}
<1>1. first = IF ready = {} THEN At(0, 0)
              ELSE CHOOSE p \in ready : \A q \in ready : NotBefore(q, p)
  BY DEF FirstReady
<1>2. /\ ready \in SUBSET Position /\ ready \in SUBSET Positions(list) /\ ready \in SUBSET Ready(list, flush)
      /\ \A p \in ready : NotBefore(p, from)
  BY PositionSegment DEF Ready
<1>3. CASE ready = {}
  BY <1>1, <1>3 DEF At
<1>4. CASE ready # {}
  <2>1. \E p \in ready : \A q \in ready : NotBefore(q, p)
    <3> HIDE DEF ready
    <3> QED BY <1>2, <1>4, FirstExists
  <2>2. first \in ready
    <3> HIDE DEF ready
    <3> QED BY <1>1, <1>4, <2>1
  <2> QED BY <1>2, <2>2, PositionSegment
<1> QED BY <1>3, <1>4

LEMMA NextPositionFacts ==
  ASSUME NEW list, ListOK(list), NEW at
  PROVE  /\ NextPosition(list, at) \in Position
         /\ NextPosition(list, at).id # 0 =>
              /\ NextPosition(list, at) \in Positions(list)
              /\ NotBefore(NextPosition(list, at), at) /\ NextPosition(list, at) # at
<1> DEFINE later == {p \in Positions(list) : NotBefore(p, at) /\ p # at}
<1>1. NextPosition(list, at) = IF later = {} THEN At(0, 0)
                               ELSE CHOOSE p \in later : \A q \in later : NotBefore(q, p)
  BY DEF NextPosition
<1>2. /\ later \in SUBSET Position
      /\ \A p \in later : p \in Positions(list) /\ NotBefore(p, at) /\ p # at
  BY PositionSegment
<1>3. At(0, 0) \in Position /\ At(0, 0).id = 0
  BY DEF At, Position
<1> HIDE DEF later
<1>4. later # {} => \E p \in later : \A q \in later : NotBefore(q, p)
  BY <1>2, FirstExists
<1> QED BY <1>1, <1>2, <1>3, <1>4

-----------------------------------------------------------------------------
(* What packing does to the list.                                          *)

(* A segment that has lost its first n samples. *)
Shortened(seg, n) ==
  [seg EXCEPT !.start = IF n = Len(seg.data) THEN seg.end
                        ELSE SampleTime(seg.start, n, seg.rate),
              !.cnt = @ - n,
              !.data = SubSeq(@, n + 1, Len(@))]

LEMMA RestOf ==
  ASSUME NEW S, NEW d \in Seq(S), NEW n \in 0 .. Len(d)
  PROVE  /\ SubSeq(d, n + 1, Len(d)) \in Seq(S)
         /\ Len(SubSeq(d, n + 1, Len(d))) = Len(d) - n
         /\ \A m \in 1 .. Len(d) - n : SubSeq(d, n + 1, Len(d))[m] = d[n + m]
<1>1. Len(d) \in Nat /\ \A i \in n + 1 .. Len(d) : d[i] \in S
  BY ElementOfSeq
<1>2. /\ SubSeq(d, n + 1, Len(d)) \in Seq(S)
      /\ Len(SubSeq(d, n + 1, Len(d))) = IF n + 1 <= Len(d) THEN Len(d) - (n + 1) + 1 ELSE 0
      /\ \A i \in 1 .. Len(d) - (n + 1) + 1 : SubSeq(d, n + 1, Len(d))[i] = d[n + 1 + i - 1]
  BY <1>1, SubSeqProperties
<1> QED BY <1>1, <1>2

LEMMA ShortenedFields ==
  ASSUME NEW seg \in Segment, Len(seg.data) <= seg.cnt, NEW n \in 0 .. Len(seg.data)
  PROVE  /\ Shortened(seg, n) \in Segment
         /\ Shortened(seg, n).rate = seg.rate /\ Shortened(seg, n).end = seg.end
         /\ Shortened(seg, n).cnt = seg.cnt - n
         /\ Shortened(seg, n).data = SubSeq(seg.data, n + 1, Len(seg.data))
         /\ Shortened(seg, n).start = IF n = Len(seg.data) THEN seg.end
                                      ELSE SampleTime(seg.start, n, seg.rate)
         /\ Len(Shortened(seg, n).data) = Len(seg.data) - n
         /\ Len(Shortened(seg, n).data) <= Shortened(seg, n).cnt
<1>1. /\ seg.start \in Int /\ seg.end \in Int /\ seg.rate \in Nat /\ seg.cnt \in Nat
      /\ seg.data \in Seq(Int)
  BY DEF Segment
<1>2. /\ SubSeq(seg.data, n + 1, Len(seg.data)) \in Seq(Int)
      /\ Len(SubSeq(seg.data, n + 1, Len(seg.data))) = Len(seg.data) - n
  BY <1>1, RestOf
<1>3. NsPeriod(seg.rate) \in Int
  BY <1>1, ConstantsAssumption DEF NsPeriod
<1>4. SampleTime(seg.start, n, seg.rate) \in Int
  <2> DEFINE P == NsPeriod(seg.rate)
  <2>1. P \in Int /\ n \in Int
    BY <1>1, <1>3
  <2> HIDE DEF P
  <2>2. n * P \in Int
    BY <2>1
  <2> QED BY <1>1, <2>2 DEF SampleTime, P
<1>5. seg.cnt - n \in Nat /\ Len(seg.data) - n <= seg.cnt - n
  BY <1>1
<1>6. /\ Shortened(seg, n).rate = seg.rate /\ Shortened(seg, n).end = seg.end
      /\ Shortened(seg, n).cnt = seg.cnt - n
      /\ Shortened(seg, n).data = SubSeq(seg.data, n + 1, Len(seg.data))
      /\ Shortened(seg, n).start = IF n = Len(seg.data) THEN seg.end
                                   ELSE SampleTime(seg.start, n, seg.rate)
  BY DEF Shortened, Segment
<1>7. Shortened(seg, n) \in Segment
  BY <1>1, <1>2, <1>4, <1>5 DEF Shortened, Segment
<1> QED BY <1>2, <1>5, <1>6, <1>7

(* The segments of list are right by G. *)
InG(list, G) == \A k \in Keys : Members(list[k].segs) \subseteq G[k]

(* What is right by G stays so when samples leave it. *)
Shortens(G) ==
  \A k \in Keys : \A s \in G[k] : \A n \in 0 .. Len(s.data) :
    s \in Segment /\ Len(s.data) <= s.cnt => Shortened(s, n) \in G[k]

(* The segments with no more samples than they count. *)
Counted == [k \in Keys |-> {s \in Segment : Len(s.data) <= s.cnt}]

LEMMA CountedShortens == Shortens(Counted)
BY ShortenedFields DEF Shortens, Counted

(* The list becomes new: still a list, and right in every way that the     *)
(* loss of samples does not disturb.                                       *)
Thins(list, new) ==
  /\ ListOK(new)
  /\ \A k \in Keys : \A s \in Members(new[k].segs) :
       \/ s \in Members(list[k].segs)
       \/ \E t \in Members(list[k].segs) : \E n \in 0 .. Len(t.data) :
            t \in Segment /\ Len(t.data) <= t.cnt /\ s = Shortened(t, n)

LEMMA ThinsKeeps ==
  ASSUME NEW list, NEW new, Thins(list, new), NEW G, Shortens(G), InG(list, G)
  PROVE  InG(new, G)
BY DEF Thins, Shortens, InG

LEMMA SameThins ==
  ASSUME NEW list, ListOK(list)
  PROVE  Thins(list, list)
BY DEF Thins

(* One segment is replaced. *)
Put(list, p, e) == [list EXCEPT ![IdOrder[p.id]].segs[p.seg] = e]

LEMMA ListReplaced ==
  ASSUME NEW list, ListOK(list), NEW p \in Positions(list), NEW e \in Segment,
         NEW new, new = Put(list, p, e)
  PROVE  /\ ListOK(new) /\ p \in Positions(new) /\ SegAt(new, p) = e
         /\ \A k \in Keys : Len(new[k].segs) = Len(list[k].segs)
         /\ \A k \in Keys : \A s \in Members(new[k].segs) :
              s \in Members(list[k].segs) \/ (k = IdOrder[p.id] /\ s = e)
<1> DEFINE k == IdOrder[p.id]
           t == list[k]
           segs == [t.segs EXCEPT ![p.seg] = e]
           u == [t EXCEPT !.segs = segs]
<1>1. /\ p = At(p.id, p.seg) /\ p.id \in 1 .. Len(IdOrder) /\ k \in Keys
      /\ IDOK(t) /\ t.segs \in Seq(Segment) /\ p.seg \in 1 .. Len(t.segs)
  BY PositionSegment
<1>2. t \in TraceID /\ list \in [Keys -> TraceID]
  BY <1>1 DEF IDOK, ListOK
<1>3. new = [list EXCEPT ![k] = u]
  BY <1>1, <1>2 DEF TraceID, Put
<1>4. segs \in Seq(Segment) /\ Len(segs) = Len(t.segs) /\ segs[p.seg] = e
      /\ \A m \in 1 .. Len(t.segs) : m # p.seg => segs[m] = t.segs[m]
  BY <1>1, ExceptSeq, LenProperties
<1>5. u.segs = segs /\ u.numsegments = t.numsegments /\ u \in TraceID
  BY <1>2, <1>4 DEF TraceID
<1>6. IDOK(u)
  BY <1>1, <1>4, <1>5 DEF IDOK
<1> HIDE DEF u, segs
<1>7. new \in [Keys -> TraceID] /\ new[k] = u /\ \A l \in Keys : l # k => new[l] = list[l]
  BY <1>1, <1>2, <1>3, <1>5
<1>8. ListOK(new)
  BY <1>6, <1>7 DEF ListOK
<1>9. p \in Positions(new)
  BY <1>1, <1>4, <1>5, <1>7, <1>8, PositionFacts
<1>10. SegAt(new, p) = e
  BY <1>4, <1>5, <1>7 DEF SegAt
<1>11. \A l \in Keys : Len(new[l].segs) = Len(list[l].segs)
  BY <1>4, <1>5, <1>7
<1>12. ASSUME NEW l \in Keys, NEW s \in Members(new[l].segs)
       PROVE  s \in Members(list[l].segs) \/ (l = k /\ s = e)
  <2>1. CASE l # k
    BY <2>1, <1>7
  <2>2. CASE l = k
    <3>1. PICK m \in 1 .. Len(segs) : s = segs[m]
      BY <2>2, <1>5, <1>7 DEF Members
    <3>2. m # p.seg => s = t.segs[m] /\ t.segs[m] \in Members(t.segs)
      BY <3>1, <1>4 DEF Members
    <3> QED BY <2>2, <3>1, <3>2, <1>4
  <2> QED BY <2>1, <2>2
<1> QED BY <1>8, <1>9, <1>10, <1>11, <1>12

(* n samples leave the segment at p. *)
LEMMA TrimThins ==
  ASSUME NEW list, ListOK(list), InG(list, Counted), NEW p \in Positions(list),
         NEW n \in 0 .. Len(SegAt(list, p).data),
         NEW new, new = TrimSegment(list, p, n)
  PROVE  /\ Thins(list, new) /\ p \in Positions(new)
         /\ SegAt(new, p) = Shortened(SegAt(list, p), n)
         /\ \A k \in Keys : Len(new[k].segs) = Len(list[k].segs)
         /\ InG(new, Counted)
<1> DEFINE seg == SegAt(list, p)
           e == Shortened(seg, n)
<1>1. /\ IdOrder[p.id] \in Keys /\ seg \in Segment /\ seg \in Members(list[IdOrder[p.id]].segs)
  BY PositionSegment
<1>2. Len(seg.data) <= seg.cnt
  BY <1>1 DEF InG, Counted
<1>3. e \in Segment
  BY <1>1, <1>2, ShortenedFields
<1>4. new = Put(list, p, e)
  BY DEF TrimSegment, Shortened, Put
<1> HIDE DEF e
<1>5. /\ ListOK(new) /\ p \in Positions(new) /\ SegAt(new, p) = e
      /\ \A k \in Keys : Len(new[k].segs) = Len(list[k].segs)
      /\ \A k \in Keys : \A s \in Members(new[k].segs) :
           s \in Members(list[k].segs) \/ (k = IdOrder[p.id] /\ s = e)
  BY <1>3, <1>4, ListReplaced, SMTT(40)
<1>6. Thins(list, new)
  BY <1>1, <1>2, <1>5 DEF Thins, e
<1>7. InG(new, Counted)
  BY <1>6, CountedShortens, ThinsKeeps
<1> QED BY <1>5, <1>6, <1>7 DEF e

(* A segment leaves the list, and its trace ID with the last one. *)
LEMMA RemoveThins ==
  ASSUME NEW list, ListOK(list), NEW p \in Positions(list),
         NEW new, new = RemoveSegment(list, p)
  PROVE  /\ ListOK(new)
         /\ \A k \in Keys : Members(new[k].segs) \subseteq Members(list[k].segs)
<1> DEFINE k == IdOrder[p.id]
           t == list[k]
           segs == RemoveAt(t.segs, p.seg)
           u == IF t.numsegments = 1 THEN NoTraceID
                ELSE [t EXCEPT !.numsegments = @ - 1, !.segs = segs]
<1>1. /\ k \in Keys /\ IDOK(t) /\ t.segs \in Seq(Segment) /\ p.seg \in 1 .. Len(t.segs)
  BY PositionSegment
<1>2. t \in TraceID /\ list \in [Keys -> TraceID] /\ t.numsegments = Len(t.segs)
  BY <1>1 DEF IDOK, ListOK
<1>3. new = [list EXCEPT ![k] = u]
  BY DEF RemoveSegment
<1>4. /\ segs \in Seq(Segment) /\ Len(segs) = Len(t.segs) - 1
      /\ \A m \in 1 .. Len(t.segs) - 1 : segs[m] = IF m < p.seg THEN t.segs[m] ELSE t.segs[m + 1]
  BY <1>1, RemoveAtProperties
<1> HIDE DEF segs
<1>5. Members(segs) \subseteq Members(t.segs)
  <2> SUFFICES ASSUME NEW m \in 1 .. Len(segs) PROVE segs[m] \in Members(t.segs)
    BY DEF Members
  <2>1. Len(t.segs) \in Nat
    BY <1>1
  <2>2. m \in 1 .. Len(t.segs) /\ m + 1 \in 1 .. Len(t.segs)
    BY <2>1, <1>4
  <2>3. segs[m] = t.segs[m] \/ segs[m] = t.segs[m + 1]
    BY <2>1, <1>4
  <2> QED BY <2>2, <2>3 DEF Members
<1>6. IDOK(u) /\ Members(u.segs) \subseteq Members(t.segs)
  <2>1. CASE t.numsegments = 1
    <3>1. u = NoTraceID
      BY <2>1
    <3>2. NoTraceID \in TraceID /\ NoTraceID.numsegments = Len(NoTraceID.segs)
      BY DEF NoTraceID, TraceID, Version
    <3>3. Members(NoTraceID.segs) = {}
      BY DEF Members, NoTraceID
    <3> QED BY <3>1, <3>2, <3>3 DEF IDOK
  <2>2. CASE t.numsegments # 1
    <3>1. u = [t EXCEPT !.numsegments = @ - 1, !.segs = segs]
      BY <2>2
    <3>2. u.segs = segs /\ u.numsegments = t.numsegments - 1
      BY <3>1, <1>2 DEF TraceID
    <3>3. t.numsegments - 1 \in Nat
      BY <1>1, <1>2
    <3>4. u \in TraceID
      BY <3>1, <3>3, <1>2, <1>4 DEF TraceID
    <3> QED BY <3>2, <3>4, <1>2, <1>4, <1>5 DEF IDOK
  <2> QED BY <2>1, <2>2
<1> HIDE DEF u
<1>7. new \in [Keys -> TraceID] /\ new[k] = u /\ \A l \in Keys : l # k => new[l] = list[l]
  BY <1>1, <1>2, <1>3, <1>6 DEF IDOK
<1>8. ListOK(new)
  BY <1>2, <1>6, <1>7 DEF ListOK
<1>9. ASSUME NEW l \in Keys PROVE Members(new[l].segs) \subseteq Members(list[l].segs)
  BY <1>6, <1>7
<1> QED BY <1>8, <1>9

-----------------------------------------------------------------------------
(* The record packer.                                                      *)

PackerType ==
  [active : BOOLEAN, at : Position, data : Seq(Int), start : Int, rate : Nat,
   flush : BOOLEAN, packed : Nat]

GenType ==
  [open : BOOLEAN, flush : BOOLEAN, keep : BOOLEAN, finished : BOOLEAN, at : Position,
   total : Nat, sent : Nat, ret : {"none", "record", "error", "done", "freed"}]

CallType ==
  [kind : {"none", "list", "segment"}, at : Position, flush : BOOLEAN, keep : BOOLEAN]

(* A record packer works on a segment of the list: it points at one, has   *)
(* its samples, start and rate, and has packed no more than there is.      *)
Working(p, list) ==
  /\ p.at \in Positions(list)
  /\ p.data = SegAt(list, p.at).data
  /\ p.start = SegAt(list, p.at).start
  /\ p.rate = SegAt(list, p.at).rate
  /\ p.packed \in 0 .. Len(p.data)

LEMMA NoneTypes ==
  /\ NoPacker \in PackerType /\ ~NoPacker.active
  /\ NoGen \in GenType
  /\ NoCall \in CallType /\ NoCall.kind = "none"
  /\ \A i, j \in Nat : At(i, j) \in Position
BY DEF NoPacker, PackerType, NoGen, GenType, NoCall, CallType, At, Position

LEMMA PackerForWorks ==
  ASSUME NEW list, ListOK(list), NEW at \in Positions(list), NEW flush \in BOOLEAN,
         NEW p, p = PackerFor(list, at, flush)
  PROVE  /\ p \in PackerType /\ p.active /\ p.at = at /\ p.flush = flush /\ p.packed = 0
         /\ p.data = SegAt(list, at).data
         /\ Working(p, list)
<1>1. SegAt(list, at) \in Segment /\ at \in Position
  BY PositionSegment
<1>2. /\ SegAt(list, at).data \in Seq(Int) /\ SegAt(list, at).start \in Int
      /\ SegAt(list, at).rate \in Nat
  BY <1>1 DEF Segment
<1>3. /\ p.active = TRUE /\ p.at = at /\ p.flush = flush /\ p.packed = 0
      /\ p.data = SegAt(list, at).data /\ p.start = SegAt(list, at).start
      /\ p.rate = SegAt(list, at).rate
  BY DEF PackerFor
<1>4. p \in PackerType
  BY <1>1, <1>2 DEF PackerFor, PackerType
<1>5. Len(p.data) \in Nat
  BY <1>2, <1>3
<1> QED BY <1>3, <1>4, <1>5 DEF Working

(* The payload of a record is the next samples of the segment, at least    *)
(* one of them, and enough to fill a record unless the packer is flushing. *)
LEMMA PayloadFacts ==
  ASSUME NEW p \in PackerType, p.packed \in 0 .. Len(p.data), HasRecord(p), NEW data \in Payloads(p)
  PROVE  /\ data \in Seq(Int) /\ Len(data) \in Nat \ {0}
         /\ p.packed + Len(data) \in 0 .. Len(p.data)
         /\ \A m \in 1 .. Len(data) : data[m] = p.data[p.packed + m]
         /\ p.flush \/ Len(data) >= MinSamples
<1> DEFINE R == Remaining(p)
           N == Len(p.data) - p.packed
<1>1. p.data \in Seq(Int) /\ p.flush \in BOOLEAN
  BY DEF PackerType
<1>2. /\ R \in Seq(Int) /\ Len(R) = N
      /\ \A m \in 1 .. N : R[m] = p.data[p.packed + m]
  BY <1>1, RestOf DEF Remaining
<1>3. R # <<>> /\ (Len(R) >= MaxSamples \/ p.flush)
  BY DEF HasRecord
<1>4. PICK fill \in MinSamples .. MaxSamples : data = SubSeq(R, 1, Lesser(fill, Len(R)))
  BY DEF Payloads
<1>5. MaxSamples \in Nat /\ MinSamples \in Nat \ {0} /\ fill \in Nat \ {0} /\ fill <= MaxSamples
      /\ fill >= MinSamples
  BY PackingAssumption
<1>6. Len(p.data) \in Nat /\ p.packed \in Nat /\ N \in Nat /\ N # 0
  <2>1. Len(R) # 0
    BY <1>2, <1>3, EmptySeq
  <2> QED BY <1>1, <1>2, <2>1
<1> HIDE DEF R
<1> DEFINE n == Lesser(fill, Len(R))
<1>7. n \in 1 .. N /\ (n = fill \/ n = N)
  BY <1>2, <1>5, <1>6 DEF Lesser
<1> HIDE DEF n
<1>8. /\ data \in Seq(Int) /\ Len(data) = n /\ \A m \in 1 .. n : data[m] = R[m]
  <2>1. \A i \in 1 .. n : R[i] \in Int
    BY <1>2, <1>7, ElementOfSeq
  <2>2. /\ SubSeq(R, 1, n) \in Seq(Int)
        /\ Len(SubSeq(R, 1, n)) = IF 1 <= n THEN n - 1 + 1 ELSE 0
        /\ \A i \in 1 .. n - 1 + 1 : SubSeq(R, 1, n)[i] = R[1 + i - 1]
    BY <2>1, <1>2, <1>6, <1>7, SubSeqProperties
  <2> QED BY <2>2, <1>4, <1>6, <1>7 DEF n
<1>9. p.flush \/ n >= MinSamples
  <2>1. CASE n = fill
    BY <2>1, <1>5
  <2>2. CASE n = N /\ ~p.flush
    BY <2>2, <1>2, <1>3, <1>5, <1>6
  <2> QED BY <2>1, <2>2, <1>7
<1>10. \A m \in 1 .. n : data[m] = p.data[p.packed + m]
  BY <1>2, <1>6, <1>7, <1>8, SMTT(40)
<1> QED BY <1>6, <1>7, <1>8, <1>9, <1>10

(* The packer after it has produced a record. *)
LEMMA AfterEmit ==
  ASSUME NEW list, NEW p \in PackerType, Working(p, list), HasRecord(p), NEW data \in Payloads(p),
         NEW q, q = [p EXCEPT !.packed = @ + Len(data)]
  PROVE  q \in PackerType /\ q.active = p.active /\ q.at = p.at /\ Working(q, list)
<1>1. Len(data) \in Nat /\ p.packed + Len(data) \in 0 .. Len(p.data)
  BY PayloadFacts DEF Working
<1>2. p.packed \in Nat
  BY DEF PackerType
<1>3. /\ q.active = p.active /\ q.at = p.at /\ q.data = p.data /\ q.start = p.start
      /\ q.rate = p.rate /\ q.packed = p.packed + Len(data)
  BY DEF PackerType
<1>4. q \in PackerType
  BY <1>1, <1>2 DEF PackerType
<1>5. Working(q, list)
  BY <1>1, <1>3 DEF Working
<1> QED BY <1>3, <1>4, <1>5

(* The stream is as it was, or a packer at work on a segment of list has   *)
(* added a record to it.                                                   *)
Grows(list) ==
  \/ stream' = stream
  \/ \E p \in PackerType : /\ Working(p, list) /\ HasRecord(p)
                           /\ \E data \in Payloads(p) : stream' = Append(stream, RecordOf(p, data))

LEMMA EmitGrows ==
  ASSUME NEW list, NEW p \in PackerType, Working(p, list), HasRecord(p), NEW data \in Payloads(p),
         Emit(p, data)
  PROVE  sp' \in PackerType /\ sp'.active = p.active /\ sp'.at = p.at /\ Working(sp', list) /\ Grows(list)
<1>1. stream' = Append(stream, RecordOf(p, data)) /\ sp' = [p EXCEPT !.packed = @ + Len(data)]
  BY DEF Emit
<1>2. Grows(list)
  BY <1>1 DEF Grows
<1>3. sp' \in PackerType /\ sp'.active = p.active /\ sp'.at = p.at /\ Working(sp', list)
  BY <1>1, AfterEmit
<1> QED BY <1>2, <1>3

-----------------------------------------------------------------------------
(* The invariant of packing.                                               *)

(* A packer p, its callers g and c, and the list it works on. *)
Packing(p, g, c, list) ==
  /\ p \in PackerType /\ g \in GenType /\ c \in CallType
  /\ IF p.active THEN Working(p, list) ELSE p = NoPacker
  /\ p.active /\ c.kind # "none" => p.at = c.at

PackInv ==
  /\ IInv
  /\ InG(ids, Counted)
  /\ Packing(sp, gen, call, ids)

(* No record holds more samples than it says. *)
SamplesCounted == \A rec \in Records : Len(rec.data) <= rec.cnt

LEMMA IInvList == IInv <=> ListOK(ids) /\ now \in Nat /\ added \in [Records -> Nat]
BY IInvByID DEF ListOK

(* The scan of mstl3_pack_next(). *)
LEMMA ScanKeeps ==
  ASSUME Packing(sp, gen, call, ids), NEW list, ListOK(list), NEW at \in Position, NEW total \in Nat,
         NEW flush \in BOOLEAN, Scan(list, at, total, flush), call.kind = "none", call' = call
  PROVE  Packing(sp', gen', call', list) /\ Grows(list)
<1> DEFINE first == FirstReady(list, ScanFrom(at), gen.flush \/ flush)
           fl == gen.flush \/ flush \/ IsIdle(SegAt(list, first))
           p == PackerFor(list, first, fl)
<1>1. gen \in GenType /\ gen.flush \in BOOLEAN /\ call \in CallType
  BY DEF Packing, GenType
<1>2. \/ /\ first \in Ready(list, gen.flush \/ flush) /\ first \in Positions(list) /\ first.id # 0
      \/ first.id = 0
  BY FirstReadyFacts
<1>3. \/ /\ first.id # 0
         /\ \E data \in Payloads(p) :
              \/ /\ Emit(p, data)
                 /\ gen' = [gen EXCEPT !.at = first, !.total = total, !.ret = "record",
                                       !.sent = @ + Len(data)]
              \/ /\ sp' = p
                 /\ gen' = [gen EXCEPT !.at = first, !.total = total, !.ret = "error"]
                 /\ stream' = stream
      \/ /\ first.id = 0
         /\ sp' = NoPacker /\ stream' = stream
         /\ gen' = [gen EXCEPT !.ret = "done", !.total = total,
                               !.at = IF Tried(list, ScanFrom(at)) = {} THEN at ELSE At(0, 0)]
  BY DEF Scan
<1>4. fl \in BOOLEAN
  OBVIOUS
<1>5. first \in Ready(list, gen.flush \/ flush) => HasRecord(p)
  <2>1. \A f \in BOOLEAN : first \in Ready(list, f)
                             => HasRecord(PackerFor(list, first, f \/ IsIdle(SegAt(list, first))))
    BY DEF Ready
  <2>2. (gen.flush \/ flush) \in BOOLEAN
    OBVIOUS
  <2>3. ((gen.flush \/ flush) \/ IsIdle(SegAt(list, first))) = fl
    OBVIOUS
  <2> HIDE DEF first, fl
  <2> QED BY <2>1, <2>2, <2>3
<1> HIDE DEF first, fl
<1>6. first \in Positions(list) => /\ p \in PackerType /\ p.active = TRUE /\ Working(p, list)
                                   /\ first \in Position
  BY <1>4, PackerForWorks, PositionSegment
<1> HIDE DEF p
<1>7. /\ sp' \in PackerType /\ (IF sp'.active THEN Working(sp', list) ELSE sp' = NoPacker)
      /\ Grows(list)
      /\ gen' \in GenType
  <2>1. CASE first.id = 0
    <3>1. /\ sp' = NoPacker /\ stream' = stream
          /\ gen' = [gen EXCEPT !.ret = "done", !.total = total,
                                !.at = IF Tried(list, ScanFrom(at)) = {} THEN at ELSE At(0, 0)]
      BY <2>1, <1>3
    <3>2. (IF Tried(list, ScanFrom(at)) = {} THEN at ELSE At(0, 0)) \in Position
      BY NoneTypes
    <3>3. gen' \in GenType
      BY <3>1, <3>2, <1>1 DEF GenType
    <3> QED BY <3>1, <3>3, NoneTypes DEF Grows
  <2>2. CASE first.id # 0
    <3>1. /\ p \in PackerType /\ Working(p, list) /\ first \in Position /\ HasRecord(p)
          /\ p.active = TRUE
      BY <2>2, <1>2, <1>5, <1>6
    <3>2. PICK data \in Payloads(p) :
              \/ /\ Emit(p, data)
                 /\ gen' = [gen EXCEPT !.at = first, !.total = total, !.ret = "record",
                                       !.sent = @ + Len(data)]
              \/ /\ sp' = p
                 /\ gen' = [gen EXCEPT !.at = first, !.total = total, !.ret = "error"]
                 /\ stream' = stream
      BY <2>2, <1>3
    <3>3. Len(data) \in Nat
      BY <3>1, PayloadFacts DEF Working
    <3>4. CASE /\ Emit(p, data)
               /\ gen' = [gen EXCEPT !.at = first, !.total = total, !.ret = "record",
                                     !.sent = @ + Len(data)]
      <4>1. gen.sent + Len(data) \in Nat
        BY <1>1, <3>3 DEF GenType
      <4>2. gen' \in GenType
        BY <3>1, <3>4, <4>1, <1>1 DEF GenType
      <4> QED BY <3>1, <3>4, <4>2, EmitGrows
    <3>5. CASE /\ sp' = p /\ stream' = stream
               /\ gen' = [gen EXCEPT !.at = first, !.total = total, !.ret = "error"]
      <4>1. gen' \in GenType
        BY <3>1, <3>5, <1>1 DEF GenType
      <4> QED BY <3>1, <3>5, <4>1 DEF Grows
    <3> QED BY <3>2, <3>4, <3>5
  <2> QED BY <2>1, <2>2
<1> QED BY <1>1, <1>7 DEF Packing

(* The clean-up of the generator: the packed samples leave the segment,    *)
(* and an empty segment the list.                                          *)
LEMMA GenCleanedThins ==
  ASSUME PackInv, sp.active
  PROVE  Thins(ids, GenCleaned(ids))
<1>1. ListOK(ids) /\ InG(ids, Counted) /\ sp.at \in Positions(ids)
  BY IInvList DEF PackInv, Packing, Working
<1>2. sp.packed \in 0 .. Len(SegAt(ids, sp.at).data)
  BY DEF PackInv, Packing, Working
<1> DEFINE trimmed == TrimSegment(ids, sp.at, sp.packed)
           removed == RemoveSegment(trimmed, sp.at)
<1>3. /\ Thins(ids, trimmed) /\ sp.at \in Positions(trimmed)
  BY <1>1, <1>2, TrimThins
<1>4. GenCleaned(ids) \in {ids, trimmed, removed}
  BY DEF GenCleaned
<1> HIDE DEF trimmed
<1>5. ListOK(removed) /\ \A k \in Keys : Members(removed[k].segs) \subseteq Members(trimmed[k].segs)
  BY <1>3, RemoveThins DEF Thins
<1> HIDE DEF removed
<1>6. Thins(ids, removed)
  BY <1>3, <1>5 DEF Thins
<1> QED BY <1>1, <1>3, <1>4, <1>6, SameThins

(* mstl3_pack_next() *)
LEMMA GenNextKeeps ==
  ASSUME PackInv, NEW flush \in BOOLEAN, GenNext(flush)
  PROVE  Thins(ids, ids') /\ Packing(sp', gen', call', ids') /\ Grows(ids') /\ now' = now /\ added' = added
<1>1. ListOK(ids) /\ Packing(sp, gen, call, ids) /\ call.kind = "none" /\ call' = call
  BY IInvList DEF PackInv, GenNext
<1>2. /\ sp \in PackerType /\ gen \in GenType /\ call \in CallType /\ now' = now /\ added' = added
      /\ (sp.active => Working(sp, ids))
  BY <1>1 DEF Packing, GenNext
<1>3. gen.total \in Nat /\ gen.sent \in Nat /\ gen.at \in Position /\ sp.packed \in Nat
      /\ sp.flush \in BOOLEAN
  BY <1>2 DEF GenType, PackerType
<1> DEFINE p == [sp EXCEPT !.flush = @ \/ flush]
<1>4. /\ p \in PackerType /\ p.active = sp.active /\ p.at = sp.at /\ p.data = sp.data
      /\ p.start = sp.start /\ p.rate = sp.rate /\ p.packed = sp.packed
  <2>1. (sp.flush \/ flush) \in BOOLEAN
    OBVIOUS
  <2> DEFINE f == sp.flush \/ flush
  <2>2. p = [sp EXCEPT !.flush = f]
    BY <1>2 DEF PackerType
  <2> HIDE DEF p, f
  <2>3. f \in BOOLEAN
    BY <2>1 DEF f
  <2> QED BY <1>2, <2>2, <2>3 DEF PackerType
<1>5. CASE GenContinue(flush)
  <2>1. /\ sp.active /\ HasRecord(p) /\ ids' = ids
        /\ \E data \in Payloads(p) :
             \/ /\ Emit(p, data)
                /\ gen' = [gen EXCEPT !.ret = "record", !.sent = @ + Len(data)]
             \/ /\ sp' = p /\ gen' = [gen EXCEPT !.ret = "error"] /\ stream' = stream
    BY <1>5 DEF GenContinue
  <2> HIDE DEF p
  <2>2. Working(p, ids)
    BY <2>1, <1>2, <1>4 DEF Working
  <2>3. PICK data \in Payloads(p) :
             \/ /\ Emit(p, data)
                /\ gen' = [gen EXCEPT !.ret = "record", !.sent = @ + Len(data)]
             \/ /\ sp' = p /\ gen' = [gen EXCEPT !.ret = "error"] /\ stream' = stream
    BY <2>1
  <2>4. gen.sent + Len(data) \in Nat
    BY <1>3, <1>4, <2>1, <2>2, PayloadFacts DEF Working
  <2>5. gen' \in GenType
    BY <1>2, <2>3, <2>4 DEF GenType
  <2>6. sp' \in PackerType /\ sp'.active /\ Working(sp', ids) /\ Grows(ids)
    BY <1>4, <2>1, <2>2, <2>3, EmitGrows DEF Grows
  <2>7. Packing(sp', gen', call', ids')
    BY <1>1, <1>2, <2>1, <2>5, <2>6 DEF Packing
  <2> QED BY <1>1, <1>2, <2>1, <2>6, <2>7, SameThins
<1>6. CASE GenAdvance(flush)
  <2> DEFINE next == NextPosition(ids, gen.at)
  <2>1. next \in Position /\ At(0, 0) \in Position
    BY <1>1, NextPositionFacts, NoneTypes
  <2>2. gen.total + sp.packed \in Nat
    BY <1>3
  <2>3. CASE MaintainList /\ next.id = 0
    <3>1. /\ gen' = [gen EXCEPT !.finished = TRUE, !.total = @ + sp.packed, !.ret = "done"]
          /\ sp' = NoPacker /\ ids' = ids /\ stream' = stream
      BY <1>6, <2>3 DEF GenAdvance
    <3>2. gen' \in GenType
      BY <3>1, <2>2, <1>2 DEF GenType
    <3>3. Packing(sp', gen', call', ids')
      BY <3>1, <3>2, <1>1, <1>2, NoneTypes DEF Packing
    <3> QED BY <3>1, <3>3, <1>1, <1>2, SameThins DEF Grows
  <2>4. CASE ~(MaintainList /\ next.id = 0)
    <3> DEFINE list == GenCleaned(ids)
               at == IF MaintainList THEN next ELSE At(0, 0)
    <3>1. sp.active /\ Scan(list, at, gen.total + sp.packed, flush)
      BY <1>6, <2>4 DEF GenAdvance
    <3>2. at \in Position
      BY <2>1
    <3>3. Thins(ids, list)
      BY <3>1, GenCleanedThins
    <3>4. ids' = list
      BY <3>1 DEF Scan
    <3> HIDE DEF list, at
    <3>5. Packing(sp', gen', call', list) /\ Grows(list)
      BY <3>1, <3>2, <3>3, <2>2, <1>1, ScanKeeps DEF Thins
    <3>6. Packing(sp', gen', call', ids')
      BY <3>4, <3>5 DEF Packing
    <3> QED BY <3>3, <3>4, <3>5, <3>6, <1>2
  <2> QED BY <2>3, <2>4
<1>7. CASE GenScan(flush)
  <2>1. Scan(ids, gen.at, gen.total, flush)
    BY <1>7 DEF GenScan
  <2>2. ids' = ids
    BY <2>1 DEF Scan
  <2>3. Packing(sp', gen', call', ids') /\ Grows(ids)
    BY <1>1, <1>3, <2>1, <2>2, ScanKeeps
  <2> QED BY <1>1, <1>2, <2>2, <2>3, SameThins
<1> QED BY <1>5, <1>6, <1>7 DEF GenNext

(* What every other packing step does. *)
StepOK ==
  /\ Thins(ids, ids') /\ Packing(sp', gen', call', ids') /\ Grows(ids')
  /\ now' \in Nat /\ added' = added

(* Steps that leave the list and the stream alone. *)
LEMMA QuietStep ==
  ASSUME PackInv, ids' = ids, added' = added, stream' = stream, now' \in Nat,
         Packing(sp', gen', call', ids)
  PROVE  StepOK
BY IInvList, SameThins DEF PackInv, StepOK, Grows

(* The generator is made and freed. *)
LEMMA GenInitFreeKeep ==
  ASSUME PackInv, GenInit \/ GenFree
  PROVE  StepOK
<1>1. /\ sp \in PackerType /\ gen \in GenType /\ call \in CallType /\ now \in Nat
      /\ IF sp.active THEN Working(sp, ids) ELSE sp = NoPacker
  BY IInvList DEF PackInv, Packing
<1>2. CASE GenInit
  <2>1. PICK flush \in PackerFlush, keep \in PackerMaintain :
          gen' = [NoGen EXCEPT !.open = TRUE, !.flush = flush, !.keep = keep]
    BY <1>2 DEF GenInit
  <2>2. flush \in BOOLEAN /\ keep \in BOOLEAN
    BY PackingAssumption
  <2>3. gen' \in GenType
    BY <2>1, <2>2, NoneTypes DEF GenType
  <2>4. /\ ids' = ids /\ added' = added /\ stream' = stream /\ now' = now /\ sp' = sp /\ call' = call
    BY <1>2 DEF GenInit
  <2>5. Packing(sp', gen', call', ids)
    BY <2>3, <2>4 DEF PackInv, Packing
  <2> QED BY <1>1, <2>4, <2>5, QuietStep
<1>3. CASE GenFree
  <2>1. /\ gen' = [gen EXCEPT !.open = FALSE, !.ret = "freed"] /\ sp' = NoPacker
        /\ ids' = ids /\ added' = added /\ stream' = stream /\ now' = now /\ call' = call
    BY <1>3 DEF GenFree
  <2>2. gen' \in GenType
    BY <2>1, <1>1 DEF GenType
  <2>3. Packing(sp', gen', call', ids)
    BY <1>1, <2>1, <2>2, NoneTypes DEF Packing
  <2> QED BY <1>1, <2>1, <2>3, QuietStep
<1> QED BY <1>2, <1>3

(* The callback interface, where it only moves on. *)
LEMMA CallMovesKeep ==
  ASSUME PackInv, CallPack \/ CallPackSegment \/ CallNextID \/ CallReturn
  PROVE  StepOK
<1>1. /\ sp \in PackerType /\ gen \in GenType /\ call \in CallType /\ now \in Nat /\ ListOK(ids)
      /\ IF sp.active THEN Working(sp, ids) ELSE sp = NoPacker
      /\ sp.active /\ call.kind # "none" => sp.at = call.at
  BY IInvList DEF PackInv, Packing
<1>2. /\ ids' = ids /\ added' = added /\ stream' = stream /\ now' = now /\ sp' = sp /\ gen' = gen
  BY DEF CallPack, CallPackSegment, CallNextID, CallReturn
<1>3. CASE CallPack
  <2>1. PICK flush \in PackerFlush, keep \in PackerMaintain :
          call' = [kind |-> "list", at |-> At(1, 1), flush |-> flush, keep |-> keep]
    BY <1>3 DEF CallPack
  <2>2. flush \in BOOLEAN /\ keep \in BOOLEAN /\ At(1, 1) \in Position
    BY PackingAssumption, NoneTypes
  <2>3. call' \in CallType /\ ~sp.active
    BY <2>1, <2>2, <1>3 DEF CallType, CallPack, Idle
  <2> QED BY <1>1, <1>2, <2>3, QuietStep DEF Packing
<1>4. CASE CallPackSegment
  <2>1. PICK at \in Positions(ids), flush \in PackerFlush, keep \in PackerMaintain :
          call' = [kind |-> "segment", at |-> at, flush |-> flush, keep |-> keep]
    BY <1>4 DEF CallPackSegment
  <2>2. flush \in BOOLEAN /\ keep \in BOOLEAN /\ at \in Position
    BY PackingAssumption, PositionSegment, <1>1
  <2>3. call' \in CallType /\ ~sp.active
    BY <2>1, <2>2, <1>4 DEF CallType, CallPackSegment, Idle
  <2> QED BY <1>1, <1>2, <2>3, QuietStep DEF Packing
<1>5. CASE CallNextID
  <2>1. call' = [call EXCEPT !.at = At(@.id + 1, 1)] /\ call.kind = "list" /\ ~Here
    BY <1>5 DEF CallNextID
  <2>2. call.at.id + 1 \in Nat
    BY <1>1 DEF CallType, Position
  <2>3. At(call.at.id + 1, 1) \in Position
    BY <2>2, NoneTypes
  <2>4. call' \in CallType
    BY <1>1, <2>1, <2>3 DEF CallType
  <2>5. ~sp.active
    BY <1>1, <2>1 DEF Here, Working
  <2> QED BY <1>1, <1>2, <2>4, <2>5, QuietStep DEF Packing
<1>6. CASE CallReturn
  <2>1. call' = NoCall
    BY <1>6 DEF CallReturn
  <2> QED BY <1>1, <1>2, <2>1, NoneTypes, QuietStep DEF Packing
<1> QED BY <1>3, <1>4, <1>5, <1>6

(* msr3_pack() starts on a segment and produces records from it. *)
LEMMA CallRecordsKeep ==
  ASSUME PackInv, CallStart \/ CallEmit
  PROVE  StepOK
<1>1. /\ sp \in PackerType /\ gen \in GenType /\ call \in CallType /\ now \in Nat /\ ListOK(ids)
      /\ IF sp.active THEN Working(sp, ids) ELSE sp = NoPacker
      /\ sp.active /\ call.kind # "none" => sp.at = call.at
  BY IInvList DEF PackInv, Packing
<1>2. /\ ids' = ids /\ added' = added /\ now' = now /\ gen' = gen /\ call' = call
  BY DEF CallStart, CallEmit
<1>3. CASE CallStart
  <2> DEFINE f == call.flush \/ (call.kind = "list" /\ IsIdle(SegAt(ids, call.at)))
  <2>1. call.at \in Positions(ids) /\ sp' = PackerFor(ids, call.at, f) /\ stream' = stream
    BY <1>3 DEF CallStart, Here
  <2>2. f \in BOOLEAN
    OBVIOUS
  <2> HIDE DEF f
  <2>3. sp' \in PackerType /\ sp'.active /\ sp'.at = call.at /\ Working(sp', ids)
    BY <1>1, <2>1, <2>2, PackerForWorks
  <2>4. Packing(sp', gen', call', ids)
    BY <1>1, <1>2, <2>3 DEF Packing
  <2> QED BY <1>1, <1>2, <2>1, <2>4, QuietStep
<1>4. CASE CallEmit
  <2>1. sp.active /\ HasRecord(sp)
    BY <1>4 DEF CallEmit
  <2>2. PICK data \in Payloads(sp) : Emit(sp, data)
    BY <1>4 DEF CallEmit
  <2>3. sp' \in PackerType /\ sp'.active = sp.active /\ sp'.at = sp.at /\ Working(sp', ids) /\ Grows(ids)
    BY <1>1, <2>1, <2>2, EmitGrows
  <2>4. Packing(sp', gen', call', ids)
    BY <1>1, <1>2, <2>1, <2>3 DEF Packing
  <2> QED BY <1>1, <1>2, <2>3, <2>4, SameThins DEF StepOK
<1> QED BY <1>3, <1>4

(* The callback interface leaves a segment: what was packed is removed. *)
LEMMA CallLeavesKeep ==
  ASSUME PackInv, CallFinish \/ CallError
  PROVE  StepOK
<1>1. /\ sp \in PackerType /\ gen \in GenType /\ call \in CallType /\ now \in Nat /\ ListOK(ids)
      /\ InG(ids, Counted)
      /\ IF sp.active THEN Working(sp, ids) ELSE sp = NoPacker
      /\ sp.active /\ call.kind # "none" => sp.at = call.at
  BY IInvList DEF PackInv, Packing
<1>2. /\ added' = added /\ stream' = stream /\ now' = now /\ gen' = gen /\ sp' = NoPacker
      /\ call.kind # "none"
  BY DEF CallFinish, CallError, Here
<1>3. call.at \in Positions(ids)
  BY <1>1, <1>2 DEF CallFinish, CallError, Here, Working
<1>4. sp.packed # 0 => sp.packed \in 0 .. Len(SegAt(ids, call.at).data)
  BY <1>1, <1>2 DEF NoPacker, Working
<1> DEFINE cut == TrimSegment(ids, call.at, sp.packed)
           trimmed == IF MaintainList \/ sp.packed = 0 THEN ids ELSE cut
           removed == RemoveSegment(trimmed, call.at)
<1>5. sp.packed # 0 => Thins(ids, cut) /\ call.at \in Positions(cut)
  BY <1>1, <1>3, <1>4, TrimThins
<1> HIDE DEF cut
<1>6. Thins(ids, trimmed) /\ call.at \in Positions(trimmed)
  BY <1>1, <1>3, <1>5, SameThins
<1>7. ids' \in {trimmed, removed}
  BY DEF CallFinish, CallError, CallCleaned, cut
<1> HIDE DEF trimmed
<1>8. ListOK(removed) /\ \A k \in Keys : Members(removed[k].segs) \subseteq Members(trimmed[k].segs)
  BY <1>6, RemoveThins DEF Thins
<1> HIDE DEF removed
<1>9. Thins(ids, removed)
  BY <1>6, <1>8 DEF Thins
<1>10. Thins(ids, ids')
  BY <1>6, <1>7, <1>9
<1>11. call' \in CallType
  <2>1. call' \in {NoCall, call, [call EXCEPT !.at.seg = @ + 1]}
    BY DEF CallFinish, CallError
  <2>2. [call EXCEPT !.at.seg = @ + 1] \in CallType
    <3>1. call.at.seg + 1 \in Nat /\ call.at \in Position
      BY <1>1 DEF CallType, Position
    <3>2. [call.at EXCEPT !.seg = @ + 1] \in Position
      BY <3>1 DEF Position
    <3> QED BY <1>1, <3>2 DEF CallType
  <2> QED BY <1>1, <2>1, <2>2, NoneTypes
<1>12. Packing(sp', gen', call', ids')
  BY <1>1, <1>2, <1>11, NoneTypes DEF Packing
<1> QED BY <1>1, <1>2, <1>10, <1>12 DEF StepOK, Grows

(* Adding a record keeps the samples counted. *)
LEMMA MadeParts ==
  ASSUME NEW rec \in Records, NEW s1 \in Segment, NEW s2 \in Segment, now \in Nat
  PROVE  /\ Msr2Seg(rec) \in Segment
         /\ Msr2Seg(rec).start = rec.start /\ Msr2Seg(rec).end = EndTime(rec)
         /\ Msr2Seg(rec).rate = rec.rate /\ Msr2Seg(rec).cnt = rec.cnt
         /\ Msr2Seg(rec).data = rec.data
         /\ AddMsrToEnd(s1, rec) \in Segment
         /\ AddMsrToEnd(s1, rec).start = s1.start /\ AddMsrToEnd(s1, rec).end = EndTime(rec)
         /\ AddMsrToEnd(s1, rec).rate = s1.rate /\ AddMsrToEnd(s1, rec).cnt = s1.cnt + rec.cnt
         /\ AddMsrToEnd(s1, rec).data = s1.data \o rec.data
         /\ AddMsrToStart(s1, rec) \in Segment
         /\ AddMsrToStart(s1, rec).start = rec.start /\ AddMsrToStart(s1, rec).end = s1.end
         /\ AddMsrToStart(s1, rec).rate = s1.rate /\ AddMsrToStart(s1, rec).cnt = s1.cnt + rec.cnt
         /\ AddMsrToStart(s1, rec).data = rec.data \o s1.data
         /\ AddSegToSeg(s1, s2) \in Segment
         /\ AddSegToSeg(s1, s2).start = s1.start /\ AddSegToSeg(s1, s2).end = s2.end
         /\ AddSegToSeg(s1, s2).rate = s1.rate /\ AddSegToSeg(s1, s2).cnt = s1.cnt + s2.cnt
         /\ AddSegToSeg(s1, s2).data = s1.data \o s2.data
         /\ Stamp(s1) \in Segment
         /\ Stamp(s1).start = s1.start /\ Stamp(s1).end = s1.end
         /\ Stamp(s1).rate = s1.rate /\ Stamp(s1).cnt = s1.cnt /\ Stamp(s1).data = s1.data
<1>1. /\ Msr2Seg(rec) \in Segment /\ AddMsrToEnd(s1, rec) \in Segment
      /\ AddMsrToStart(s1, rec) \in Segment /\ AddSegToSeg(s1, s2) \in Segment
      /\ Stamp(s1) \in Segment
  BY MadeFields, MergedFields
<1>2. /\ Msr2Seg(rec).start = rec.start /\ Msr2Seg(rec).end = EndTime(rec)
      /\ Msr2Seg(rec).rate = rec.rate /\ Msr2Seg(rec).cnt = rec.cnt
      /\ Msr2Seg(rec).data = rec.data
  BY DEF Msr2Seg
<1>3. /\ AddMsrToEnd(s1, rec).start = s1.start /\ AddMsrToEnd(s1, rec).end = EndTime(rec)
      /\ AddMsrToEnd(s1, rec).rate = s1.rate /\ AddMsrToEnd(s1, rec).cnt = s1.cnt + rec.cnt
      /\ AddMsrToEnd(s1, rec).data = s1.data \o rec.data
  BY DEF AddMsrToEnd, Segment
<1>4. /\ AddMsrToStart(s1, rec).start = rec.start /\ AddMsrToStart(s1, rec).end = s1.end
      /\ AddMsrToStart(s1, rec).rate = s1.rate /\ AddMsrToStart(s1, rec).cnt = s1.cnt + rec.cnt
      /\ AddMsrToStart(s1, rec).data = rec.data \o s1.data
  BY DEF AddMsrToStart, Segment
<1>5. /\ AddSegToSeg(s1, s2).start = s1.start /\ AddSegToSeg(s1, s2).end = s2.end
      /\ AddSegToSeg(s1, s2).rate = s1.rate /\ AddSegToSeg(s1, s2).cnt = s1.cnt + s2.cnt
      /\ AddSegToSeg(s1, s2).data = s1.data \o s2.data
  BY DEF AddSegToSeg, Segment
<1>6. /\ Stamp(s1).start = s1.start /\ Stamp(s1).end = s1.end
      /\ Stamp(s1).rate = s1.rate /\ Stamp(s1).cnt = s1.cnt /\ Stamp(s1).data = s1.data
  BY DEF Stamp, Segment
<1> QED BY <1>1, <1>2, <1>3, <1>4, <1>5, <1>6

LEMMA ConcatCounted ==
  ASSUME NEW a \in Seq(Int), NEW b \in Seq(Int), NEW m \in Nat, NEW n \in Nat,
         Len(a) <= m, Len(b) <= n
  PROVE  Len(a \o b) <= m + n /\ Len(b \o a) <= m + n
<1>1. /\ Len(a \o b) = Len(a) + Len(b) /\ Len(b \o a) = Len(b) + Len(a)
      /\ Len(a) \in Nat /\ Len(b) \in Nat
  BY ConcatParts
<1> QED BY <1>1

LEMMA CountedClosed ==
  ASSUME SamplesCounted, now \in Nat, NEW rec \in Records
  PROVE  Closed(Counted, rec)
<1> DEFINE Good == {s \in Segment : Len(s.data) <= s.cnt}
<1>1. KeyOf(rec) \in Keys /\ Matching(rec) \subseteq Keys
  BY RecordFields DEF Matching, FindID
<1>2. \A k \in Keys : Counted[k] = Good
  BY DEF Counted
<1>3. Len(rec.data) <= rec.cnt /\ rec.data \in Seq(Int) /\ rec.cnt \in Nat
  BY RecordFields DEF SamplesCounted, RecordType
<1>4. \A s \in Segment : s.data \in Seq(Int) /\ s.cnt \in Nat
  BY DEF Segment
<1>5. Msr2Seg(rec) \in Good
  BY <1>3, RecordSegment DEF Msr2Seg
<1>6. ASSUME NEW s \in Good
      PROVE  AddMsrToEnd(s, rec) \in Good /\ AddMsrToStart(s, rec) \in Good /\ Stamp(s) \in Good
  <2>1. s \in Segment /\ s.data \in Seq(Int) /\ s.cnt \in Nat /\ Len(s.data) <= s.cnt
    BY <1>4
  <2>3. Len(s.data \o rec.data) <= s.cnt + rec.cnt /\ Len(rec.data \o s.data) <= s.cnt + rec.cnt
    BY <1>3, <2>1, ConcatCounted
  <2> QED BY <2>1, <2>3, MadeParts
<1>7. ASSUME NEW s1 \in Good, NEW s2 \in Good PROVE AddSegToSeg(s1, s2) \in Good
  <2>1. /\ s1 \in Segment /\ s1.data \in Seq(Int) /\ s1.cnt \in Nat /\ Len(s1.data) <= s1.cnt
        /\ s2 \in Segment /\ s2.data \in Seq(Int) /\ s2.cnt \in Nat /\ Len(s2.data) <= s2.cnt
    BY <1>4
  <2>3. Len(s1.data \o s2.data) <= s1.cnt + s2.cnt
    BY <2>1, ConcatCounted
  <2> QED BY <2>1, <2>3, MadeParts, ZenonT(30)
<1> HIDE DEF Good
<1> QED BY <1>1, <1>2, <1>5, <1>6, <1>7 DEF Closed

-----------------------------------------------------------------------------
(* Every step keeps the invariant.                                         *)

(* A step adds a record, thins the list or leaves it alone. *)
Steps ==
  /\ Packing(sp', gen', call', ids') /\ Grows(ids') /\ now' \in Nat
  /\ \/ Thins(ids, ids') /\ added' = added
     \/ \E rec \in Records : AddMsr(rec)

LEMMA PackSteps ==
  ASSUME PackInv, [PackNext]_allVars
  PROVE  Steps
<1>1. now \in Nat /\ ListOK(ids) /\ Packing(sp, gen, call, ids)
  BY IInvList DEF PackInv
<1>2. StepOK => Steps
  BY DEF StepOK, Steps
<1>3. CASE UNCHANGED allVars
  BY <1>1, <1>2, <1>3, QuietStep DEF allVars
<1>4. CASE Add
  <2>1. PICK rec \in Records : AddMsr(rec)
    BY <1>4 DEF Add
  <2>2. ~sp.active /\ now' = now /\ sp' = sp /\ gen' = gen /\ call' = call /\ stream' = stream
    BY <1>4 DEF Add, Idle
  <2>3. Packing(sp', gen', call', ids')
    BY <1>1, <2>2 DEF Packing
  <2> QED BY <1>1, <2>1, <2>2, <2>3 DEF Steps, Grows
<1>5. CASE Tick
  <2>1. /\ now' = now + 1 /\ ids' = ids /\ added' = added /\ sp' = sp /\ gen' = gen /\ call' = call
        /\ stream' = stream
    BY <1>5 DEF Tick
  <2>2. now' \in Nat
    BY <1>1, <2>1
  <2> QED BY <1>1, <1>2, <2>1, <2>2, QuietStep
<1>6. CASE GenInit \/ GenFree
  BY <1>2, <1>6, GenInitFreeKeep
<1>7. CASE \E flush \in PackerFlush : GenNext(flush)
  <2>1. PICK flush \in PackerFlush : GenNext(flush)
    BY <1>7
  <2>2. flush \in BOOLEAN
    BY PackingAssumption
  <2> QED BY <1>1, <2>1, <2>2, GenNextKeeps DEF Steps
<1>8. CASE CallPack \/ CallPackSegment \/ CallNextID \/ CallReturn
  BY <1>2, <1>8, CallMovesKeep
<1>9. CASE CallStart \/ CallEmit
  BY <1>2, <1>9, CallRecordsKeep
<1>10. CASE CallFinish \/ CallError
  BY <1>2, <1>10, CallLeavesKeep
<1> QED BY <1>3, <1>4, <1>5, <1>6, <1>7, <1>8, <1>9, <1>10 DEF PackNext, CallStep

(* What holds of every segment and survives both the addition of records   *)
(* and the loss of samples holds throughout.                               *)
LEMMA FamilyKept ==
  ASSUME IInv, Steps, NEW G, \A rec \in Records : Closed(G, rec), Shortens(G), InG(ids, G)
  PROVE  InG(ids', G)
<1>1. CASE Thins(ids, ids')
  BY <1>1, ThinsKeeps
<1>2. ASSUME NEW rec \in Records, AddMsr(rec) PROVE InG(ids', G)
  <2>1. AllIn(G)
    BY DEF AllIn, InG
  <2>2. AllIn(G)'
    BY <1>2, <2>1, ClosedStep
  <2> QED BY <2>2 DEF AllIn, InG, Members
<1> QED BY <1>1, <1>2 DEF Steps

LEMMA PackInvStep ==
  ASSUME SamplesCounted, PackInv, [PackNext]_allVars
  PROVE  PackInv' /\ Steps
<1>1. Steps /\ IInv /\ InG(ids, Counted) /\ now \in Nat
  BY PackSteps, IInvList DEF PackInv
<1>2. InG(ids', Counted)
  BY <1>1, CountedClosed, CountedShortens, FamilyKept
<1>3. IInv'
  <2>1. CASE Thins(ids, ids') /\ added' = added
    <3>1. ListOK(ids') /\ now' \in Nat /\ added' \in [Records -> Nat]
      BY <1>1, <2>1, IInvList DEF Thins, Steps
    <3> QED BY <3>1 DEF ListOK, IInv, TypeOK, SegmentsCounted, IDOK
  <2>2. ASSUME NEW rec \in Records, AddMsr(rec) PROVE IInv'
    BY <1>1, <2>2, AddMsrKeeps DEF Steps
  <2> QED BY <1>1, <2>1, <2>2 DEF Steps
<1> QED BY <1>1, <1>2, <1>3 DEF PackInv, Steps, InG, Packing, Counted, Members, Working, Positions, SegAt

(* The invariant of packing holds throughout: a record packer always works *)
(* on a segment of the list, with that segment's samples, start and rate,  *)
(* and the list stays well formed while records are added, packed, removed *)
(* and flushed in any order.                                               *)
THEOREM PackInvariance ==
  ASSUME SamplesCounted
  PROVE  PackSpec => []PackInv
<1>1. PackInit => PackInv
  <2> SUFFICES ASSUME PackInit PROVE PackInv
    OBVIOUS
  <2>1. /\ ids = [k \in Keys |-> NoTraceID] /\ now = 1 /\ added = [rec \in Records |-> 0]
        /\ sp = NoPacker /\ gen = NoGen /\ call = NoCall
    BY DEF PackInit
  <2>2. NoTraceID \in TraceID /\ NoTraceID.numsegments = Len(NoTraceID.segs) /\ NoTraceID.segs = <<>>
    BY DEF NoTraceID, TraceID, Version
  <2>3. ListOK(ids) /\ now \in Nat /\ added \in [Records -> Nat]
    BY <2>1, <2>2 DEF ListOK, IDOK
  <2>4. InG(ids, Counted)
    BY <2>1, <2>2 DEF InG, Members
  <2>5. Packing(sp, gen, call, ids)
    BY <2>1, NoneTypes DEF Packing
  <2> QED BY <2>3, <2>4, <2>5, IInvList DEF PackInv
<1>2. PackInv /\ [PackNext]_allVars => PackInv'
  BY PackInvStep
<1> QED BY <1>1, <1>2, PTL DEF PackSpec

(* numsegments counts the segments also while mstl3_pack() and the         *)
(* generator remove segments: an ID leaves the list with its last segment  *)
(* and not before.                                                         *)
THEOREM PackedSegmentsCounted ==
  ASSUME SamplesCounted
  PROVE  PackSpec => [](TypeOK /\ SegmentsCounted)
<1>1. PackInv => TypeOK /\ SegmentsCounted
  BY DEF PackInv, IInv
<1> QED BY <1>1, PackInvariance, PTL

(* A segment that gives no record has fewer samples than fill one, and     *)
(* none at all when flushing.                                              *)
LEMMA NoRecordLeft ==
  ASSUME NEW list, ListOK(list), NEW p \in Positions(list), NEW flush \in BOOLEAN,
         p \notin Ready(list, flush)
  PROVE  /\ Len(SegAt(list, p).data) < MaxSamples
         /\ flush => SegAt(list, p).data = <<>>
<1> DEFINE f == flush \/ IsIdle(SegAt(list, p))
           q == PackerFor(list, p, f)
           d == SegAt(list, p).data
<1>1. ~HasRecord(q)
  BY DEF Ready
<1>2. f \in BOOLEAN /\ (flush => f)
  OBVIOUS
<1> HIDE DEF f
<1>3. q \in PackerType /\ q.flush = f /\ q.packed = 0 /\ q.data = d
  BY <1>2, PackerForWorks
<1> HIDE DEF q, d
<1>4. d \in Seq(Int) /\ Len(d) \in Nat
  BY <1>3 DEF PackerType
<1>5. Len(Remaining(q)) = Len(d) /\ Remaining(q) \in Seq(Int)
  <2>1. 0 \in 0 .. Len(d)
    BY <1>4
  <2>2. /\ SubSeq(d, 0 + 1, Len(d)) \in Seq(Int) /\ Len(SubSeq(d, 0 + 1, Len(d))) = Len(d) - 0
    BY <1>4, <2>1, RestOf
  <2> QED BY <1>3, <1>4, <2>2 DEF Remaining
<1>6. Remaining(q) = <<>> \/ (~(Len(Remaining(q)) >= MaxSamples) /\ ~f)
  BY <1>1, <1>3 DEF HasRecord
<1>7. MaxSamples \in Nat \ {0}
  BY PackingAssumption
<1>8. Remaining(q) = <<>> => d = <<>>
  BY <1>4, <1>5, EmptySeq
<1> QED BY <1>2, <1>4, <1>5, <1>6, <1>7, <1>8 DEF d

(* The scan ends with nothing left to pack. *)
LEMMA ScanDrains ==
  ASSUME Packing(sp, gen, call, ids), ~MaintainList, NEW list, ListOK(list), NEW at, NEW total,
         NEW flush \in BOOLEAN, Scan(list, at, total, flush), gen'.ret = "done"
  PROVE  /\ ids' = list
         /\ \A k \in Keys : \A i \in DOMAIN list[k].segs :
              /\ Len(list[k].segs[i].data) < MaxSamples
              /\ gen.flush => list[k].segs[i].data = <<>>
<1> DEFINE fl == gen.flush \/ flush
           first == FirstReady(list, ScanFrom(at), fl)
<1>1. gen \in GenType /\ gen.flush \in BOOLEAN
  BY DEF Packing, GenType
<1>2. fl \in BOOLEAN /\ (gen.flush => fl)
  OBVIOUS
<1>3. ids' = list /\ first.id = 0
  <2>1. CASE first.id # 0
    <3>1. \/ \E n : gen' = [gen EXCEPT !.at = first, !.total = total, !.ret = "record",
                                       !.sent = @ + n]
          \/ gen' = [gen EXCEPT !.at = first, !.total = total, !.ret = "error"]
      BY <2>1 DEF Scan
    <3>2. gen'.ret # "done"
      BY <3>1, <1>1 DEF GenType
    <3> QED BY <3>2
  <2> QED BY <2>1 DEF Scan
<1>4. ScanFrom(at) = At(1, 1)
  BY DEF ScanFrom
<1> HIDE DEF fl
<1>5. \A p \in Ready(list, fl) : ~NotBefore(p, ScanFrom(at))
  BY <1>3, FirstReadyFacts
<1>6. \A p \in Positions(list) : p \notin Ready(list, fl)
  BY <1>4, <1>5, PositionSegment
<1>7. ASSUME NEW k \in Keys, NEW i \in DOMAIN list[k].segs
      PROVE  /\ Len(list[k].segs[i].data) < MaxSamples
             /\ gen.flush => list[k].segs[i].data = <<>>
  <2>1. PICK id \in DOMAIN IdOrder : IdOrder[id] = k
    BY OrderFacts
  <2>2. At(id, i) \in Positions(list)
    BY <2>1 DEF Positions
  <2>3. SegAt(list, At(id, i)) = list[k].segs[i]
    BY <2>1 DEF SegAt, At
  <2>4. /\ Len(SegAt(list, At(id, i)).data) < MaxSamples
        /\ fl => SegAt(list, At(id, i)).data = <<>>
    BY <1>2, <1>6, <2>2, NoRecordLeft
  <2> QED BY <1>2, <2>3, <2>4
<1> QED BY <1>3, <1>7

(* When mstl3_pack_next() says it is finished, no segment of the list      *)
(* could give another record, and none has samples when it was flushing;   *)
(* however the clean-up of the last segment changed the list.              *)
THEOREM DoneMeansDrained ==
  ASSUME SamplesCounted
  PROVE  PackSpec => FinishedMeansDrained
<1> DEFINE Drains == (gen'.ret = "done" /\ gen' # gen /\ ~MaintainList) =>
                       \A k \in Keys : \A i \in DOMAIN ids'[k].segs :
                         /\ Len(ids'[k].segs[i].data) < MaxSamples
                         /\ gen.flush => ids'[k].segs[i].data = <<>>
<1>1. PackInv /\ [PackNext]_allVars => [Drains]_allVars
  <2> SUFFICES ASSUME PackInv, PackNext, gen'.ret = "done", gen' # gen, ~MaintainList
               PROVE  \A k \in Keys : \A i \in DOMAIN ids'[k].segs :
                         /\ Len(ids'[k].segs[i].data) < MaxSamples
                         /\ gen.flush => ids'[k].segs[i].data = <<>>
    OBVIOUS
  <2>1. ListOK(ids) /\ Packing(sp, gen, call, ids) /\ gen \in GenType
    BY IInvList DEF PackInv, Packing
  <2>2. ~GenInit /\ ~GenFree
    <3>1. GenInit => gen'.ret = "none"
      BY DEF GenInit, NoGen
    <3>2. GenFree => gen'.ret = "freed"
      BY <2>1 DEF GenFree, GenType
    <3> QED BY <3>1, <3>2
  <2>3. PICK flush \in PackerFlush : GenNext(flush)
    BY <2>2 DEF PackNext, Add, Tick, CallPack, CallPackSegment, CallStep, CallStart, CallEmit,
                CallFinish, CallError, CallNextID, CallReturn
  <2>4. flush \in BOOLEAN
    BY PackingAssumption
  <2>5. ~GenContinue(flush)
    <3>1. GenContinue(flush) =>
            \/ \E n : gen' = [gen EXCEPT !.ret = "record", !.sent = @ + n]
            \/ gen' = [gen EXCEPT !.ret = "error"]
      BY DEF GenContinue
    <3> QED BY <3>1, <2>1 DEF GenType
  <2>6. CASE GenAdvance(flush)
    <3>1. sp.active /\ Scan(GenCleaned(ids), At(0, 0), gen.total + sp.packed, flush)
      BY <2>6 DEF GenAdvance
    <3>2. ListOK(GenCleaned(ids))
      BY <3>1, GenCleanedThins DEF Thins
    <3> QED BY <2>1, <2>4, <3>1, <3>2, ScanDrains
  <2>7. CASE GenScan(flush)
    <3>1. Scan(ids, gen.at, gen.total, flush)
      BY <2>7 DEF GenScan
    <3> QED BY <2>1, <2>4, <3>1, ScanDrains
  <2> QED BY <2>3, <2>5, <2>6, <2>7 DEF GenNext
<1> QED BY <1>1, PackInvariance, PTL DEF PackSpec, FinishedMeansDrained

-----------------------------------------------------------------------------
(* The records of the stream.                                              *)

StreamRecord == [key : Keys, start : Int, data : Seq(Int), flush : BOOLEAN]

LEMMA RecordOfFields ==
  ASSUME NEW list, ListOK(list), NEW p \in PackerType, Working(p, list), HasRecord(p),
         NEW data \in Payloads(p), NEW r, r = RecordOf(p, data)
  PROVE  /\ r \in StreamRecord
         /\ r.key = IdOrder[p.at.id] /\ r.data = data /\ r.flush = p.flush
         /\ r.start = SampleTime(p.start, p.packed, p.rate)
<1>1. data \in Seq(Int)
  BY PayloadFacts DEF Working
<1>2. IdOrder[p.at.id] \in Keys
  BY PositionSegment DEF Working
<1>3. p.start \in Int /\ p.packed \in Nat /\ p.rate \in Nat /\ p.flush \in BOOLEAN
  BY DEF PackerType
<1>4. SampleTime(p.start, p.packed, p.rate) \in Int
  <2> DEFINE P == NsPeriod(p.rate)
  <2>1. P \in Int
    BY <1>3, ConstantsAssumption DEF NsPeriod
  <2> HIDE DEF P
  <2>2. p.packed * P \in Int
    BY <1>3, <2>1
  <2> QED BY <1>3, <2>2 DEF SampleTime, P
<1> QED BY <1>1, <1>2, <1>3, <1>4 DEF RecordOf, StreamRecord

(* Until a flush is asked for only complete records are produced, whatever *)
(* the packer, the list and the order of the calls.                        *)
THEOREM CompleteRecords ==
  ASSUME SamplesCounted
  PROVE  PackSpec => []OnlyCompleteRecords
<1> DEFINE Complete == {r \in StreamRecord : r.flush \/ Len(r.data) >= MinSamples}
           Inv == stream \in Seq(Complete)
<1>1. PackInit => Inv
  BY DEF PackInit
<1>2. PackInv /\ PackInv' /\ Inv /\ [PackNext]_allVars => Inv'
  <2> SUFFICES ASSUME PackInv, PackInv', Inv, [PackNext]_allVars PROVE Inv'
    OBVIOUS
  <2>1. Grows(ids') /\ ListOK(ids')
    <3>1. ListOK(ids')
      BY DEF PackInv, IInv, TypeOK, SegmentsCounted, ListOK, IDOK
    <3> QED BY <3>1, PackInvStep DEF Steps
  <2>2. ASSUME NEW p \in PackerType, Working(p, ids'), HasRecord(p), NEW data \in Payloads(p),
               stream' = Append(stream, RecordOf(p, data))
        PROVE  Inv'
    <3>1. RecordOf(p, data) \in StreamRecord /\ RecordOf(p, data).data = data
          /\ RecordOf(p, data).flush = p.flush
      BY <2>1, <2>2, RecordOfFields
    <3>2. p.flush \/ Len(data) >= MinSamples
      BY <2>2, PayloadFacts DEF Working
    <3>3. RecordOf(p, data) \in Complete
      BY <3>1, <3>2
    <3> HIDE DEF Complete
    <3> QED BY <2>2, <3>3
  <2>3. CASE stream' = stream
    BY <2>3
  <2> QED BY <2>1, <2>2, <2>3 DEF Grows
<1>3. Inv => OnlyCompleteRecords
  <2> SUFFICES ASSUME Inv, NEW i \in DOMAIN stream
               PROVE  stream[i].flush \/ Len(stream[i].data) >= MinSamples
    BY DEF OnlyCompleteRecords
  <2>1. i \in 1 .. Len(stream)
    BY LenProperties
  <2>2. stream[i] \in Complete
    <3> HIDE DEF Complete
    <3> QED BY <2>1, ElementOfSeq
  <2> QED BY <2>2
<1> QED BY <1>1, <1>2, <1>3, PackInvariance, PTL DEF PackSpec

-----------------------------------------------------------------------------
(* Samples exactly one period apart.                                       *)

Even(data, n, first, P) ==
  /\ data \in Seq(Int) /\ Len(data) = n
  /\ \A m \in 1 .. n : data[m] = first + (m - 1) * P

LEMMA EvenJoin ==
  ASSUME NEW P \in Nat, NEW f \in Int, NEW g \in Int,
         NEW n1 \in Nat, NEW a, Even(a, n1, f, P),
         NEW n2 \in Nat, NEW b, Even(b, n2, g, P), g = f + n1 * P
  PROVE  Even(a \o b, n1 + n2, f, P)
<1> DEFINE c == a \o b
<1>0. a \in Seq(Int) /\ b \in Seq(Int) /\ Len(a) = n1 /\ Len(b) = n2
  BY DEF Even
<1>1. /\ \A m \in 1 .. n1 : a[m] = f + (m - 1) * P
      /\ \A m \in 1 .. n2 : b[m] = g + (m - 1) * P
  BY DEF Even
<1>2. /\ c \in Seq(Int) /\ Len(c) = n1 + n2
      /\ \A m \in 1 .. n1 : c[m] = a[m]
      /\ \A q \in 1 .. n2 : c[n1 + q] = b[q]
  <2>1. /\ c \in Seq(Int) /\ Len(c) = Len(a) + Len(b)
        /\ \A m \in 1 .. Len(a) : c[m] = a[m]
        /\ \A q \in 1 .. Len(b) : c[Len(a) + q] = b[q]
    <3>1. a \in Seq(Int) /\ b \in Seq(Int)
      BY <1>0
    <3> QED BY <3>1, ConcatParts
  <2> HIDE DEF c
  <2> QED BY <1>0, <2>1
<1> HIDE DEF c
<1>3. ASSUME NEW m \in 1 .. n1 + n2 PROVE c[m] = f + (m - 1) * P
  <2>1. CASE m <= n1
    BY <2>1, <1>1, <1>2
  <2>2. CASE m > n1
    <3> DEFINE q == m - n1
    <3>1. q \in 1 .. n2 /\ q - 1 \in Int /\ m - 1 = n1 + (q - 1) /\ m = n1 + q
      BY <2>2
    <3> HIDE DEF q
    <3>2. c[m] = g + (q - 1) * P
      BY <3>1, <1>1, <1>2
    <3>3. (n1 + (q - 1)) * P = n1 * P + (q - 1) * P /\ n1 * P \in Int /\ (q - 1) * P \in Int
      BY <3>1, Spread
    <3> QED BY <3>1, <3>2, <3>3
  <2> QED BY <2>1, <2>2
<1> QED BY <1>2, <1>3 DEF Even, c

LEMMA EvenRest ==
  ASSUME NEW P \in Nat, NEW f \in Int, NEW n \in Nat, NEW d, Even(d, n, f, P), NEW i \in 0 .. n
  PROVE  Even(SubSeq(d, i + 1, Len(d)), n - i, f + i * P, P)
<1>1. /\ d \in Seq(Int) /\ Len(d) = n /\ \A m \in 1 .. n : d[m] = f + (m - 1) * P
  BY DEF Even
<1> DEFINE c == SubSeq(d, i + 1, Len(d))
<1>2. c \in Seq(Int) /\ Len(c) = n - i /\ \A m \in 1 .. n - i : c[m] = d[i + m]
  BY <1>1, RestOf
<1> HIDE DEF c
<1>3. ASSUME NEW m \in 1 .. n - i PROVE c[m] = f + i * P + (m - 1) * P
  <2>1. c[m] = f + (i + m - 1) * P
    BY <1>1, <1>2
  <2>2. i \in Int /\ m - 1 \in Int /\ i + m - 1 = i + (m - 1)
    OBVIOUS
  <2>3. (i + (m - 1)) * P = i * P + (m - 1) * P /\ i * P \in Int /\ (m - 1) * P \in Int
    BY <2>2, Spread
  <2> QED BY <2>1, <2>2, <2>3
<1> QED BY <1>2, <1>3 DEF Even, c

(* A multiple of the period that is less than a period is none. *)
LEMMA SmallMultiple ==
  ASSUME NEW P \in Nat, NEW x \in Int, -P < x * P, x * P < P
  PROVE  x * P = 0
<1>1. CASE x >= 1
  <2>1. x * P >= P
    BY <1>1
  <2> QED BY <2>1
<1>2. CASE x <= -1
  <2>1. x * P <= -P
    BY <1>2
  <2> QED BY <2>1
<1>3. CASE x = 0
  BY <1>3
<1> QED BY <1>1, <1>2, <1>3

(* Samples from first to last, one period apart. *)
Run(data, n, first, last, P) ==
  Even(data, n, first, P) /\ n \in Nat \ {0} /\ last = first + (n - 1) * P

LEMMA RunJoin ==
  ASSUME NEW P \in Nat, NEW f1 \in Int, NEW l1, NEW f2 \in Int, NEW l2,
         NEW a, NEW n1, Run(a, n1, f1, l1, P), NEW b, NEW n2, Run(b, n2, f2, l2, P),
         f2 = l1 + P
  PROVE  Run(a \o b, n1 + n2, f1, l2, P)
<1>1. /\ Even(a, n1, f1, P) /\ n1 \in Nat \ {0} /\ l1 = f1 + (n1 - 1) * P
      /\ Even(b, n2, f2, P) /\ n2 \in Nat \ {0} /\ l2 = f2 + (n2 - 1) * P
  BY DEF Run
<1>2. (n1 - 1) * P = n1 * P - P /\ n1 * P \in Int
  BY <1>1
<1>3. f2 = f1 + n1 * P
  BY <1>1, <1>2
<1>4. Even(a \o b, n1 + n2, f1, P)
  BY <1>1, <1>3, EvenJoin
<1>5. /\ n1 + n2 - 1 = n1 + (n2 - 1) /\ n2 - 1 \in Int /\ n1 \in Int
      /\ n1 + n2 \in Nat \ {0}
  BY <1>1
<1>6. (n1 + (n2 - 1)) * P = n1 * P + (n2 - 1) * P /\ (n2 - 1) * P \in Int
  BY <1>5, Spread
<1>7. l2 = f1 + (n1 + n2 - 1) * P
  BY <1>1, <1>2, <1>3, <1>5, <1>6
<1> QED BY <1>4, <1>5, <1>7 DEF Run

LEMMA RunRest ==
  ASSUME NEW P \in Nat, NEW f \in Int, NEW l, NEW d, NEW n, Run(d, n, f, l, P), NEW i \in 0 .. n - 1
  PROVE  Run(SubSeq(d, i + 1, Len(d)), n - i, f + i * P, l, P)
<1>1. Even(d, n, f, P) /\ n \in Nat \ {0} /\ l = f + (n - 1) * P
  BY DEF Run
<1>2. i \in 0 .. n /\ i \in Int /\ n - i \in Nat \ {0} /\ n - i - 1 \in Int
  BY <1>1
<1>3. Even(SubSeq(d, i + 1, Len(d)), n - i, f + i * P, P)
  BY <1>1, <1>2, EvenRest
<1>4. (i + (n - i - 1)) * P = i * P + (n - i - 1) * P /\ i * P \in Int /\ (n - i - 1) * P \in Int
  BY <1>2, Spread
<1>5. i + (n - i - 1) = n - 1
  BY <1>1, <1>2
<1>6. l = f + i * P + (n - i - 1) * P
  BY <1>1, <1>4, <1>5
<1> QED BY <1>2, <1>3, <1>6 DEF Run

InPhase(x, y, P) == \E j \in Int : y = x + j * P

(* Records aligned to the sample period of their source: all samples       *)
(* decoded and exactly one period apart, the starts of records of a source *)
(* and a rate any number of periods apart, and a tolerance of less than a  *)
(* period.                                                                 *)
AlignedRecords ==
  /\ \A rec \in Records :
       /\ Len(rec.data) = rec.cnt
       /\ \A m \in 1 .. rec.cnt : rec.data[m] = SampleTime(rec.start, m - 1, rec.rate)
       /\ rec.rate # 0 => rec.cnt > 0 /\ TimeTol(rec) < NsPeriod(rec.rate)
  /\ \A r1, r2 \in Records :
       r1.sid = r2.sid /\ r1.rate = r2.rate /\ r1.rate # 0
         => InPhase(r1.start, r2.start, NsPeriod(r1.rate))

LEMMA AlignedCounted ==
  ASSUME AlignedRecords
  PROVE  SamplesCounted
<1>1. ASSUME NEW rec \in Records PROVE Len(rec.data) <= rec.cnt
  <2>1. Len(rec.data) = rec.cnt /\ rec.cnt \in Nat
    BY RecordFields DEF AlignedRecords, RecordType
  <2> QED BY <2>1
<1> QED BY <1>1 DEF SamplesCounted

LEMMA RecordRun ==
  ASSUME AlignedRecords, NEW rec \in Records
  PROVE  /\ rec.start \in Int /\ rec.cnt \in Nat /\ rec.rate \in Nat /\ NsPeriod(rec.rate) \in Nat
         /\ Even(rec.data, rec.cnt, rec.start, NsPeriod(rec.rate))
         /\ rec.rate # 0 => /\ Run(rec.data, rec.cnt, rec.start, EndTime(rec), NsPeriod(rec.rate))
                            /\ TimeTol(rec) < NsPeriod(rec.rate) /\ TimeTol(rec) \in Nat
<1>1. /\ rec.start \in Int /\ rec.cnt \in Nat /\ rec.rate \in Nat /\ rec.data \in Seq(Int)
      /\ NsPeriod(rec.rate) \in Nat /\ TimeTol(rec) \in Nat
  BY RecordFields, RecordTimes DEF RecordType
<1>2. /\ Len(rec.data) = rec.cnt
      /\ \A m \in 1 .. rec.cnt : rec.data[m] = SampleTime(rec.start, m - 1, rec.rate)
      /\ rec.rate # 0 => rec.cnt > 0 /\ TimeTol(rec) < NsPeriod(rec.rate)
  BY DEF AlignedRecords
<1>3. Even(rec.data, rec.cnt, rec.start, NsPeriod(rec.rate))
  BY <1>1, <1>2 DEF Even, SampleTime
<1>4. rec.rate # 0 => EndTime(rec) = rec.start + (rec.cnt - 1) * NsPeriod(rec.rate)
  BY <1>2 DEF EndTime, SampleTime
<1>5. rec.rate # 0 => rec.cnt \in Nat \ {0}
  BY <1>1, <1>2
<1> QED BY <1>1, <1>2, <1>3, <1>4, <1>5 DEF Run

(* A segment of samples exactly one period apart, in phase with a record   *)
(* of its source.                                                          *)
Spaced(sid, s) ==
  LET P == NsPeriod(s.rate)
  IN  /\ Even(s.data, s.cnt, s.start, P)
      /\ \E r \in Records : /\ r.sid = sid /\ r.rate = s.rate
                            /\ HasTimeCoverage(s) => InPhase(r.start, s.start, P)
      /\ HasTimeCoverage(s) => Run(s.data, s.cnt, s.start, s.end, P)

SpacedSegs == [k \in Keys |-> {s \in Segment : Spaced(k[1], s)}]

(* What fits within the tolerance fits exactly: the gap is a multiple of   *)
(* the period and less than one.                                           *)
LEMMA PhasesFit ==
  ASSUME NEW P \in Nat, NEW tol \in Nat, tol < P, NEW base \in Int, NEW first \in Int, NEW last \in Int,
         InPhase(base, first, P), NEW f \in Int, NEW n \in Nat, InPhase(base, f, P),
         last = f + (n - 1) * P,
         -tol <= first - last - P, first - last - P <= tol
  PROVE  first = last + P
<1>1. PICK i \in Int : first = base + i * P
  BY DEF InPhase
<1>2. PICK j \in Int : f = base + j * P
  BY DEF InPhase
<1> DEFINE x == i - j - n
<1>3. x \in Int /\ n \in Int
  OBVIOUS
<1>4. (n - 1) * P = n * P - P /\ n * P \in Int /\ i * P \in Int /\ j * P \in Int
  OBVIOUS
<1>5. x * P = i * P - j * P - n * P
  OBVIOUS
<1> HIDE DEF x
<1>6. first - last - P = x * P
  BY <1>1, <1>2, <1>4, <1>5
<1>7. -P < x * P /\ x * P < P
  BY <1>6
<1>8. x * P = 0
  BY <1>3, <1>7, SmallMultiple
<1> QED BY <1>6, <1>8

LEMMA FitExact ==
  ASSUME AlignedRecords, UserRateTol = 0, NEW rec \in Records, NEW s \in Segment, Spaced(rec.sid, s)
  PROVE  /\ FitsAfter(rec, s) =>
              rec.rate = s.rate /\ HasTimeCoverage(s) /\ rec.rate # 0 /\ rec.start = s.end + NsPeriod(s.rate)
         /\ FitsBefore(rec, s) =>
              rec.rate = s.rate /\ HasTimeCoverage(s) /\ rec.rate # 0
              /\ s.start = EndTime(rec) + NsPeriod(s.rate)
<1> DEFINE P == NsPeriod(s.rate)
<1>1. ASSUME FitsAfter(rec, s) \/ FitsBefore(rec, s)
      PROVE  rec.rate = s.rate /\ HasTimeCoverage(s) /\ rec.rate # 0
  BY <1>1 DEF FitsAfter, FitsBefore, IsSampRateSimilar, HasTimeCoverage
<1>2. s.start \in Int /\ s.end \in Int
  BY DEF Segment
<1>3. /\ rec.start \in Int /\ NsPeriod(rec.rate) \in Nat /\ EndTime(rec) \in Int
      /\ rec.rate # 0 => /\ Run(rec.data, rec.cnt, rec.start, EndTime(rec), NsPeriod(rec.rate))
                         /\ TimeTol(rec) < NsPeriod(rec.rate) /\ TimeTol(rec) \in Nat
  BY RecordRun, RecordTimes
<1>4. ASSUME rec.rate = s.rate, HasTimeCoverage(s), rec.rate # 0
      PROVE  \E base \in Int : InPhase(base, s.start, P) /\ InPhase(base, rec.start, P)
  <2>1. PICK r \in Records : r.sid = rec.sid /\ r.rate = s.rate /\ InPhase(r.start, s.start, P)
    BY <1>4 DEF Spaced
  <2>2. InPhase(r.start, rec.start, P) /\ r.start \in Int
    BY <1>4, <2>1, RecordTimes DEF AlignedRecords
  <2> QED BY <2>1, <2>2
<1>5. ASSUME FitsAfter(rec, s) PROVE rec.start = s.end + P
  <2>1. rec.rate = s.rate /\ HasTimeCoverage(s) /\ rec.rate # 0
    BY <1>1, <1>5
  <2>2. PICK base \in Int : InPhase(base, s.start, P) /\ InPhase(base, rec.start, P)
    BY <1>4, <2>1
  <2>3. /\ -TimeTol(rec) <= rec.start - s.end - NsPeriod(rec.rate)
        /\ rec.start - s.end - NsPeriod(rec.rate) <= TimeTol(rec)
    BY <1>5 DEF FitsAfter, WithinTol
  <2>4. s.end = s.start + (s.cnt - 1) * P /\ s.cnt \in Nat
    BY <2>1 DEF Spaced, Run
  <2>5. P \in Nat /\ TimeTol(rec) \in Nat /\ TimeTol(rec) < P /\ NsPeriod(rec.rate) = P
    BY <1>3, <2>1
  <2> HIDE DEF P
  <2> QED BY <1>2, <1>3, <2>2, <2>3, <2>4, <2>5, PhasesFit
<1>6. ASSUME FitsBefore(rec, s) PROVE s.start = EndTime(rec) + P
  <2>1. rec.rate = s.rate /\ HasTimeCoverage(s) /\ rec.rate # 0
    BY <1>1, <1>6
  <2>2. PICK base \in Int : InPhase(base, s.start, P) /\ InPhase(base, rec.start, P)
    BY <1>4, <2>1
  <2>3. /\ -TimeTol(rec) <= s.start - EndTime(rec) - NsPeriod(rec.rate)
        /\ s.start - EndTime(rec) - NsPeriod(rec.rate) <= TimeTol(rec)
    BY <1>6 DEF FitsBefore, WithinTol
  <2>4. P \in Nat /\ TimeTol(rec) \in Nat /\ TimeTol(rec) < P /\ NsPeriod(rec.rate) = P
    BY <1>3, <2>1
  <2>5. EndTime(rec) = rec.start + (rec.cnt - 1) * P /\ rec.cnt \in Nat
    BY <1>3, <2>1, <2>4 DEF Run
  <2> HIDE DEF P
  <2> QED BY <1>2, <1>3, <2>2, <2>3, <2>4, <2>5, PhasesFit
<1> QED BY <1>1, <1>5, <1>6

LEMMA PeriodNat ==
  ASSUME NEW rate \in Nat
  PROVE  NsPeriod(rate) \in Nat
BY ConstantsAssumption DEF NsPeriod

LEMMA MergedParts ==
  ASSUME NEW s1 \in Segment, NEW s2 \in Segment, NEW u, u = AddSegToSeg(s1, s2)
  PROVE  /\ u \in Segment /\ u.rate = s1.rate /\ u.start = s1.start /\ u.end = s2.end
         /\ u.cnt = s1.cnt + s2.cnt /\ u.data = s1.data \o s2.data
<1>1. u \in Segment
  BY MergedFields
<1> QED BY <1>1 DEF AddSegToSeg, Segment

(* Two runs that meet make one. *)
LEMMA SpacedJoin ==
  ASSUME NEW sid, NEW s1 \in Segment, Spaced(sid, s1), HasTimeCoverage(s1),
         NEW n \in Nat, NEW b, NEW first \in Int, NEW last \in Int,
         Run(b, n, first, last, NsPeriod(s1.rate)), first = s1.end + NsPeriod(s1.rate),
         NEW u \in Segment, u.rate = s1.rate, u.start = s1.start, u.end = last,
         u.cnt = s1.cnt + n, u.data = s1.data \o b
  PROVE  Spaced(sid, u) /\ HasTimeCoverage(u)
<1> DEFINE P == NsPeriod(s1.rate)
<1>1. Run(s1.data, s1.cnt, s1.start, s1.end, P)
  BY DEF Spaced
<1>2. s1.start \in Int /\ s1.rate \in Nat /\ s1.cnt \in Nat
  BY DEF Segment
<1>3. P \in Nat
  BY <1>2, PeriodNat
<1>4. Run(u.data, u.cnt, u.start, u.end, P)
  <2> HIDE DEF P
  <2>1. Run(b, n, first, last, P) /\ first = s1.end + P
    BY DEF P
  <2>2. Run(s1.data \o b, s1.cnt + n, s1.start, last, P)
    BY <1>1, <1>2, <1>3, <2>1, RunJoin
  <2> QED BY <2>2
<1>5. HasTimeCoverage(u)
  BY <1>2 DEF HasTimeCoverage
<1>6. \E r \in Records : r.sid = sid /\ r.rate = s1.rate /\ InPhase(r.start, s1.start, P)
  BY DEF Spaced
<1>7. Even(u.data, u.cnt, u.start, P)
  BY <1>4 DEF Run
<1> QED BY <1>4, <1>5, <1>6, <1>7 DEF Spaced

LEMMA SpacedClosed ==
  ASSUME AlignedRecords, UserRateTol = 0, now \in Nat, NEW rec \in Records
  PROVE  Closed(SpacedSegs, rec)
<1> DEFINE Good(sid) == {s \in Segment : Spaced(sid, s)}
<1>1. KeyOf(rec) \in Keys /\ KeyOf(rec)[1] = rec.sid
  BY RecordFields DEF KeyOf
<1>2. \A k \in Matching(rec) : k \in Keys /\ k[1] = rec.sid
  BY DEF Matching, FindID
<1>3. \A k \in Keys : SpacedSegs[k] = Good(k[1])
  BY DEF SpacedSegs
<1>4. /\ rec.start \in Int /\ rec.cnt \in Nat /\ rec.rate \in Nat /\ NsPeriod(rec.rate) \in Nat
      /\ EndTime(rec) \in Int
      /\ Even(rec.data, rec.cnt, rec.start, NsPeriod(rec.rate))
      /\ rec.rate # 0 => Run(rec.data, rec.cnt, rec.start, EndTime(rec), NsPeriod(rec.rate))
  BY RecordRun, RecordTimes
<1>5. InPhase(rec.start, rec.start, NsPeriod(rec.rate))
  <2> DEFINE P == NsPeriod(rec.rate)
  <2>1. P \in Nat
    BY <1>4
  <2> HIDE DEF P
  <2>2. rec.start = rec.start + 0 * P
    BY <1>4, <2>1
  <2> QED BY <2>2 DEF InPhase, P
<1>6. ASSUME NEW s \in Segment, s.start = rec.start, s.end = EndTime(rec), s.rate = rec.rate,
             s.cnt = rec.cnt, s.data = rec.data
      PROVE  Spaced(rec.sid, s)
  BY <1>4, <1>5, <1>6 DEF Spaced, HasTimeCoverage
<1>7. Msr2Seg(rec) \in Good(rec.sid)
  <2>1. /\ Msr2Seg(rec) \in Segment
        /\ Msr2Seg(rec).start = rec.start /\ Msr2Seg(rec).end = EndTime(rec)
        /\ Msr2Seg(rec).rate = rec.rate /\ Msr2Seg(rec).cnt = rec.cnt
        /\ Msr2Seg(rec).data = rec.data
    BY RecordSegment DEF Msr2Seg
  <2> QED BY <2>1, <1>6
<1>8. ASSUME NEW s \in Good(rec.sid), FitsAfter(rec, s)
      PROVE  /\ AddMsrToEnd(s, rec) \in Good(rec.sid) /\ HasTimeCoverage(AddMsrToEnd(s, rec))
             /\ rec.rate = s.rate /\ AddMsrToEnd(s, rec).end = EndTime(rec)
             /\ AddMsrToEnd(s, rec).rate = s.rate
  <2>1. rec.rate = s.rate /\ HasTimeCoverage(s) /\ rec.rate # 0 /\ rec.start = s.end + NsPeriod(s.rate)
        /\ s \in Segment /\ Spaced(rec.sid, s)
    BY <1>8, FitExact
  <2> DEFINE u == AddMsrToEnd(s, rec)
  <2>2. /\ u \in Segment /\ u.rate = s.rate /\ u.start = s.start /\ u.end = EndTime(rec)
        /\ u.cnt = s.cnt + rec.cnt /\ u.data = s.data \o rec.data
    BY <2>1, MadeParts
  <2>3. Run(rec.data, rec.cnt, rec.start, EndTime(rec), NsPeriod(s.rate))
    BY <1>4, <2>1
  <2> HIDE DEF u
  <2>4. Spaced(rec.sid, u) /\ HasTimeCoverage(u)
    BY <1>4, <2>1, <2>2, <2>3, SpacedJoin
  <2> QED BY <2>1, <2>2, <2>4 DEF u
<1>9. ASSUME NEW s \in Good(rec.sid), FitsBefore(rec, s)
      PROVE  AddMsrToStart(s, rec) \in Good(rec.sid)
  <2>1. rec.rate = s.rate /\ HasTimeCoverage(s) /\ rec.rate # 0 /\ s.start = EndTime(rec) + NsPeriod(s.rate)
        /\ s \in Segment /\ Spaced(rec.sid, s)
    BY <1>9, FitExact
  <2> DEFINE u == AddMsrToStart(s, rec)
             P == NsPeriod(rec.rate)
  <2>2. /\ u \in Segment /\ u.rate = s.rate /\ u.start = rec.start /\ u.end = s.end
        /\ u.cnt = s.cnt + rec.cnt /\ u.data = rec.data \o s.data
    BY <2>1, MadeParts
  <2>3. Run(rec.data, rec.cnt, rec.start, EndTime(rec), P) /\ Run(s.data, s.cnt, s.start, s.end, P)
    BY <1>4, <2>1 DEF Spaced
  <2>4. s.start \in Int /\ s.cnt \in Nat /\ s.start = EndTime(rec) + P /\ P \in Nat
    BY <1>4, <2>1 DEF Segment
  <2> HIDE DEF u, P
  <2>5. Run(rec.data \o s.data, rec.cnt + s.cnt, rec.start, s.end, P)
    BY <1>4, <2>3, <2>4, RunJoin
  <2>6. rec.cnt + s.cnt = u.cnt
    BY <1>4, <2>2, <2>4
  <2>7. Run(u.data, u.cnt, u.start, u.end, P)
    BY <2>2, <2>5, <2>6, Zenon
  <2>8. Even(u.data, u.cnt, u.start, P)
    BY <2>7 DEF Run
  <2>9. Spaced(rec.sid, u)
    BY <1>5, <2>1, <2>2, <2>7, <2>8 DEF Spaced, P
  <2> QED BY <2>2, <2>9 DEF u
<1>10. ASSUME NEW s1 \in Good(rec.sid), NEW s2 \in Good(rec.sid), FitsAfter(rec, s1), FitsBefore(rec, s2)
       PROVE  AddSegToSeg(AddMsrToEnd(s1, rec), s2) \in Good(rec.sid)
  <2> DEFINE g == AddMsrToEnd(s1, rec)
             u == AddSegToSeg(g, s2)
  <2>1. g \in Good(rec.sid) /\ HasTimeCoverage(g) /\ g.end = EndTime(rec) /\ g.rate = rec.rate
    BY <1>8, <1>10
  <2> HIDE DEF g
  <2>2. /\ rec.rate = s2.rate /\ HasTimeCoverage(s2) /\ s2.start = EndTime(rec) + NsPeriod(s2.rate)
        /\ s2 \in Segment /\ Spaced(rec.sid, s2) /\ g \in Segment /\ Spaced(rec.sid, g)
    BY <1>10, <2>1, FitExact
  <2>3. /\ u \in Segment /\ u.rate = g.rate /\ u.start = g.start /\ u.end = s2.end
        /\ u.cnt = g.cnt + s2.cnt /\ u.data = g.data \o s2.data
    BY <2>2, MergedParts, ZenonT(30)
  <2>4. Run(s2.data, s2.cnt, s2.start, s2.end, NsPeriod(g.rate)) /\ s2.start = g.end + NsPeriod(g.rate)
    BY <2>1, <2>2 DEF Spaced
  <2>5. s2.cnt \in Nat /\ s2.start \in Int /\ s2.end \in Int
    BY <2>2 DEF Segment
  <2> HIDE DEF u
  <2>6. Spaced(rec.sid, u)
    BY <2>1, <2>2, <2>3, <2>4, <2>5, SpacedJoin
  <2> QED BY <2>3, <2>6 DEF u, g
<1>11. ASSUME NEW sid, NEW s \in Good(sid) PROVE Stamp(s) \in Good(sid)
  <2>1. s \in Segment /\ Spaced(sid, s)
    OBVIOUS
  <2>2. /\ Stamp(s) \in Segment /\ Stamp(s).start = s.start /\ Stamp(s).end = s.end
        /\ Stamp(s).rate = s.rate /\ Stamp(s).cnt = s.cnt /\ Stamp(s).data = s.data
    BY <2>1, MadeParts
  <2>3. Spaced(sid, Stamp(s))
    BY <2>1, <2>2 DEF Spaced, HasTimeCoverage
  <2> QED BY <2>2, <2>3
<1> HIDE DEF Good
<1> QED BY <1>1, <1>2, <1>3, <1>7, <1>8, <1>9, <1>10, <1>11 DEF Closed

LEMMA SpacedShortens == Shortens(SpacedSegs)
<1> SUFFICES ASSUME NEW k \in Keys, NEW s \in SpacedSegs[k], NEW n \in 0 .. Len(s.data),
                    s \in Segment, Len(s.data) <= s.cnt
             PROVE  Shortened(s, n) \in SpacedSegs[k]
  BY DEF Shortens
<1> DEFINE u == Shortened(s, n)
           P == NsPeriod(s.rate)
<1>1. Spaced(k[1], s)
  BY DEF SpacedSegs
<1>2. /\ u \in Segment /\ u.rate = s.rate /\ u.end = s.end /\ u.cnt = s.cnt - n
      /\ u.data = SubSeq(s.data, n + 1, Len(s.data))
      /\ u.start = IF n = Len(s.data) THEN s.end ELSE SampleTime(s.start, n, s.rate)
      /\ Len(u.data) = Len(s.data) - n
  BY ShortenedFields
<1>3. /\ s.start \in Int /\ s.rate \in Nat /\ s.cnt \in Nat /\ s.data \in Seq(Int) /\ n \in Nat
      /\ u.data \in Seq(Int)
  BY <1>2, SMTT(40) DEF Segment
<1>4. P \in Nat
  BY <1>3, PeriodNat
<1>5. Even(s.data, s.cnt, s.start, P) /\ Len(s.data) = s.cnt
  BY <1>1 DEF Spaced, Even
<1>6. PICK r \in Records : /\ r.sid = k[1] /\ r.rate = s.rate
                           /\ HasTimeCoverage(s) => InPhase(r.start, s.start, P)
  BY <1>1 DEF Spaced
<1> HIDE DEF u
<1>7. CASE n = Len(s.data)
  <2>1. u.cnt = 0 /\ Len(u.data) = 0 /\ ~HasTimeCoverage(u)
    BY <1>2, <1>3, <1>5, <1>7 DEF HasTimeCoverage
  <2>2. Even(u.data, u.cnt, u.start, P)
    BY <1>3, <2>1 DEF Even
  <2>3. Spaced(k[1], u)
    BY <1>2, <1>6, <2>1, <2>2 DEF Spaced
  <2> QED BY <1>2, <2>3 DEF SpacedSegs, u
<1>8. CASE n # Len(s.data)
  <2>1. n \in 0 .. s.cnt - 1 /\ n \in 0 .. s.cnt
    BY <1>3, <1>5, <1>8
  <2>2. u.start = s.start + n * P
    BY <1>2, <1>8 DEF SampleTime
  <2> HIDE DEF P
  <2>3. Even(u.data, u.cnt, u.start, P)
    BY <1>2, <1>3, <1>4, <1>5, <2>1, <2>2, EvenRest
  <2>4. HasTimeCoverage(u) => HasTimeCoverage(s)
    BY <1>2, <1>3 DEF HasTimeCoverage
  <2>5. HasTimeCoverage(s) => Run(u.data, u.cnt, u.start, u.end, P)
    <3>1. HasTimeCoverage(s) => Run(s.data, s.cnt, s.start, s.end, P)
      BY <1>1 DEF Spaced, P
    <3> QED BY <3>1, <1>2, <1>3, <1>4, <2>1, <2>2, RunRest
  <2>6. HasTimeCoverage(s) => InPhase(r.start, u.start, P)
    <3> SUFFICES ASSUME HasTimeCoverage(s) PROVE InPhase(r.start, u.start, P)
      OBVIOUS
    <3>1. PICK j \in Int : s.start = r.start + j * P
      BY <1>6 DEF InPhase
    <3>2. (j + n) * P = j * P + n * P /\ j * P \in Int /\ n * P \in Int /\ j + n \in Int
      BY <1>3, <1>4, Spread
    <3>3. r.start \in Int
      BY RecordTimes
    <3>4. u.start = r.start + (j + n) * P
      BY <2>2, <3>1, <3>2, <3>3
    <3> QED BY <3>2, <3>4 DEF InPhase
  <2>7. Spaced(k[1], u)
    BY <1>2, <1>6, <2>3, <2>4, <2>5, <2>6 DEF Spaced, P
  <2> QED BY <1>2, <2>7 DEF SpacedSegs, u
<1> QED BY <1>7, <1>8

(* The samples of a record of the stream are one period of its source      *)
(* apart, from the start time of the record on.                            *)
Exact(r) ==
  /\ r.start = r.data[1]
  /\ \E rec \in Records :
       /\ rec.sid = r.key[1]
       /\ \A m \in 1 .. Len(r.data) - 1 : r.data[m + 1] - r.data[m] = NsPeriod(rec.rate)

LEMMA RecordExact ==
  ASSUME NEW list, ListOK(list), InG(list, SpacedSegs), NEW p \in PackerType, Working(p, list),
         HasRecord(p), NEW data \in Payloads(p), NEW r, r = RecordOf(p, data)
  PROVE  Exact(r)
<1> DEFINE s == SegAt(list, p.at)
           k == IdOrder[p.at.id]
           P == NsPeriod(p.rate)
<1>1. k \in Keys /\ s \in Members(list[k].segs) /\ s \in Segment
  BY PositionSegment DEF Working
<1>2. s \in SpacedSegs[k]
  BY <1>1 DEF InG
<1>3. Spaced(k[1], s)
  BY <1>1, <1>2 DEF SpacedSegs
<1>4. p.data = s.data /\ p.start = s.start /\ p.rate = s.rate /\ p.packed \in 0 .. Len(p.data)
  BY DEF Working
<1>5. r.key = k /\ r.data = data /\ r.start = SampleTime(p.start, p.packed, p.rate)
  BY RecordOfFields
<1>6. /\ data \in Seq(Int) /\ Len(data) \in Nat \ {0}
      /\ p.packed + Len(data) \in 0 .. Len(p.data)
      /\ \A m \in 1 .. Len(data) : data[m] = p.data[p.packed + m]
  BY PayloadFacts DEF Working
<1>7. Even(p.data, s.cnt, p.start, P)
  BY <1>3, <1>4 DEF Spaced
<1>8. \A m \in 1 .. Len(p.data) : p.data[m] = p.start + (m - 1) * P
  BY <1>7 DEF Even
<1>9. p.start \in Int /\ p.rate \in Nat /\ p.packed \in Nat /\ Len(p.data) \in Nat
  BY DEF PackerType
<1>10. P \in Nat
  BY <1>9, PeriodNat
<1>11. PICK rec \in Records : rec.sid = k[1] /\ rec.rate = p.rate
  BY <1>3, <1>4 DEF Spaced
<1>12. SampleTime(p.start, p.packed, p.rate) = p.start + p.packed * P
  BY DEF SampleTime
<1> HIDE DEF P, s, k
<1>13. ASSUME NEW m \in 1 .. Len(data) PROVE data[m] = p.start + (p.packed + m - 1) * P
  <2> DEFINE x == p.packed + m
             y == p.packed + m - 1
  <2>1. x \in 1 .. Len(p.data) /\ data[m] = p.data[x]
    BY <1>6, <1>9, SMTT(40)
  <2>2. x - 1 = y
    BY <1>6, <1>9
  <2> HIDE DEF x, y
  <2>3. p.data[x] = p.start + (x - 1) * P
    BY <2>1, <1>8
  <2>4. data[m] = p.start + y * P
    BY <2>1, <2>2, <2>3, Zenon
  <2> QED BY <2>4, Zenon DEF y
<1>14. data[1] = p.start + p.packed * P
  <2>1. 1 \in 1 .. Len(data) /\ p.packed + 1 - 1 = p.packed
    BY <1>6, <1>9
  <2> QED BY <2>1, <1>13
<1>15. ASSUME NEW m \in 1 .. Len(data) - 1 PROVE data[m + 1] - data[m] = P
  <2>1. m \in 1 .. Len(data) /\ m + 1 \in 1 .. Len(data)
    BY <1>6
  <2> DEFINE x == p.packed + m - 1
  <2>2. x \in Int /\ p.packed + (m + 1) - 1 = x + 1
    BY <1>9
  <2>3. data[m] = p.start + x * P /\ data[m + 1] = p.start + (x + 1) * P
    BY <1>13, <2>1, <2>2
  <2> HIDE DEF x
  <2>4. (x + 1) * P = x * P + P /\ x * P \in Int
    BY <2>2, <1>10
  <2> QED BY <1>9, <1>10, <2>3, <2>4
<1> QED BY <1>5, <1>11, <1>12, <1>14, <1>15 DEF Exact, P

(* Records aligned to the sample period come out of the rolling buffer     *)
(* with their own times: whatever was merged, packed in part, trimmed and  *)
(* packed on, the start time of every record streamed is that of its first *)
(* sample, and its samples are one period apart.                           *)
THEOREM StreamedAtTheirTimes ==
  ASSUME AlignedRecords, UserRateTol = 0
  PROVE  PackSpec => []StreamTimesExact
<1> DEFINE Good == {r \in StreamRecord : Exact(r)}
           Inv == InG(ids, SpacedSegs) /\ stream \in Seq(Good)
<1>0. SamplesCounted
  BY AlignedCounted
<1>1. PackInit => Inv
  BY DEF PackInit, InG, Members, NoTraceID
<1>2. PackInv /\ PackInv' /\ Inv /\ [PackNext]_allVars => Inv'
  <2> SUFFICES ASSUME PackInv, PackInv', Inv, [PackNext]_allVars PROVE Inv'
    OBVIOUS
  <2>1. Steps /\ Grows(ids') /\ IInv /\ now \in Nat
    BY <1>0, PackInvStep, IInvList DEF Steps, PackInv
  <2>2. ListOK(ids')
    BY DEF PackInv, IInv, TypeOK, SegmentsCounted, ListOK, IDOK
  <2>3. InG(ids', SpacedSegs)
    BY <2>1, SpacedClosed, SpacedShortens, FamilyKept
  <2>4. stream' \in Seq(Good)
    <3>1. ASSUME NEW p \in PackerType, Working(p, ids'), HasRecord(p), NEW data \in Payloads(p),
                 stream' = Append(stream, RecordOf(p, data))
          PROVE  stream' \in Seq(Good)
      <4>1. RecordOf(p, data) \in StreamRecord
        BY <2>2, <3>1, RecordOfFields
      <4>2. Exact(RecordOf(p, data))
        BY <2>2, <2>3, <3>1, RecordExact
      <4>3. RecordOf(p, data) \in Good
        BY <4>1, <4>2
      <4> HIDE DEF Good
      <4> QED BY <3>1, <4>3
    <3>2. CASE stream' = stream
      BY <3>2
    <3> QED BY <2>1, <3>1, <3>2 DEF Grows
  <2> QED BY <2>3, <2>4 DEF InG, SpacedSegs, Members
<1>3. Inv => StreamTimesExact
  <2> SUFFICES ASSUME Inv, NEW i \in DOMAIN stream
               PROVE  /\ stream[i].start = stream[i].data[1]
                      /\ \A m \in 1 .. Len(stream[i].data) - 1 : \E rec \in Records :
                           /\ rec.sid = stream[i].key[1]
                           /\ stream[i].data[m + 1] - stream[i].data[m] = NsPeriod(rec.rate)
    BY DEF StreamTimesExact
  <2>1. i \in 1 .. Len(stream)
    BY LenProperties
  <2>2. stream[i] \in Good
    <3> HIDE DEF Good
    <3> QED BY <2>1, ElementOfSeq
  <2>3. Exact(stream[i])
    BY <2>2
  <2> QED BY <2>3 DEF Exact
<1> QED BY <1>0, <1>1, <1>2, <1>3, PackInvariance, PTL DEF PackSpec

-----------------------------------------------------------------------------
(* The samples of the list and of the stream.                              *)

(* A part of a segment's samples. *)
LEMMA PartOf ==
  ASSUME NEW S, NEW d \in Seq(S), NEW n \in 0 .. Len(d)
  PROVE  /\ SubSeq(d, 1, n) \in Seq(S) /\ Len(SubSeq(d, 1, n)) = n
         /\ \A m \in 1 .. n : SubSeq(d, 1, n)[m] = d[m]
<1>1. Len(d) \in Nat /\ \A i \in 1 .. n : d[i] \in S
  BY ElementOfSeq
<1>2. /\ SubSeq(d, 1, n) \in Seq(S)
      /\ Len(SubSeq(d, 1, n)) = IF 1 <= n THEN n - 1 + 1 ELSE 0
      /\ \A i \in 1 .. n - 1 + 1 : SubSeq(d, 1, n)[i] = d[1 + i - 1]
  BY <1>1, SubSeqProperties
<1> QED BY <1>1, <1>2

(* The first samples of d, and what follows them. *)
LEMMA PartsMeet ==
  ASSUME NEW S, NEW d \in Seq(S), NEW n \in 0 .. Len(d), NEW e \in Seq(S),
         n + Len(e) \in 0 .. Len(d), \A m \in 1 .. Len(e) : e[m] = d[n + m]
  PROVE  SubSeq(d, 1, n + Len(e)) = SubSeq(d, 1, n) \o e
<1> DEFINE a == SubSeq(d, 1, n)
           c == SubSeq(d, 1, n + Len(e))
           b == a \o e
<1>1. a \in Seq(S) /\ Len(a) = n /\ \A m \in 1 .. n : a[m] = d[m]
  BY PartOf
<1>2. c \in Seq(S) /\ Len(c) = n + Len(e) /\ \A m \in 1 .. n + Len(e) : c[m] = d[m]
  BY PartOf
<1> HIDE DEF a, c
<1>3. /\ b \in Seq(S) /\ Len(b) = n + Len(e)
      /\ \A m \in 1 .. n + Len(e) : b[m] = IF m <= n THEN a[m] ELSE e[m - n]
  BY <1>1, ConcatProperties, ZenonT(30)
<1>4. n \in Nat /\ Len(e) \in Nat
  OBVIOUS
<1> HIDE DEF b
<1>5. ASSUME NEW m \in 1 .. n + Len(e) PROVE c[m] = b[m]
  <2>1. CASE m <= n
    BY <2>1, <1>1, <1>2, <1>3, <1>4, SMTT(40)
  <2>2. CASE m > n
    <3>1. m - n \in 1 .. Len(e) /\ n + (m - n) = m
      BY <2>2, <1>4
    <3>2. e[m - n] = d[n + (m - n)]
      BY <3>1
    <3> QED BY <2>2, <3>1, <3>2, <1>2, <1>3, <1>4
  <2> QED BY <2>1, <2>2, <1>4
<1>6. c = b
  <2>1. DOMAIN c = 1 .. n + Len(e) /\ DOMAIN b = 1 .. n + Len(e)
    BY <1>2, <1>3
  <2>2. c = [m \in 1 .. n + Len(e) |-> c[m]] /\ b = [m \in 1 .. n + Len(e) |-> b[m]]
    BY <1>2, <1>3, <2>1
  <2> QED BY <1>5, <2>2
<1> QED BY <1>6 DEF a, b, c

(* How often sample x is among the first n of d. *)
Among(x, d, n) == Occurrences(x, SubSeq(d, 1, n))

LEMMA AmongNone ==
  ASSUME NEW x, NEW S, NEW d \in Seq(S)
  PROVE  Among(x, d, 0) = 0 /\ Occurrences(x, <<>>) = 0
<1>1. Occurrences(x, <<>>) = 0
  <2>1. <<>> \in Seq(S) /\ 1 .. Len(<<>>) = {}
    OBVIOUS
  <2>2. Occurrences(x, <<>>) = Cardinality({i \in 1 .. Len(<<>>) : <<>>[i] = x})
    BY <2>1, OccurrencesCount
  <2>3. {i \in 1 .. Len(<<>>) : <<>>[i] = x} = {}
    BY <2>1
  <2> QED BY <2>2, <2>3, FS_EmptySet
<1>2. SubSeq(d, 1, 0) = <<>>
  <2>1. 0 \in 0 .. Len(d)
    OBVIOUS
  <2>2. SubSeq(d, 1, 0) \in Seq(S) /\ Len(SubSeq(d, 1, 0)) = 0
    BY <2>1, PartOf
  <2> QED BY <2>2, EmptySeq
<1> QED BY <1>1, <1>2 DEF Among

LEMMA AmongNat ==
  ASSUME NEW x, NEW S, NEW d \in Seq(S), NEW n \in 0 .. Len(d)
  PROVE  Among(x, d, n) \in Nat
<1>1. SubSeq(d, 1, n) \in Seq(S)
  BY PartOf
<1> QED BY <1>1, OccurrencesNat DEF Among

LEMMA AmongMore ==
  ASSUME NEW x, NEW S, NEW d \in Seq(S), NEW n \in 0 .. Len(d), NEW e \in Seq(S),
         n + Len(e) \in 0 .. Len(d), \A m \in 1 .. Len(e) : e[m] = d[n + m]
  PROVE  Among(x, d, n + Len(e)) = Among(x, d, n) + Occurrences(x, e)
<1>1. SubSeq(d, 1, n) \in Seq(S)
  BY PartOf
<1>2. SubSeq(d, 1, n + Len(e)) = SubSeq(d, 1, n) \o e
  BY PartsMeet
<1> QED BY <1>1, <1>2, OccurrencesAdd DEF Among

(* What leaves the front of d and what is left. *)
LEMMA AmongRest ==
  ASSUME NEW x, NEW S, NEW d \in Seq(S), NEW n \in 0 .. Len(d)
  PROVE  Occurrences(x, SubSeq(d, n + 1, Len(d))) = Occurrences(x, d) - Among(x, d, n)
<1> DEFINE e == SubSeq(d, n + 1, Len(d))
           N == Len(d)
<1>1. e \in Seq(S) /\ Len(e) = N - n /\ \A m \in 1 .. N - n : e[m] = d[n + m]
  BY RestOf
<1>2. N \in Nat /\ n \in Nat
  OBVIOUS
<1>3. n + Len(e) = N
  BY <1>1, <1>2
<1>4. n + Len(e) \in 0 .. Len(d) /\ \A m \in 1 .. Len(e) : e[m] = d[n + m]
  BY <1>1, <1>2, <1>3
<1> HIDE DEF e
<1>5. Among(x, d, n + Len(e)) = Among(x, d, n) + Occurrences(x, e)
  BY <1>1, <1>4, AmongMore
<1>6. SubSeq(d, 1, N) = d
  <2>1. N \in 0 .. Len(d)
    BY <1>2
  <2>2. SubSeq(d, 1, N) \in Seq(S) /\ Len(SubSeq(d, 1, N)) = N /\ \A m \in 1 .. N : SubSeq(d, 1, N)[m] = d[m]
    BY <2>1, PartOf
  <2> DEFINE c == SubSeq(d, 1, N)
  <2>3. c = [m \in 1 .. N |-> c[m]] /\ d = [m \in 1 .. N |-> d[m]]
    <3> HIDE DEF c
    <3>1. c \in Seq(S) /\ Len(c) = N
      BY <2>2 DEF c
    <3> QED BY <3>1
  <2> HIDE DEF c
  <2> QED BY <2>2, <2>3 DEF c
<1>7. Among(x, d, N) = Occurrences(x, d)
  BY <1>6 DEF Among
<1>8. Among(x, d, n) \in Nat /\ Occurrences(x, e) \in Nat
  BY <1>1, AmongNat, OccurrencesNat
<1> QED BY <1>3, <1>5, <1>7, <1>8 DEF e

-----------------------------------------------------------------------------
(* The samples that leave the list.                                        *)

(* KeyVersion, of any list. *)
KeyedBy(list) ==
  SplitVersion # 0 => \A k \in Keys : list[k].segs # <<>> => list[k].pubversion = k[2]

(* The samples of the segment at p count for sid. *)
For(p, sid, n) == IF IdOrder[p.id][1] = sid THEN n ELSE 0

(* One segment is replaced: the list holds as much more for its source as  *)
(* the new segment does.                                                   *)
LEMMA PutHolds ==
  ASSUME IsFiniteSet(Records), NEW x, NEW sid, NEW list, ListOK(list), NEW p \in Positions(list),
         NEW e \in Segment, NEW new, new = Put(list, p, e)
  PROVE  /\ HeldIn(new, x, sid) = HeldIn(list, x, sid)
              + For(p, sid, Occurrences(x, e.data) - Occurrences(x, SegAt(list, p).data))
         /\ KeyedBy(list) => KeyedBy(new)
<1> DEFINE k == IdOrder[p.id]
           t == list[k]
           segs == [t.segs EXCEPT ![p.seg] = e]
           u == [t EXCEPT !.segs = segs]
           w == SegmentHolds(x)
           s == SegAt(list, p)
<1>1. /\ k \in Keys /\ t.segs \in Seq(Segment) /\ p.seg \in 1 .. Len(t.segs)
      /\ s = t.segs[p.seg] /\ s \in Segment
  BY PositionSegment
<1>2. t \in TraceID /\ list \in [Keys -> TraceID]
  BY <1>1 DEF ListOK
<1>3. new = [list EXCEPT ![k] = u]
  BY <1>1, <1>2 DEF TraceID, Put
<1>4. segs \in Seq(Segment) /\ Len(segs) = Len(t.segs) /\ segs[p.seg] = e
      /\ \A m \in 1 .. Len(t.segs) : m # p.seg => segs[m] = t.segs[m]
  BY <1>1, ExceptSeq, LenProperties
<1>5. u.segs = segs /\ u.pubversion = t.pubversion
  BY <1>2, <1>4 DEF TraceID
<1>6. new \in [Keys -> TraceID]
  BY ListReplaced DEF ListOK
<1> HIDE DEF u, segs, s
<1>7. new[k] = u /\ Differ(list, new, k)
  BY <1>1, <1>2, <1>3 DEF Differ
<1>8. /\ Load(x, list)[k] = Weigh(w, t.segs) /\ Load(x, list)[k] \in Int
      /\ Load(x, new)[k] = Weigh(w, new[k].segs) /\ Load(x, new)[k] \in Int
      /\ w \in [Segment -> Int]
  BY <1>1, <1>2, <1>6, LoadOfID
<1>9. w[e] = Occurrences(x, e.data) /\ w[s] = Occurrences(x, s.data) /\ w[e] \in Int /\ w[s] \in Int
  BY <1>1, <1>8 DEF SegmentHolds
<1>10. Weigh(w, segs) = Weigh(w, t.segs) - w[s] + w[e]
  <2> DEFINE ss == t.segs
  <2>1. Changed(segs, ss, p.seg) /\ ss[p.seg] = s /\ segs[p.seg] = e
    BY <1>1, <1>4 DEF Changed
  <2>2. ss \in Seq(Segment) /\ segs \in Seq(Segment) /\ p.seg \in 1 .. Len(ss) /\ w \in [Segment -> Int]
    BY <1>1, <1>4, <1>8
  <2> HIDE DEF w, ss
  <2>3. Weigh(w, segs) = Weigh(w, ss) - w[ss[p.seg]] + w[segs[p.seg]]
    BY <2>1, <2>2, WeighChanged
  <2> QED BY <2>1, <2>3 DEF ss
<1> HIDE DEF w
<1>11. Load(x, new)[k] - Load(x, list)[k] = w[e] - w[s]
  <2> DEFINE a == Weigh(w, t.segs)
             b == Weigh(w, segs)
  <2>1. Load(x, list)[k] = a /\ Load(x, new)[k] = b /\ a \in Int /\ b \in Int /\ b = a - w[s] + w[e]
    BY <1>5, <1>7, <1>8, <1>10
  <2> HIDE DEF a, b
  <2> QED BY <2>1, <1>9
<1>12. HeldIn(new, x, sid) = HeldIn(list, x, sid)
          + (IF k[1] = sid THEN Load(x, new)[k] - Load(x, list)[k] ELSE 0)
  BY <1>1, <1>2, <1>6, <1>7, HeldChanges
<1>13. HeldIn(new, x, sid) = HeldIn(list, x, sid)
         + (IF k[1] = sid THEN Occurrences(x, e.data) - Occurrences(x, s.data) ELSE 0)
  BY <1>9, <1>11, <1>12
<1>14. KeyedBy(list) => KeyedBy(new)
  <2>1. segs # <<>> => t.segs # <<>>
    BY <1>1
  <2> QED BY <1>5, <1>7, <2>1 DEF KeyedBy, Differ
<1> QED BY <1>13, <1>14 DEF For, s

(* n samples leave the segment at p. *)
LEMMA TrimHolds ==
  ASSUME IsFiniteSet(Records), NEW x, NEW sid, NEW list, ListOK(list), InG(list, Counted),
         NEW p \in Positions(list), NEW n \in 0 .. Len(SegAt(list, p).data),
         NEW new, new = TrimSegment(list, p, n)
  PROVE  /\ HeldIn(new, x, sid) + For(p, sid, Among(x, SegAt(list, p).data, n)) = HeldIn(list, x, sid)
         /\ KeyedBy(list) => KeyedBy(new)
<1> DEFINE s == SegAt(list, p)
           e == Shortened(s, n)
<1>1. s \in Segment /\ s \in Members(list[IdOrder[p.id]].segs) /\ IdOrder[p.id] \in Keys
  BY PositionSegment
<1>2. Len(s.data) <= s.cnt /\ s.data \in Seq(Int)
  BY <1>1 DEF InG, Counted, Segment
<1>3. e \in Segment /\ e.data = SubSeq(s.data, n + 1, Len(s.data))
  BY <1>1, <1>2, ShortenedFields
<1>4. new = Put(list, p, e)
  BY DEF TrimSegment, Shortened, Put
<1> HIDE DEF e
<1>5. /\ HeldIn(new, x, sid) = HeldIn(list, x, sid)
           + For(p, sid, Occurrences(x, e.data) - Occurrences(x, s.data))
      /\ KeyedBy(list) => KeyedBy(new)
  <2>1. e \in Segment /\ new = Put(list, p, e)
    BY <1>3, <1>4
  <2>2. /\ HeldIn(new, x, sid) = HeldIn(list, x, sid)
            + For(p, sid, Occurrences(x, e.data) - Occurrences(x, SegAt(list, p).data))
        /\ KeyedBy(list) => KeyedBy(new)
    BY ONLY IsFiniteSet(Records), ListOK(list), p \in Positions(list), <2>1, PutHolds, SMTT(30)
  <2> QED BY <2>2
<1>6. Occurrences(x, e.data) = Occurrences(x, s.data) - Among(x, s.data, n)
  BY <1>2, <1>3, AmongRest
<1>7. Occurrences(x, s.data) \in Nat /\ Among(x, s.data, n) \in Nat
  BY <1>2, AmongNat, OccurrencesNat
<1>8. HeldIn(list, x, sid) \in Int
  BY HeldIsSum DEF ListOK
<1> DEFINE H == HeldIn(list, x, sid)
           G == HeldIn(new, x, sid)
           a == Occurrences(x, e.data)
           b == Occurrences(x, s.data)
           c == Among(x, s.data, n)
<1>9. /\ H \in Int /\ b \in Nat /\ c \in Nat /\ a = b - c
      /\ G = H + For(p, sid, a - b)
  BY <1>5, <1>6, <1>7, <1>8
<1> HIDE DEF H, G, a, b, c
<1>10. G + For(p, sid, c) = H
  BY <1>9 DEF For
<1> QED BY <1>5, <1>10 DEF H, G, c

(* A segment without samples leaves the list. *)
LEMMA RemoveHolds ==
  ASSUME IsFiniteSet(Records), NEW x, NEW sid, NEW list, ListOK(list), NEW p \in Positions(list),
         SegAt(list, p).data = <<>>, NEW new, new = RemoveSegment(list, p)
  PROVE  /\ HeldIn(new, x, sid) = HeldIn(list, x, sid)
         /\ KeyedBy(list) => KeyedBy(new)
<1> DEFINE k == IdOrder[p.id]
           t == list[k]
           segs == RemoveAt(t.segs, p.seg)
           u == IF t.numsegments = 1 THEN NoTraceID
                ELSE [t EXCEPT !.numsegments = @ - 1, !.segs = segs]
           w == SegmentHolds(x)
<1>1. /\ k \in Keys /\ IDOK(t) /\ t.segs \in Seq(Segment) /\ p.seg \in 1 .. Len(t.segs)
      /\ SegAt(list, p) = t.segs[p.seg] /\ t.segs[p.seg] \in Segment
  BY PositionSegment
<1>2. t \in TraceID /\ list \in [Keys -> TraceID] /\ t.numsegments = Len(t.segs)
  BY <1>1 DEF IDOK, ListOK
<1>3. new = [list EXCEPT ![k] = u]
  BY DEF RemoveSegment
<1>4. segs \in Seq(Segment) /\ Len(segs) = Len(t.segs) - 1
  BY <1>1, RemoveAtProperties
<1>5. new \in [Keys -> TraceID]
  BY RemoveThins DEF ListOK
<1> HIDE DEF segs
<1>6. u.segs = segs /\ (u.segs # <<>> => u.pubversion = t.pubversion)
  <2>1. CASE t.numsegments = 1
    <3>1. Len(segs) = 0
      <4> DEFINE n == Len(t.segs)
      <4>1. n = 1 /\ Len(segs) = n - 1
        BY <2>1, <1>2, <1>4
      <4> HIDE DEF n
      <4> QED BY <4>1
    <3>2. segs = <<>>
      BY <3>1, <1>4, EmptySeq
    <3> QED BY <2>1, <3>2 DEF NoTraceID
  <2>2. CASE t.numsegments # 1
    BY <2>2, <1>2 DEF TraceID
  <2> QED BY <2>1, <2>2
<1> HIDE DEF u
<1>7. new[k] = u /\ Differ(list, new, k)
  BY <1>1, <1>2, <1>3 DEF Differ
<1>8. /\ Load(x, list)[k] = Weigh(w, t.segs) /\ Load(x, list)[k] \in Int
      /\ Load(x, new)[k] = Weigh(w, new[k].segs)
      /\ w \in [Segment -> Int]
  BY <1>1, <1>2, <1>5, LoadOfID
<1>9. w[t.segs[p.seg]] = 0
  <2>1. w[t.segs[p.seg]] = Occurrences(x, <<>>)
    BY <1>1 DEF SegmentHolds
  <2>2. <<>> \in Seq(Int)
    OBVIOUS
  <2> QED BY <2>1, <2>2, AmongNone
<1>10. Weigh(w, segs) = Weigh(w, t.segs) - w[t.segs[p.seg]]
  <2> DEFINE ss == t.segs
  <2>1. ss \in Seq(Segment) /\ p.seg \in 1 .. Len(ss) /\ w \in [Segment -> Int]
    BY <1>1, <1>8
  <2> HIDE DEF w, ss
  <2>2. Weigh(w, RemoveAt(ss, p.seg)) = Weigh(w, ss) - w[ss[p.seg]]
    BY <2>1, WeighRemoved
  <2> QED BY <2>2 DEF segs, ss
<1> HIDE DEF w
<1>11. Load(x, new)[k] - Load(x, list)[k] = 0
  BY <1>6, <1>7, <1>8, <1>9, <1>10
<1>12. HeldIn(new, x, sid) = HeldIn(list, x, sid)
          + (IF k[1] = sid THEN Load(x, new)[k] - Load(x, list)[k] ELSE 0)
  BY <1>1, <1>2, <1>5, <1>7, HeldChanges
<1>13. HeldIn(list, x, sid) \in Int
  BY <1>2, HeldIsSum
<1>14. HeldIn(new, x, sid) = HeldIn(list, x, sid)
  BY <1>11, <1>12, <1>13
<1>15. KeyedBy(list) => KeyedBy(new)
  <2>1. segs # <<>> => t.segs # <<>>
    BY <1>1
  <2> QED BY <1>6, <1>7, <2>1 DEF KeyedBy, Differ
<1> QED BY <1>14, <1>15

-----------------------------------------------------------------------------
(* The samples of the stream.                                              *)

(* Streamed, of any stream; and what one record gives. *)
StreamedIn(strm, x, sid) ==
  SumFunction([i \in DOMAIN strm |->
                 IF strm[i].key[1] = sid THEN Occurrences(x, strm[i].data) ELSE 0])
Gives(x, sid) == [r \in StreamRecord |-> IF r.key[1] = sid THEN Occurrences(x, r.data) ELSE 0]

LEMMA StreamedIsWeight ==
  ASSUME NEW x, NEW sid, NEW strm \in Seq(StreamRecord)
  PROVE  /\ Gives(x, sid) \in [StreamRecord -> Int]
         /\ StreamedIn(strm, x, sid) = Weigh(Gives(x, sid), strm)
         /\ StreamedIn(strm, x, sid) \in Int
<1> DEFINE w == Gives(x, sid)
           h(r) == IF r.key[1] = sid THEN Occurrences(x, r.data) ELSE 0
<1>1. ASSUME NEW r \in StreamRecord PROVE h(r) \in Int
  <2>1. r.data \in Seq(Int)
    BY DEF StreamRecord
  <2>2. Occurrences(x, r.data) \in Int
    BY <2>1, OccurrencesNat
  <2> QED BY <2>2
<1>2. w = [r \in StreamRecord |-> h(r)]
  BY DEF Gives
<1> HIDE DEF h
<1>3. w \in [StreamRecord -> Int] /\ \A r \in StreamRecord : w[r] = h(r)
  BY <1>1, <1>2
<1>4. StreamedIn(strm, x, sid) = SumFunction([i \in DOMAIN strm |-> h(strm[i])])
  BY DEF StreamedIn, h
<1> HIDE DEF w
<1>5. [i \in DOMAIN strm |-> h(strm[i])] = [i \in DOMAIN strm |-> w[strm[i]]]
  <2>1. \A i \in DOMAIN strm : strm[i] \in StreamRecord
    BY LenProperties, ElementOfSeq
  <2> QED BY <1>3, <2>1
<1>6. StreamedIn(strm, x, sid) = Weigh(w, strm)
  BY <1>4, <1>5 DEF Weigh
<1>7. Weigh(w, strm) \in Int
  BY <1>3, WeighIsSum
<1> QED BY <1>3, <1>6, <1>7 DEF w

LEMMA StreamedMore ==
  ASSUME NEW x, NEW sid, NEW strm \in Seq(StreamRecord), NEW r \in StreamRecord
  PROVE  /\ Append(strm, r) \in Seq(StreamRecord)
         /\ StreamedIn(Append(strm, r), x, sid)
              = StreamedIn(strm, x, sid) + (IF r.key[1] = sid THEN Occurrences(x, r.data) ELSE 0)
<1> DEFINE w == Gives(x, sid)
           s == Append(strm, r)
           n == Len(strm) + 1
<1>1. /\ s \in Seq(StreamRecord) /\ Len(s) = n /\ s[n] = r
      /\ \A i \in 1 .. Len(strm) : s[i] = strm[i]
  BY AppendProperties
<1>2. n \in 1 .. n /\ Len(strm) \in Nat
  OBVIOUS
<1> HIDE DEF s
<1>3. Without(strm, s, n)
  BY <1>1, <1>2 DEF Without
<1>4. /\ w \in [StreamRecord -> Int]
      /\ StreamedIn(strm, x, sid) = Weigh(w, strm) /\ StreamedIn(strm, x, sid) \in Int
      /\ StreamedIn(s, x, sid) = Weigh(w, s)
  BY <1>1, StreamedIsWeight
<1>5. w[r] = (IF r.key[1] = sid THEN Occurrences(x, r.data) ELSE 0) /\ w[r] \in Int
  BY <1>4 DEF Gives
<1> HIDE DEF w
<1>6. n \in 1 .. Len(s)
  BY <1>1, <1>2
<1> HIDE DEF n
<1>7. Weigh(w, s) = w[s[n]] + Weigh(w, strm)
  BY <1>1, <1>3, <1>4, <1>6, WeighWithout
<1>8. StreamedIn(s, x, sid) = StreamedIn(strm, x, sid) + w[r]
  BY <1>1, <1>4, <1>5, <1>7
<1> QED BY <1>1, <1>5, <1>8 DEF s

(* The samples a packer has streamed that are still in its segment. *)
Taken(p, keep, x, sid) ==
  IF p.active /\ ~keep THEN For(p.at, sid, Among(x, p.data, p.packed)) ELSE 0

(* The samples in the stream and not in the list as well. *)
Paid(strm, p, keep, x, sid) == StreamedIn(strm, x, sid) - Taken(p, keep, x, sid)

LEMMA TakenNat ==
  ASSUME NEW list, NEW p \in PackerType, p.active => Working(p, list), NEW keep, NEW x, NEW sid
  PROVE  Taken(p, keep, x, sid) \in Nat
<1>1. CASE p.active
  <2>1. p.data \in Seq(Int) /\ p.packed \in 0 .. Len(p.data)
    BY <1>1 DEF PackerType, Working
  <2>2. Among(x, p.data, p.packed) \in Nat
    BY <2>1, AmongNat
  <2> QED BY <2>2 DEF Taken, For
<1>2. CASE ~p.active
  BY <1>2 DEF Taken
<1> QED BY <1>1, <1>2

(* A packer that has packed nothing has taken nothing. *)
LEMMA FreshTaken ==
  ASSUME NEW p \in PackerType, p.packed = 0 \/ ~p.active, NEW keep, NEW x, NEW sid
  PROVE  Taken(p, keep, x, sid) = 0
<1>1. CASE ~p.active
  BY <1>1 DEF Taken
<1>2. CASE p.packed = 0
  <2>1. p.data \in Seq(Int)
    BY DEF PackerType
  <2>2. Among(x, p.data, 0) = 0
    BY <2>1, AmongNone
  <2> QED BY <1>2, <2>2 DEF Taken, For
<1> QED BY <1>1, <1>2

LEMMA PaidInt ==
  ASSUME NEW strm \in Seq(StreamRecord), NEW list, NEW p \in PackerType, p.active => Working(p, list),
         NEW keep, NEW x, NEW sid
  PROVE  Paid(strm, p, keep, x, sid) \in Int
<1>1. StreamedIn(strm, x, sid) \in Int /\ Taken(p, keep, x, sid) \in Nat
  BY StreamedIsWeight, TakenNat
<1> QED BY <1>1 DEF Paid

(* A record produced from the segment of an active packer. *)
LEMMA EmitPays ==
  ASSUME stream \in Seq(StreamRecord), NEW list, ListOK(list), NEW p \in PackerType, p.active,
         Working(p, list), HasRecord(p), NEW data \in Payloads(p), Emit(p, data),
         NEW keep \in BOOLEAN, NEW x, NEW sid
  PROVE  /\ stream' \in Seq(StreamRecord)
         /\ Paid(stream', sp', keep, x, sid) >= Paid(stream, p, keep, x, sid)
         /\ ~keep => Paid(stream', sp', keep, x, sid) = Paid(stream, p, keep, x, sid)
<1> DEFINE r == RecordOf(p, data)
           o == IF IdOrder[p.at.id][1] = sid THEN Occurrences(x, data) ELSE 0
           q == [p EXCEPT !.packed = @ + Len(data)]
<1>1. r \in StreamRecord /\ r.key = IdOrder[p.at.id] /\ r.data = data
  BY RecordOfFields
<1>2. stream' = Append(stream, r) /\ sp' = q
  BY DEF Emit
<1>3. q.active = p.active /\ q.at = p.at /\ q.data = p.data /\ q.packed = p.packed + Len(data)
  BY DEF PackerType
<1> HIDE DEF r, q
<1>4. /\ stream' \in Seq(StreamRecord)
      /\ StreamedIn(stream', x, sid) = StreamedIn(stream, x, sid) + o
  BY <1>1, <1>2, StreamedMore
<1>5. /\ data \in Seq(Int) /\ p.packed + Len(data) \in 0 .. Len(p.data) /\ p.packed \in 0 .. Len(p.data)
      /\ p.data \in Seq(Int) /\ \A m \in 1 .. Len(data) : data[m] = p.data[p.packed + m]
  BY PayloadFacts DEF Working, PackerType
<1>6. Among(x, p.data, p.packed + Len(data)) = Among(x, p.data, p.packed) + Occurrences(x, data)
  BY <1>5, AmongMore, ZenonT(30)
<1>7. Occurrences(x, data) \in Nat /\ Among(x, p.data, p.packed) \in Nat
  BY <1>5, AmongNat, OccurrencesNat
<1>8. Taken(q, keep, x, sid) = Taken(p, keep, x, sid) + (IF keep THEN 0 ELSE o)
  BY <1>3, <1>6, <1>7 DEF Taken, For
<1>9. o \in Nat
  BY <1>7
<1>10. StreamedIn(stream, x, sid) \in Int /\ Taken(p, keep, x, sid) \in Nat
  BY StreamedIsWeight, TakenNat
<1> HIDE DEF o
<1> QED BY <1>2, <1>4, <1>8, <1>9, <1>10 DEF Paid

-----------------------------------------------------------------------------
(* No step of packing loses a sample.                                      *)

(* How often the list and the stream hold a sample between them. *)
Balance(x, sid) == HeldIn(ids, x, sid) + Paid(stream, sp, MaintainList, x, sid)

(* The packer and its clean-up balance: the samples taken leave the list. *)
LEMMA GenCleanedHolds ==
  ASSUME IsFiniteSet(Records), PackInv, sp.active, NEW x, NEW sid
  PROVE  /\ ListOK(GenCleaned(ids))
         /\ HeldIn(GenCleaned(ids), x, sid) + Taken(sp, MaintainList, x, sid) = HeldIn(ids, x, sid)
         /\ KeyedBy(ids) => KeyedBy(GenCleaned(ids))
<1>1. ListOK(ids) /\ InG(ids, Counted) /\ sp.at \in Positions(ids)
  BY IInvList DEF PackInv, Packing, Working
<1>2. sp.packed \in 0 .. Len(SegAt(ids, sp.at).data) /\ sp.data = SegAt(ids, sp.at).data
  BY DEF PackInv, Packing, Working
<1> DEFINE trimmed == TrimSegment(ids, sp.at, sp.packed)
           removed == RemoveSegment(trimmed, sp.at)
           H == HeldIn(ids, x, sid)
           n == For(sp.at, sid, Among(x, SegAt(ids, sp.at).data, sp.packed))
<1>3. /\ ListOK(trimmed) /\ sp.at \in Positions(trimmed)
  BY <1>1, <1>2, TrimThins DEF Thins
<1>4. HeldIn(trimmed, x, sid) + n = H /\ (KeyedBy(ids) => KeyedBy(trimmed))
  <2> DEFINE at == sp.at
             k == sp.packed
             new == TrimSegment(ids, at, k)
  <2>1. at \in Positions(ids) /\ k \in 0 .. Len(SegAt(ids, at).data)
    BY <1>1, <1>2
  <2> HIDE DEF at, k
  <2>2. /\ HeldIn(new, x, sid) + For(at, sid, Among(x, SegAt(ids, at).data, k)) = HeldIn(ids, x, sid)
        /\ KeyedBy(ids) => KeyedBy(new)
    BY <1>1, <2>1, TrimHolds
  <2> QED BY <2>2 DEF at, k
<1>5. GenCleaned(ids) = IF MaintainList THEN ids
                        ELSE IF SegAt(trimmed, sp.at).data = <<>> THEN removed ELSE trimmed
  BY DEF GenCleaned
<1>6. Taken(sp, MaintainList, x, sid) = IF MaintainList THEN 0 ELSE n
  BY <1>2 DEF Taken
<1>7. H \in Int
  BY <1>1, HeldIsSum DEF ListOK
<1> HIDE DEF trimmed, n, H
<1>8. SegAt(trimmed, sp.at).data = <<>> =>
        /\ ListOK(removed)
        /\ HeldIn(removed, x, sid) = HeldIn(trimmed, x, sid)
        /\ KeyedBy(trimmed) => KeyedBy(removed)
  BY <1>3, RemoveThins, RemoveHolds
<1> HIDE DEF removed
<1>9. CASE MaintainList
  BY <1>1, <1>5, <1>6, <1>7, <1>9 DEF H
<1>10. CASE ~MaintainList
  <2>1. GenCleaned(ids) = removed \/ GenCleaned(ids) = trimmed
    BY <1>5, <1>10
  <2>2. /\ ListOK(GenCleaned(ids))
        /\ HeldIn(GenCleaned(ids), x, sid) = HeldIn(trimmed, x, sid)
        /\ KeyedBy(ids) => KeyedBy(GenCleaned(ids))
    BY <1>3, <1>4, <1>5, <1>8, <1>10
  <2> QED BY <2>2, <1>4, <1>6, <1>10 DEF H
<1> QED BY <1>9, <1>10

(* The scan for the next segment of the generator. *)
LEMMA ScanPays ==
  ASSUME Packing(sp, gen, call, ids), stream \in Seq(StreamRecord), NEW list, ListOK(list),
         NEW at \in Position, NEW total \in Nat, NEW flush \in BOOLEAN, Scan(list, at, total, flush),
         NEW keep \in BOOLEAN, NEW x, NEW sid
  PROVE  /\ stream' \in Seq(StreamRecord) /\ ids' = list
         /\ Paid(stream', sp', keep, x, sid) >= StreamedIn(stream, x, sid)
         /\ ~keep => Paid(stream', sp', keep, x, sid) = StreamedIn(stream, x, sid)
         /\ gen'.open = gen.open /\ gen'.keep = gen.keep
         /\ gen'.ret = "done" => ~sp'.active
         /\ gen'.ret = "error" => Unencodable # {}
<1> DEFINE first == FirstReady(list, ScanFrom(at), gen.flush \/ flush)
           fl == gen.flush \/ flush \/ IsIdle(SegAt(list, first))
           p == PackerFor(list, first, fl)
           S == StreamedIn(stream, x, sid)
<1>1. gen \in GenType /\ gen.flush \in BOOLEAN
  BY DEF Packing, GenType
<1>2. \/ /\ first \in Ready(list, gen.flush \/ flush) /\ first \in Positions(list) /\ first.id # 0
      \/ first.id = 0
  BY FirstReadyFacts
<1>3. /\ ids' = list
      /\ \/ /\ first.id # 0
            /\ \E data \in Payloads(p) :
                 \/ /\ Emit(p, data)
                    /\ gen' = [gen EXCEPT !.at = first, !.total = total, !.ret = "record",
                                          !.sent = @ + Len(data)]
                 \/ /\ ~Encodable(data) /\ sp' = p
                    /\ gen' = [gen EXCEPT !.at = first, !.total = total, !.ret = "error"]
                    /\ stream' = stream
         \/ /\ first.id = 0
            /\ sp' = NoPacker /\ stream' = stream
            /\ gen' = [gen EXCEPT !.ret = "done", !.total = total,
                                  !.at = IF Tried(list, ScanFrom(at)) = {} THEN at ELSE At(0, 0)]
  BY DEF Scan
<1>4. fl \in BOOLEAN
  OBVIOUS
<1>5. first \in Ready(list, gen.flush \/ flush) => HasRecord(p)
  <2>1. \A f \in BOOLEAN : first \in Ready(list, f)
                             => HasRecord(PackerFor(list, first, f \/ IsIdle(SegAt(list, first))))
    BY DEF Ready
  <2>2. (gen.flush \/ flush) \in BOOLEAN
    OBVIOUS
  <2>3. ((gen.flush \/ flush) \/ IsIdle(SegAt(list, first))) = fl
    OBVIOUS
  <2> HIDE DEF first, fl
  <2> QED BY <2>1, <2>2, <2>3
<1> HIDE DEF first, fl
<1>6. first \in Positions(list) => /\ p \in PackerType /\ p.active /\ Working(p, list)
                                   /\ p.packed = 0
  BY <1>4, PackerForWorks
<1>7. S \in Int
  BY StreamedIsWeight
<1> HIDE DEF p
<1>8. ASSUME NEW q \in PackerType, q.packed = 0 \/ ~q.active
      PROVE  Paid(stream, q, keep, x, sid) = S
  <2>1. Taken(q, keep, x, sid) = 0
    BY <1>8, FreshTaken
  <2> QED BY <1>7, <2>1 DEF Paid
<1>9. CASE first.id = 0
  <2>1. /\ sp' = NoPacker /\ stream' = stream
        /\ gen' = [gen EXCEPT !.ret = "done", !.total = total,
                              !.at = IF Tried(list, ScanFrom(at)) = {} THEN at ELSE At(0, 0)]
    BY <1>3, <1>9
  <2>2. gen'.open = gen.open /\ gen'.keep = gen.keep /\ gen'.ret = "done"
    BY <2>1, <1>1 DEF GenType
  <2>3. NoPacker \in PackerType /\ ~NoPacker.active
    BY NoneTypes
  <2>4. Paid(stream, NoPacker, keep, x, sid) = S
    BY <1>8, <2>3
  <2>5. Paid(stream', sp', keep, x, sid) = S /\ S >= S
    BY <1>7, <2>1, <2>4
  <2> QED BY <1>3, <2>1, <2>2, <2>3, <2>5
<1>10. CASE first.id # 0
  <2>1. p \in PackerType /\ p.active /\ Working(p, list) /\ p.packed = 0 /\ HasRecord(p)
    BY <1>2, <1>5, <1>6, <1>10
  <2>2. PICK data \in Payloads(p) :
            \/ /\ Emit(p, data)
               /\ gen' = [gen EXCEPT !.at = first, !.total = total, !.ret = "record",
                                     !.sent = @ + Len(data)]
            \/ /\ ~Encodable(data) /\ sp' = p
               /\ gen' = [gen EXCEPT !.at = first, !.total = total, !.ret = "error"]
               /\ stream' = stream
    BY <1>3, <1>10
  <2>3. Paid(stream, p, keep, x, sid) = S
    BY <1>8, <2>1
  <2>4. CASE /\ Emit(p, data)
             /\ gen' = [gen EXCEPT !.at = first, !.total = total, !.ret = "record",
                                   !.sent = @ + Len(data)]
    <3>1. gen'.open = gen.open /\ gen'.keep = gen.keep /\ gen'.ret = "record"
      BY <2>4, <1>1 DEF GenType
    <3>2. /\ stream' \in Seq(StreamRecord)
          /\ Paid(stream', sp', keep, x, sid) >= S
          /\ ~keep => Paid(stream', sp', keep, x, sid) = S
      BY <2>1, <2>3, <2>4, EmitPays
    <3> QED BY <1>3, <3>1, <3>2
  <2>5. CASE /\ ~Encodable(data) /\ sp' = p /\ stream' = stream
             /\ gen' = [gen EXCEPT !.at = first, !.total = total, !.ret = "error"]
    <3>1. gen'.open = gen.open /\ gen'.keep = gen.keep /\ gen'.ret = "error"
      BY <2>5, <1>1 DEF GenType
    <3>2. Unencodable # {}
      BY <2>5 DEF Encodable
    <3>3. Paid(stream', sp', keep, x, sid) = S /\ S >= S
      BY <1>7, <2>3, <2>5
    <3> QED BY <1>3, <2>5, <3>1, <3>2, <3>3
  <2> QED BY <2>2, <2>4, <2>5
<1> QED BY <1>9, <1>10

(* What a step of packing does to a sample: neither the list nor the       *)
(* stream loses it, and only what is maintained or freed early is streamed *)
(* and kept as well.                                                       *)
Pays(x, sid, exact) ==
  /\ stream' \in Seq(StreamRecord) /\ KeyedBy(ids') /\ added' = added
  /\ Balance(x, sid)' >= Balance(x, sid)
  /\ exact => Balance(x, sid)' = Balance(x, sid)

LEMMA MaintainBoolean ==
  ASSUME Packing(sp, gen, call, ids)
  PROVE  MaintainList \in BOOLEAN
BY DEF Packing, GenType, CallType, MaintainList

LEMMA BalanceInt ==
  ASSUME IsFiniteSet(Records), ListOK(ids), Packing(sp, gen, call, ids), stream \in Seq(StreamRecord),
         NEW x, NEW sid
  PROVE  /\ HeldIn(ids, x, sid) \in Int /\ StreamedIn(stream, x, sid) \in Int
         /\ Taken(sp, MaintainList, x, sid) \in Nat
         /\ Balance(x, sid) \in Int
         /\ Balance(x, sid) = HeldIn(ids, x, sid) + StreamedIn(stream, x, sid)
                                - Taken(sp, MaintainList, x, sid)
<1>1. HeldIn(ids, x, sid) \in Int
  BY HeldIsSum DEF ListOK
<1>2. StreamedIn(stream, x, sid) \in Int
  BY StreamedIsWeight
<1>3. Taken(sp, MaintainList, x, sid) \in Nat
  <2>1. sp \in PackerType /\ (sp.active => Working(sp, ids))
    BY DEF Packing
  <2> QED BY <2>1, TakenNat
<1> QED BY <1>1, <1>2, <1>3 DEF Balance, Paid

(* mstl3_pack_next() *)
LEMMA GenNextPays ==
  ASSUME IsFiniteSet(Records), PackInv, stream \in Seq(StreamRecord), KeyedBy(ids),
         NEW flush \in BOOLEAN, GenNext(flush), NEW x, NEW sid
  PROVE  /\ Pays(x, sid, ~MaintainList)
         /\ gen'.open = gen.open /\ gen'.keep = gen.keep
         /\ gen'.ret = "done" => ~sp'.active
         /\ gen'.ret = "error" => Unencodable # {}
<1> DEFINE p == [sp EXCEPT !.flush = @ \/ flush]
           H == HeldIn(ids, x, sid)
           S == StreamedIn(stream, x, sid)
           T == Taken(sp, MaintainList, x, sid)
<1>1. ListOK(ids) /\ Packing(sp, gen, call, ids) /\ call' = call /\ added' = added /\ gen.open
  BY IInvList DEF PackInv, GenNext
<1>2. /\ sp \in PackerType /\ gen \in GenType
      /\ (sp.active => Working(sp, ids))
  BY <1>1 DEF Packing
<1>3. gen.total \in Nat /\ gen.at \in Position /\ sp.packed \in Nat
  BY <1>2 DEF GenType, PackerType
<1>4. MaintainList \in BOOLEAN
  BY <1>1, MaintainBoolean
<1>5. H \in Int /\ S \in Int /\ T \in Nat /\ Balance(x, sid) = H + S - T
  BY <1>1, BalanceInt
<1>6. /\ p \in PackerType /\ p.active = sp.active /\ p.at = sp.at /\ p.data = sp.data
      /\ p.start = sp.start /\ p.rate = sp.rate /\ p.packed = sp.packed
  <2> DEFINE f == sp.flush \/ flush
  <2>1. p = [sp EXCEPT !.flush = f]
    BY <1>2 DEF PackerType
  <2>2. f \in BOOLEAN
    OBVIOUS
  <2> HIDE DEF p, f
  <2> QED BY <1>2, <2>1, <2>2 DEF PackerType
<1> HIDE DEF p, H, S, T
<1>7. ASSUME gen'.open = gen.open, gen'.keep = gen.keep
      PROVE  /\ MaintainList' = MaintainList
             /\ Balance(x, sid)' = HeldIn(ids', x, sid) + Paid(stream', sp', MaintainList, x, sid)
  BY <1>1, <1>7 DEF MaintainList, Balance
<1>8. CASE GenContinue(flush)
  <2>1. /\ sp.active /\ HasRecord(p) /\ ids' = ids
        /\ \E data \in Payloads(p) :
             \/ /\ Emit(p, data)
                /\ gen' = [gen EXCEPT !.ret = "record", !.sent = @ + Len(data)]
             \/ /\ ~Encodable(data) /\ sp' = p /\ stream' = stream
                /\ gen' = [gen EXCEPT !.ret = "error"]
    BY <1>8 DEF GenContinue, p
  <2>2. Working(p, ids) /\ p.active
    BY <2>1, <1>2, <1>6 DEF Working
  <2>3. Taken(p, MaintainList, x, sid) = T
    BY <1>6 DEF Taken, T
  <2>4. Paid(stream, p, MaintainList, x, sid) = S - T
    BY <2>3 DEF Paid, S
  <2>5. PICK data \in Payloads(p) :
             \/ /\ Emit(p, data)
                /\ gen' = [gen EXCEPT !.ret = "record", !.sent = @ + Len(data)]
             \/ /\ ~Encodable(data) /\ sp' = p /\ stream' = stream
                /\ gen' = [gen EXCEPT !.ret = "error"]
    BY <2>1
  <2>6. /\ gen'.open = gen.open /\ gen'.keep = gen.keep /\ gen'.ret # "done"
        /\ gen'.ret = "error" => ~Encodable(data)
    BY <1>2, <2>5 DEF GenType
  <2>7. ~Encodable(data) => Unencodable # {}
    BY DEF Encodable
  <2>8. /\ stream' \in Seq(StreamRecord)
        /\ Paid(stream', sp', MaintainList, x, sid) >= S - T
        /\ ~MaintainList => Paid(stream', sp', MaintainList, x, sid) = S - T
    <3>1. CASE Emit(p, data)
      BY <1>1, <1>4, <1>6, <2>1, <2>2, <2>4, <3>1, EmitPays
    <3>2. CASE sp' = p /\ stream' = stream
      <4>1. Paid(stream', sp', MaintainList, x, sid) = S - T
        BY <2>4, <3>2
      <4> QED BY <1>5, <3>2, <4>1
    <3> QED BY <2>5, <3>1, <3>2
  <2>9. sp' \in PackerType /\ Paid(stream', sp', MaintainList, x, sid) \in Int
    <3>1. Packing(sp', gen', call', ids')
      BY GenNextKeeps
    <3> QED BY <3>1, <2>8, PaidInt DEF Packing
  <2>10. Balance(x, sid)' = H + Paid(stream', sp', MaintainList, x, sid)
    BY <1>7, <2>1, <2>6 DEF H
  <2> QED BY <1>1, <1>5, <2>1, <2>6, <2>7, <2>8, <2>9, <2>10 DEF Pays
<1>9. CASE GenAdvance(flush)
  <2> DEFINE next == NextPosition(ids, gen.at)
  <2>1. next \in Position /\ At(0, 0) \in Position /\ gen.total + sp.packed \in Nat
    BY <1>1, <1>3, NextPositionFacts, NoneTypes
  <2>2. CASE MaintainList /\ next.id = 0
    <3>1. /\ gen' = [gen EXCEPT !.finished = TRUE, !.total = @ + sp.packed, !.ret = "done"]
          /\ sp' = NoPacker /\ ids' = ids /\ stream' = stream
      BY <1>9, <2>2 DEF GenAdvance
    <3>2. gen'.open = gen.open /\ gen'.keep = gen.keep /\ gen'.ret = "done"
      BY <1>2, <3>1 DEF GenType
    <3>3. ~sp'.active /\ Taken(sp', MaintainList, x, sid) = 0
      BY <3>1, NoneTypes, FreshTaken
    <3>4. Balance(x, sid)' = H + (S - 0)
      BY <1>7, <3>1, <3>2, <3>3 DEF Paid, H, S
    <3>5. Balance(x, sid)' >= Balance(x, sid)
      BY <1>5, <3>4
    <3>6. stream' \in Seq(StreamRecord) /\ KeyedBy(ids')
      BY <3>1
    <3> QED BY <1>1, <2>2, <3>2, <3>3, <3>5, <3>6 DEF Pays
  <2>3. CASE ~(MaintainList /\ next.id = 0)
    <3> DEFINE list == GenCleaned(ids)
               at == IF MaintainList THEN next ELSE At(0, 0)
               L == HeldIn(list, x, sid)
               Q == Paid(stream', sp', MaintainList, x, sid)
    <3>1. sp.active /\ Scan(list, at, gen.total + sp.packed, flush)
      BY <1>9, <2>3 DEF GenAdvance
    <3>2. at \in Position
      BY <2>1
    <3>3. ListOK(list) /\ L + T = H /\ KeyedBy(list)
      BY <3>1, GenCleanedHolds DEF T, H
    <3> HIDE DEF at, list
    <3>4. /\ stream' \in Seq(StreamRecord) /\ ids' = list
          /\ Q >= S /\ (~MaintainList => Q = S)
          /\ gen'.open = gen.open /\ gen'.keep = gen.keep
          /\ gen'.ret = "done" => ~sp'.active
          /\ gen'.ret = "error" => Unencodable # {}
      BY <1>1, <1>4, <2>1, <3>1, <3>2, <3>3, ScanPays DEF S
    <3>5. Q \in Int /\ L \in Int
      <4>1. Packing(sp', gen', call', ids')
        BY GenNextKeeps
      <4>2. L \in Int
        BY <3>3, HeldIsSum DEF ListOK
      <4> QED BY <4>1, <4>2, <3>4, PaidInt DEF Packing
    <3>6. Balance(x, sid)' = L + Q
      BY <1>7, <3>4
    <3> HIDE DEF L, Q
    <3>7. KeyedBy(ids')
      BY <3>3, <3>4
    <3>8. /\ Balance(x, sid)' >= Balance(x, sid)
          /\ ~MaintainList => Balance(x, sid)' = Balance(x, sid)
      BY <1>5, <3>3, <3>4, <3>5, <3>6
    <3> QED BY <1>1, <3>4, <3>7, <3>8 DEF Pays
  <2> QED BY <2>2, <2>3
<1>10. CASE GenScan(flush)
  <2> DEFINE Q == Paid(stream', sp', MaintainList, x, sid)
  <2>1. ~sp.active /\ Scan(ids, gen.at, gen.total, flush)
    BY <1>10 DEF GenScan
  <2>2. /\ stream' \in Seq(StreamRecord) /\ ids' = ids
        /\ Q >= S /\ (~MaintainList => Q = S)
        /\ gen'.open = gen.open /\ gen'.keep = gen.keep
        /\ gen'.ret = "done" => ~sp'.active
        /\ gen'.ret = "error" => Unencodable # {}
    BY <1>1, <1>3, <1>4, <2>1, ScanPays DEF S
  <2>3. T = 0
    BY <1>2, <2>1, FreshTaken DEF T
  <2>4. Q \in Int
    <3>1. Packing(sp', gen', call', ids')
      BY GenNextKeeps
    <3> QED BY <3>1, <2>2, PaidInt DEF Packing
  <2>5. Balance(x, sid)' = H + Q
    BY <1>7, <2>2 DEF H
  <2> HIDE DEF Q
  <2> QED BY <1>1, <1>5, <2>2, <2>3, <2>4, <2>5 DEF Pays
<1> QED BY <1>8, <1>9, <1>10 DEF GenNext

(* Steps that start, move on or end while no packer is at work. *)
LEMMA InactivePays ==
  ASSUME IsFiniteSet(Records), PackInv, stream \in Seq(StreamRecord), KeyedBy(ids),
         ids' = ids, stream' = stream, added' = added, ~sp'.active, NEW x, NEW sid
  PROVE  Pays(x, sid, ~sp.active)
<1>1. ListOK(ids) /\ Packing(sp, gen, call, ids)
  BY IInvList DEF PackInv
<1> DEFINE H == HeldIn(ids, x, sid)
           S == StreamedIn(stream, x, sid)
           T == Taken(sp, MaintainList, x, sid)
<1>2. H \in Int /\ S \in Int /\ T \in Nat /\ Balance(x, sid) = H + S - T
  BY <1>1, BalanceInt
<1>3. ~sp.active => T = 0
  BY DEF Taken
<1>4. Balance(x, sid)' = H + (S - 0)
  BY DEF Balance, Paid, Taken
<1> HIDE DEF H, S, T
<1>5. /\ Balance(x, sid)' >= Balance(x, sid)
      /\ ~sp.active => Balance(x, sid)' = Balance(x, sid)
  BY <1>2, <1>3, <1>4
<1> QED BY <1>5 DEF Pays

(* msr3_pack() starts on a segment and produces records from it. *)
LEMMA CallRecordsPay ==
  ASSUME IsFiniteSet(Records), PackInv, stream \in Seq(StreamRecord), KeyedBy(ids),
         CallStart \/ CallEmit, NEW x, NEW sid
  PROVE  Pays(x, sid, ~MaintainList)
<1>1. ListOK(ids) /\ Packing(sp, gen, call, ids) /\ Packing(sp', gen', call', ids')
  BY IInvList, CallRecordsKeep DEF PackInv, StepOK
<1>2. /\ sp \in PackerType /\ (sp.active => Working(sp, ids))
      /\ sp' \in PackerType /\ (sp'.active => Working(sp', ids'))
  BY <1>1 DEF Packing
<1>3. ids' = ids /\ added' = added /\ gen' = gen /\ call' = call
  BY DEF CallStart, CallEmit
<1>4. MaintainList' = MaintainList /\ MaintainList \in BOOLEAN
  BY <1>1, <1>3, MaintainBoolean DEF MaintainList
<1> DEFINE H == HeldIn(ids, x, sid)
           P == Paid(stream, sp, MaintainList, x, sid)
           Q == Paid(stream', sp', MaintainList, x, sid)
<1>5. Balance(x, sid) = H + P /\ Balance(x, sid)' = H + Q
  BY <1>3, <1>4 DEF Balance
<1>6. H \in Int /\ P \in Int
  BY <1>1, <1>2, BalanceInt, PaidInt
<1>7. /\ stream' \in Seq(StreamRecord)
      /\ Q >= P /\ (~MaintainList => Q = P)
  <2>1. CASE CallStart
    <3> DEFINE f == call.flush \/ (call.kind = "list" /\ IsIdle(SegAt(ids, call.at)))
    <3>1. ~sp.active /\ call.at \in Positions(ids) /\ sp' = PackerFor(ids, call.at, f) /\ stream' = stream
      BY <2>1 DEF CallStart, Here
    <3>2. f \in BOOLEAN
      OBVIOUS
    <3> HIDE DEF f
    <3>3. sp'.packed = 0
      BY <1>1, <3>1, <3>2, PackerForWorks
    <3>4. Taken(sp, MaintainList, x, sid) = 0 /\ Taken(sp', MaintainList, x, sid) = 0
      BY <1>2, <3>1, <3>3, FreshTaken
    <3>5. Q = P
      BY <3>1, <3>4 DEF Paid
    <3> HIDE DEF P, Q
    <3> QED BY <1>6, <3>1, <3>5
  <2>2. CASE CallEmit
    <3>1. sp.active /\ HasRecord(sp)
      BY <2>2 DEF CallEmit
    <3>2. PICK data \in Payloads(sp) : Emit(sp, data)
      BY <2>2 DEF CallEmit
    <3> QED BY <1>1, <1>2, <1>4, <3>1, <3>2, EmitPays
  <2> QED BY <2>1, <2>2
<1>8. Q \in Int
  BY <1>2, <1>7, PaidInt
<1>9. KeyedBy(ids')
  BY <1>3
<1> HIDE DEF H, P, Q
<1>10. /\ Balance(x, sid)' >= Balance(x, sid)
       /\ ~MaintainList => Balance(x, sid)' = Balance(x, sid)
  BY <1>5, <1>6, <1>7, <1>8
<1> QED BY <1>3, <1>7, <1>9, <1>10 DEF Pays

(* The callback interface leaves a segment: the samples packed leave the   *)
(* list as the packer goes.                                                *)
LEMMA CallLeavesPay ==
  ASSUME IsFiniteSet(Records), PackInv, stream \in Seq(StreamRecord), KeyedBy(ids),
         CallFinish \/ CallError, NEW x, NEW sid
  PROVE  Pays(x, sid, TRUE)
<1>1. /\ ListOK(ids) /\ InG(ids, Counted) /\ Packing(sp, gen, call, ids)
      /\ IF sp.active THEN Working(sp, ids) ELSE sp = NoPacker
      /\ sp \in PackerType
      /\ sp.active /\ call.kind # "none" => sp.at = call.at
  BY IInvList DEF PackInv, Packing
<1>2. added' = added /\ stream' = stream /\ sp' = NoPacker /\ call.kind # "none"
  BY DEF CallFinish, CallError, Here
<1>3. call.at \in Positions(ids)
  BY <1>1, <1>2 DEF CallFinish, CallError, Here, Working
<1>4. sp.packed # 0 => /\ sp.active /\ sp.at = call.at /\ sp.data = SegAt(ids, call.at).data
                       /\ sp.packed \in 0 .. Len(SegAt(ids, call.at).data)
  BY <1>1, <1>2 DEF NoPacker, Working
<1> DEFINE H == HeldIn(ids, x, sid)
           S == StreamedIn(stream, x, sid)
           T == Taken(sp, MaintainList, x, sid)
           at == call.at
           k == sp.packed
           n == For(at, sid, Among(x, SegAt(ids, at).data, k))
           cut == TrimSegment(ids, at, k)
           trimmed == IF MaintainList \/ k = 0 THEN ids ELSE cut
           removed == RemoveSegment(trimmed, at)
<1>5. H \in Int /\ S \in Int /\ T \in Nat /\ Balance(x, sid) = H + S - T
  BY <1>1, BalanceInt
<1>6. T = IF MaintainList \/ k = 0 THEN 0 ELSE n
  <2>1. k = 0 => T = 0
    BY <1>1, FreshTaken
  <2>2. MaintainList => T = 0
    BY DEF Taken
  <2>3. k # 0 /\ ~MaintainList => T = n
    BY <1>4 DEF Taken
  <2> HIDE DEF T, n
  <2> QED BY <2>1, <2>2, <2>3
<1>7. ids' = trimmed \/ (ids' = removed /\ SegAt(trimmed, at).data = <<>>)
  BY DEF CallFinish, CallError, CallCleaned
<1>8. k # 0 => ListOK(cut) /\ at \in Positions(cut) /\ HeldIn(cut, x, sid) + n = H /\ KeyedBy(cut)
  <2> SUFFICES ASSUME k # 0
               PROVE  ListOK(cut) /\ at \in Positions(cut) /\ HeldIn(cut, x, sid) + n = H /\ KeyedBy(cut)
    OBVIOUS
  <2>1. at \in Positions(ids) /\ k \in 0 .. Len(SegAt(ids, at).data)
    BY <1>3, <1>4
  <2> HIDE DEF at, k
  <2>2. ListOK(cut) /\ at \in Positions(cut)
    BY <1>1, <2>1, TrimThins DEF Thins
  <2>3. HeldIn(cut, x, sid) + n = H /\ (KeyedBy(ids) => KeyedBy(cut))
    BY <1>1, <2>1, TrimHolds
  <2> QED BY <2>2, <2>3
<1> HIDE DEF H, S, T, n, cut, k
<1>9. ListOK(trimmed) /\ at \in Positions(trimmed) /\ HeldIn(trimmed, x, sid) + T = H /\ KeyedBy(trimmed)
  <2>1. CASE MaintainList \/ k = 0
    BY <1>1, <1>3, <1>5, <1>6, <2>1 DEF H
  <2>2. CASE ~(MaintainList \/ k = 0)
    BY <1>6, <1>8, <2>2
  <2> QED BY <2>1, <2>2
<1> HIDE DEF trimmed, at
<1>10. SegAt(trimmed, at).data = <<>> => /\ ListOK(removed)
                                         /\ HeldIn(removed, x, sid) = HeldIn(trimmed, x, sid)
                                         /\ KeyedBy(removed)
  BY <1>9, RemoveThins, RemoveHolds
<1> HIDE DEF removed
<1>11. ListOK(ids') /\ HeldIn(ids', x, sid) + T = H /\ KeyedBy(ids')
  <2>1. CASE ids' = trimmed
    BY <2>1, <1>9
  <2>2. CASE ids' = removed /\ SegAt(trimmed, at).data = <<>>
    BY <2>2, <1>9, <1>10
  <2> QED BY <1>7, <2>1, <2>2
<1>12. HeldIn(ids', x, sid) \in Int
  BY <1>11, HeldIsSum DEF ListOK
<1>13. Balance(x, sid)' = HeldIn(ids', x, sid) + (S - 0)
  BY <1>2, NoneTypes DEF Balance, Paid, Taken, S
<1>14. Balance(x, sid)' = Balance(x, sid) /\ Balance(x, sid) >= Balance(x, sid)
  BY <1>5, <1>11, <1>12, <1>13
<1> QED BY <1>2, <1>11, <1>14 DEF Pays

LEMMA PrimedInt ==
  ASSUME IsFiniteSet(Records), PackInv', stream' \in Seq(StreamRecord), NEW x, NEW sid
  PROVE  Balance(x, sid)' \in Int /\ StoredIn(added', x, sid) \in Int
<1>1. ListOK(ids') /\ Packing(sp', gen', call', ids') /\ added' \in [Records -> Nat]
  BY DEF PackInv, IInv, TypeOK, SegmentsCounted, ListOK, IDOK, Packing, Working, Positions, SegAt
<1>2. HeldIn(ids', x, sid) \in Int /\ StoredIn(added', x, sid) \in Int
  BY <1>1, HeldIsSum, StoredIsSum DEF ListOK
<1>3. \A keep : Paid(stream', sp', keep, x, sid) \in Int
  BY <1>1, PaidInt DEF Packing
<1> DEFINE C == Balance(x, sid)'
<1>4. C = HeldIn(ids', x, sid) + Paid(stream', sp', MaintainList', x, sid)
  BY DEF Balance
<1> HIDE DEF C
<1>5. C \in Int
  BY <1>2, <1>3, <1>4
<1> QED BY <1>2, <1>5 DEF C

(* A record is added while no packer is at work. *)
LEMMA AddPays ==
  ASSUME IsFiniteSet(Records), PackInv, PackInv', stream \in Seq(StreamRecord), KeyedBy(ids), Add,
         NEW x, NEW sid
  PROVE  /\ stream' \in Seq(StreamRecord) /\ KeyedBy(ids')
         /\ Balance(x, sid)' - StoredIn(added', x, sid) = Balance(x, sid) - StoredIn(added, x, sid)
<1>1. PICK rec \in Records : AddMsr(rec)
  BY DEF Add
<1>2. ~sp.active /\ sp' = sp /\ gen' = gen /\ call' = call /\ stream' = stream
  BY DEF Add, Idle
<1>3. IInv /\ IInv' /\ ListOK(ids) /\ Packing(sp, gen, call, ids)
  BY IInvList DEF PackInv
<1>4. KeyVersion <=> KeyedBy(ids)
  BY DEF KeyVersion, KeyedBy, InList
<1>5. KeyVersion' => KeyedBy(ids')
  BY DEF KeyVersion, KeyedBy, InList
<1>6. KeyVersion'
  BY <1>1, <1>3, <1>4, KeyVersionKept
<1> DEFINE H == HeldIn(ids, x, sid)
           G == HeldIn(ids', x, sid)
           S == StreamedIn(stream, x, sid)
           U == StoredIn(added, x, sid)
           V == StoredIn(added', x, sid)
<1>7. G - V = H - U
  BY <1>1, <1>3, <1>4, AdditionBalances
<1>8. G \in Int /\ H \in Int /\ U \in Int /\ V \in Int /\ S \in Int
  <2>1. /\ ids \in [Keys -> TraceID] /\ ids' \in [Keys -> TraceID]
        /\ added \in [Records -> Nat] /\ added' \in [Records -> Nat]
    BY <1>3 DEF IInv, TypeOK
  <2> QED BY <2>1, HeldIsSum, StoredIsSum, StreamedIsWeight
<1>9. Balance(x, sid) = H + (S - 0)
  BY <1>2 DEF Balance, Paid, Taken
<1>10. Balance(x, sid)' = G + (S - 0)
  BY <1>2 DEF Balance, Paid, Taken
<1> HIDE DEF G, H, S, U, V
<1>11. Balance(x, sid)' - V = Balance(x, sid) - U
  BY <1>7, <1>8, <1>9, <1>10
<1> QED BY <1>2, <1>5, <1>6, <1>11 DEF U, V

(* Every step: nothing is lost, and nothing is repeated unless the list is *)
(* maintained or a packer is freed at work.                                *)
LEMMA StepPays ==
  ASSUME IsFiniteSet(Records), PackInv, PackInv', stream \in Seq(StreamRecord), KeyedBy(ids),
         [PackNext]_allVars, NEW x, NEW sid
  PROVE  /\ stream' \in Seq(StreamRecord) /\ KeyedBy(ids')
         /\ Balance(x, sid)' - StoredIn(added', x, sid) >= Balance(x, sid) - StoredIn(added, x, sid)
         /\ ~MaintainList /\ (GenFree => ~sp.active) =>
              Balance(x, sid)' - StoredIn(added', x, sid) = Balance(x, sid) - StoredIn(added, x, sid)
<1> DEFINE B == Balance(x, sid)
           C == Balance(x, sid)'
           U == StoredIn(added, x, sid)
           exact == ~MaintainList /\ (GenFree => ~sp.active)
<1>1. /\ ListOK(ids) /\ Packing(sp, gen, call, ids) /\ added \in [Records -> Nat]
      /\ ListOK(ids') /\ Packing(sp', gen', call', ids')
  <2>1. ListOK(ids) /\ Packing(sp, gen, call, ids) /\ added \in [Records -> Nat]
    BY IInvList DEF PackInv
  <2>2. ListOK(ids') /\ Packing(sp', gen', call', ids')
    BY DEF PackInv, IInv, TypeOK, SegmentsCounted, ListOK, IDOK, Packing, Working, Positions, SegAt
  <2> QED BY <2>1, <2>2
<1>2. B \in Int /\ U \in Int
  BY <1>1, BalanceInt, StoredIsSum
<1>3. ASSUME stream' \in Seq(StreamRecord) PROVE C \in Int
  BY <1>3, PrimedInt
<1>4. ASSUME Pays(x, sid, exact)
      PROVE  /\ stream' \in Seq(StreamRecord) /\ KeyedBy(ids')
             /\ C - StoredIn(added', x, sid) >= B - U
             /\ exact => C - StoredIn(added', x, sid) = B - U
  <2>1. stream' \in Seq(StreamRecord) /\ KeyedBy(ids') /\ added' = added /\ C >= B /\ (exact => C = B)
    BY <1>4 DEF Pays
  <2>2. C \in Int /\ StoredIn(added', x, sid) = U
    BY <1>3, <2>1
  <2> HIDE DEF B, C, U, exact
  <2> QED BY <1>2, <2>1, <2>2
<1>5. ASSUME NEW e, Pays(x, sid, e), exact => e PROVE Pays(x, sid, exact)
  BY <1>5 DEF Pays
<1>6. CASE Add
  <2>1. /\ stream' \in Seq(StreamRecord) /\ KeyedBy(ids')
        /\ C - StoredIn(added', x, sid) = B - U
    BY <1>6, AddPays
  <2> HIDE DEF B, C, U
  <2>2. B - U >= B - U
    BY <1>2
  <2>3. C - StoredIn(added', x, sid) >= B - U
    BY <2>1, <2>2
  <2> QED BY <2>1, <2>3 DEF B, C, U
<1>7. CASE UNCHANGED allVars \/ Tick
  <2>1. /\ ids' = ids /\ added' = added /\ sp' = sp /\ gen' = gen /\ call' = call /\ stream' = stream
    BY <1>7 DEF allVars, Tick
  <2>2. C = B
    BY <2>1 DEF Balance, MaintainList
  <2> HIDE DEF B, C, U, exact
  <2>3. Pays(x, sid, exact)
    BY <1>2, <2>1, <2>2 DEF Pays, B, C
  <2> QED BY <1>4, <2>3 DEF B, C, U, exact
<1>8. CASE GenInit \/ CallPack \/ CallPackSegment \/ CallNextID \/ CallReturn
  <2>1. /\ ids' = ids /\ added' = added /\ stream' = stream /\ sp' = sp
    BY <1>8 DEF GenInit, CallPack, CallPackSegment, CallNextID, CallReturn
  <2>2. ~sp.active
    <3>1. CASE GenInit \/ CallPack \/ CallPackSegment
      BY <3>1 DEF GenInit, CallPack, CallPackSegment, Idle
    <3>2. CASE CallNextID
      BY <1>1, <3>2 DEF CallNextID, Here, Packing, Working
    <3>3. CASE CallReturn
      <4>1. call.kind # "none" /\ call.at.id > Len(IdOrder)
        BY <3>3 DEF CallReturn
      <4>2. call.at \notin Positions(ids)
        <5> SUFFICES ASSUME call.at \in Positions(ids) PROVE FALSE
          OBVIOUS
        <5>1. call.at.id \in 1 .. Len(IdOrder) /\ Len(IdOrder) \in Nat
          BY <1>1, PositionSegment, OrderFacts
        <5> QED BY <4>1, <5>1
      <4> QED BY <1>1, <4>1, <4>2 DEF Packing, Working
    <3> QED BY <1>8, <3>1, <3>2, <3>3
  <2>3. Pays(x, sid, ~sp.active)
    BY <2>1, <2>2, InactivePays
  <2> QED BY <1>4, <1>5, <2>2, <2>3
<1>9. CASE GenFree
  <2>1. ids' = ids /\ added' = added /\ stream' = stream /\ ~sp'.active
    BY <1>9, NoneTypes DEF GenFree
  <2>2. Pays(x, sid, ~sp.active)
    BY <2>1, InactivePays
  <2> QED BY <1>4, <1>5, <1>9, <2>2
<1>10. CASE \E flush \in PackerFlush : GenNext(flush)
  <2>1. PICK flush \in PackerFlush : GenNext(flush)
    BY <1>10
  <2>2. flush \in BOOLEAN
    BY PackingAssumption
  <2>3. Pays(x, sid, ~MaintainList)
    BY <2>1, <2>2, GenNextPays
  <2> QED BY <1>4, <1>5, <2>3
<1>11. CASE CallStart \/ CallEmit
  <2>1. Pays(x, sid, ~MaintainList)
    BY <1>11, CallRecordsPay
  <2> QED BY <1>4, <1>5, <2>1
<1>12. CASE CallFinish \/ CallError
  <2>1. Pays(x, sid, TRUE)
    BY <1>12, CallLeavesPay
  <2> QED BY <1>4, <1>5, <2>1
<1> QED BY <1>6, <1>7, <1>8, <1>9, <1>10, <1>11, <1>12 DEF PackNext, CallStep

(* Whatever is stored is in the list or in the stream. *)
Saved == \A x \in Int : \A sid \in Sids : Balance(x, sid) >= StoredIn(added, x, sid)

(* Whatever is stored is there once, but for what a packer has taken.      *)
Settled == \A x \in Int : \A sid \in Sids : Balance(x, sid) = StoredIn(added, x, sid)

LEMMA InitSettled ==
  ASSUME IsFiniteSet(Records), PackInit
  PROVE  stream \in Seq(StreamRecord) /\ KeyedBy(ids) /\ Saved /\ Settled
<1>1. /\ ids = [k \in Keys |-> NoTraceID] /\ added = [rec \in Records |-> 0]
      /\ sp = NoPacker /\ stream = <<>> /\ ~sp.active
  BY NoneTypes DEF PackInit
<1>2. stream \in Seq(StreamRecord) /\ KeyedBy(ids)
  BY <1>1 DEF KeyedBy, NoTraceID
<1>3. Balanced
  BY <1>1, EmptyBalanced
<1>4. ids \in [Keys -> TraceID]
  BY <1>1 DEF NoTraceID, TraceID, Version
<1>5. ASSUME NEW x \in Int, NEW sid \in Sids
      PROVE  Balance(x, sid) = StoredIn(added, x, sid) /\ Balance(x, sid) >= StoredIn(added, x, sid)
  <2>1. StreamedIn(stream, x, sid) = 0
    <3> DEFINE w == Gives(x, sid)
    <3>1. w \in [StreamRecord -> Int] /\ StreamedIn(stream, x, sid) = Weigh(w, stream)
      BY <1>2, StreamedIsWeight
    <3> HIDE DEF w
    <3> QED BY <1>1, <3>1, WeighEmpty
  <2>2. Taken(sp, MaintainList, x, sid) = 0
    BY <1>1 DEF Taken
  <2>3. HeldIn(ids, x, sid) \in Int
    BY <1>4, HeldIsSum
  <2>4. HeldIn(ids, x, sid) = StoredIn(added, x, sid)
    BY <1>3 DEF Balanced
  <2> DEFINE H == HeldIn(ids, x, sid)
  <2>5. Balance(x, sid) = H + (0 - 0)
    BY <2>1, <2>2 DEF Balance, Paid
  <2> HIDE DEF H
  <2>6. H \in Int /\ H + (0 - 0) = H /\ H >= H
    BY <2>3 DEF H
  <2> QED BY <2>4, <2>5, <2>6 DEF H
<1> QED BY <1>2, <1>5 DEF Saved, Settled

(* Whatever fails, nothing is lost: every sample of a stored record is in  *)
(* the list or in the stream, however often and in whatever order records  *)
(* are added, packed in part, trimmed, removed with their segment, refused *)
(* by the encoder, or left behind by a packer that is freed early.         *)
THEOREM NothingIsLost ==
  ASSUME IsFiniteSet(Records), SamplesCounted
  PROVE  PackSpec => []NothingLost
<1> DEFINE Inv == stream \in Seq(StreamRecord) /\ KeyedBy(ids) /\ Saved
<1>1. PackInit => Inv
  BY InitSettled
<1>2. PackInv /\ PackInv' /\ Inv /\ [PackNext]_allVars => Inv'
  <2> SUFFICES ASSUME PackInv, PackInv', Inv, [PackNext]_allVars PROVE Inv'
    OBVIOUS
  <2>1. stream' \in Seq(StreamRecord) /\ KeyedBy(ids')
    BY StepPays
  <2>2. ASSUME NEW x \in Int, NEW sid \in Sids
        PROVE  Balance(x, sid)' >= StoredIn(added', x, sid)
    <3> DEFINE B == Balance(x, sid)
               C == Balance(x, sid)'
               U == StoredIn(added, x, sid)
               V == StoredIn(added', x, sid)
    <3>1. C - V >= B - U
      BY StepPays
    <3>2. B >= U
      BY DEF Saved
    <3>3. B \in Int /\ U \in Int
      BY IInvList, BalanceInt, StoredIsSum DEF PackInv
    <3>4. C \in Int /\ V \in Int
      BY <2>1, PrimedInt
    <3> HIDE DEF B, C, U, V
    <3>5. C >= V
      BY <3>1, <3>2, <3>3, <3>4
    <3> QED BY <3>5 DEF C, V
  <2> QED BY <2>1, <2>2 DEF KeyedBy, Saved
<1>3. PackInv /\ Inv => NothingLost
  <2> SUFFICES ASSUME PackInv, Inv, NEW rec \in Records, NEW x \in Range(rec.data)
               PROVE  HeldFor(x, rec.sid) + Streamed(x, rec.sid) >= StoredFor(x, rec.sid)
    BY DEF NothingLost
  <2> DEFINE sid == rec.sid
             H == HeldIn(ids, x, sid)
             S == StreamedIn(stream, x, sid)
             T == Taken(sp, MaintainList, x, sid)
             U == StoredIn(added, x, sid)
  <2>1. sid \in Sids /\ x \in Int
    BY RecordFields DEF RecordType, Range
  <2>2. H \in Int /\ S \in Int /\ T \in Nat /\ Balance(x, sid) = H + S - T
    BY IInvList, BalanceInt DEF PackInv
  <2>3. Balance(x, sid) >= U
    BY <2>1 DEF Saved
  <2>4. U \in Int
    BY IInvList, StoredIsSum DEF PackInv
  <2>5. HeldFor(x, rec.sid) = H /\ Streamed(x, rec.sid) = S /\ StoredFor(x, rec.sid) = U
    BY DEF HeldFor, HeldIn, KeysOf, Streamed, StreamedIn, StoredFor, StoredIn, RecordsOf
  <2> HIDE DEF H, S, T, U
  <2> QED BY <2>2, <2>3, <2>4, <2>5
<1> QED BY <1>1, <1>2, <1>3, PackInvariance, PTL DEF PackSpec

(* A packer that is used to its end and leaves the list to be emptied.     *)
Careful ==
  /\ ~gen.keep /\ ~call.keep
  /\ gen.open => /\ call.kind = "none" /\ gen.ret # "error"
                 /\ gen.ret = "done" => ~sp.active

LEMMA CarefulKept ==
  ASSUME IsFiniteSet(Records), PackInv, stream \in Seq(StreamRecord), KeyedBy(ids),
         PackerMaintain = {FALSE}, Unencodable = {}, Careful, [PackNext]_allVars
  PROVE  Careful'
<1>1. gen \in GenType /\ call \in CallType
  BY DEF PackInv, Packing
<1>2. CASE UNCHANGED allVars \/ Add \/ Tick
  BY <1>2 DEF allVars, Add, Tick, Careful
<1>3. CASE GenInit
  <2>1. PICK flush \in PackerFlush, keep \in PackerMaintain :
          gen' = [NoGen EXCEPT !.open = TRUE, !.flush = flush, !.keep = keep]
    BY <1>3 DEF GenInit
  <2>2. gen'.keep = FALSE /\ gen'.ret = "none"
    BY <2>1 DEF NoGen
  <2>3. call' = call /\ call.kind = "none"
    BY <1>3 DEF GenInit, Idle
  <2> QED BY <2>2, <2>3 DEF Careful
<1>4. CASE \E flush \in PackerFlush : GenNext(flush)
  <2>1. PICK flush \in PackerFlush : GenNext(flush)
    BY <1>4
  <2>2. flush \in BOOLEAN
    BY PackingAssumption
  <2>3. /\ gen'.open = gen.open /\ gen'.keep = gen.keep
        /\ gen'.ret = "done" => ~sp'.active
        /\ gen'.ret = "error" => Unencodable # {}
    BY <2>1, <2>2, GenNextPays
  <2>4. call' = call /\ gen.open
    BY <2>1 DEF GenNext
  <2> QED BY <2>3, <2>4 DEF Careful
<1>5. CASE GenFree
  <2>1. gen'.open = FALSE /\ gen'.keep = gen.keep /\ call' = call
    BY <1>1, <1>5 DEF GenFree, GenType
  <2> QED BY <2>1 DEF Careful
<1>6. CASE CallPack \/ CallPackSegment
  <2>1. ~gen.open /\ gen' = gen /\ ~call'.keep
    BY <1>6 DEF CallPack, CallPackSegment
  <2> QED BY <2>1 DEF Careful
<1>7. CASE CallStep
  <2>1. call.kind # "none" /\ gen' = gen
    BY <1>7 DEF CallStep, CallStart, CallEmit, CallFinish, CallError, CallNextID, CallReturn, Here
  <2>2. call' \in {call, NoCall, [call EXCEPT !.at.seg = @ + 1], [call EXCEPT !.at = At(@.id + 1, 1)]}
    BY <1>7 DEF CallStep, CallStart, CallEmit, CallFinish, CallError, CallNextID, CallReturn
  <2>3. ~call'.keep
    BY <1>1, <2>2 DEF CallType, NoCall, Careful
  <2> QED BY <2>1, <2>3 DEF Careful
<1> QED BY <1>2, <1>3, <1>4, <1>5, <1>6, <1>7 DEF PackNext

(* As a rolling buffer the trace list loses and repeats nothing: with an   *)
(* encoder that refuses no sample and packers used to their end, a sample  *)
(* of a stored record is exactly once in a segment or in a record of the   *)
(* stream, but for what the packer at work has streamed and not yet        *)
(* removed.                                                                *)
THEOREM EachSampleOnce ==
  ASSUME IsFiniteSet(Records), SamplesCounted, Unencodable = {}, ~FreeEarly
  PROVE  PackSpec => []SamplesStreamedOnce
<1>1. CASE PackerMaintain # {FALSE}
  <2>1. SamplesStreamedOnce
    BY <1>1 DEF SamplesStreamedOnce
  <2> QED BY <2>1, PTL
<1>2. CASE PackerMaintain = {FALSE}
  <2> DEFINE Inv == stream \in Seq(StreamRecord) /\ KeyedBy(ids) /\ Settled /\ Careful
  <2>1. PackInit => Inv
    <3>1. PackInit => Careful
      BY DEF PackInit, Careful, NoGen, NoCall
    <3> QED BY <3>1, InitSettled
  <2>2. PackInv /\ PackInv' /\ Inv /\ [PackNext]_allVars => Inv'
    <3> SUFFICES ASSUME PackInv, PackInv', Inv, [PackNext]_allVars PROVE Inv'
      OBVIOUS
    <3>1. stream' \in Seq(StreamRecord) /\ KeyedBy(ids')
      BY StepPays
    <3>2. ~MaintainList
      BY DEF Careful, MaintainList
    <3>3. GenFree => ~sp.active
      BY DEF GenFree, Careful
    <3>4. ASSUME NEW x \in Int, NEW sid \in Sids
          PROVE  Balance(x, sid)' = StoredIn(added', x, sid)
      <4> DEFINE B == Balance(x, sid)
                 C == Balance(x, sid)'
                 U == StoredIn(added, x, sid)
                 V == StoredIn(added', x, sid)
      <4>1. C - V = B - U
        BY <3>2, <3>3, StepPays
      <4>2. B = U
        BY DEF Settled
      <4>3. B \in Int /\ U \in Int
        BY IInvList, BalanceInt, StoredIsSum DEF PackInv
      <4>4. C \in Int /\ V \in Int
        BY <3>1, PrimedInt
      <4> HIDE DEF B, C, U, V
      <4>5. C = V
        BY <4>1, <4>2, <4>3, <4>4
      <4> QED BY <4>5 DEF C, V
    <3>5. Careful'
      BY <1>2, CarefulKept
    <3> QED BY <3>1, <3>4, <3>5 DEF KeyedBy, Settled
  <2>3. PackInv /\ Inv => SamplesStreamedOnce
    <3> SUFFICES ASSUME PackInv, Inv, NEW rec \in Records, NEW x \in Range(rec.data)
                 PROVE  HeldFor(x, rec.sid) + Streamed(x, rec.sid)
                          = StoredFor(x, rec.sid)
                            + (IF sp.active /\ IdOrder[sp.at.id][1] = rec.sid
                               THEN Occurrences(x, InFlight) ELSE 0)
      BY DEF SamplesStreamedOnce
    <3> DEFINE sid == rec.sid
               H == HeldIn(ids, x, sid)
               S == StreamedIn(stream, x, sid)
               T == Taken(sp, MaintainList, x, sid)
               U == StoredIn(added, x, sid)
    <3>1. sid \in Sids /\ x \in Int
      BY RecordFields DEF RecordType, Range
    <3>2. H \in Int /\ S \in Int /\ T \in Nat /\ Balance(x, sid) = H + S - T
      BY IInvList, BalanceInt DEF PackInv
    <3>3. Balance(x, sid) = U
      BY <3>1 DEF Settled
    <3>4. U \in Int
      BY IInvList, StoredIsSum DEF PackInv
    <3>5. HeldFor(x, rec.sid) = H /\ Streamed(x, rec.sid) = S /\ StoredFor(x, rec.sid) = U
      BY DEF HeldFor, HeldIn, KeysOf, Streamed, StreamedIn, StoredFor, StoredIn, RecordsOf
    <3>6. T = IF sp.active /\ IdOrder[sp.at.id][1] = rec.sid THEN Occurrences(x, InFlight) ELSE 0
      <4>1. ~MaintainList
        BY DEF Careful, MaintainList
      <4> QED BY <4>1 DEF Taken, For, Among, InFlight
    <3> HIDE DEF H, S, T, U
    <3>7. H + S = U + T
      BY <3>2, <3>3, <3>4
    <3> QED BY <3>5, <3>6, <3>7
  <2> QED BY <2>1, <2>2, <2>3, PackInvariance, PTL DEF PackSpec
<1> QED BY <1>1, <1>2

(* What the rolling buffer streams is the data that was added: each sample *)
(* once, at its own time, in complete records until a flush.               *)
THEOREM StreamIsFaithful ==
  ASSUME IsFiniteSet(Records), AlignedRecords, UserRateTol = 0, Unencodable = {}, ~FreeEarly
  PROVE  PackSpec => []StreamFaithful
<1>1. SamplesCounted
  BY AlignedCounted
<1>2. SamplesStreamedOnce /\ StreamTimesExact /\ OnlyCompleteRecords => StreamFaithful
  BY DEF StreamFaithful
<1>3. PackSpec => []SamplesStreamedOnce
  BY <1>1, EachSampleOnce
<1>4. PackSpec => []StreamTimesExact
  BY StreamedAtTheirTimes
<1>5. PackSpec => []OnlyCompleteRecords
  BY <1>1, CompleteRecords
<1> QED BY <1>2, <1>3, <1>4, <1>5, PTL

-----------------------------------------------------------------------------
(* How far a packer that maintains the list has come.                      *)

(* The samples of a segment, of a record, and of every ID of a list.       *)
Size == [s \in Segment |-> Len(s.data)]
RecordSize == [rec \in Records |-> Len(rec.data)]
Sizes(list) == [k \in Keys |-> Weigh(Size, list[k].segs)]

Total(list) == SumOn(Sizes(list), Keys)

LEMMA SizeAdditive ==
  ASSUME now \in Nat
  PROVE  Additive(Size, RecordSize)
<1> DEFINE w == Size
           d == RecordSize
<1>1. \A s \in Segment : s.data \in Seq(Int) /\ w[s] = Len(s.data) /\ Len(s.data) \in Int
  BY LenProperties DEF Segment, Size
<1>2. \A rec \in Records : rec.data \in Seq(Int) /\ d[rec] = Len(rec.data) /\ Len(rec.data) \in Int
  BY RecordFields, LenProperties DEF RecordType, RecordSize
<1>3. w \in [Segment -> Int] /\ d \in [Records -> Int]
  BY <1>1, <1>2 DEF Size, RecordSize
<1> HIDE DEF w, d
<1>8. \A u, v \in Seq(Int) : Len(u \o v) = Len(u) + Len(v)
  BY ConcatProperties
<1>4. ASSUME NEW s \in Segment PROVE w[Stamp(s)] = w[s]
  <2>1. Stamp(s) \in Segment /\ Stamp(s).data = s.data
    BY StampFields DEF Stamp, Segment
  <2> QED BY <1>1, <2>1
<1>5. ASSUME NEW rec \in Records PROVE w[Msr2Seg(rec)] = d[rec]
  <2>1. Msr2Seg(rec) \in Segment
    <3>1. rec \in RecordType /\ EndTime(rec) \in Int /\ RecordPtrs(rec) \in Seq(Records)
      BY RecordFields
    <3> QED BY <3>1 DEF RecordType, Msr2Seg, Segment
  <2>2. Msr2Seg(rec).data = rec.data
    BY DEF Msr2Seg
  <2> QED BY <1>1, <1>2, <2>1, <2>2
<1>6. ASSUME NEW rec \in Records, NEW s \in Segment
      PROVE  w[AddMsrToEnd(s, rec)] = w[s] + d[rec] /\ w[AddMsrToStart(s, rec)] = w[s] + d[rec]
  <2>1. AddMsrToEnd(s, rec) \in Segment /\ AddMsrToStart(s, rec) \in Segment
    BY SegmentFields
  <2>2. AddMsrToEnd(s, rec).data = s.data \o rec.data /\ AddMsrToStart(s, rec).data = rec.data \o s.data
    BY DEF AddMsrToEnd, AddMsrToStart, Segment
  <2>3. /\ Len(s.data \o rec.data) = w[s] + d[rec]
        /\ Len(rec.data \o s.data) = d[rec] + w[s]
    BY <1>1, <1>2, <1>8
  <2>4. w[s] \in Int /\ d[rec] \in Int
    BY <1>3
  <2>5. /\ w[AddMsrToEnd(s, rec)] = Len(s.data \o rec.data)
        /\ w[AddMsrToStart(s, rec)] = Len(rec.data \o s.data)
    BY <1>1, <2>1, <2>2
  <2> QED BY <2>3, <2>4, <2>5
<1>7. ASSUME NEW s1 \in Segment, NEW s2 \in Segment
      PROVE  w[AddSegToSeg(s1, s2)] = w[s1] + w[s2]
  <2>1. AddSegToSeg(s1, s2) \in Segment
    BY MergedFields
  <2>2. AddSegToSeg(s1, s2).data = s1.data \o s2.data
    BY DEF AddSegToSeg, Segment
  <2>3. Len(s1.data \o s2.data) = w[s1] + w[s2]
    BY <1>1, <1>8
  <2> QED BY <1>1, <2>1, <2>2, <2>3
<1> QED BY <1>3, <1>4, <1>5, <1>6, <1>7 DEF Additive, w, d

LEMMA SizesFacts ==
  ASSUME IsFiniteSet(Records), NEW list, ListOK(list)
  PROVE  /\ Integral(Sizes(list), Keys)
         /\ \A k \in Keys :
              /\ list[k].segs \in Seq(Segment)
              /\ Sizes(list)[k] = SumOn(Weights(Size, list[k].segs), 1 .. Len(list[k].segs))
              /\ Integral(Weights(Size, list[k].segs), 1 .. Len(list[k].segs))
              /\ \A i \in 1 .. Len(list[k].segs) : /\ Weights(Size, list[k].segs)[i] = Len(list[k].segs[i].data)
                                                   /\ 0 <= Weights(Size, list[k].segs)[i]
              /\ 0 <= Sizes(list)[k]
<1>1. Size \in [Segment -> Int]
  <2>1. ASSUME NEW s \in Segment PROVE Len(s.data) \in Int
    <3>1. s.data \in Seq(Int)
      BY DEF Segment
    <3> QED BY <3>1, LenProperties
  <2> QED BY <2>1 DEF Size
<1>2. ASSUME NEW k \in Keys
      PROVE  /\ list[k].segs \in Seq(Segment)
             /\ Sizes(list)[k] = SumOn(Weights(Size, list[k].segs), 1 .. Len(list[k].segs))
             /\ Integral(Weights(Size, list[k].segs), 1 .. Len(list[k].segs))
             /\ \A i \in 1 .. Len(list[k].segs) : /\ Weights(Size, list[k].segs)[i] = Len(list[k].segs[i].data)
                                                  /\ 0 <= Weights(Size, list[k].segs)[i]
             /\ Sizes(list)[k] \in Int /\ 0 <= Sizes(list)[k]
  <2> DEFINE s == list[k].segs
             f == Weights(Size, s)
             D == 1 .. Len(s)
  <2>1. s \in Seq(Segment)
    BY DEF ListOK, IDOK, TraceID
  <2>2. Sizes(list)[k] = Weigh(Size, s)
    BY DEF Sizes
  <2>3. Weigh(Size, s) = SumOn(f, D) /\ Weigh(Size, s) \in Int /\ Integral(f, D)
    BY <1>1, <2>1, WeighIsSum
  <2>4. ASSUME NEW i \in D PROVE f[i] = Len(s[i].data) /\ 0 <= f[i] /\ f[i] <= f[i]
    <3>1. s[i] \in Segment
      BY <2>1, ElementOfSeq
    <3>2. Len(s[i].data) \in Nat
      <4>1. s[i].data \in Seq(Int)
        BY <3>1 DEF Segment
      <4> QED BY <4>1, LenProperties
    <3>3. f[i] = Len(s[i].data)
      BY <3>1 DEF Weights, Size
    <3> QED BY <3>2, <3>3
  <2>5. 0 <= SumOn(f, D)
    <3> HIDE DEF f, D
    <3>1. {} \in SUBSET D
      OBVIOUS
    <3>2. SumOn(f, {}) <= SumOn(f, D)
      BY <2>3, <2>4, <3>1, SumOnGrows
    <3> QED BY <3>2, SumOnEmpty
  <2> QED BY <2>1, <2>2, <2>3, <2>4, <2>5
<1>3. Integral(Sizes(list), Keys)
  BY <1>2, FiniteParts DEF Integral
<1> QED BY <1>2, <1>3

(* The keys that come before the ID at place n of the list.                *)
Before(n) == {IdOrder[id] : id \in {m \in DOMAIN IdOrder : m < n}}

(* The samples before the segment at p.                                    *)
Passed(list, p) ==
  SumOn(Sizes(list), Before(p.id))
    + SumOn(Weights(Size, list[IdOrder[p.id]].segs), 1 .. p.seg - 1)

(* The segment at p and all before it are among the IDs up to p.           *)
LEMMA PassedWithin ==
  ASSUME IsFiniteSet(Records), NEW list, ListOK(list), NEW p \in Positions(list),
         NEW T \in SUBSET Keys, Before(p.id) \subseteq T, IdOrder[p.id] \in T
  PROVE  /\ Passed(list, p) \in Int /\ 0 <= Passed(list, p)
         /\ Len(SegAt(list, p).data) \in Nat
         /\ Passed(list, p) + Len(SegAt(list, p).data) <= SumOn(Sizes(list), T)
<1> DEFINE k == IdOrder[p.id]
           L == Sizes(list)
           B == Before(p.id)
           f == Weights(Size, list[k].segs)
           D == 1 .. Len(list[k].segs)
           a == SumOn(L, B)
           b == SumOn(f, 1 .. p.seg - 1)
           len == Len(SegAt(list, p).data)
<1>1. /\ k \in Keys /\ p.id \in 1 .. Len(IdOrder) /\ p.seg \in 1 .. Len(list[k].segs)
      /\ SegAt(list, p) = list[k].segs[p.seg] /\ SegAt(list, p) \in Segment /\ Len(list[k].segs) \in Nat
  BY PositionSegment, LenProperties
<1>2. Integral(L, Keys) /\ \A j \in Keys : 0 <= L[j] /\ L[j] <= L[j]
  <2>1. Integral(L, Keys) /\ \A j \in Keys : 0 <= L[j]
    BY SizesFacts
  <2>2. \A j \in Keys : L[j] \in Int
    BY <2>1 DEF Integral
  <2> HIDE DEF L
  <2> QED BY <2>1, <2>2
<1>3. /\ L[k] = SumOn(f, D) /\ Integral(f, D) /\ f[p.seg] = len
      /\ \A i \in D : 0 <= f[i] /\ f[i] <= f[i]
  <2>1. /\ L[k] = SumOn(f, D) /\ Integral(f, D)
        /\ \A i \in D : f[i] = Len(list[k].segs[i].data) /\ 0 <= f[i]
    <3>1. k \in Keys
      BY <1>1
    <3> HIDE DEF k
    <3> QED BY <3>1, SizesFacts
  <2>3. f[p.seg] = len
    BY <1>1, <2>1
  <2>2. \A i \in D : f[i] \in Int
    BY <2>1 DEF Integral
  <2> HIDE DEF f, len
  <2> QED BY <2>1, <2>2, <2>3
<1>4. len \in Nat
  <2>1. SegAt(list, p).data \in Seq(Int)
    BY <1>1 DEF Segment
  <2> QED BY <2>1, LenProperties
<1>5. B \subseteq Keys /\ k \notin B /\ B \cup {k} \subseteq T
  <2>1. \A m \in DOMAIN IdOrder : IdOrder[m] \in Keys
    BY OrderFacts
  <2>2. ASSUME k \in B PROVE FALSE
    <3>1. PICK m \in DOMAIN IdOrder : m < p.id /\ IdOrder[m] = IdOrder[p.id]
      BY <2>2 DEF Before
    <3>2. p.id \in DOMAIN IdOrder
      BY <1>1, OrderFacts
    <3>3. m = p.id
      BY <3>1, <3>2, PackingAssumption DEF IsInjective
    <3>4. p.id \in Nat
      BY <1>1, OrderFacts
    <3> QED BY <3>1, <3>3, <3>4
  <2> QED BY <2>1, <2>2 DEF Before
<1> DEFINE E == 1 .. p.seg - 1
           N == 1 .. p.seg
<1>6. /\ E \in SUBSET D /\ N \in SUBSET D /\ p.seg \in N /\ N \ {p.seg} = E
  BY <1>1
<1> HIDE DEF L, f, D, len, B, k, N, E
<1>7. b = SumOn(f, E)
  BY DEF b, E
<1> HIDE DEF a, b
<1>8. /\ Integral(f, E) /\ Integral(f, N) /\ b \in Int /\ SumOn(f, N) \in Int /\ L[k] \in Int
  <2>1. Integral(f, E) /\ Integral(f, N)
    BY <1>3, <1>6, FS_Subset DEF Integral
  <2>2. L[k] \in Int
    BY <1>1, <1>2 DEF Integral
  <2> QED BY <1>7, <2>1, <2>2, SumOnInt
<1>9. SumOn(f, N) = len + b
  BY <1>3, <1>6, <1>7, <1>8, SumOnOut
<1>10. SumOn(f, N) <= L[k]
  BY <1>3, <1>6, SumOnGrows
<1>11. 0 <= b
  <2>1. {} \in SUBSET E
    OBVIOUS
  <2>2. \A i \in E : 0 <= f[i] /\ f[i] <= f[i]
    BY <1>3, <1>6
  <2>3. SumOn(f, {}) <= SumOn(f, E)
    BY <1>8, <2>1, <2>2, SumOnGrows
  <2> QED BY <1>7, <2>3, SumOnEmpty
<1> DEFINE C == B \cup {k}
<1>12. /\ C \in SUBSET T /\ C \in SUBSET Keys /\ C \ {k} = B /\ k \in C
       /\ Integral(L, B) /\ Integral(L, C) /\ Integral(L, T)
  BY <1>2, <1>5, FS_Subset DEF Integral
<1> HIDE DEF C
<1>13. a \in Int /\ SumOn(L, C) \in Int /\ SumOn(L, T) \in Int /\ a = SumOn(L, B)
  BY <1>12, SumOnInt DEF a
<1>14. SumOn(L, C) = L[k] + a
  BY <1>12, <1>13, SumOnOut
<1>15. SumOn(L, C) <= SumOn(L, T)
  <2>1. \A j \in T : 0 <= L[j] /\ L[j] <= L[j]
    BY <1>2
  <2> QED BY <1>12, <2>1, SumOnGrows
<1>16. 0 <= a
  <2>1. {} \in SUBSET B
    OBVIOUS
  <2>2. \A j \in B : 0 <= L[j] /\ L[j] <= L[j]
    BY <1>2, <1>5
  <2>3. SumOn(L, {}) <= SumOn(L, B)
    BY <1>12, <2>1, <2>2, SumOnGrows
  <2> QED BY <1>13, <2>3, SumOnEmpty
<1>17. Passed(list, p) = a + b
  BY DEF Passed, a, b, L, B, f, k, E
<1>18. /\ a + b \in Int /\ 0 <= a + b /\ (a + b) + len <= SumOn(L, T)
  BY <1>4, <1>8, <1>9, <1>10, <1>11, <1>13, <1>14, <1>15, <1>16
<1> QED BY <1>4, <1>17, <1>18 DEF len, L

(* A later segment has all the samples of an earlier one before it.        *)
LEMMA PassedGrows ==
  ASSUME IsFiniteSet(Records), NEW list, ListOK(list),
         NEW p \in Positions(list), NEW q \in Positions(list), NotBefore(q, p)
  PROVE  /\ Passed(list, p) <= Passed(list, q)
         /\ q # p => Passed(list, p) + Len(SegAt(list, p).data) <= Passed(list, q)
<1> DEFINE k == IdOrder[p.id]
           L == Sizes(list)
           B == Before(q.id)
           f == Weights(Size, list[k].segs)
           D == 1 .. Len(list[k].segs)
           len == Len(SegAt(list, p).data)
           x == Passed(list, p)
           y == Passed(list, q)
<1>1. /\ k \in Keys /\ p \in Position /\ p.id \in 1 .. Len(IdOrder) /\ p.seg \in 1 .. Len(list[k].segs)
      /\ q \in Position /\ q.id \in 1 .. Len(IdOrder) /\ q.seg \in 1 .. Len(list[IdOrder[q.id]].segs)
      /\ p = At(p.id, p.seg) /\ q = At(q.id, q.seg) /\ IdOrder[q.id] \in Keys
      /\ SegAt(list, p) = list[k].segs[p.seg]
  BY PositionSegment
<1>2. /\ p.id \in Nat /\ p.seg \in Nat /\ q.id \in Nat /\ q.seg \in Nat /\ Len(list[k].segs) \in Nat
      /\ Len(list[IdOrder[q.id]].segs) \in Nat
  <2>1. list[k].segs \in Seq(Segment) /\ list[IdOrder[q.id]].segs \in Seq(Segment)
    BY PositionSegment
  <2> QED BY <1>1, <2>1, LenProperties DEF Position
<1>3. \A i : Before(i) \in SUBSET Keys
  BY OrderFacts DEF Before
<1>4. /\ x \in Int /\ 0 <= x /\ len \in Nat /\ x + len <= SumOn(L, Before(p.id) \cup {k})
      /\ y \in Int /\ 0 <= y
  <2>1. Before(p.id) \cup {k} \in SUBSET Keys
    BY <1>1, <1>3
  <2>2. x \in Int /\ 0 <= x /\ len \in Nat /\ x + len <= SumOn(L, Before(p.id) \cup {k})
    BY <2>1, PassedWithin
  <2>3. y \in Int /\ 0 <= y
    <3>1. Before(q.id) \subseteq Keys /\ IdOrder[q.id] \in Keys
      BY <1>1, <1>3
    <3> QED BY <3>1, PassedWithin
  <2> QED BY <2>2, <2>3
<1>5. CASE q = p
  BY <1>4, <1>5
<1>6. CASE q # p /\ q.id = p.id
  <2> DEFINE N == 1 .. p.seg
             E == 1 .. p.seg - 1
             Q == 1 .. q.seg - 1
             a == SumOn(L, B)
  <2>1. q.seg > p.seg
    BY <1>1, <1>2, <1>6 DEF NotBefore
  <2>2. /\ N \in SUBSET Q /\ Q \in SUBSET D /\ p.seg \in N /\ N \ {p.seg} = E
    BY <1>1, <1>2, <1>6, <2>1
  <2>3. /\ Integral(f, D) /\ \A i \in D : f[i] = Len(list[k].segs[i].data) /\ 0 <= f[i]
    <3> HIDE DEF k
    <3> QED BY <1>1, SizesFacts
  <2>4. f[p.seg] = len
    BY <1>1, <2>3
  <2>5. x = a + SumOn(f, E) /\ y = a + SumOn(f, Q)
    BY <1>6 DEF Passed
  <2>6. a \in Int
    <3>1. Integral(L, Keys)
      BY SizesFacts
    <3>2. Integral(L, B)
      BY <1>3, <3>1, FS_Subset DEF Integral
    <3> QED BY <3>2, SumOnInt
  <2> HIDE DEF N, E, Q, f, D, len, a, x, y
  <2>7. \A i \in Q : 0 <= f[i] /\ f[i] <= f[i]
    BY <2>2, <2>3 DEF Integral
  <2>8. Integral(f, Q) /\ Integral(f, N) /\ Integral(f, E)
    <3>1. IsFiniteSet(D) /\ N \subseteq D /\ E \subseteq D /\ Q \subseteq D
      BY <2>2, <2>3 DEF Integral
    <3>2. IsFiniteSet(N) /\ IsFiniteSet(E) /\ IsFiniteSet(Q)
      BY <3>1, FS_Subset
    <3> QED BY <3>1, <3>2, <2>3 DEF Integral
  <2>9. SumOn(f, N) <= SumOn(f, Q)
    BY <2>2, <2>7, <2>8, SumOnGrows
  <2>10. SumOn(f, N) = len + SumOn(f, E)
    BY <2>2, <2>4, <2>8, SumOnOut
  <2>11. SumOn(f, E) \in Int /\ SumOn(f, Q) \in Int
    BY <2>8, SumOnInt
  <2>12. x + len <= y /\ x <= y
    BY <1>4, <2>5, <2>6, <2>9, <2>10, <2>11
  <2> QED BY <2>12 DEF x, y, len
<1>7. CASE q.id # p.id
  <2> DEFINE C == Before(p.id) \cup {k}
             g == Weights(Size, list[IdOrder[q.id]].segs)
             Q == 1 .. q.seg - 1
             F == 1 .. Len(list[IdOrder[q.id]].segs)
  <2>1. p.id < q.id
    BY <1>2, <1>7 DEF NotBefore
  <2>2. C \in SUBSET B
    <3>1. p.id \in DOMAIN IdOrder
      BY <1>1, OrderFacts
    <3>2. DOMAIN IdOrder \subseteq Nat
      BY OrderFacts
    <3>3. \A m \in DOMAIN IdOrder : m < p.id => m < q.id
      BY <1>2, <2>1, <3>2
    <3> QED BY <2>1, <3>1, <3>3 DEF Before
  <2>3. Integral(L, B) /\ \A j \in B : 0 <= L[j] /\ L[j] <= L[j]
    <3>1. Integral(L, Keys) /\ \A j \in Keys : 0 <= L[j]
      BY SizesFacts
    <3>2. IsFiniteSet(B) /\ B \subseteq Keys
      BY <1>3, <3>1, FS_Subset DEF Integral
    <3>3. \A j \in B : L[j] \in Int /\ 0 <= L[j]
      BY <3>1, <3>2 DEF Integral
    <3> HIDE DEF L, B
    <3> QED BY <3>2, <3>3 DEF Integral
  <2>4. SumOn(L, C) <= SumOn(L, B)
    <3> HIDE DEF C, L, B
    <3> QED BY <2>2, <2>3, SumOnGrows
  <2>5. SumOn(L, C) \in Int /\ SumOn(L, B) \in Int
    <3>1. Integral(L, C)
      BY <2>2, <2>3, FS_Subset DEF Integral
    <3> HIDE DEF C, L, B
    <3> QED BY <2>3, <3>1, SumOnInt
  <2>6. Integral(g, F) /\ \A i \in F : 0 <= g[i]
    BY <1>1, SizesFacts
  <2>7. Q \in SUBSET F
    BY <1>1, <1>2
  <2>8. y = SumOn(L, B) + SumOn(g, Q)
    BY DEF Passed
  <2> HIDE DEF g, F, Q
  <2>9. SumOn(g, Q) \in Int /\ 0 <= SumOn(g, Q)
    <3>1. Integral(g, Q) /\ \A i \in Q : 0 <= g[i] /\ g[i] <= g[i]
      BY <2>6, <2>7, FS_Subset DEF Integral
    <3>2. {} \in SUBSET Q
      OBVIOUS
    <3>3. SumOn(g, {}) <= SumOn(g, Q)
      BY <3>1, <3>2, SumOnGrows
    <3> QED BY <3>1, <3>3, SumOnInt, SumOnEmpty
  <2>10. x + len <= SumOn(L, C)
    BY <1>4
  <2> HIDE DEF C, L, B, x, y, len
  <2>11. x + len <= y /\ x <= y
    BY <1>4, <2>4, <2>5, <2>8, <2>9, <2>10
  <2> QED BY <2>11 DEF x, y, len
<1> QED BY <1>5, <1>6, <1>7

(* How far a packer g that maintains the list and flushes has come, with a *)
(* record packer p at work: it has put into records no more samples than   *)
(* there are before its place, and those its record packer has packed.     *)
Once(p, g, list) ==
  g.open /\ g.keep /\ g.flush =>
    IF g.finished THEN ~p.active /\ g.sent <= Total(list)
    ELSE IF p.active THEN p.at = g.at /\ g.sent <= Passed(list, p.at) + p.packed
    ELSE IF g.at.id # 0 THEN g.at \in Positions(list) /\ g.sent <= Passed(list, g.at)
    ELSE g.sent = 0

(* The scan goes on from the place it kept, or from the beginning.         *)
LEMMA ScanOnce ==
  ASSUME IsFiniteSet(Records), ListOK(ids), gen \in GenType,
         gen.open, gen.keep, gen.flush, ~gen.finished,
         NEW at \in Position, NEW total \in Nat, NEW flush \in BOOLEAN, Scan(ids, at, total, flush),
         IF at.id # 0 THEN at \in Positions(ids) /\ gen.sent <= Passed(ids, at) ELSE gen.sent = 0
  PROVE  Once(sp', gen', ids)
<1> DEFINE from == ScanFrom(at)
           first == FirstReady(ids, from, gen.flush \/ flush)
           fl == gen.flush \/ flush \/ IsIdle(SegAt(ids, first))
           p == PackerFor(ids, first, fl)
<1>1. from = IF at.id # 0 THEN at ELSE At(1, 1)
  BY DEF ScanFrom, MaintainList
<1>2. \/ /\ first \in Ready(ids, TRUE) /\ first \in Positions(ids) /\ first.id # 0
         /\ NotBefore(first, from)
      \/ /\ first.id = 0 /\ \A q \in Ready(ids, TRUE) : ~NotBefore(q, from)
  <2> DEFINE f == gen.flush \/ flush
  <2>1. f = TRUE
    OBVIOUS
  <2> HIDE DEF f, from
  <2>2. FirstReady(ids, from, f) = FirstReady(ids, from, TRUE)
    BY <2>1
  <2>3. first = FirstReady(ids, from, TRUE)
    BY <2>2 DEF f
  <2> HIDE DEF first
  <2> QED BY <2>3, FirstReadyFacts
<1>3. \/ /\ first.id # 0
         /\ \E data \in Payloads(p) :
              \/ /\ Emit(p, data)
                 /\ gen' = [gen EXCEPT !.at = first, !.total = total, !.ret = "record",
                                       !.sent = @ + Len(data)]
              \/ /\ sp' = p
                 /\ gen' = [gen EXCEPT !.at = first, !.total = total, !.ret = "error"]
      \/ /\ first.id = 0
         /\ sp' = NoPacker
         /\ gen' = [gen EXCEPT !.ret = "done", !.total = total,
                               !.at = IF Tried(ids, from) = {} THEN at ELSE At(0, 0)]
  BY DEF Scan
<1>4. fl = TRUE
  OBVIOUS
<1>5. gen.sent \in Nat
  BY DEF GenType
<1>6. CASE first.id = 0
  <2>1. ASSUME NEW q \in Tried(ids, from) PROVE FALSE
    <3>1. q \in Positions(ids) /\ NotBefore(q, from) /\ SegAt(ids, q).data # <<>>
      BY DEF Tried
    <3>2. q \notin Ready(ids, TRUE)
      BY <1>2, <1>6, <3>1
    <3> QED BY <3>1, <3>2, NoRecordLeft
  <2>2. Tried(ids, from) = {}
    BY <2>1
  <2>3. sp' = NoPacker /\ gen' = [gen EXCEPT !.ret = "done", !.total = total, !.at = at]
    BY <1>3, <1>6, <2>2
  <2>4. ~sp'.active /\ gen'.at = at /\ gen'.sent = gen.sent /\ gen'.finished = gen.finished
    BY <2>3, NoneTypes DEF GenType
  <2> QED BY <2>4 DEF Once
<1>7. CASE first.id # 0
  <2> HIDE DEF first, fl
  <2>1. first \in Positions(ids) /\ NotBefore(first, from) /\ first \in Ready(ids, TRUE)
    BY <1>2, <1>7
  <2>2. /\ p \in PackerType /\ p.active = TRUE /\ p.at = first /\ p.packed = 0 /\ Working(p, ids)
    <3>1. fl \in BOOLEAN
      BY <1>4
    <3>2. first \in Positions(ids)
      BY <2>1
    <3> QED BY <3>1, <3>2, PackerForWorks
  <2>3. HasRecord(p)
    <3>1. HasRecord(PackerFor(ids, first, TRUE \/ IsIdle(SegAt(ids, first))))
      BY <2>1 DEF Ready
    <3>2. fl = (TRUE \/ IsIdle(SegAt(ids, first)))
      BY <1>4
    <3> QED BY <3>1, <3>2
  <2>4. PICK data \in Payloads(p) :
              \/ /\ Emit(p, data)
                 /\ gen' = [gen EXCEPT !.at = first, !.total = total, !.ret = "record",
                                       !.sent = @ + Len(data)]
              \/ /\ sp' = p
                 /\ gen' = [gen EXCEPT !.at = first, !.total = total, !.ret = "error"]
    BY <1>3, <1>7
  <2> HIDE DEF p
  <2>5. Len(data) \in Nat
    BY <2>2, <2>3, PayloadFacts DEF Working
  <2>6. Passed(ids, first) \in Int /\ 0 <= Passed(ids, first)
    <3>1. Before(first.id) \subseteq Keys /\ IdOrder[first.id] \in Keys
      BY <2>1, OrderFacts, PositionSegment DEF Before
    <3> QED BY <2>1, <3>1, PassedWithin
  <2>7. gen.sent <= Passed(ids, first)
    <3>1. CASE at.id # 0
      <4>1. at \in Positions(ids) /\ gen.sent <= Passed(ids, at) /\ NotBefore(first, at)
        BY <1>1, <2>1, <3>1
      <4>2. Passed(ids, at) <= Passed(ids, first)
        BY <2>1, <4>1, PassedGrows
      <4>3. Passed(ids, at) \in Int
        <5>1. Before(at.id) \subseteq Keys /\ IdOrder[at.id] \in Keys
          BY <4>1, OrderFacts, PositionSegment DEF Before
        <5> QED BY <4>1, <5>1, PassedWithin
      <4> QED BY <1>5, <2>6, <4>1, <4>2, <4>3
    <3>2. CASE at.id = 0
      BY <2>6, <3>2
    <3> QED BY <3>1, <3>2
  <2>8. CASE /\ Emit(p, data)
             /\ gen' = [gen EXCEPT !.at = first, !.total = total, !.ret = "record",
                                   !.sent = @ + Len(data)]
    <3>1. sp' = [p EXCEPT !.packed = @ + Len(data)]
      BY <2>8 DEF Emit
    <3>2. sp'.active = TRUE /\ sp'.at = first /\ sp'.packed = Len(data)
      BY <2>2, <2>5, <3>1 DEF PackerType
    <3>3. gen'.at = first /\ gen'.sent = gen.sent + Len(data) /\ gen'.finished = gen.finished
      BY <2>8 DEF GenType
    <3>4. gen'.sent <= Passed(ids, first) + Len(data)
      BY <1>5, <2>5, <2>6, <2>7, <3>3
    <3> QED BY <3>2, <3>3, <3>4 DEF Once
  <2>9. CASE /\ sp' = p
             /\ gen' = [gen EXCEPT !.at = first, !.total = total, !.ret = "error"]
    <3>1. sp'.active /\ sp'.at = first /\ sp'.packed = 0
      BY <2>2, <2>9
    <3>2. gen'.at = first /\ gen'.sent = gen.sent /\ gen'.finished = gen.finished
      BY <2>9 DEF GenType
    <3>3. gen'.sent <= Passed(ids, first) + 0
      BY <1>5, <2>6, <2>7, <3>2
    <3> QED BY <3>1, <3>2, <3>3 DEF Once
  <2> QED BY <2>4, <2>8, <2>9
<1> QED BY <1>6, <1>7

(* mstl3_pack_next() goes on with a segment, or leaves it for the next.    *)
LEMMA GenNextOnce ==
  ASSUME IsFiniteSet(Records), PackInv, gen.open, Once(sp, gen, ids),
         NEW flush \in BOOLEAN, GenNext(flush)
  PROVE  Once(sp', gen', ids')
<1>1. ListOK(ids) /\ Packing(sp, gen, call, ids) /\ ~gen.finished
  BY IInvList DEF PackInv, GenNext
<1>2. sp \in PackerType /\ gen \in GenType /\ (sp.active => Working(sp, ids)) /\ (~sp.active => sp = NoPacker)
  BY <1>1 DEF Packing
<1>3. gen.sent \in Nat /\ gen.total \in Nat /\ gen.at \in Position /\ sp.packed \in Nat
      /\ sp.flush \in BOOLEAN
  BY <1>2 DEF GenType, PackerType
<1>4. gen'.open = gen.open /\ gen'.keep = gen.keep /\ gen'.flush = gen.flush
  <2>1. \/ \E n : gen' = [gen EXCEPT !.ret = "record", !.sent = @ + n]
        \/ gen' = [gen EXCEPT !.ret = "error"]
        \/ gen' = [gen EXCEPT !.finished = TRUE, !.total = @ + sp.packed, !.ret = "done"]
        \/ \E a, t, n : gen' = [gen EXCEPT !.at = a, !.total = t, !.ret = "record", !.sent = @ + n]
        \/ \E a, t : gen' = [gen EXCEPT !.at = a, !.total = t, !.ret = "error"]
        \/ \E a, t : gen' = [gen EXCEPT !.ret = "done", !.total = t, !.at = a]
    <3>1. ASSUME NEW at, NEW list, NEW total, Scan(list, at, total, flush)
          PROVE  \/ \E a, t, n : gen' = [gen EXCEPT !.at = a, !.total = t, !.ret = "record", !.sent = @ + n]
                 \/ \E a, t : gen' = [gen EXCEPT !.at = a, !.total = t, !.ret = "error"]
                 \/ \E a, t : gen' = [gen EXCEPT !.ret = "done", !.total = t, !.at = a]
      <4> DEFINE first == FirstReady(list, ScanFrom(at), gen.flush \/ flush)
                 b == IF Tried(list, ScanFrom(at)) = {} THEN at ELSE At(0, 0)
      <4>1. \/ \E data : gen' = [gen EXCEPT !.at = first, !.total = total, !.ret = "record",
                                            !.sent = @ + Len(data)]
            \/ gen' = [gen EXCEPT !.at = first, !.total = total, !.ret = "error"]
            \/ gen' = [gen EXCEPT !.ret = "done", !.total = total, !.at = b]
        BY <3>1 DEF Scan
      <4> HIDE DEF first, b
      <4> QED BY <4>1
    <3>2. CASE GenContinue(flush)
      BY <3>2 DEF GenContinue
    <3>3. CASE GenAdvance(flush)
      BY <3>1, <3>3 DEF GenAdvance
    <3>4. CASE GenScan(flush)
      BY <3>1, <3>4 DEF GenScan
    <3> QED BY <3>2, <3>3, <3>4 DEF GenNext
  <2> QED BY <2>1, <1>2 DEF GenType
<1>5. CASE ~(gen.keep /\ gen.flush)
  BY <1>4, <1>5 DEF Once
<1>6. CASE gen.keep /\ gen.flush
  <2>1. MaintainList
    BY <1>6 DEF MaintainList
  <2>2. sp.active => /\ sp.at = gen.at /\ sp.at \in Positions(ids)
                     /\ gen.sent <= Passed(ids, sp.at) + sp.packed
                     /\ sp.data = SegAt(ids, sp.at).data /\ sp.packed <= Len(sp.data)
                     /\ Passed(ids, sp.at) \in Int /\ Len(sp.data) \in Nat
                     /\ Passed(ids, sp.at) + Len(sp.data) <= Total(ids)
    <3> SUFFICES ASSUME sp.active
                 PROVE  /\ sp.at = gen.at /\ sp.at \in Positions(ids)
                        /\ gen.sent <= Passed(ids, sp.at) + sp.packed
                        /\ sp.data = SegAt(ids, sp.at).data /\ sp.packed <= Len(sp.data)
                        /\ Passed(ids, sp.at) \in Int /\ Len(sp.data) \in Nat
                        /\ Passed(ids, sp.at) + Len(sp.data) <= Total(ids)
      OBVIOUS
    <3>1. sp.at = gen.at /\ gen.sent <= Passed(ids, sp.at) + sp.packed
      BY <1>1, <1>6 DEF Once
    <3>2. sp.at \in Positions(ids) /\ sp.data = SegAt(ids, sp.at).data /\ sp.packed \in 0 .. Len(sp.data)
      BY <1>2 DEF Working
    <3>3. Before(sp.at.id) \subseteq Keys /\ IdOrder[sp.at.id] \in Keys /\ Keys \in SUBSET Keys
      BY <1>1, <3>2, OrderFacts, PositionSegment DEF Before
    <3>4. /\ Passed(ids, sp.at) \in Int /\ Len(sp.data) \in Nat
          /\ Passed(ids, sp.at) + Len(sp.data) <= Total(ids)
      BY <1>1, <3>2, <3>3, PassedWithin DEF Total
    <3>5. sp.packed <= Len(sp.data)
      BY <3>2, <3>4
    <3> QED BY <3>1, <3>2, <3>4, <3>5
  <2>3. CASE GenContinue(flush)
    <3> DEFINE p == [sp EXCEPT !.flush = @ \/ flush]
    <3>1. sp.active /\ HasRecord(p) /\ ids' = ids
      BY <2>3 DEF GenContinue
    <3>2. PICK data \in Payloads(p) :
             \/ /\ Emit(p, data)
                /\ gen' = [gen EXCEPT !.ret = "record", !.sent = @ + Len(data)]
             \/ /\ sp' = p /\ gen' = [gen EXCEPT !.ret = "error"]
      BY <2>3 DEF GenContinue
    <3>3. /\ p \in PackerType /\ p.active = sp.active /\ p.at = sp.at /\ p.data = sp.data
          /\ p.packed = sp.packed
      <4> DEFINE f == sp.flush \/ flush
      <4>1. f \in BOOLEAN /\ p = [sp EXCEPT !.flush = f]
        BY <1>2 DEF PackerType
      <4> HIDE DEF p, f
      <4> QED BY <1>2, <4>1 DEF PackerType
    <3> HIDE DEF p
    <3>4. p.packed \in 0 .. Len(p.data)
      BY <1>2, <3>1, <3>3 DEF Working
    <3>5. Len(data) \in Nat
      BY <3>1, <3>3, <3>4, PayloadFacts
    <3>6. CASE /\ Emit(p, data)
               /\ gen' = [gen EXCEPT !.ret = "record", !.sent = @ + Len(data)]
      <4>1. sp' = [p EXCEPT !.packed = @ + Len(data)]
        BY <3>6 DEF Emit
      <4>2. sp'.active /\ sp'.at = sp.at /\ sp'.packed = sp.packed + Len(data)
        BY <3>1, <3>3, <4>1 DEF PackerType
      <4>3. gen'.at = gen.at /\ gen'.finished = gen.finished /\ gen'.sent = gen.sent + Len(data)
        BY <1>2, <3>6 DEF GenType
      <4>4. gen'.sent <= Passed(ids, sp.at) + sp'.packed
        BY <1>3, <2>2, <3>1, <3>5, <4>2, <4>3
      <4> QED BY <1>1, <2>2, <3>1, <4>2, <4>3, <4>4 DEF Once
    <3>7. CASE sp' = p /\ gen' = [gen EXCEPT !.ret = "error"]
      <4>1. sp'.active /\ sp'.at = sp.at /\ sp'.packed = sp.packed
        BY <3>1, <3>3, <3>7
      <4>2. gen'.at = gen.at /\ gen'.finished = gen.finished /\ gen'.sent = gen.sent
        BY <1>2, <3>7 DEF GenType
      <4> QED BY <1>1, <2>2, <3>1, <4>1, <4>2 DEF Once
    <3> QED BY <3>2, <3>6, <3>7
  <2>4. CASE GenAdvance(flush)
    <3> DEFINE next == NextPosition(ids, gen.at)
    <3>1. sp.active
      BY <2>4 DEF GenAdvance
    <3>2. gen.sent <= Passed(ids, gen.at) + Len(sp.data)
      BY <1>3, <2>2, <3>1
    <3>3. /\ next \in Position
          /\ next.id # 0 => next \in Positions(ids) /\ NotBefore(next, gen.at) /\ next # gen.at
      BY <1>1, NextPositionFacts
    <3> HIDE DEF next
    <3>4. CASE next.id = 0
      <4>1. /\ gen' = [gen EXCEPT !.finished = TRUE, !.total = @ + sp.packed, !.ret = "done"]
            /\ sp' = NoPacker /\ ids' = ids
        BY <2>1, <2>4, <3>4 DEF GenAdvance, next
      <4>2. ~sp'.active /\ gen'.finished = TRUE /\ gen'.sent = gen.sent
        BY <1>2, <4>1, NoneTypes DEF GenType
      <4>3. Total(ids) \in Int
        <5>1. Integral(Sizes(ids), Keys)
          BY <1>1, SizesFacts
        <5> QED BY <5>1, SumOnInt DEF Total
      <4>4. gen.sent <= Total(ids)
        BY <1>3, <2>2, <3>1, <3>2, <4>3
      <4> QED BY <4>1, <4>2, <4>4 DEF Once
    <3>5. CASE next.id # 0
      <4>1. Scan(ids, next, gen.total + sp.packed, flush)
        BY <2>1, <2>4, <3>5 DEF GenAdvance, GenCleaned, next
      <4>2. gen.sent <= Passed(ids, next)
        <5>1. Passed(ids, gen.at) + Len(SegAt(ids, gen.at).data) <= Passed(ids, next)
          BY <1>1, <2>2, <3>1, <3>3, <3>5, PassedGrows
        <5>2. Passed(ids, next) \in Int
          <6>1. Before(next.id) \subseteq Keys /\ IdOrder[next.id] \in Keys
            BY <1>1, <3>3, <3>5, OrderFacts, PositionSegment DEF Before
          <6> QED BY <1>1, <3>3, <3>5, <6>1, PassedWithin
        <5>3. Len(SegAt(ids, gen.at).data) = Len(sp.data)
          BY <2>2, <3>1
        <5> DEFINE x == Passed(ids, gen.at)
                   y == Passed(ids, next)
                   n == Len(sp.data)
        <5>4. x + n <= y /\ gen.sent <= x + n /\ y \in Int /\ x \in Int /\ n \in Nat
          BY <2>2, <3>1, <3>2, <5>1, <5>2, <5>3
        <5> HIDE DEF x, y, n
        <5>5. gen.sent <= y
          BY <1>3, <5>4
        <5> QED BY <5>5 DEF y
      <4>3. gen.total + sp.packed \in Nat
        BY <1>3
      <4>4. ids' = ids
        BY <4>1 DEF Scan
      <4>5. Once(sp', gen', ids)
        BY <1>1, <1>2, <1>6, <3>3, <3>5, <4>1, <4>2, <4>3, ScanOnce
      <4> QED BY <4>4, <4>5
    <3> QED BY <3>4, <3>5
  <2>5. CASE GenScan(flush)
    <3>1. ~sp.active /\ Scan(ids, gen.at, gen.total, flush)
      BY <2>5 DEF GenScan
    <3>2. IF gen.at.id # 0 THEN gen.at \in Positions(ids) /\ gen.sent <= Passed(ids, gen.at)
          ELSE gen.sent = 0
      BY <1>1, <1>6, <3>1 DEF Once
    <3>3. ids' = ids
      BY <3>1 DEF Scan
    <3>4. Once(sp', gen', ids)
      BY <1>1, <1>2, <1>3, <1>6, <3>1, <3>2, ScanOnce
    <3> QED BY <3>3, <3>4
  <2> QED BY <2>3, <2>4, <2>5 DEF GenNext
<1> QED BY <1>5, <1>6

(* A record added takes no samples away, and leaves the place kept alone.  *)
LEMMA AddOnce ==
  ASSUME IsFiniteSet(Records), PackInv, PackInv', KeyedBy(ids), gen.open, Once(sp, gen, ids), Add
  PROVE  Once(sp', gen', ids')
<1>1. PICK rec \in Records : AddMsr(rec)
  BY DEF Add
<1>2. ~sp.active /\ sp' = sp /\ gen' = gen /\ KeptPlaceStays
  BY DEF Add, Idle
<1>3. ListOK(ids) /\ IInv /\ now \in Nat /\ gen \in GenType /\ ListOK(ids')
  <2>1. ListOK(ids')
    BY DEF PackInv, IInv, TypeOK, SegmentsCounted, ListOK, IDOK
  <2> QED BY <2>1, IInvList DEF PackInv, Packing
<1> DEFINE L == Sizes(ids)
           M == Sizes(ids')
<1>4. UNCHANGED listVars \/ Brings(Size, RecordSize, rec)
  <2>1. KeyVersion
    BY DEF KeyVersion, KeyedBy, InList
  <2> QED BY <1>1, <1>3, <2>1, SizeAdditive, AdditionBrings
<1>5. \A k \in Keys : L[k] <= M[k]
  <2>1. \A k \in Keys : L[k] = Weigh(Size, ids[k].segs) /\ M[k] = Weigh(Size, ids'[k].segs)
    BY DEF Sizes
  <2>2. \A k \in Keys : L[k] \in Int
    BY <1>3, SizesFacts DEF Integral
  <2>3. CASE UNCHANGED listVars
    <3>1. ids' = ids
      BY <2>3 DEF listVars
    <3>2. \A k \in Keys : M[k] = L[k]
      BY <2>1, <3>1
    <3> HIDE DEF L, M
    <3> QED BY <2>2, <3>2
  <2>4. CASE Brings(Size, RecordSize, rec)
    <3>1. PICK k \in Keys : OnlyID(k) /\ Weigh(Size, ids'[k].segs) = Weigh(Size, ids[k].segs) + RecordSize[rec]
      BY <2>4 DEF Brings
    <3>2. RecordSize[rec] \in Nat
      <4>1. rec.data \in Seq(Int)
        BY RecordFields DEF RecordType
      <4> QED BY <4>1, LenProperties DEF RecordSize
    <3>3. ASSUME NEW j \in Keys, j # k PROVE M[j] = L[j]
      BY <2>1, <3>1, <3>3 DEF OnlyID
    <3>4. M[k] = L[k] + RecordSize[rec]
      BY <2>1, <3>1
    <3> HIDE DEF L, M
    <3>5. L[k] <= M[k]
      BY <2>2, <3>2, <3>4
    <3>6. ASSUME NEW j \in Keys PROVE L[j] <= M[j]
      <4>1. L[j] \in Int
        BY <2>2
      <4> QED BY <3>3, <3>5, <4>1
    <3> QED BY <3>6
  <2> QED BY <1>4, <2>3, <2>4
<1>6. /\ Integral(L, Keys) /\ Integral(M, Keys)
      /\ \A k \in Keys : 0 <= L[k]
  BY <1>3, SizesFacts
<1> HIDE DEF L, M
<1>7. \A S \in SUBSET Keys : /\ SumOn(L, S) <= SumOn(M, S)
                             /\ SumOn(L, S) \in Int /\ SumOn(M, S) \in Int
  <2> SUFFICES ASSUME NEW S \in SUBSET Keys
               PROVE  SumOn(L, S) <= SumOn(M, S) /\ SumOn(L, S) \in Int /\ SumOn(M, S) \in Int
    OBVIOUS
  <2>1. Integral(L, S) /\ Integral(M, S) /\ S \in SUBSET S /\ \A k \in S : 0 <= L[k] /\ L[k] <= M[k]
    BY <1>5, <1>6, FS_Subset DEF Integral
  <2> QED BY <2>1, SumOnGrows, SumOnInt
<1>8. CASE ~(gen.keep /\ gen.flush)
  BY <1>2, <1>8 DEF Once
<1>9. CASE gen.keep /\ gen.flush /\ gen.finished
  <2>1. gen.sent <= Total(ids) /\ gen.sent \in Nat
    BY <1>3, <1>9 DEF Once, GenType
  <2>2. Total(ids) <= Total(ids') /\ Total(ids) \in Int /\ Total(ids') \in Int
    <3>1. Keys \in SUBSET Keys
      OBVIOUS
    <3> QED BY <1>7, <3>1 DEF Total, L, M
  <2>3. gen.sent <= Total(ids')
    BY <2>1, <2>2
  <2> QED BY <1>2, <1>9, <2>3 DEF Once
<1>10. CASE gen.keep /\ gen.flush /\ ~gen.finished /\ gen.at.id # 0
  <2>1. gen.at \in Positions(ids) /\ gen.sent <= Passed(ids, gen.at) /\ gen.sent \in Nat
    BY <1>2, <1>3, <1>10 DEF Once, GenType
  <2> DEFINE k == IdOrder[gen.at.id]
             a == SumOn(Weights(Size, ids[k].segs), 1 .. gen.at.seg - 1)
             B == Before(gen.at.id)
  <2>2. ids'[k] = ids[k]
    BY <1>2, <1>10 DEF KeptPlaceStays
  <2>3. gen.at \in Positions(ids')
    BY <1>3, <2>1, <2>2, PositionFacts
  <2>4. B \subseteq Keys
    BY OrderFacts DEF Before
  <2>5. Passed(ids, gen.at) = SumOn(L, B) + a /\ Passed(ids', gen.at) = SumOn(M, B) + a
    BY <2>2 DEF Passed, L, M
  <2>6. a \in Int
    <3>1. k \in Keys /\ gen.at.seg \in 1 .. Len(ids[k].segs) /\ ids[k].segs \in Seq(Segment)
      BY <1>3, <2>1, PositionSegment
    <3> DEFINE f == Weights(Size, ids[k].segs)
               D == 1 .. Len(ids[k].segs)
               E == 1 .. gen.at.seg - 1
    <3>2. Integral(f, D)
      <4> HIDE DEF k
      <4> QED BY <1>3, <3>1, SizesFacts
    <3>3. E \subseteq D
      <4>1. Len(ids[k].segs) \in Nat
        BY <3>1, LenProperties
      <4> QED BY <3>1, <4>1
    <3>4. SumOn(f, E) \in Int
      <4> HIDE DEF f, D, E
      <4>1. Integral(f, E)
        BY <3>2, <3>3, FS_Subset DEF Integral
      <4> QED BY <4>1, SumOnInt
    <3> QED BY <3>4
  <2> HIDE DEF a, B
  <2>7. SumOn(L, B) <= SumOn(M, B) /\ SumOn(L, B) \in Int /\ SumOn(M, B) \in Int
    BY <1>7, <2>4
  <2>8. gen.sent <= Passed(ids', gen.at)
    BY <2>1, <2>5, <2>6, <2>7
  <2> QED BY <1>2, <1>10, <2>3, <2>8 DEF Once
<1>11. CASE gen.keep /\ gen.flush /\ ~gen.finished /\ gen.at.id = 0
  <2>1. gen.sent = 0
    BY <1>2, <1>11 DEF Once
  <2> QED BY <1>2, <1>11, <2>1 DEF Once
<1> QED BY <1>8, <1>9, <1>10, <1>11

(* A packer that maintains the list and flushes packs every segment at     *)
(* most once: its scan takes up its place again after every record, and    *)
(* after records were added in between, and it is finished after the last  *)
(* segment - however far it got before, after errors too, it has put no    *)
(* more samples into records than the list holds.                          *)
THEOREM PackedOnce ==
  ASSUME IsFiniteSet(Records), SamplesCounted
  PROVE  PackSpec => []MaintainedPackedOnce
<1> DEFINE Inv == /\ stream \in Seq(StreamRecord) /\ KeyedBy(ids)
                  /\ gen.open => call.kind = "none"
                  /\ Once(sp, gen, ids)
<1>1. PackInit => Inv
  <2>1. PackInit => stream \in Seq(StreamRecord) /\ KeyedBy(ids)
    BY InitSettled
  <2>2. PackInit => ~gen.open
    BY DEF PackInit, NoGen
  <2> QED BY <2>1, <2>2 DEF Once
<1>2. PackInv /\ PackInv' /\ Inv /\ [PackNext]_allVars => Inv'
  <2> SUFFICES ASSUME PackInv, PackInv', Inv, [PackNext]_allVars PROVE Inv'
    OBVIOUS
  <2>1. stream' \in Seq(StreamRecord) /\ KeyedBy(ids')
    BY StepPays
  <2>2. sp \in PackerType /\ gen \in GenType /\ call \in CallType /\ (~sp.active => sp = NoPacker)
    BY DEF PackInv, Packing
  <2>3. (gen'.open => call'.kind = "none") /\ Once(sp', gen', ids')
    <3>1. CASE Add
      <4>1. gen' = gen /\ call' = call
        BY <3>1 DEF Add
      <4>2. CASE gen.open
        BY <3>1, <4>1, <4>2, AddOnce
      <4>3. CASE ~gen.open
        BY <4>1, <4>3 DEF Once
      <4> QED BY <4>2, <4>3
    <3>2. CASE UNCHANGED allVars \/ Tick
      BY <3>2 DEF allVars, Tick
    <3>3. CASE GenInit
      <4>1. /\ ~sp.active /\ call.kind = "none" /\ sp' = sp /\ call' = call
            /\ \E flush, keep : gen' = [NoGen EXCEPT !.open = TRUE, !.flush = flush, !.keep = keep]
        BY <3>3 DEF GenInit, Idle
      <4>2. ~gen'.finished /\ gen'.at.id = 0 /\ gen'.sent = 0
        BY <4>1 DEF NoGen, At
      <4> QED BY <4>1, <4>2 DEF Once
    <3>4. CASE GenFree
      <4>1. ~gen'.open
        BY <2>2, <3>4 DEF GenFree, GenType
      <4> QED BY <4>1 DEF Once
    <3>5. ASSUME NEW flush \in PackerFlush, GenNext(flush)
          PROVE  (gen'.open => call'.kind = "none") /\ Once(sp', gen', ids')
      <4>1. gen.open /\ call.kind = "none" /\ call' = call
        BY <3>5 DEF GenNext
      <4>2. flush \in BOOLEAN
        BY PackingAssumption
      <4> QED BY <3>5, <4>1, <4>2, GenNextOnce
    <3>6. CASE CallPack \/ CallPackSegment
      <4>1. ~gen'.open
        BY <3>6 DEF CallPack, CallPackSegment
      <4> QED BY <4>1 DEF Once
    <3>7. CASE CallStep
      <4>1. gen' = gen /\ call.kind # "none"
        BY <3>7 DEF CallStep, CallStart, CallEmit, CallFinish, CallError, CallNextID, CallReturn, Here
      <4> QED BY <4>1 DEF Once
    <3> QED BY <3>1, <3>2, <3>3, <3>4, <3>5, <3>6, <3>7 DEF PackNext
  <2> QED BY <2>1, <2>3 DEF KeyedBy, Once, Positions, Passed, Total, Sizes, SegAt
<1>3. PackInv /\ Inv => MaintainedPackedOnce
  <2> SUFFICES ASSUME PackInv, Inv, gen.open, gen.keep, gen.flush
               PROVE  gen.sent <= SumFunction([k \in Keys |->
                        SumFunction([i \in DOMAIN ids[k].segs |-> Len(ids[k].segs[i].data)])])
    BY DEF MaintainedPackedOnce
  <2> DEFINE In(k) == SumFunction([i \in DOMAIN ids[k].segs |-> Len(ids[k].segs[i].data)])
             L == Sizes(ids)
  <2>1. ListOK(ids) /\ Packing(sp, gen, call, ids) /\ gen \in GenType
    BY IInvList DEF PackInv, Packing
  <2>2. ASSUME NEW k \in Keys PROVE In(k) = L[k]
    <3> DEFINE s == ids[k].segs
    <3>1. s \in Seq(Segment)
      BY <2>1, SizesFacts
    <3>2. \A i \in DOMAIN s : Len(s[i].data) = Size[s[i]]
      BY <3>1, ElementOfSeq DEF Size
    <3>3. [i \in DOMAIN s |-> Len(s[i].data)] = [i \in DOMAIN s |-> Size[s[i]]]
      BY <3>2
    <3> QED BY <3>3 DEF Sizes, Weigh
  <2>3. SumFunction([k \in Keys |-> In(k)]) = Total(ids)
    <3> HIDE DEF In, L
    <3>1. [k \in Keys |-> In(k)] = [k \in Keys |-> L[k]]
      BY <2>2
    <3> QED BY <3>1 DEF Total, SumOn, L
  <2>4. gen.sent \in Nat /\ Total(ids) \in Int /\ 0 <= Total(ids)
    <3>1. Integral(L, Keys) /\ \A k \in Keys : 0 <= L[k]
      BY <2>1, SizesFacts
    <3>2. \A k \in Keys : 0 <= L[k] /\ L[k] <= L[k]
      BY <3>1 DEF Integral
    <3>3. {} \in SUBSET Keys
      OBVIOUS
    <3> HIDE DEF L
    <3>4. SumOn(L, {}) <= SumOn(L, Keys) /\ SumOn(L, Keys) \in Int
      BY <3>1, <3>2, <3>3, SumOnGrows, SumOnInt
    <3> QED BY <2>1, <3>4, SumOnEmpty DEF Total, L, GenType
  <2>5. ASSUME NEW p \in Positions(ids)
        PROVE  /\ Passed(ids, p) \in Int /\ Len(SegAt(ids, p).data) \in Nat
               /\ Passed(ids, p) + Len(SegAt(ids, p).data) <= Total(ids)
    <3>1. Before(p.id) \subseteq Keys /\ IdOrder[p.id] \in Keys /\ Keys \in SUBSET Keys
      BY <2>1, OrderFacts, PositionSegment DEF Before
    <3> QED BY <2>1, <3>1, PassedWithin DEF Total
  <2>6. gen.sent <= Total(ids)
    <3>1. CASE gen.finished
      BY <3>1 DEF Once
    <3>2. CASE ~gen.finished /\ sp.active
      <4> DEFINE x == Passed(ids, sp.at)
                 n == Len(SegAt(ids, sp.at).data)
      <4>1. gen.sent <= x + sp.packed
        BY <3>2 DEF Once
      <4>2. sp.at \in Positions(ids) /\ sp.packed \in 0 .. n
        BY <2>1, <3>2 DEF Packing, Working
      <4>3. x \in Int /\ n \in Nat /\ x + n <= Total(ids)
        BY <2>5, <4>2
      <4> HIDE DEF x, n
      <4> QED BY <2>4, <4>1, <4>2, <4>3
    <3>3. CASE ~gen.finished /\ ~sp.active /\ gen.at.id # 0
      <4> DEFINE x == Passed(ids, gen.at)
                 n == Len(SegAt(ids, gen.at).data)
      <4>1. gen.sent <= x /\ gen.at \in Positions(ids)
        BY <3>3 DEF Once
      <4>2. x \in Int /\ n \in Nat /\ x + n <= Total(ids)
        BY <2>5, <4>1
      <4> HIDE DEF x, n
      <4> QED BY <2>4, <4>1, <4>2
    <3>4. CASE ~gen.finished /\ ~sp.active /\ gen.at.id = 0
      BY <2>4, <3>4 DEF Once
    <3> QED BY <3>1, <3>2, <3>3, <3>4
  <2> QED BY <2>3, <2>6
<1> QED BY <1>1, <1>2, <1>3, PackInvariance, PTL DEF PackSpec
=============================================================================
