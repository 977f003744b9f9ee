------------------------------ MODULE TraceList ------------------------------
(***************************************************************************)
(* The trace list of libmseed (tracelist.c): records are added with        *)
(* mstl3_addmsr() and each trace ID keeps a list of continuous segments.   *)
(*                                                                         *)
(* A segment list, linked through prev/next with first and last pointers   *)
(* in the code, is a sequence here.  Times are integer ticks, TickRate of  *)
(* them in a second; a sample rate is a number of samples per second that  *)
(* divides TickRate, 0 for a record without a rate (text, log lines).  A   *)
(* data sample is represented by the time it was really taken at, which    *)
(* is what the properties compare with the time its segment gives it.      *)
(***************************************************************************)
EXTENDS Integers, Sequences, FiniteSets, SequencesExt

CONSTANTS
  Sids,            \* source identifiers
  SampleTypes,     \* sample type codes: 'i', 'f', ...
  Records,         \* the MS3Records that callers may add
  TickRate,        \* ticks in a second (NSTMODULUS)
  UserTimeTol,     \* MS3Tolerance.time in ticks, -1 when the pointer is NULL
  UserRateTol,     \* MS3Tolerance.samprate in Hz, 0 when the pointer is NULL
  SplitVersion,    \* the splitversion argument of mstl3_addmsr()
  SplitIsVersion,  \* MSF_SPLITISVERSION is set
  AutoHeal,        \* the autoheal argument of mstl3_addmsr()
  KeepRecordPtrs,  \* mstl3_addmsr_recordptr() rather than mstl3_addmsr()
  KeepUpdateTime,  \* MSF_PPUPDATETIME is set
  MaxAdds          \* bound: records added in one behaviour

VARIABLES
  ids,    \* the MS3TraceID of each key; one without segments is not in the list
  now,    \* the system clock, read by lmp_systemtime()
  added   \* history: how often each record was stored in a segment

listVars == <<ids, added>>
vars == <<ids, now, added>>

Version == 0 .. 255

(* Definitions named Bad... are faulty variants of the one that follows:   *)
(* mistakes the properties are known to notice.                            *)

ToInt8(v) == IF v < 128 THEN v ELSE v - 256
BadToUint8(v) == v
ToUint8(v) == v % 256

(* The version of the record, kept in an int8_t. *)
PubVersion(rec) == IF SplitIsVersion THEN SplitVersion ELSE ToInt8(rec.pubversion)

(* A trace ID is created for a source identifier and a version. *)
KeyOf(rec) == <<rec.sid, ToUint8(PubVersion(rec))>>
Keys == {KeyOf(rec) : rec \in Records}

RecordType ==
  [sid : Sids, pubversion : Version, start : Int, rate : Nat, cnt : Nat,
   type : SampleTypes, data : Seq(Int)]

Segment ==
  [start : Int, end : Int, rate : Nat, cnt : Nat, type : SampleTypes,
   data : Seq(Int), recordlist : Seq(Records), upd : Nat]

TraceID ==
  [pubversion : Version, earliest : Int, latest : Int, numsegments : Nat,
   segs : Seq(Segment)]

ASSUME ConstantsAssumption ==
  /\ Records \subseteq RecordType
  /\ TickRate \in Nat \ {0}
  /\ UserTimeTol \in Nat \cup {-1}
  /\ UserRateTol \in Nat
  /\ SplitVersion \in 0 .. 127
  /\ {SplitIsVersion, AutoHeal, KeepRecordPtrs, KeepUpdateTime} \subseteq BOOLEAN
  /\ MaxAdds \in Nat

NoTraceID ==
  [pubversion |-> 0, earliest |-> 0, latest |-> 0, numsegments |-> 0, segs |-> <<>>]

InList(k) == ids[k].segs # <<>>

-----------------------------------------------------------------------------
(* Times and tolerances of a record.                                       *)

NsPeriod(rate) == IF rate = 0 THEN 0 ELSE TickRate \div rate

SampleTime(time, offset, rate) == time + offset * NsPeriod(rate)

EndTime(rec) ==
  SampleTime(rec.start, IF rec.cnt > 0 THEN rec.cnt - 1 ELSE 0, rec.rate)

TimeTol(rec) == IF UserTimeTol >= 0 THEN UserTimeTol ELSE NsPeriod(rec.rate) \div 2

RateDistance(r1, r2) == IF r1 > r2 THEN r1 - r2 ELSE r2 - r1

BadIsSampRateSimilar(r1, r2) == TRUE

(* Rates of the model that differ at all differ by more than the default   *)
(* tolerance of 0.0001, so MS_ISRATETOLERABLE is equality.                 *)
IsSampRateSimilar(r1, r2) ==
  IF UserRateTol > 0 THEN RateDistance(r1, r2) > UserRateTol ELSE r1 = r2

HasTimeCoverage(seg) == seg.cnt > 0 /\ seg.rate # 0

BadWithinTol(gap, rec) == gap <= TimeTol(rec)
WithinTol(gap, rec) == -TimeTol(rec) <= gap /\ gap <= TimeTol(rec)

(* The record continues the segment at its end. *)
FitsAfter(rec, seg) ==
  /\ WithinTol(rec.start - seg.end - NsPeriod(rec.rate), rec)
  /\ IsSampRateSimilar(rec.rate, seg.rate)
  /\ HasTimeCoverage(seg)

(* The record ends where the segment starts. *)
FitsBefore(rec, seg) ==
  /\ WithinTol(seg.start - EndTime(rec) - NsPeriod(rec.rate), rec)
  /\ IsSampRateSimilar(rec.rate, seg.rate)
  /\ HasTimeCoverage(seg)

-----------------------------------------------------------------------------
(* Segments.                                                               *)

RecordPtrs(rec) == IF KeepRecordPtrs THEN <<rec>> ELSE <<>>

Msr2Seg(rec) ==
  [start |-> rec.start, end |-> EndTime(rec), rate |-> rec.rate, cnt |-> rec.cnt,
   type |-> rec.type, data |-> rec.data, recordlist |-> RecordPtrs(rec), upd |-> 0]

(* lm_addmsrtoseg() refuses decoded samples of another type, and so does   *)
(* lm_addsegtoseg().                                                       *)
TypeClash(seg, from) == from.data # <<>> /\ from.type # seg.type

AddMsrToEnd(seg, rec) ==
  [seg EXCEPT !.end = EndTime(rec), !.cnt = @ + rec.cnt, !.data = @ \o rec.data,
              !.recordlist = @ \o RecordPtrs(rec)]

BadAddMsrToStart(seg, rec) ==
  [seg EXCEPT !.start = rec.start, !.cnt = @ + rec.cnt, !.data = rec.data \o @,
              !.recordlist = @ \o RecordPtrs(rec)]
AddMsrToStart(seg, rec) ==
  [seg EXCEPT !.start = rec.start, !.cnt = @ + rec.cnt, !.data = rec.data \o @,
              !.recordlist = RecordPtrs(rec) \o @]

BadAddSegToSeg(seg1, seg2) == [seg1 EXCEPT !.end = seg2.end, !.cnt = @ + seg2.cnt]
AddSegToSeg(seg1, seg2) ==
  [seg1 EXCEPT !.end = seg2.end, !.cnt = @ + seg2.cnt, !.data = @ \o seg2.data,
               !.recordlist = @ \o seg2.recordlist]

-----------------------------------------------------------------------------
(* Where a record goes in the segment list of its trace ID.                *)
(*   how   - "append" to the end of segment at, "prepend" to its start, or *)
(*           "insert" a new segment at that position;                      *)
(*   merge - the segment that joins segment at once the record is there.   *)

Place(how, at, merge) == [how |-> how, at |-> at, merge |-> merge]

BadExactMatch(segs, rec) == SelectInSeq(segs, LAMBDA s : s.start = rec.start)
ExactMatch(segs, rec) ==
  IF AutoHeal
  THEN SelectInSeq(segs, LAMBDA s : /\ HasTimeCoverage(s)
                                    /\ s.start = rec.start
                                    /\ s.end = EndTime(rec))
  ELSE 0

(* The loop over the whole list: it stops at an exact match when healing,  *)
(* and keeps the first segment that fits on either side.                   *)
SearchPlace(segs, rec) ==
  LET exact    == ExactMatch(segs, rec)
      searched == IF exact = 0 THEN segs ELSE SubSeq(segs, 1, exact - 1)
      before   == SelectInSeq(searched, LAMBDA s : FitsAfter(rec, s))
      after    == SelectInSeq(searched, LAMBDA s : FitsBefore(rec, s))
      follow   == IF exact # 0 THEN exact
                  ELSE SelectLastInSeq(segs, LAMBDA s : HasTimeCoverage(s)
                                                        /\ rec.start > s.start)
  IN  IF before # 0 /\ (AutoHeal \/ after = 0 \/ before <= after)
      THEN Place("append", before, IF AutoHeal /\ after # before THEN after ELSE 0)
      ELSE IF after # 0 THEN Place("prepend", after, 0)
      ELSE Place("insert", follow + 1, 0)

BadPlacement(t, rec) ==
  IF FitsAfter(rec, t.segs[Len(t.segs)]) THEN Place("append", Len(t.segs), 0)
  ELSE SearchPlace(t.segs, rec)

(* The simple scenarios first, in the code's order of likelihood. *)
Placement(t, rec) ==
  LET n     == Len(t.segs)
      reach == NsPeriod(rec.rate) + TimeTol(rec)
  IN  IF FitsAfter(rec, t.segs[n]) THEN Place("append", n, 0)
      ELSE IF rec.start - reach > t.latest THEN Place("insert", n + 1, 0)
      ELSE IF EndTime(rec) + reach < t.earliest THEN Place("insert", 1, 0)
      ELSE IF FitsBefore(rec, t.segs[1]) THEN Place("prepend", 1, 0)
      ELSE SearchPlace(t.segs, rec)

-----------------------------------------------------------------------------
(* Sorting the modified segment into place.                                *)

(* Segments are ordered by start time, longer segments first. *)
Later(s1, s2) == s1.start > s2.start \/ (s1.start = s2.start /\ s1.end < s2.end)

(* Element i of s moved to position j. *)
Move(s, i, j) ==
  [m \in 1 .. Len(s) |->
     IF m = j THEN s[i]
     ELSE IF i <= m /\ m < j THEN s[m + 1]
     ELSE IF j < m /\ m <= i THEN s[m - 1]
     ELSE s[m]]

(* Segment i goes down the list past all it is later than, else up. *)
SortTarget(s, i) ==
  LET down == CHOOSE j \in i .. Len(s) :
                /\ j = Len(s) \/ ~Later(s[i], s[j + 1])
                /\ \A m \in i .. j - 1 : Later(s[i], s[m + 1])
      up   == CHOOSE j \in 1 .. i :
                /\ j = 1 \/ ~Later(s[j - 1], s[i])
                /\ \A m \in j + 1 .. i : Later(s[m - 1], s[i])
  IN  IF down > i THEN down ELSE up

BadSortInPlace(s, i) == s
SortInPlace(s, i) == Move(s, i, SortTarget(s, i))

-----------------------------------------------------------------------------
(* mstl3_addmsr()                                                          *)

(* mstl3_findID(): version 0 matches any version, and which of several     *)
(* trace IDs is met first depends on their heights in the skip list.       *)
FindID(sid, version) ==
  {k \in Keys : /\ k[1] = sid
                /\ InList(k)
                /\ version = 0 \/ ids[k].pubversion = version}

BadMatching(rec) == FindID(rec.sid, 0)
Matching(rec) ==
  FindID(rec.sid, IF SplitVersion # 0 THEN ToUint8(PubVersion(rec)) ELSE 0)

(* MSF_PPUPDATETIME: the time of the last change of a segment. *)
BadStamp(seg) == seg
Stamp(seg) == IF KeepUpdateTime THEN [seg EXCEPT !.upd = now] ELSE seg

BadLesser(a, b) == b
Lesser(a, b) == IF a < b THEN a ELSE b
BadGreater(a, b) == b
Greater(a, b) == IF a > b THEN a ELSE b

(* What follows every successful branch: version and extent of the ID are  *)
(* tracked and the segment at position at, just modified, is sorted.       *)
Tracked(t, rec, segs, at) ==
  [pubversion  |-> Greater(PubVersion(rec), t.pubversion),
   earliest    |-> Lesser(rec.start, t.earliest),
   latest      |-> Greater(EndTime(rec), t.latest),
   numsegments |-> t.numsegments,
   segs        |-> SortInPlace(ReplaceAt(segs, at, Stamp(segs[at])), at)]

Stored(rec) == added' = [added EXCEPT ![rec] = @ + 1]

(* No trace ID matches: a new one with one segment. *)
AddID(rec) ==
  /\ Matching(rec) = {}
  /\ ids' = [ids EXCEPT ![KeyOf(rec)] =
               [pubversion |-> ToUint8(PubVersion(rec)), earliest |-> rec.start,
                latest |-> EndTime(rec), numsegments |-> 1,
                segs |-> <<Stamp(Msr2Seg(rec))>>]]
  /\ Stored(rec)

Linked(t) == [t EXCEPT !.numsegments = @ + 1]
BadUnlinked(t) == t
Unlinked(t) == [t EXCEPT !.numsegments = @ - 1]

(* The record extends segment at, which then joins no other. *)
AddToSegment(k, rec) ==
  LET t   == ids[k]
      p   == Placement(t, rec)
      seg == t.segs[p.at]
  IN  /\ p.how \in {"append", "prepend"} /\ p.merge = 0
      /\ ~TypeClash(seg, rec)
      /\ LET grown == IF p.how = "append" THEN AddMsrToEnd(seg, rec)
                                          ELSE AddMsrToStart(seg, rec)
         IN  ids' = [ids EXCEPT ![k] =
                       Tracked(t, rec, ReplaceAt(t.segs, p.at, grown), p.at)]
      /\ Stored(rec)

(* Autohealing: the record closes the gap between two segments.  When the  *)
(* second has samples of another type the function fails half way: the     *)
(* record stays in the first segment, nothing is tracked or sorted.        *)
MergeSegments(k, rec) ==
  LET t    == ids[k]
      p    == Placement(t, rec)
      seg  == t.segs[p.at]
      next == t.segs[p.merge]
      grown == AddMsrToEnd(seg, rec)
  IN  /\ p.how = "append" /\ p.merge # 0
      /\ ~TypeClash(seg, rec)
      /\ \/ /\ ~TypeClash(grown, next)
            /\ LET segs == RemoveAt(ReplaceAt(t.segs, p.at, AddSegToSeg(grown, next)), p.merge)
                   at   == IF p.merge < p.at THEN p.at - 1 ELSE p.at
               IN  ids' = [ids EXCEPT ![k] =
                             Tracked(Unlinked(t), rec, segs, at)]
         \/ /\ TypeClash(grown, next)
            /\ ids' = [ids EXCEPT ![k].segs[p.at] = grown]
      /\ Stored(rec)

(* The record fits no segment: a new one. *)
AddSegment(k, rec) ==
  LET t == ids[k]
      p == Placement(t, rec)
  IN  /\ p.how = "insert"
      /\ ids' = [ids EXCEPT ![k] =
                   Tracked(Linked(t), rec, InsertAt(t.segs, p.at, Msr2Seg(rec)), p.at)]
      /\ Stored(rec)

(* lm_addmsrtoseg() refuses the record: an error return, nothing changed. *)
RejectMsr(k, rec) ==
  LET p == Placement(ids[k], rec)
  IN  /\ p.how # "insert"
      /\ TypeClash(ids[k].segs[p.at], rec)
      /\ UNCHANGED listVars

AddMsr(rec) ==
  \/ AddID(rec)
  \/ \E k \in Matching(rec) :
        AddToSegment(k, rec) \/ MergeSegments(k, rec) \/ AddSegment(k, rec) \/ RejectMsr(k, rec)

TotalAdded == SumFunction(added)

Init ==
  /\ ids = [k \in Keys |-> NoTraceID]
  /\ now = 0
  /\ added = [rec \in Records |-> 0]

Next ==
  \E rec \in Records :
    /\ TotalAdded < MaxAdds
    /\ AddMsr(rec)
    /\ UNCHANGED now

Spec == Init /\ [][Next]_vars

-----------------------------------------------------------------------------
(* Properties.                                                             *)

(* Every trace ID and segment has the fields of its C structure. *)
TypeOK ==
  /\ ids \in [Keys -> TraceID]
  /\ now \in Nat
  /\ added \in [Records -> Nat]

(* The segments of a trace ID stay in the order the code sorts them into:  *)
(* by start time, and for equal starts the longest first.                  *)
SegmentsSorted ==
  \A k \in Keys : \A i, j \in 1 .. Len(ids[k].segs) :
    i < j => ~Later(ids[k].segs[i], ids[k].segs[j])

(* The weaker order that survives a merge failing half way: the starts of  *)
(* the segments never decrease along the list.                             *)
StartsInOrder ==
  \A k \in Keys : \A i, j \in 1 .. Len(ids[k].segs) :
    i < j => ids[k].segs[i].start <= ids[k].segs[j].start

(* A merge unlinks the segment that joined the other, and corrects the     *)
(* pointer to the last segment but not the one to the first: whatever      *)
(* record comes next, the first segment is never the one unlinked.         *)
FirstNeverMerged ==
  \A k \in Keys : InList(k) => \A rec \in Records : Placement(ids[k], rec).merge # 1

(* numsegments counts the segments in the list, through every insertion    *)
(* and every merge; mstl3_pack() removes an ID when it reaches 0.          *)
SegmentsCounted == \A k \in Keys : ids[k].numsegments = Len(ids[k].segs)

(* earliest and latest are exactly the extent of the segments: the         *)
(* shortcuts of mstl3_addmsr() for records outside all coverage rely on it.*)
ExtentExact ==
  \A k \in Keys : InList(k) =>
    LET segs == ids[k].segs
    IN  /\ \A i \in 1 .. Len(segs) : /\ ids[k].earliest <= segs[i].start
                                     /\ segs[i].end <= ids[k].latest
        /\ \E i \in 1 .. Len(segs) : segs[i].start = ids[k].earliest
        /\ \E i \in 1 .. Len(segs) : segs[i].end = ids[k].latest

(* How often sample x occurs in a sequence of samples. *)
Occurrences(x, data) == Cardinality({i \in DOMAIN data : data[i] = x})

(* How often a sample is held for a source identifier, and how often the   *)
(* records stored for it brought it.                                       *)
HeldFor(x, sid) ==
  SumFunction([k \in {k \in Keys : k[1] = sid} |->
                 SumFunction([i \in DOMAIN ids[k].segs |-> Occurrences(x, ids[k].segs[i].data)])])

StoredFor(x, sid) ==
  SumFunction([rec \in {rec \in Records : rec.sid = sid} |-> added[rec] * Occurrences(x, rec.data)])

(* No sample is lost or doubled: the samples held for a source identifier  *)
(* are those of the records stored for it, however often segments were     *)
(* extended, moved and merged.                                             *)
SamplesConserved ==
  \A rec \in Records : \A x \in Range(rec.data) : HeldFor(x, rec.sid) = StoredFor(x, rec.sid)

(* The record list of a segment names, in time order, the records whose    *)
(* samples the segment holds: decoding it later (mstl3_unpack_recordlist)  *)
(* yields the samples that decoding on the way in yields.                  *)
RecordListMatchesData ==
  \A k \in Keys : \A i \in 1 .. Len(ids[k].segs) :
    LET seg == ids[k].segs[i]
    IN  seg.data = FoldLeft(LAMBDA d, rec : d \o rec.data, <<>>, seg.recordlist)

(* A segment is a time series: its samples are in strict time order, its   *)
(* first and last sample are where the segment says, and every sample was  *)
(* taken within one tolerance per record boundary of where the nominal     *)
(* rate puts it.                                                           *)
SeriesContinuous ==
  \A k \in Keys : \A i \in 1 .. Len(ids[k].segs) :
    LET seg   == ids[k].segs[i]
        n     == Len(seg.data)
        drift == (Len(seg.recordlist) - 1) * (NsPeriod(seg.rate) \div 2)
    IN  (HasTimeCoverage(seg) /\ n = seg.cnt) =>
          /\ seg.data[1] = seg.start /\ seg.data[n] = seg.end
          /\ \A m \in 1 .. n - 1 : seg.data[m] < seg.data[m + 1]
          /\ \A m \in 1 .. n :
               LET nominal == SampleTime(seg.start, m - 1, seg.rate)
               IN  -drift <= seg.data[m] - nominal /\ seg.data[m] - nominal <= drift

(* Segment s2 continues segment s1 within the default tolerance. *)
Continues(s1, s2) ==
  LET gap == s2.start - s1.end - NsPeriod(s1.rate)
      tol == NsPeriod(s1.rate) \div 2
  IN  /\ HasTimeCoverage(s1) /\ HasTimeCoverage(s2) /\ s1.rate = s2.rate
      /\ -tol <= gap /\ gap <= tol

(* Autohealing leaves no two segments that one more merge would join; the  *)
(* search of mstl3_addmsr() stops early because it relies on this.         *)
FullyHealed ==
  AutoHeal => \A k \in Keys : \A i, j \in 1 .. Len(ids[k].segs) :
                i # j => ~Continues(ids[k].segs[i], ids[k].segs[j])

(* An ID's version is the largest of the records stored for it, of those   *)
(* that an int8_t holds.                                                   *)
PubVersionLargest ==
  (SplitVersion = 0 /\ ~SplitIsVersion) =>
    \A rec \in Records : (added[rec] > 0 /\ rec.pubversion < 128) =>
      \E k \in Keys : /\ k[1] = rec.sid /\ InList(k)
                      /\ rec.pubversion <= ids[k].pubversion

(* With splitversion each version is kept in a trace ID of its own; only   *)
(* version 0 matches any of them.                                          *)
VersionsSeparate ==
  (SplitVersion # 0 /\ ~SplitIsVersion) =>
    \A k \in Keys : \A i \in 1 .. Len(ids[k].segs) :
      \A rec \in Range(ids[k].segs[i].recordlist) : rec.pubversion \in {0, ids[k].pubversion}

(* The records of a segment have the segment's rate, within the tolerance  *)
(* the caller asked for.                                                   *)
RatesWithinTolerance ==
  \A k \in Keys : \A i \in 1 .. Len(ids[k].segs) :
    \A rec \in Range(ids[k].segs[i].recordlist) :
      RateDistance(rec.rate, ids[k].segs[i].rate) <= UserRateTol
=============================================================================
