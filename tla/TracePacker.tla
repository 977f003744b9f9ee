----------------------------- MODULE TracePacker -----------------------------
(***************************************************************************)
(* Packing a trace list into records (tracelist.c, pack.c): the generator  *)
(* interface mstl3_pack_init/next/free, the callback interface mstl3_pack  *)
(* and mstl3_pack_ppupdate_flushidle, and mstl3_pack_segment.  All of them *)
(* drive the record packer msr3_pack_init/next/free over one segment at a  *)
(* time.  A trace list is used as a rolling buffer: records are added and  *)
(* packed in turns.                                                        *)
(*                                                                         *)
(* A call of the generator is one step.  A call of the callback interface  *)
(* is one step per record, since the caller's handler runs after each.     *)
(***************************************************************************)
EXTENDS TraceList

CONSTANTS
  IdOrder,        \* the keys in the order of the list of trace IDs
  MaxSamples,     \* MS3RecordPacker.maxsamples: most samples a record can hold
  MinSamples,     \* fewest samples that fill a record, whatever their values
  Unencodable,    \* samples the encoder refuses
  PackerMaintain, \* the choices callers have for MSF_MAINTAINMSTL
  PackerFlush,    \* the choices callers have for MSF_FLUSHDATA
  FlushIdle,      \* flush_idle_seconds in ticks, 0 when off
  UseGenerator,   \* callers use mstl3_pack_next()
  UseCallback,    \* callers use mstl3_pack() or mstl3_pack_ppupdate_flushidle()
  UseSegment,     \* callers use mstl3_pack_segment()
  FreeEarly,      \* callers may free a packer before it returns 0 or -1
  MaxStream,      \* bound: no packer or call is started beyond this many records
  MaxNow,         \* bound: system time
  AddUntil        \* bound: no record is added after this time

VARIABLES
  sp,      \* the MS3RecordPacker at work on a segment, and its template record
  gen,     \* the MS3TraceListPacker
  call,    \* the callback call in progress
  stream   \* history: the records produced

allVars == <<ids, now, added, sp, gen, call, stream>>

ASSUME PackingAssumption ==
  /\ IdOrder \in Seq(Keys) /\ Range(IdOrder) = Keys /\ IsInjective(IdOrder)
  /\ MaxSamples \in Nat \ {0} /\ MinSamples \in 1 .. MaxSamples
  /\ PackerFlush \subseteq BOOLEAN /\ PackerMaintain \subseteq BOOLEAN
  /\ {UseGenerator, UseCallback, UseSegment, FreeEarly} \subseteq BOOLEAN
  /\ {FlushIdle, MaxStream, MaxNow, AddUntil} \subseteq Nat

(* A position in the trace list: the rank of an ID and of a segment in it. *)
At(id, seg) == [id |-> id, seg |-> seg]
SegAt(list, p) == list[IdOrder[p.id]].segs[p.seg]

NoPacker ==
  [active |-> FALSE, at |-> At(0, 0), data |-> <<>>, start |-> 0, rate |-> 0,
   flush |-> FALSE, packed |-> 0]

NoGen ==
  [open |-> FALSE, flush |-> FALSE, keep |-> FALSE, finished |-> FALSE, at |-> At(0, 0), total |-> 0,
   sent |-> 0, ret |-> "none"]

NoCall == [kind |-> "none", at |-> At(0, 0), flush |-> FALSE, keep |-> FALSE]

(* Whether the packer or the call at work leaves the list as it is.        *)
MaintainList == IF gen.open THEN gen.keep ELSE call.keep

-----------------------------------------------------------------------------
(* The record packer.                                                      *)

Remaining(p) == SubSeq(p.data, p.packed + 1, Len(p.data))

DullHasRecord(p) == Remaining(p) # <<>> /\ (Len(Remaining(p)) > MaxSamples \/ p.flush)

(* msr3_pack_next() finds samples left and enough of them, or is flushing. *)
HasRecord(p) ==
  Remaining(p) # <<>> /\ (Len(Remaining(p)) >= MaxSamples \/ p.flush)

(* The encoder fills a record with as many samples as their values allow.  *)
Payloads(p) ==
  {SubSeq(Remaining(p), 1, Lesser(fill, Len(Remaining(p)))) : fill \in MinSamples .. MaxSamples}

Encodable(data) == Range(data) \cap Unencodable = {}

(* The record msr3_pack_next() makes of the payload. *)
RecordOf(p, data) ==
  [key |-> IdOrder[p.at.id], start |-> SampleTime(p.start, p.packed, p.rate),
   data |-> data, flush |-> p.flush]

Emit(p, data) ==
  /\ stream' = Append(stream, RecordOf(p, data))
  /\ sp' = [p EXCEPT !.packed = @ + Len(data)]

(* msr3_pack_init() from the template filled in from a segment. *)
PackerFor(list, at, flush) ==
  LET seg == SegAt(list, at)
  IN  [active |-> TRUE, at |-> at, data |-> seg.data, start |-> seg.start,
       rate |-> seg.rate, flush |-> flush, packed |-> 0]

(* A segment not updated for longer than the idle time is flushed. *)
IsIdle(seg) == FlushIdle > 0 /\ seg.upd > 0 /\ now - seg.upd > FlushIdle

-----------------------------------------------------------------------------
(* What packing does to the trace list.                                    *)

(* Without the new start time, one sample too many, and a count off by one. *)
StuckTrimSegment(list, at, n) ==
  [list EXCEPT ![IdOrder[at.id]].segs[at.seg] =
     [@ EXCEPT !.cnt = @ - n, !.data = SubSeq(@, n + 1, Len(@))]]
GreedyTrimSegment(list, at, n) ==
  [list EXCEPT ![IdOrder[at.id]].segs[at.seg].data = SubSeq(@, n + 2, Len(@))]

(* n samples leave the front of a segment. *)
TrimSegment(list, at, n) ==
  LET k   == IdOrder[at.id]
      seg == SegAt(list, at)
  IN  [list EXCEPT ![k].segs[at.seg] =
         [seg EXCEPT !.start = IF n = Len(seg.data) THEN seg.end
                               ELSE SampleTime(seg.start, n, seg.rate),
                     !.cnt = @ - n,
                     !.data = SubSeq(@, n + 1, Len(@))]]

(* lm_remove_segment(): the ID goes with its last segment. *)
RemoveSegment(list, at) ==
  LET k == IdOrder[at.id]
      t == list[k]
  IN  [list EXCEPT ![k] = IF t.numsegments = 1 THEN NoTraceID
                          ELSE [t EXCEPT !.numsegments = @ - 1, !.segs = RemoveAt(@, at.seg)]]

(* The clean-up of mstl3_pack_next() once a segment gives no more records. *)
GenCleaned(list) ==
  IF MaintainList THEN list
  ELSE LET trimmed == TrimSegment(list, sp.at, sp.packed)
       IN  IF SegAt(trimmed, sp.at).data = <<>> THEN RemoveSegment(trimmed, sp.at) ELSE trimmed

-----------------------------------------------------------------------------
(* The generator.                                                          *)

Idle == ~sp.active /\ call.kind = "none"

(* mstl3_pack_init() *)
GenInit ==
  /\ UseGenerator /\ Idle /\ ~gen.open /\ Len(stream) < MaxStream
  /\ \E flush \in PackerFlush, keep \in PackerMaintain :
       gen' = [NoGen EXCEPT !.open = TRUE, !.flush = flush, !.keep = keep]
  /\ UNCHANGED <<ids, now, added, sp, call, stream>>

Positions(list) ==
  UNION {{At(id, seg) : seg \in DOMAIN list[IdOrder[id]].segs} : id \in DOMAIN IdOrder}

NotBefore(p, q) == p.id > q.id \/ (p.id = q.id /\ p.seg >= q.seg)

(* Where the scan of mstl3_pack_next() begins: at the position it kept     *)
(* when the list is maintained, otherwise at the beginning.                *)
BadScanFrom(at) == At(1, 1)
ScanFrom(at) == IF MaintainList /\ at.id # 0 THEN at ELSE At(1, 1)

(* The segments from there on that give a record, the first one first. *)
Ready(list, flush) ==
  {p \in Positions(list) :
     HasRecord(PackerFor(list, p, flush \/ IsIdle(SegAt(list, p))))}

FirstReady(list, from, flush) ==
  LET ready == {p \in Ready(list, flush) : NotBefore(p, from)}
  IN  IF ready = {} THEN At(0, 0)
      ELSE CHOOSE p \in ready : \A q \in ready : NotBefore(q, p)

(* The segments with samples passed over: each resets the kept position. *)
Tried(list, from) ==
  {p \in Positions(list) : NotBefore(p, from) /\ SegAt(list, p).data # <<>>}

(* The scan of mstl3_pack_next() over the list. *)
Scan(list, at, total, flush) ==
  LET first == FirstReady(list, ScanFrom(at), gen.flush \/ flush)
      p     == PackerFor(list, first, gen.flush \/ flush \/ IsIdle(SegAt(list, first)))
  IN  /\ ids' = list
      /\ \/ /\ first.id # 0
            /\ \E data \in Payloads(p) :
                 \/ /\ Encodable(data)
                    /\ Emit(p, data)
                    /\ gen' = [gen EXCEPT !.at = first, !.total = total, !.ret = "record",
                                          !.sent = @ + Len(data)]
                 \/ /\ ~Encodable(data)
                    /\ sp' = p
                    /\ gen' = [gen EXCEPT !.at = first, !.total = total, !.ret = "error"]
                    /\ UNCHANGED stream
         \/ /\ first.id = 0
            /\ sp' = NoPacker
            /\ gen' = [gen EXCEPT !.ret = "done", !.total = total,
                                  !.at = IF Tried(list, ScanFrom(at)) = {} THEN at ELSE At(0, 0)]
            /\ UNCHANGED stream

(* The segment after a position, At(0, 0) at the end of the list. *)
NextPosition(list, at) ==
  LET later == {p \in Positions(list) : NotBefore(p, at) /\ p # at}
  IN  IF later = {} THEN At(0, 0)
      ELSE CHOOSE p \in later : \A q \in later : NotBefore(q, p)

(* mstl3_pack_next(): another record of the segment being packed ... *)
GenContinue(flush) ==
  LET p == [sp EXCEPT !.flush = @ \/ flush]
  IN  /\ sp.active /\ HasRecord(p)
      /\ \E data \in Payloads(p) :
           \/ /\ Encodable(data)
              /\ Emit(p, data)
              /\ gen' = [gen EXCEPT !.ret = "record", !.sent = @ + Len(data)]
           \/ /\ ~Encodable(data)
              /\ sp' = p
              /\ gen' = [gen EXCEPT !.ret = "error"]
              /\ UNCHANGED stream
      /\ UNCHANGED ids

(* ... or the segment is done: clean up, then look for another one ... *)
GenAdvance(flush) ==
  LET p    == [sp EXCEPT !.flush = @ \/ flush]
      next == NextPosition(ids, gen.at)
  IN  /\ sp.active /\ ~HasRecord(p)
      /\ IF MaintainList /\ next.id = 0
         THEN /\ gen' = [gen EXCEPT !.finished = TRUE, !.total = @ + sp.packed, !.ret = "done"]
              /\ sp' = NoPacker
              /\ UNCHANGED <<ids, stream>>
         ELSE Scan(GenCleaned(ids), IF MaintainList THEN next ELSE At(0, 0),
                   gen.total + sp.packed, flush)

(* ... or none was being packed. *)
GenScan(flush) ==
  /\ ~sp.active
  /\ Scan(ids, gen.at, gen.total, flush)

(* A packer that maintains the list and does not flush packs it again and  *)
(* again if it is used after it is finished, so its use is bounded too.    *)
GenNext(flush) ==
  /\ gen.open /\ ~gen.finished /\ call.kind = "none"
  /\ gen.keep /\ ~gen.flush => Len(stream) < MaxStream
  /\ GenContinue(flush) \/ GenAdvance(flush) \/ GenScan(flush)
  /\ UNCHANGED <<now, added, call>>

(* mstl3_pack_free() *)
GenFree ==
  /\ gen.open /\ (FreeEarly \/ gen.ret \in {"done", "error"})
  /\ gen' = [gen EXCEPT !.open = FALSE, !.ret = "freed"]
  /\ sp' = NoPacker
  /\ UNCHANGED <<ids, now, added, call, stream>>

-----------------------------------------------------------------------------
(* The callback interface: _mstl3_pack_callback() and, for one segment,    *)
(* mstl3_pack_segment().                                                   *)

CallPack ==
  /\ UseCallback /\ Idle /\ ~gen.open /\ Len(stream) < MaxStream
  /\ \E flush \in PackerFlush, keep \in PackerMaintain :
       call' = [kind |-> "list", at |-> At(1, 1), flush |-> flush, keep |-> keep]
  /\ UNCHANGED <<ids, now, added, sp, gen, stream>>

CallPackSegment ==
  /\ UseSegment /\ Idle /\ ~gen.open /\ Len(stream) < MaxStream
  /\ \E at \in Positions(ids), flush \in PackerFlush, keep \in PackerMaintain :
       call' = [kind |-> "segment", at |-> at, flush |-> flush, keep |-> keep]
  /\ UNCHANGED <<ids, now, added, sp, gen, stream>>

Here == call.kind # "none" /\ call.at \in Positions(ids)

(* The loop is at a segment: msr3_pack() starts on its samples. *)
CallStart ==
  /\ Here /\ ~sp.active /\ SegAt(ids, call.at).data # <<>>
  /\ sp' = PackerFor(ids, call.at,
             call.flush \/ (call.kind = "list" /\ IsIdle(SegAt(ids, call.at))))
  /\ UNCHANGED <<ids, now, added, gen, call, stream>>

CallEmit ==
  /\ call.kind # "none" /\ sp.active /\ HasRecord(sp)
  /\ \E data \in Payloads(sp) : Encodable(data) /\ Emit(sp, data)
  /\ UNCHANGED <<ids, now, added, gen, call>>

(* The list without the samples packed; only the loop over the whole list  *)
(* removes a segment without samples.                                      *)
CallCleaned ==
  LET trimmed == IF MaintainList \/ sp.packed = 0 THEN ids
                 ELSE TrimSegment(ids, call.at, sp.packed)
  IN  IF call.kind = "list" /\ ~MaintainList /\ SegAt(trimmed, call.at).data = <<>>
      THEN RemoveSegment(trimmed, call.at) ELSE trimmed

(* Segment done, or skipped because it holds no samples: on to the next. *)
CallFinish ==
  /\ Here
  /\ IF sp.active THEN ~HasRecord(sp) ELSE SegAt(ids, call.at).data = <<>>
  /\ ids' = CallCleaned
  /\ sp' = NoPacker
  /\ call' = IF call.kind = "segment" THEN NoCall
             ELSE IF Len(ids'[IdOrder[call.at.id]].segs) < Len(ids[IdOrder[call.at.id]].segs)
             THEN call
             ELSE [call EXCEPT !.at.seg = @ + 1]
  /\ UNCHANGED <<now, added, gen, stream>>

(* The encoder refuses: what was packed is removed, the call ends with -1. *)
CallError ==
  /\ call.kind # "none" /\ sp.active /\ HasRecord(sp)
  /\ \E data \in Payloads(sp) : ~Encodable(data)
  /\ ids' = IF MaintainList \/ sp.packed = 0 THEN ids ELSE TrimSegment(ids, call.at, sp.packed)
  /\ sp' = NoPacker
  /\ call' = NoCall
  /\ UNCHANGED <<now, added, gen, stream>>

(* Past the last segment of an ID, and past the last ID. *)
CallNextID ==
  /\ call.kind = "list" /\ call.at.id <= Len(IdOrder) /\ ~Here
  /\ call' = [call EXCEPT !.at = At(@.id + 1, 1)]
  /\ UNCHANGED <<ids, now, added, sp, gen, stream>>

CallReturn ==
  /\ call.kind = "list" /\ call.at.id > Len(IdOrder)
  /\ call' = NoCall
  /\ UNCHANGED <<ids, now, added, sp, gen, stream>>

-----------------------------------------------------------------------------
(* Callers add records only between packing calls: the template of a       *)
(* record packer points into the samples of its segment.  A packer that    *)
(* maintains the list may keep its place between calls, a pointer to a     *)
(* segment that a merge can free; records then go to other trace IDs.      *)
KeptPlaceStays ==
  gen.open /\ ~gen.finished /\ gen.at.id # 0 => ids'[IdOrder[gen.at.id]] = ids[IdOrder[gen.at.id]]

Add ==
  /\ Idle /\ TotalAdded < MaxAdds /\ now <= AddUntil
  /\ \E rec \in Records : AddMsr(rec)
  /\ KeptPlaceStays
  /\ UNCHANGED <<now, sp, gen, call, stream>>

Tick ==
  /\ now < MaxNow
  /\ now' = now + 1
  /\ UNCHANGED <<ids, added, sp, gen, call, stream>>

PackInit ==
  /\ ids = [k \in Keys |-> NoTraceID]
  /\ now = 1
  /\ added = [rec \in Records |-> 0]
  /\ sp = NoPacker /\ gen = NoGen /\ call = NoCall /\ stream = <<>>

CallStep ==
  CallStart \/ CallEmit \/ CallFinish \/ CallError \/ CallNextID \/ CallReturn

PackNext ==
  \/ Add \/ Tick
  \/ GenInit \/ (\E flush \in PackerFlush : GenNext(flush)) \/ GenFree
  \/ CallPack \/ CallPackSegment \/ CallStep

PackSpec == PackInit /\ [][PackNext]_allVars

(* The clock runs, and the caller keeps going around its loop: it makes a  *)
(* packer, uses it and frees it, or calls mstl3_pack() again and again.    *)
(* The loop over the generator can always go on between other calls, so    *)
(* its weak fairness is written with that condition for ENABLED; every     *)
(* step of it changes gen, and no other action does.                       *)
GenCanGoOn == UseGenerator /\ call.kind = "none" /\ (gen.open \/ Len(stream) < MaxStream)
CallLoop == CallPack \/ CallStep

PackFairness ==
  /\ WF_allVars(Tick)
  /\ []<>~GenCanGoOn \/ []<><<gen.open \/ gen'.open>>_gen
  /\ WF_allVars(CallLoop)

FairPackSpec == PackSpec /\ PackFairness

-----------------------------------------------------------------------------
(* Properties.                                                             *)

(* The samples of a record packer already in the stream, and still in its  *)
(* segment until that segment is cleaned up.                               *)
InFlight == IF sp.active /\ ~MaintainList THEN SubSeq(sp.data, 1, sp.packed) ELSE <<>>

(* How often a sample was streamed for a source identifier. *)
Streamed(x, sid) ==
  SumFunction([i \in DOMAIN stream |->
                 IF stream[i].key[1] = sid THEN Occurrences(x, stream[i].data) ELSE 0])

(* As a rolling buffer that no caller maintains the trace list loses and   *)
(* repeats nothing: a sample added is either still in a segment or in one  *)
(* record of the stream.                                                   *)
SamplesStreamedOnce ==
  PackerMaintain = {FALSE} =>
    \A rec \in Records : \A x \in Range(rec.data) :
      HeldFor(x, rec.sid) + Streamed(x, rec.sid)
        = StoredFor(x, rec.sid)
          + (IF sp.active /\ IdOrder[sp.at.id][1] = rec.sid THEN Occurrences(x, InFlight) ELSE 0)

(* Whatever fails, nothing is lost: a sample added is in the list or in    *)
(* the stream, also after an encoding error and after freeing a packer     *)
(* that still had records to give.                                         *)
NothingLost ==
  \A rec \in Records : \A x \in Range(rec.data) :
    HeldFor(x, rec.sid) + Streamed(x, rec.sid) >= StoredFor(x, rec.sid)

(* The start time of every record in the stream is the time of its first   *)
(* sample and its samples are one period apart, provided the records added *)
(* were aligned to the sample period: partial packing moves the start time *)
(* of the segment along with its samples.                                  *)
StreamTimesExact ==
  \A i \in DOMAIN stream :
    LET r == stream[i]
    IN  /\ r.start = r.data[1]
        /\ \A m \in 1 .. Len(r.data) - 1 : \E rec \in Records :
              /\ rec.sid = r.key[1]
              /\ r.data[m + 1] - r.data[m] = NsPeriod(rec.rate)

(* Only complete records are produced until a flush is asked for, by a     *)
(* flag or by a segment being idle.                                        *)
OnlyCompleteRecords ==
  \A i \in DOMAIN stream : stream[i].flush \/ Len(stream[i].data) >= MinSamples

(* When mstl3_pack_next() says it is finished no segment could give        *)
(* another record, and with MSF_FLUSHDATA no samples are left.             *)
FinishedMeansDrained ==
  [][ (gen'.ret = "done" /\ gen' # gen /\ ~MaintainList) =>
        \A k \in Keys : \A i \in DOMAIN ids'[k].segs :
          /\ Len(ids'[k].segs[i].data) < MaxSamples
          /\ gen.flush => ids'[k].segs[i].data = <<>> ]_allVars

(* With MSF_MAINTAINMSTL and MSF_FLUSHDATA one packer packs every segment  *)
(* at most once: it never puts more samples into records than the list     *)
(* holds.                                                                  *)
MaintainedPackedOnce ==
  gen.open /\ gen.keep /\ gen.flush =>
    gen.sent <= SumFunction([k \in Keys |->
                  SumFunction([i \in DOMAIN ids[k].segs |-> Len(ids[k].segs[i].data)])])

Drained == \A k \in Keys : \A i \in DOMAIN ids[k].segs : ids[k].segs[i].data = <<>>

(* A segment that is no longer updated is flushed in the end, by calls     *)
(* that never ask for a flush.                                             *)
IdleFlushed == <>[]Drained

(* What mstl3_pack() and the generator stream is the data that was added:  *)
(* each sample once, at its own time, in complete records until a flush.   *)
StreamFaithful ==
  /\ SamplesStreamedOnce
  /\ StreamTimesExact
  /\ OnlyCompleteRecords
=============================================================================
