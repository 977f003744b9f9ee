---------------------------- MODULE RecordPacker ----------------------------
(***************************************************************************)
(* The record packer (pack.c): msr3_pack_init(), msr3_pack_next() until    *)
(* there are no more records, msr3_pack_free(), or msr3_pack(), which does *)
(* all three for a callback.  Each record is what the buffer of the packer *)
(* holds when it is handed out.                                            *)
(***************************************************************************)
EXTENDS RecordData

CONSTANT Templates   \* what is packed and how: [msr, flush, ver2, callback]

VARIABLES
  host,     \* whether the host is big-endian
  task,     \* the template being packed, and the function used
  packer,   \* the packer, or NoPacker
  out,      \* the records handed out
  report    \* what the caller was told: [ret, samples], ret "busy" until the end

packVars == <<host, task, packer, out, report>>

NoPacker == [finished |-> TRUE, live |-> FALSE]
NoTask == [msr |-> NewRecord, flush |-> FALSE, ver2 |-> FALSE, callback |-> FALSE, started |-> FALSE]
Busy == [ret |-> "busy", samples |-> 0, records |-> 0]

PackerInit ==
  /\ host \in BOOLEAN
  /\ task = NoTask /\ packer = NoPacker /\ out = <<>> /\ report = Busy

ms_samplesize(stype) == CASE stype = "t" -> 1 [] stype \in {"i", "f"} -> 4 [] stype = "d" -> 8 [] OTHER -> 0

MaxSamples(enc, maxdatabytes, samplesize) ==
  CASE enc = "STEIM1" -> (maxdatabytes \div FrameBytes) * 4 * (FrameWords - 1)
    [] enc = "STEIM2" -> (maxdatabytes \div FrameBytes) * 7 * (FrameWords - 1)
    [] OTHER -> maxdatabytes \div samplesize

(* The packer that msr3_pack_init() makes with a header, or NoPacker.      *)
NewPacker(msr, flush, ver, head, hostorder) ==
  LET maxreclen == Reclen(msr)
      enc == Encoding(msr)
      size == IF Len(msr.samples) > 0 THEN ms_samplesize(msr.stype) ELSE 0
      off == IF ver = 2 /\ Len(msr.samples) > 0 /\ enc \in Steims THEN Aligned(head.written) ELSE head.written
      bytes == IF Len(msr.samples) > 0 THEN maxreclen - off ELSE 0
      h == IF ver = 2 /\ Len(msr.samples) > 0 THEN [head.h EXCEPT !.dataoffset = off] ELSE head.h
  IN  CASE msr.reclen # -1 /\ (msr.reclen < MINRECLEN \/ msr.reclen > MAXRECLEN) -> NoPacker
        [] ver = 3 /\ maxreclen < Header3Length + msr.sid.len + ExtraLength(msr.eh) -> NoPacker
        [] Len(msr.samples) > 0 /\ size = 0 -> NoPacker
        [] head.written < 0 -> NoPacker
        [] OTHER ->
             [live |-> TRUE, ver |-> ver, maxreclen |-> maxreclen, enc |-> enc, flush |-> flush,
              swap |-> IF ver = 3 THEN hostorder ELSE ~hostorder, b1000 |-> head.b1000, b1001 |-> head.b1001, off |-> off,
              maxdatabytes |-> bytes, maxsamples |-> IF bytes > 0 THEN MaxSamples(enc, bytes, size) ELSE 0,
              rec |-> [BlankRecord EXCEPT !.ver = ver, !.big = ver = 2, !.h = h, !.blk = head.blk],
              nextstart |-> msr.start, packed |-> 0, records |-> 0, finished |-> FALSE]
PackVersion(msr, ver2) == IF msr.ver = 2 \/ ver2 THEN 2 ELSE 3
msr3_pack_init(msr, flush, ver2, hostorder) ==
  NewPacker(msr, flush, PackVersion(msr, ver2),
            IF PackVersion(msr, ver2) = 3 THEN msr3_pack_header3(msr, Reclen(msr)) ELSE msr3_pack_header2_offsets(msr, Reclen(msr)),
            hostorder)

(* A record without samples.                                               *)
HeaderOnly(p) ==
  IF p.ver = 3 THEN WithCrc([p.rec EXCEPT !.len = p.off, !.crc = <<>>, !.h.enc = "TEXT", !.h.cnt = 0, !.h.datalength = 0,
                                          !.data = [NoPayload EXCEPT !.off = p.off]])
  ELSE [p.rec EXCEPT !.len = p.maxreclen, !.blk[p.b1000].f.enc = "TEXT", !.data = [NoPayload EXCEPT !.off = p.off]]

(* The start time of a record after the first, as it is written into the   *)
(* header.  The second is taken from the time, not from the split.         *)
Timed(p, rec) ==
  LET split == nstime2fsec_usec_offset(p.nextstart)
      second == [rec EXCEPT !.h.time = [sec |-> Second(p.nextstart), fsec |-> split.fsec]]
  IN  CASE p.records = 0 -> rec
        [] p.ver = 3 -> [rec EXCEPT !.h.time = [sec |-> Second(p.nextstart), nsec |-> Nanosecond(p.nextstart)]]
        [] p.b1001 # 0 -> [second EXCEPT !.blk[p.b1001].f.usec = split.off]
        [] OTHER -> second

WithSamples(p, r, hostorder) ==
  LET rec == [p.rec EXCEPT !.len = IF p.ver = 3 THEN p.off + r.bytes ELSE p.maxreclen, !.crc = <<>>, !.h.cnt = IF p.ver = 3 THEN r.ret ELSE r.ret % 2^16,
                           !.data = [off |-> p.off, bytes |-> r.bytes, payload |-> r.payload, enc |-> p.enc, host |-> hostorder]]
  IN  IF p.ver = 3 THEN WithCrc(Timed(p, [rec EXCEPT !.h.datalength = r.bytes])) ELSE Timed(p, rec)

(* Whether too few samples are left to begin another record.               *)
TooFew(p, remaining) == remaining = 0 \/ (remaining < p.maxsamples /\ ~p.flush)

(* The samples that are not packed yet.                                    *)
BadRest(p, samples) == SubSeq(samples, IF p.packed = 0 THEN 1 ELSE p.packed + 2, Len(samples))
Rest(p, samples) == SubSeq(samples, p.packed + 1, Len(samples))

(* msr3_pack_next(): [ret, p, rec], ret 1 with a record, 0 without, -1 on  *)
(* an error.                                                               *)
NoMoreRecords(p) == [ret |-> 0, p |-> [p EXCEPT !.finished = TRUE], rec |-> p.rec]
NextRecord(p, msr, packed, rec) ==
  [ret |-> 1, rec |-> rec,
   p |-> [p EXCEPT !.rec = rec, !.packed = packed, !.records = @ + 1, !.finished = packed = Len(msr.samples),
                   !.nextstart = IF packed < Len(msr.samples) THEN ms_sampletime(msr.start, packed, Hertz(msr.rate)) ELSE @]]
AfterData(p, msr, r, hostorder) ==
  CASE r.ret < 0 -> [ret |-> -1, p |-> p, rec |-> p.rec]
    [] r.ret = 0 -> NoMoreRecords(p)
    [] r.ret > 0 -> NextRecord(p, msr, p.packed + r.ret, WithSamples(p, r, hostorder))
msr3_pack_next(p, msr, hostorder) ==
  LET total == Len(msr.samples)
  IN  CASE p.finished -> [ret |-> 0, p |-> p, rec |-> p.rec]
        [] ~p.finished /\ total = 0 -> [ret |-> 1, p |-> [p EXCEPT !.rec = HeaderOnly(p), !.records = @ + 1, !.finished = TRUE], rec |-> HeaderOnly(p)]
        [] ~p.finished /\ total > 0 /\ TooFew(p, total - p.packed) -> NoMoreRecords(p)
        [] OTHER -> AfterData(p, msr, msr_pack_data(Rest(p, msr.samples), p.maxdatabytes, msr.stype, p.enc, p.swap, hostorder), hostorder)

-----------------------------------------------------------------------------
(* The caller.                                                             *)

PackInit(t) ==
  /\ ~task.started
  /\ task' = [msr |-> t.msr, flush |-> t.flush, ver2 |-> t.ver2, callback |-> t.callback, started |-> TRUE]
  /\ packer' = msr3_pack_init(t.msr, t.flush, t.ver2, host)
  /\ report' = IF packer'.live THEN report ELSE [Busy EXCEPT !.ret = "error"]
  /\ UNCHANGED <<host, out>>

HandOut(step) ==
  /\ packer' = step.p
  /\ out' = IF step.ret = 1 THEN Append(out, step.rec) ELSE out
  /\ report' = CASE step.ret = 1 -> [report EXCEPT !.records = @ + 1]
                 [] step.ret = 0 -> [report EXCEPT !.ret = "done"]
                 [] step.ret = -1 -> [report EXCEPT !.ret = "error"]

PackNext ==
  /\ packer.live /\ report.ret = "busy"
  /\ HandOut(msr3_pack_next(packer, task.msr, host))
  /\ UNCHANGED <<host, task>>

(* msr3_pack() frees the packer as soon as there is nothing more; another  *)
(* caller may do so at any time.                                           *)
PackFree ==
  /\ packer.live
  /\ task.callback => report.ret # "busy"
  /\ report' = [report EXCEPT !.samples = packer.packed, !.ret = IF @ = "busy" THEN "stopped" ELSE @]
  /\ packer' = NoPacker
  /\ UNCHANGED <<host, task, out>>

PackerNext ==
  \/ \E t \in Templates : PackInit(t)
  \/ PackNext
  \/ PackFree

-----------------------------------------------------------------------------
(* Properties.                                                             *)

Total == Len(task.msr.samples)
Before(i) == FoldLeft(LAMBDA acc, rec : acc + rec.h.cnt, 0, SubSeq(out, 1, i - 1))

(* The record that was handed out last.  A record does not change once it  *)
(* is handed out, so what holds of the last one at every step holds of all.*)
Latest == IF packer.live /\ out # <<>> THEN {Len(out)} ELSE {}

(* Every record handed out is read back without an error, on a host of     *)
(* either byte order, with a CRC that matches.                             *)
PackedRecordsReadable == \A i \in Latest, h \in BOOLEAN : Unpack(out[i], h).code = "NOERROR"

(* The samples of the records, one after the other and read on either      *)
(* host, are the first samples of the template: none is lost at the        *)
(* boundary of two records, and none is packed twice.  The caller is told  *)
(* how many records and samples there were.                                *)
SamplesPackedOnce ==
  /\ packer.live => packer.packed = Before(Len(out) + 1)
  /\ ~packer.live => report.samples = Before(Len(out) + 1) /\ report.records = Len(out)
  /\ \A i \in Latest, h \in BOOLEAN :
       Unpack(out[i], h).msr.samples = SubSeq(task.msr.samples, Before(i) + 1, Before(i + 1))

(* A packer that flushes packs every sample.  One that does not leaves     *)
(* fewer samples than a record could hold, and every record is full.       *)
PackedAsAsked ==
  packer.live =>
    /\ report.ret = "done" /\ task.flush => packer.packed = Total
    /\ report.ret = "done" /\ ~task.flush /\ Total > 0 => Total - packer.packed < packer.maxsamples
    /\ ~task.flush /\ Total > 0 => \A i \in Latest : packer.maxdatabytes - out[i].data.bytes < FrameBytes

(* The records of version 2 have the length asked for and a chain that     *)
(* leads from one blockette to the next, to as many as the header says,    *)
(* before the data.                                                        *)
RecordsWellFormed ==
  \A i \in Latest : out[i].ver = 2 =>
    LET w == msr3_unpack_header2(out[i], out[i].len, host)
    IN  /\ ~w.broken /\ w.count = out[i].h.blockettes /\ w.b1000 # 0
        /\ out[i].len = Reclen(task.msr) /\ w.msr.reclen = out[i].len
        /\ out[i].data.off + out[i].data.bytes <= out[i].len
        /\ \A o \in DOMAIN out[i].blk : o + out[i].blk[o].len <= out[i].data.off

(* What the split of a time of version 2 may lose, and when the second it  *)
(* is written with is not the one the rest belongs to.                     *)
Lost(rec) == CASE rec.ver = 3 -> 0
               [] rec.ver = 2 /\ \E o \in DOMAIN rec.blk : rec.blk[o].type = 1001 -> NsPerUsec \div 2
               [] OTHER -> (NsPerFsec + NsPerUsec) \div 2
Distance(a, b) == IF a < b THEN b - a ELSE a - b
TimeOfRecord(i) == ms_sampletime(task.msr.start, Before(i), Hertz(task.msr.rate))
Carries(t) == nstime2fsec_usec_offset(t).sec # Second(t)

(* The start time read from a record is the time of its first sample:      *)
(* exact in version 3, and within what the fields of version 2 can hold.   *)
(* A record after the first whose rounded time is in the next second is    *)
(* left out (see StartTimesClose).                                         *)
StartTimesKept ==
  \A i \in Latest : i = 1 \/ out[i].ver = 3 \/ ~Carries(TimeOfRecord(i))
    => Distance(Unpack(out[i], host).msr.start, TimeOfRecord(i)) <= Lost(out[i])

(* The same of every record: the second, the tenths of a millisecond and   *)
(* the microseconds together recover the time value.                       *)
StartTimesClose ==
  \A i \in Latest : Distance(Unpack(out[i], host).msr.start, TimeOfRecord(i)) <= Lost(out[i])

(* Flags, leap seconds, publication version, identifier and rate are read  *)
(* back as they were given, from either version.  A publication version    *)
(* that is not in 1 .. 4 has no quality of its own in version 2.           *)
SameFields(msr, given) ==
  /\ msr.flags = given.flags /\ msr.sid = given.sid
  /\ msr.eh.flags = given.eh.flags
  /\ msr.eh.leap = given.eh.leap
  /\ msr.ver = 3 \/ (given.pub \in 1 .. 4 /\ given.eh.dataquality = <<>>) => msr.pub = given.pub
  /\ msr.ver = 2 /\ given.pub \notin 1 .. 4 => msr.pub \in 1 .. 4
  /\ ~MoreThan(Apart(Hertz(msr.rate), Hertz(given.rate)), 10000)
HeaderKept == \A i \in Latest : SameFields(Unpack(out[i], host).msr, task.msr)

(* A header of version 2 that was read and is written again is the same,   *)
(* blockette by blockette, but for the sequence number, which is not read. *)
(* Blockettes that unpack to something else (see the README) are left out: *)
(* generic detections, ends of calibrations and negative corrections.      *)
Unstable(rec) == rec.h.correction < 0 \/ \E o \in DOMAIN rec.blk : rec.blk[o].type \in {200, 395}
SameHeader(head, rec) ==
  LET same(h) == [h EXCEPT !.sequence = 0, !.cnt = 0, !.dataoffset = 0]
  IN  head.written >= 0 /\ head.blk = rec.blk /\ same(head.h) = same(rec.h)
HeaderStable ==
  \A i \in Latest : out[i].ver = 2 /\ ~Unstable(out[i]) =>
    SameHeader(msr3_pack_header2(Unpack(out[i], host).msr, out[i].len), out[i])

(* msr3_pack_next() packs each sample once, all of them or as many as fill *)
(* records.                                                                *)
SamplesPackedAsAsked == SamplesPackedOnce /\ PackedAsAsked

(* Start time and header are read from a record as they were given, and    *)
(* written again alike.                                                    *)
HeadersReadBack ==
  /\ StartTimesKept
  /\ HeaderKept
  /\ HeaderStable
=============================================================================
