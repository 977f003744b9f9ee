--------------------------- MODULE RecordHeader2 ----------------------------
(***************************************************************************)
(* Version 2 headers (pack.c, unpack.c): the fixed header and the chain of *)
(* blockettes.  A record in memory is                                      *)
(*   [ver, len, big, h, blk, crc, data]                                    *)
(* big is the byte order of the header; h its fixed header; blk maps the   *)
(* offset of a blockette to [type, next, len, f, bits]; data is            *)
(* [off, bytes, payload, enc, host], the payload as a host of that byte    *)
(* order sees it.  Bytes that nothing was written to are zero.             *)
(* A parsed record (MS3Record) is                                          *)
(*   [ver, reclen, sid, flags, start, rate, enc, pub, eh, cnt, samples,    *)
(*    stype, datalength, swap, rec]                                        *)
(* with reclen -1 and enc "NONE" when they are not set; a rate is [per, q] *)
(* where q is a period, not a rate, if per; rec is the record it was       *)
(* parsed from; swap says whether header and payload needed swapping.      *)
(* A source identifier is [len, seed]: its length, and whether its codes   *)
(* fit the fields of a version 2 header.                                   *)
(***************************************************************************)
EXTENDS RecordExtras, RateConversion, SampleCodec

MINRECLEN == 40
MAXRECLEN == 10485760
DefaultReclen == 4096
DefaultEncoding == "STEIM2"
FixedLength == 48

Hertz(rate) == IF rate.per THEN Reciprocal(rate.q) ELSE rate.q

Reclen(msr) == IF msr.reclen < 0 THEN DefaultReclen ELSE msr.reclen
Encoding(msr) == IF msr.enc = "NONE" THEN DefaultEncoding ELSE msr.enc

IsPowerOf2(n) == \E k \in 7 .. 23 : n = 2^k

-----------------------------------------------------------------------------
(* Packing.                                                                *)

DataQuality(msr) ==
  IF msr.eh.dataquality # <<>> /\ msr.eh.dataquality[1] \in {"R", "D", "Q", "M"} THEN msr.eh.dataquality[1]
  ELSE CASE msr.pub = 1 -> "R" [] msr.pub = 3 -> "Q" [] msr.pub = 4 -> "M" [] OTHER -> "D"

(* The time correction is rounded to ticks by a cast, and taken as applied.*)
StoredCorrection(eh) == IF eh.correction = <<>> THEN 0 ELSE Quotient(eh.correction[1] + 1, 2)

FlagsOf(msr) ==
  {HeaderFlags[x] : x \in msr.eh.flags} \cup {RecordFlags[x] : x \in msr.flags}
  \cup Bit(<<"act", 4>>, msr.eh.leap # <<>> /\ msr.eh.leap[1] > 0)
  \cup Bit(<<"act", 5>>, msr.eh.leap # <<>> /\ msr.eh.leap[1] < 0)
  \cup Bit(<<"act", 1>>, msr.eh.correction # <<>>)

Plain(f) == [f |-> f, bits |-> {}]

(* The blockettes in the order they are written: their types and bodies.   *)
Blockettes(msr, time, factors) ==
  LET log2 == CHOOSE k \in 7 .. 23 : Reclen(msr) = 2^k
      quality == IF msr.eh.quality # <<>> /\ msr.eh.quality[1] <= 255 THEN msr.eh.quality[1] ELSE 0
      one(type, body) == <<[type |-> type, body |-> body]>>
      list(entries, Types(_)) ==
        FlattenSeq([i \in 1 .. Len(entries) |->
          [k \in 1 .. Len(Types(entries[i])) |->
            LET t == Types(entries[i])[k] IN [type |-> t, body |-> IF t = -1 THEN Plain(<<>>) ELSE PackEntry(t, entries[i])]]])
      model == IF msr.eh.clock = <<>> THEN 0 ELSE Least(msr.eh.clock[1], 32)
  IN  one(1000, Plain([enc |-> Encoding(msr), order |-> 1, log2 |-> log2]))
      \o (IF msr.eh.quality # <<>> \/ time.off # 0 THEN one(1001, Plain([quality |-> quality, usec |-> time.off])) ELSE <<>>)
      \o (IF MoreThan(Apart(Hertz(msr.rate), ms_nomsamprate(factors.f, factors.m)), 10000) THEN one(100, Plain([rate |-> msr.rate])) ELSE <<>>)
      \o [i \in 1 .. Len(msr.eh.exceptions) |->
            [type |-> 500, body |-> Pack500(msr.eh.exceptions[i], model)]]
      \o list(msr.eh.detections, LAMBDA e : <<DetectionType(e)>>)
      \o list(msr.eh.calibrations, CalibrationTypes)

WrittenLength == (1000 :> 8) @@ (1001 :> 8) @@ (100 :> 12) @@ (500 :> 200) @@ (200 :> 52) @@ (201 :> 60)
                 @@ (300 :> 60) @@ (310 :> 60) @@ (320 :> 64) @@ (390 :> 28) @@ (395 :> 16)

NoHeader == [written |-> -1, h |-> <<>>, blk |-> <<>>, b1000 |-> 0, b1001 |-> 0]

(* The chain: each blockette where the one before it ends, and linked from *)
(* it.                                                                     *)
OffsetOf(list, i) == FixedLength + FoldLeft(LAMBDA acc, b : acc + WrittenLength[b.type], 0, SubSeq(list, 1, i - 1))
Chain(list) ==
  [o \in {OffsetOf(list, i) : i \in 1 .. Len(list)} |->
     LET i == CHOOSE j \in 1 .. Len(list) : OffsetOf(list, j) = o
     IN  [type |-> list[i].type, next |-> IF i = Len(list) THEN 0 ELSE OffsetOf(list, i + 1), len |-> WrittenLength[list[i].type],
          f |-> list[i].body.f, bits |-> list[i].body.bits]]

(* msr3_pack_header2_offsets(): the length written, -1 on error.  Only the *)
(* blockettes of entries are checked against the buffer.                   *)
Header2(msr, time, factors, list, recbuflen) ==
  LET where(type) == IF \E i \in 1 .. Len(list) : list[i].type = type
                     THEN OffsetOf(list, CHOOSE i \in 1 .. Len(list) : list[i].type = type) ELSE 0
      written == OffsetOf(list, Len(list) + 1)
  IN  CASE Reclen(msr) < 128 \/ Reclen(msr) > MAXRECLEN \/ ~IsPowerOf2(Reclen(msr)) -> NoHeader
        [] ~msr.sid.seed \/ ~factors.ok -> NoHeader
        [] \E i \in 1 .. Len(list) : list[i].type = -1 -> NoHeader
        [] written > recbuflen /\ \E i \in 1 .. Len(list) : list[i].type \notin {1000, 1001, 100} -> NoHeader
        [] OTHER ->
             [written |-> written,
              h |-> [sequence |-> IF msr.eh.sequence = <<>> THEN 0 ELSE Least(msr.eh.sequence[1], 999999), quality |-> DataQuality(msr), sid |-> msr.sid,
                     time |-> [sec |-> time.sec, fsec |-> time.fsec], cnt |-> 0, factor |-> factors.f, multiplier |-> factors.m,
                     flags |-> FlagsOf(msr), correction |-> StoredCorrection(msr.eh), blockettes |-> Len(list),
                     dataoffset |-> 0, first |-> FixedLength],
              blk |-> Chain(list),
              b1000 |-> where(1000), b1001 |-> where(1001)]

msr3_pack_header2_offsets(msr, recbuflen) ==
  LET time == nstime2fsec_usec_offset(msr.start)
      factors == ms_genfactmult(Hertz(msr.rate))
  IN  Header2(msr, time, factors, Blockettes(msr, time, factors), recbuflen)

msr3_pack_header2(msr, recbuflen) == msr3_pack_header2_offsets(msr, recbuflen)

-----------------------------------------------------------------------------
(* Unpacking.                                                              *)

(* ms2_blktlen(): the length of the fields that are read, 0 if unknown; a  *)
(* blockette 2000 has its own.                                             *)
ms2_blktlen(b) ==
  CASE b.type = 100 -> 12
    [] b.type \in {200, 320, 390} -> 28
    [] b.type = 201 -> 36
    [] b.type \in {300, 310} -> 32
    [] b.type \in {395, 400} -> 16
    [] b.type \in {500, 1000, 1001} -> 8
    [] b.type = 2000 -> b.f.length
    [] OTHER -> 0

(* What a blockette adds to the parsed record.                             *)
ApplyBlockette(msr, b) ==
  CASE b.type = 100 -> [msr EXCEPT !.rate = b.f.rate]
    [] b.type = 200 -> [msr EXCEPT !.eh.detections = Append(@, Unpack200(b))]
    [] b.type = 201 -> [msr EXCEPT !.eh.detections = Append(@, Unpack201(b))]
    [] b.type = 300 -> [msr EXCEPT !.eh.calibrations = Append(@, Unpack300(b))]
    [] b.type = 310 -> [msr EXCEPT !.eh.calibrations = Append(@, Unpack310(b))]
    [] b.type = 320 -> [msr EXCEPT !.eh.calibrations = Append(@, Unpack320(b))]
    [] b.type = 390 -> [msr EXCEPT !.eh.calibrations = Append(@, Unpack390(b))]
    [] b.type = 395 -> [msr EXCEPT !.eh.calibrations = Append(@, Unpack395(b))]
    [] b.type = 500 -> [msr EXCEPT !.eh.exceptions = Append(@, Unpack500(b)), !.eh.clock = <<b.f.ClockModel>>]
    [] b.type = 1000 -> [msr EXCEPT !.reclen = 2^b.f.log2, !.enc = b.f.enc]
    [] b.type = 1001 -> [msr EXCEPT !.eh.quality = <<b.f.quality>>]
    [] OTHER -> msr

UnknownBlockette == [type |-> 0, next |-> 0, len |-> 0, f |-> <<>>, bits |-> {}]

(* The walk along the chain: w is [msr, count, end, b1000, b1001, broken]. *)
RECURSIVE WalkChain(_, _, _, _)
WalkChain(rec, reclen, offset, w) ==
  LET b == IF offset \in DOMAIN rec.blk THEN rec.blk[offset] ELSE UnknownBlockette
      length == ms2_blktlen(b)
      within == b.next # 0 /\ b.next < offset + length
      beyond == b.next > reclen
  IN  CASE offset = 0 \/ offset >= reclen \/ offset >= MAXRECLEN -> w
        [] length = 0 \/ offset + length > reclen -> [w EXCEPT !.broken = TRUE]
        [] OTHER ->
             WalkChain(rec, reclen, IF within \/ beyond THEN 0 ELSE b.next,
                       [msr |-> ApplyBlockette(w.msr, b), count |-> w.count + 1, end |-> offset + length,
                        b1000 |-> IF b.type = 1000 THEN offset ELSE w.b1000,
                        b1001 |-> IF b.type = 1001 THEN offset ELSE w.b1001,
                        broken |-> w.broken \/ within \/ beyond])

PublicationVersion(quality) == CASE quality = "M" -> 4 [] quality = "Q" -> 3 [] quality = "D" -> 2 [] quality = "R" -> 1 [] OTHER -> 0

NewRecord == [ver |-> 0, reclen |-> -1, sid |-> [len |-> 0, seed |-> FALSE], flags |-> {}, start |-> 0, rate |-> [per |-> FALSE, q |-> <<0, 1>>],
              enc |-> "NONE", pub |-> 0, eh |-> NoExtras, cnt |-> 0, samples |-> <<>>, stype |-> "none", datalength |-> 0,
              swap |-> [header |-> FALSE, payload |-> FALSE], rec |-> <<>>]

(* The parsed header, before the blockettes.                               *)
FixedHeader2(rec, reclen, host) ==
  LET h == rec.h
      correction == IF h.correction # 0 THEN <<2 * h.correction>> ELSE <<>>
      leap == CASE <<"act", 5>> \in h.flags -> <<-1>> [] <<"act", 4>> \in h.flags /\ <<"act", 5>> \notin h.flags -> <<1>> [] OTHER -> <<>>
  IN  [NewRecord EXCEPT !.ver = 2, !.reclen = reclen, !.sid = h.sid, !.rec = rec, !.cnt = h.cnt,
         !.rate = [per |-> FALSE, q |-> ms_nomsamprate(h.factor, h.multiplier)],
         !.pub = PublicationVersion(h.quality),
         !.flags = {x \in DOMAIN RecordFlags : RecordFlags[x] \in h.flags},
         !.eh = [NoExtras EXCEPT !.flags = {x \in DOMAIN HeaderFlags : HeaderFlags[x] \in h.flags}, !.leap = leap, !.correction = correction],
         !.swap = [header |-> rec.big # host, payload |-> FALSE]]

(* The start time: a correction that was not applied yet, and the          *)
(* microseconds of blockette 1001.                                         *)
StartTime2(rec, b1001) ==
  ms_btime2nstime(rec.h.time)
  + (IF <<"act", 1>> \notin rec.h.flags THEN rec.h.correction * NsPerFsec ELSE 0)
  + (IF b1001 # 0 THEN rec.blk[b1001].f.usec * NsPerUsec ELSE 0)

(* The order of the payload is that of blockette 1000, else the header's.  *)
PayloadSwap2(rec, b1000, host) ==
  IF b1000 # 0 THEN host = (rec.blk[b1000].f.order = 0) ELSE rec.big # host

(* msr3_unpack_mseed2() up to the samples.                                 *)
msr3_unpack_header2(rec, reclen, host) ==
  LET w == WalkChain(rec, reclen, rec.h.first,
                     [msr |-> FixedHeader2(rec, reclen, host), count |-> 0, end |-> 0, b1000 |-> 0, b1001 |-> 0, broken |-> FALSE])
  IN  [w EXCEPT !.msr.start = StartTime2(rec, w.b1001), !.msr.swap.payload = PayloadSwap2(rec, w.b1000, host),
                !.msr.datalength = IF rec.h.dataoffset > 0 THEN w.msr.reclen - rec.h.dataoffset ELSE 0]
=============================================================================
