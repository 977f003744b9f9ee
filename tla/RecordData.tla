----------------------------- MODULE RecordData -----------------------------
(***************************************************************************)
(* Version 3 headers, the payload of a record, and repacking (pack.c,      *)
(* unpack.c).  The CRC of a version 3 record is its content.               *)
(***************************************************************************)
EXTENDS RecordHeader2

Header3Length == 40
SidBuffer == 64

-----------------------------------------------------------------------------
(* Version 3 headers.                                                      *)

(* Rates below one are stored as periods.                                  *)
StoredRate(rate) == IF ~rate.per /\ rate.q[1] > 0 /\ rate.q[1] < rate.q[2] THEN [per |-> TRUE, q |-> Reciprocal(rate.q)] ELSE rate

msr3_pack_header3(msr, recbuflen) ==
  LET length == Header3Length + msr.sid.len + ExtraLength(msr.eh)
  IN  IF Reclen(msr) < MINRECLEN \/ Reclen(msr) > MAXRECLEN \/ recbuflen < length \/ msr.sid.len > 255 THEN NoHeader
      ELSE [NoHeader EXCEPT !.written = length,
              !.h = [flags |-> msr.flags, time |-> [sec |-> Second(msr.start), nsec |-> Nanosecond(msr.start)], enc |-> Encoding(msr),
                     rate |-> StoredRate(msr.rate), pub |-> msr.pub, sid |-> msr.sid, eh |-> msr.eh, cnt |-> 0, datalength |-> 0]]

(* The payload of a record as a host of the given order sees its bytes.    *)
Reordered(word) == [word EXCEPT !.sw = LET unit == SwapUnit([w |-> IF Len(word.v) = 4 THEN 8 ELSE IF Len(word.v) = 2 THEN 16 ELSE 32])
                                       IN  IF @ = 0 THEN unit ELSE 0]
Seen(rec, hostorder) ==
  LET other(v) == CASE rec.data.enc \in Steims -> [v EXCEPT !.w = [i \in DOMAIN v.w |-> Reordered(v.w[i])]]
                    [] rec.data.enc = "INT16" -> ms_gswap2(v)
                    [] rec.data.enc \in {"INT32", "FLOAT32"} -> ms_gswap4(v)
                    [] rec.data.enc = "FLOAT64" -> ms_gswap8(v)
                    [] OTHER -> v
  IN  IF rec.data.host = hostorder THEN rec
      ELSE [rec EXCEPT !.data.host = hostorder, !.data.payload = [i \in DOMAIN rec.data.payload |-> other(rec.data.payload[i])]]

Crc(rec) == [Seen(rec, TRUE) EXCEPT !.crc = <<>>]
BadWithCrc(rec) == [rec EXCEPT !.crc = <<Crc([rec EXCEPT !.h.cnt = 0])>>]
WithCrc(rec) == [rec EXCEPT !.crc = <<Crc(rec)>>]

-----------------------------------------------------------------------------
(* The payload of a parsed record.                                         *)

(* The bytes of a version 2 record that are not all zero: the fixed        *)
(* header, the blockettes and the payload.  A blockette 500 ends with the  *)
(* names of the clock and of its status.                                   *)
Occupied(rec) ==
  LET used(b) == CASE b.type = 500 /\ b.f.ClockStatus = 0 /\ b.f.ClockModel = 0 -> 40
                   [] b.type = 500 /\ b.f.ClockStatus = 0 /\ b.f.ClockModel # 0 -> 72
                   [] OTHER -> b.len
      payload == {<<rec.data.off, rec.data.off + rec.data.bytes>>}
  IN  IF rec.ver = 2 THEN {<<0, FixedLength>>} \cup {<<o, o + used(rec.blk[o])>> : o \in DOMAIN rec.blk} \cup payload
      ELSE {<<0, rec.data.off>>} \cup payload
NullFrame(rec, a) == \A r \in Occupied(rec) : r[2] <= a \/ r[1] >= a + FrameBytes

(* Empty frames are taken off the end, looked for as if the payload began  *)
(* with the record.                                                        *)
RECURSIVE WithoutNullFrames(_, _)
WithoutNullFrames(rec, size) ==
  IF size > 0 /\ NullFrame(rec, size - FrameBytes) THEN WithoutNullFrames(rec, size - FrameBytes) ELSE size

(* msr3_data_bounds()                                                      *)
msr3_data_bounds(msr) ==
  LET off == IF msr.ver = 3 THEN Header3Length + msr.sid.len + ExtraLength(msr.eh) ELSE msr.rec.h.dataoffset
      whole == IF msr.ver = 3 THEN msr.datalength ELSE msr.reclen - off
      raw == msr.cnt * FixedSize[msr.enc]
      size == CASE msr.enc \in DOMAIN FixedSize -> IF raw < whole THEN raw % 2^16 ELSE whole
                [] msr.enc \in Steims /\ whole % FrameBytes = 0 -> WithoutNullFrames(msr.rec, whole)
                [] OTHER -> whole
  IN  [off |-> off, size |-> size]

(* The first bytes of a payload.                                           *)
PayloadPart(rec, enc, bounds) ==
  LET unit == IF enc \in DOMAIN FixedSize THEN FixedSize[enc] ELSE FrameBytes
  IN  IF bounds.off # rec.data.off THEN <<>>
      ELSE SubSeq(rec.data.payload, 1, Least(Len(rec.data.payload), bounds.size \div unit))

(* msr3_unpack_data(): the decoded samples, or a negative error.           *)
WithDecoded(msr, enc, r) ==
  IF r.ret < 0 THEN [msr EXCEPT !.cnt = -1] ELSE [msr EXCEPT !.enc = enc, !.samples = r.samples, !.stype = TypeOf(enc)]
DecodeWithin(msr, bounds) ==
  LET enc == IF msr.enc = "NONE" THEN "STEIM1" ELSE msr.enc
  IN  IF bounds.off < MINRECLEN \/ bounds.off >= msr.reclen THEN [msr EXCEPT !.cnt = -1]
      ELSE WithDecoded(msr, enc, ms_decode_data(PayloadPart(msr.rec, enc, bounds), enc, msr.cnt, msr.swap.payload))
msr3_unpack_data(msr) ==
  CASE msr.cnt = 0 -> msr
    [] msr.cnt # 0 /\ (msr.reclen < MINRECLEN \/ msr.reclen > MAXRECLEN) -> [msr EXCEPT !.cnt = -1]
    [] OTHER -> DecodeWithin(msr, msr3_data_bounds(msr))

-----------------------------------------------------------------------------
(* Unpacking a record on a host: the return code and the parsed record.    *)

Unpacked(code, msr) == [code |-> code, msr |-> msr]

(* A parsed header with its samples.                                       *)
UnpackedData(head, msr) == IF msr.cnt < 0 THEN Unpacked("GENERROR", head) ELSE Unpacked("NOERROR", msr)
UnpackedAll(head) == UnpackedData(head, msr3_unpack_data(head))

(* msr3_unpack_mseed2() with the samples.                                  *)
msr3_unpack_mseed2(rec, reclen, host) ==
  IF reclen < 64 \/ reclen > MAXRECLEN THEN Unpacked("OUTOFRANGE", NewRecord)
  ELSE UnpackedAll(msr3_unpack_header2(rec, reclen, host).msr)

(* msr3_unpack_mseed3() with the samples and a check of the CRC.           *)
PayloadSwap3(enc, host) == IF enc \in Steims THEN ~host ELSE host
msr3_unpack_mseed3(rec, reclen, host) ==
  LET h == rec.h
      length == Header3Length + h.sid.len + ExtraLength(h.eh)
      head == [NewRecord EXCEPT !.ver = 3, !.reclen = reclen, !.sid = h.sid, !.rec = rec, !.flags = h.flags,
                 !.start = FromParts(h.time.sec, h.time.nsec), !.enc = h.enc, !.rate = h.rate, !.cnt = h.cnt, !.pub = h.pub,
                 !.eh = h.eh, !.datalength = h.datalength, !.swap = [header |-> host, payload |-> PayloadSwap3(h.enc, host)]]
  IN  CASE reclen < MINRECLEN \/ reclen > MAXRECLEN -> Unpacked("OUTOFRANGE", NewRecord)
        [] h.sid.len >= SidBuffer -> Unpacked("GENERROR", NewRecord)
        [] rec.crc # <<Crc(rec)>> -> Unpacked("INVALIDCRC", NewRecord)
        [] length + h.datalength > reclen -> Unpacked("OUTOFRANGE", NewRecord)
        [] OTHER -> UnpackedAll(head)

Unpack(rec, host) ==
  IF rec.ver = 2 THEN msr3_unpack_mseed2(Seen(rec, host), rec.len, host) ELSE msr3_unpack_mseed3(Seen(rec, host), rec.len, host)

-----------------------------------------------------------------------------
(* Repacking: the header anew, the payload as it is.                       *)

NoPayload == [off |-> 0, bytes |-> 0, payload |-> <<>>, enc |-> "TEXT", host |-> FALSE]
NotRepacked == [ret |-> -1, rec |-> <<>>]
BlankRecord == [ver |-> 0, len |-> 0, big |-> FALSE, h |-> <<>>, blk |-> <<>>, crc |-> <<>>, data |-> NoPayload]
BadCopiedPayload(msr, bounds, off) ==
  [off |-> off, bytes |-> Least(bounds.size, msr.rec.data.bytes), payload |-> PayloadPart(msr.rec, msr.enc, [bounds EXCEPT !.off = off]), enc |-> msr.enc, host |-> msr.rec.data.host]
CopiedPayload(msr, bounds, off) ==
  [off |-> off, bytes |-> Least(bounds.size, msr.rec.data.bytes), payload |-> PayloadPart(msr.rec, msr.enc, bounds), enc |-> msr.enc, host |-> msr.rec.data.host]

msr3_repack_mseed3(msr, recbuflen) ==
  LET head == msr3_pack_header3(msr, recbuflen)
      bounds == msr3_data_bounds(msr)
      length == head.written + bounds.size
  IN  IF head.written < 0 \/ recbuflen < Header3Length + ExtraLength(msr.eh) + bounds.size THEN NotRepacked
      ELSE [ret |-> length,
            rec |-> WithCrc([BlankRecord EXCEPT !.ver = 3, !.len = length, !.data = CopiedPayload(msr, bounds, head.written),
                                                !.h = [head.h EXCEPT !.cnt = msr.cnt, !.datalength = bounds.size]])]

(* Steim frames of a version 2 record begin at a multiple of their size.   *)
Aligned(n) == ((n + FrameBytes - 1) \div FrameBytes) * FrameBytes
Repacked2(msr, recbuflen, head, bounds) ==
  LET off == IF msr.enc \in Steims THEN Aligned(head.written) ELSE head.written
  IN  IF recbuflen < msr.reclen \/ msr.cnt > 2^16 - 1 \/ head.written < 0 \/ recbuflen < off + bounds.size THEN NotRepacked
      ELSE [ret |-> msr.reclen,
            rec |-> [BlankRecord EXCEPT !.ver = 2, !.len = msr.reclen, !.big = TRUE, !.blk = head.blk,
                                        !.h = [head.h EXCEPT !.cnt = msr.cnt, !.dataoffset = off],
                                        !.data = CopiedPayload(msr, bounds, off)]]
msr3_repack_mseed2(msr, recbuflen) == Repacked2(msr, recbuflen, msr3_pack_header2(msr, recbuflen), msr3_data_bounds(msr))
=============================================================================
