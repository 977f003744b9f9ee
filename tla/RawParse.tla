------------------------------ MODULE RawParse ------------------------------
(***************************************************************************)
(* The diagnostic parsers ms_parse_raw3() and ms_parse_raw2()              *)
(* (parseutils.c): the number of problems found in a record.  What they    *)
(* print of the fields is left out.                                        *)
(***************************************************************************)
EXTENDS RecordData

CONSTANT LikelySeconds   \* the seconds between the years 1900 and 2100

ManySamples == 20000
LikelySidLength == 4

Problem(condition) == IF condition THEN 1 ELSE 0

(* ms_parse_raw3() gives up on an identifier it cannot read, else counts.  *)
ms_parse_raw3(rec, maxreclen) ==
  IF maxreclen < MINRECLEN \/ rec.h.sid.len < LikelySidLength \/ Header3Length + rec.h.sid.len > maxreclen THEN 1
  ELSE Problem(rec.ver # 3) + Problem(rec.h.time.sec \notin LikelySeconds) + Problem(rec.h.time.nsec \notin 0 .. NsPerSec - 1)

(* The fixed header of version 2.                                          *)
RawFixed2(h) ==
  Problem(h.sequence \notin 0 .. 999999) + Problem(h.quality \notin {"D", "R", "Q", "M"}) + Problem(~h.sid.seed)
  + Problem(h.time.sec \notin LikelySeconds) + Problem(h.time.fsec \notin 0 .. FsecPerSec - 1) + Problem(h.cnt > ManySamples)
  + Problem(h.cnt > 0 /\ h.blockettes > 0 /\ h.dataoffset <= h.first)

(* The blockettes whose fields it prints, and what it asks of a blockette  *)
(* 1000; any other type is a problem.                                      *)
RawDetections == {200, 201}
RawCalibrations == {300, 310, 320, 390, 395}
RawTimings == {100, 400, 405, 500}
RawOpaque == {1001, 2000}
Raw1000(b) == Problem(b.f.enc \notin Steims \cup DOMAIN FixedSize) + Problem(b.f.order \notin {0, 1})
RawBlockette(b) ==
  IF b.type = 1000 THEN Raw1000(b)
  ELSE Problem(b.type \notin RawDetections \cup RawCalibrations \cup RawTimings \cup RawOpaque)

(* The walk along the chain: r is [problems, count, end, reclen, offset].  *)
(* A link into the blockette itself ends it and is not counted.            *)
RECURSIVE RawWalk(_, _, _)
RawWalk(rec, maxreclen, r) ==
  LET b == IF r.offset \in DOMAIN rec.blk THEN rec.blk[r.offset] ELSE UnknownBlockette
      end == r.offset + ms2_blktlen(b) - 1
      found == r.problems + Problem(ms2_blktlen(b) = 0)
  IN  CASE r.offset = 0 \/ r.offset >= maxreclen -> r
        [] end > maxreclen -> [r EXCEPT !.problems = found + 1, !.end = end]
        [] OTHER ->
             RawWalk(rec, maxreclen,
                     [problems |-> found + RawBlockette(b), count |-> r.count + 1, end |-> end,
                      reclen |-> IF b.type = 1000 THEN 2^b.f.log2 ELSE r.reclen,
                      offset |-> IF b.next <= end THEN 0 ELSE b.next])

(* What is checked of the chain as a whole.  A record without blockette    *)
(* 1000 has length -1 here, so that any offset is beyond it.               *)
BadRawEnd(h, maxreclen, r) ==
  Problem(r.offset > maxreclen) + Problem(h.dataoffset > r.reclen) + Problem(h.first > r.reclen)
  + Problem(h.cnt > 0 /\ h.dataoffset <= r.end)
RawEnd(h, maxreclen, r) ==
  Problem(r.offset > maxreclen) + Problem(h.dataoffset > r.reclen) + Problem(h.first > r.reclen)
  + Problem(h.cnt > 0 /\ h.dataoffset <= r.end) + Problem(h.blockettes # r.count)

ms_parse_raw2(rec, maxreclen) ==
  LET h == rec.h
      r == RawWalk(rec, maxreclen, [problems |-> 0, count |-> 0, end |-> -1, reclen |-> -1, offset |-> h.first])
  IN  CASE maxreclen < FixedLength -> 1
        [] h.first <= 46 \/ h.first >= maxreclen -> RawFixed2(h)
        [] OTHER -> RawFixed2(h) + r.problems + RawEnd(h, maxreclen, r)

RawProblems(rec) == IF rec.ver = 3 THEN ms_parse_raw3(rec, rec.len) ELSE ms_parse_raw2(rec, rec.len)
=============================================================================
