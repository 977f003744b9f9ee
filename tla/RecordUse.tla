----------------------------- MODULE RecordUse ------------------------------
(***************************************************************************)
(* What happens to packed records: they are parsed and repacked for the    *)
(* same or the other format version, or damaged and looked at with the     *)
(* diagnostic parser, or their samples are decoded later.                  *)
(***************************************************************************)
EXTENDS RecordPacker, RawParse

CONSTANT Links   \* offsets that a damaged field may hold

VARIABLE
  again     \* [what, from, ret, rec]: the record made of one of out

NotUsed == [what |-> "none", from |-> 0, ver |-> 0, ret |-> 0, rec |-> <<>>]
UseInit == again = NotUsed

Ended == task.started /\ ~packer.live

RepackedAs(msr, ver, buflen) == IF ver = 3 THEN msr3_repack_mseed3(msr, buflen) ELSE msr3_repack_mseed2(msr, buflen)

(* msr3_parse(), msr3_repack_mseed3() or msr3_repack_mseed2() into a       *)
(* buffer of any length that a record of the kind may have.                *)
Repack(i, ver, buflen) ==
  /\ Ended /\ again = NotUsed
  /\ again' = [what |-> "repacked", from |-> i, ver |-> ver] @@ RepackedAs(Unpack(out[i], host).msr, ver, buflen)
  /\ UNCHANGED packVars

(* A field of a version 2 header that is not what was written.             *)
Damaged(rec) ==
  {[rec EXCEPT !.h.first = x] : x \in Links} \cup {[rec EXCEPT !.h.dataoffset = x] : x \in Links}
  \cup {[rec EXCEPT !.h.blockettes = x] : x \in {rec.h.blockettes - 1, rec.h.blockettes + 1}}
  \cup {[rec EXCEPT !.blk[o].next = x] : o \in DOMAIN rec.blk, x \in Links}
  \cup {[rec EXCEPT !.blk[o].type = x] : o \in DOMAIN rec.blk, x \in {405, 999}}
Damage(i) ==
  /\ Ended /\ again = NotUsed
  /\ out[i].ver = 2
  /\ \E d \in Damaged(out[i]) : again' = [what |-> "damaged", from |-> i, ver |-> 2, ret |-> 0, rec |-> d]
  /\ UNCHANGED packVars

(* mstl3_unpack_recordlist() for a record that a record list points to:    *)
(* what follows the header up to the end of the record is decoded, and is  *)
(* swapped if any part of the record was.                                  *)
mstl3_unpack_recordlist(msr) ==
  LET off == msr3_data_bounds(msr).off
  IN  IF msr.enc = "NONE" THEN <<>>
      ELSE ms_decode_data(PayloadPart(msr.rec, msr.enc, [off |-> off, size |-> msr.reclen - off]), msr.enc, msr.cnt,
                          msr.swap.header \/ msr.swap.payload).samples

UseNext ==
  \/ out # <<>> /\ Damage(1)
  \/ \E i \in {1, Len(out)} \cap DOMAIN out, ver \in {2, 3}, buflen \in {128, 1024} : Repack(i, ver, buflen)

-----------------------------------------------------------------------------
(* The diagnostic parser finds nothing wrong with a packed record, and     *)
(* when it finds nothing wrong with a damaged one, the chain that          *)
(* msr3_unpack_mseed2() reads has the blockettes the header counts, none   *)
(* of them in the data.  It does not look at a chain whose first link does *)
(* not lead past the fixed header and into the record.                     *)
RawCheckAgrees ==
  /\ \A i \in Latest : RawProblems(out[i]) = 0
  /\ again.what = "damaged" /\ again.rec.h.first \in FixedLength .. again.rec.len - 1 /\ RawProblems(again.rec) = 0 =>
       LET w == msr3_unpack_header2(again.rec, again.rec.len, host)
       IN  w.count = again.rec.h.blockettes /\ (again.rec.h.cnt > 0 => w.end <= again.rec.h.dataoffset)

(* A repacked record has the samples, the time and the flags of the one it *)
(* was made of.  Left out are the encodings of fixed width, whose byte     *)
(* order differs between the versions while the payload is copied as it    *)
(* is, and records of version 2 that no longer fit their length.           *)
SameOrder(enc, a, b) == enc \in Steims \cup {"TEXT"} \/ a = b
SameRecord(new, old, lost) ==
  SameOrder(old.enc, old.ver, again.ver) =>
    /\ new.code = "NOERROR" /\ new.msr.samples = old.samples /\ new.msr.flags = old.flags
    /\ Distance(new.msr.start, old.start) <= lost
RepackKeepsRecord ==
  again.what = "repacked" /\ again.ret > 0 /\ again.rec.data.off + again.rec.data.bytes <= again.ret =>
    \A h \in BOOLEAN : SameRecord(Unpack(again.rec, h), Unpack(out[again.from], h).msr, Lost(again.rec))

(* Decoding later gives the samples that decoding a record when it is read *)
(* gives, at least where the payload is in the byte order of the header    *)
(* (see DecodedAlike).                                                     *)
LaterAlike(msr) == msr.cnt > 0 => mstl3_unpack_recordlist(msr) = msr.samples
OneOrder(msr) == msr.swap.header => msr.swap.payload
UnpackedLater == \A i \in Latest : OneOrder(Unpack(out[i], host).msr) => LaterAlike(Unpack(out[i], host).msr)

(* The same for every record, just as if the data were unpacked while the  *)
(* trace list was constructed.                                             *)
DecodedAlike == \A i \in Latest : LaterAlike(Unpack(out[i], host).msr)

(* A record handed out is well formed and read without an error, at once   *)
(* on either host or later from a record list.                             *)
RecordsReadAlike ==
  /\ PackedRecordsReadable
  /\ RecordsWellFormed
  /\ UnpackedLater
=============================================================================
