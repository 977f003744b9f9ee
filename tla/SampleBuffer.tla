---------------------------- MODULE SampleBuffer ----------------------------
(***************************************************************************)
(* The samples of one trace segment (tracelist.c): the buffer they are in, *)
(* which grows with every record that is added decoded, is filled from the *)
(* record list when they were not, is converted from one sample type to    *)
(* another in place, and is trimmed to what is needed.                     *)
(*                                                                         *)
(* A sample is [as, v]: the type whose representation its bytes are, and   *)
(* four times its value.  A float keeps FloatBits bits of that.            *)
(***************************************************************************)
EXTENDS Integers, Sequences, SequencesExt

CONSTANTS
  BlockSizes,    \* values of libmseed_prealloc_block_size
  SegRecords,    \* the records that are added: [enc, v], the type of the
                 \* encoding and the values of the samples
  FloatBits,     \* bits in the mantissa of a float
  FloatRange,    \* doublings of its unit that its exponent allows
  MaxSegRecords  \* bound: records added

VARIABLES
  blocksize,   \* libmseed_prealloc_block_size
  seg,         \* MS3TraceSeg: sampletype, datasamples (there, or a null
               \* pointer), their number, datasize, and the record list
  orig,        \* history: the values that the samples had when decoded
  marks        \* history: what callers asked for or were told

bufferVars == <<blocksize, seg, orig, marks>>

(* The powers of two that a float can express.                             *)
Power2[n \in 0 .. FloatBits + FloatRange] == IF n = 0 THEN 1 ELSE 2 * Power2[n - 1]
Greatest == Power2[FloatBits + FloatRange]

(* A float tells quarters apart, and no value is beyond what it can hold.  *)
ASSUME BufferAssumption ==
  /\ BlockSizes \subseteq Nat /\ MaxSegRecords \in Nat
  /\ FloatBits \in Nat /\ FloatBits >= 2 /\ FloatRange \in Nat
  /\ SegRecords \subseteq [enc : {"i", "f", "d", "t"}, v : Seq(-Greatest .. Greatest)]

(* Definitions named Bad... are faulty variants of the one that follows:   *)
(* mistakes the properties are known to notice.                            *)

NoSegment == [type |-> "none", there |-> FALSE, data |-> <<>>, size |-> 0, recs |-> <<>>]

NoMarks == [rounded |-> FALSE, floated |-> FALSE, spoiled |-> FALSE]

SizeOf == [none |-> 0, t |-> 1, i |-> 4, f |-> 4, d |-> 8]

-----------------------------------------------------------------------------
(* Memory.                                                                 *)

(* libmseed_memory_prealloc(): the new size of a buffer.                   *)
BadPrealloc(size, current) == IF size < current THEN current ELSE current + blocksize
Prealloc(size, current) ==
  IF size < current THEN current
  ELSE current + blocksize * (IF size > current + blocksize THEN (size - current + blocksize - 1) \div blocksize ELSE 1)

Grown(size, current) == IF blocksize = 0 THEN size ELSE Prealloc(size, current)

-----------------------------------------------------------------------------
(* Values.                                                                 *)

Abs(v) == IF v < 0 THEN -v ELSE v
Exponent(v) ==
  CHOOSE k \in 0 .. FloatRange : Abs(v) <= Power2[FloatBits + k] /\ (k = 0 \/ Abs(v) > Power2[FloatBits + k - 1])
Quantum(v) == Power2[Exponent(v)]

(* The nearest float, the even one of two.                                 *)
ToFloat(v) ==
  LET q == Quantum(v)
      low == v \div q
  IN  q * (IF 2 * (v - q * low) < q \/ (2 * (v - q * low) = q /\ low % 2 = 0) THEN low ELSE low + 1)

(* A half is added, away from zero, and the fraction cut off.              *)
ToInteger(v) == IF v < 0 THEN -(4 * ((2 - v) \div 4)) ELSE 4 * ((v + 2) \div 4)

(* What is taken for a loss of precision: a fraction above the integer.    *)
Loses(v) == v > 0 /\ v % 4 # 0

(* The samples in another representation.                                  *)
Represented(data, type) ==
  [k \in DOMAIN data |-> [as |-> type, v |-> CASE type = "i" -> ToInteger(data[k].v)
                                               [] type = "f" -> ToFloat(data[k].v)
                                               [] type = "d" -> data[k].v]]

-----------------------------------------------------------------------------
(* Adding records.                                                         *)

Sampled(rec) == [k \in DOMAIN rec.v |-> [as |-> rec.enc, v |-> rec.v[k]]]

(* lm_msr2seg()                                                            *)
Begin(rec, decoded) ==
  /\ seg.recs = <<>>
  /\ seg' = IF decoded THEN [type |-> rec.enc, there |-> TRUE, data |-> Sampled(rec), size |-> SizeOf[rec.enc] * Len(rec.v), recs |-> <<rec>>]
            ELSE [NoSegment EXCEPT !.recs = <<rec>>]
  /\ orig' = IF decoded THEN rec.v ELSE <<>>

(* lm_addmsrtoseg() at either end: decoded samples have to be of the       *)
(* segment's type.                                                         *)
Extend(rec, decoded, atend) ==
  /\ seg.recs # <<>> /\ Len(seg.recs) < MaxSegRecords
  /\ decoded => rec.enc = seg.type
  /\ LET list == IF atend THEN Append(seg.recs, rec) ELSE <<rec>> \o seg.recs
         grown == [type |-> seg.type, there |-> TRUE, recs |-> list,
                   data |-> IF atend THEN seg.data \o Sampled(rec) ELSE Sampled(rec) \o seg.data,
                   size |-> Grown(SizeOf[rec.enc] * (Len(seg.data) + Len(rec.v)), seg.size)]
     IN  seg' = IF decoded THEN grown ELSE [seg EXCEPT !.recs = list]
  /\ orig' = IF ~decoded THEN orig ELSE IF atend THEN orig \o rec.v ELSE rec.v \o orig

Refuse(rec) ==
  /\ seg.recs # <<>> /\ rec.enc # seg.type
  /\ UNCHANGED <<seg, orig>>

-----------------------------------------------------------------------------
(* mstl3_unpack_recordlist()                                               *)

(* The type is that of the first record; others are not decoded with it.   *)
ListType == seg.recs[1].enc
Mixed == \E k \in DOMAIN seg.recs : seg.recs[k].enc # ListType
ValuesOf(recs) == FlattenSeq([k \in DOMAIN recs |-> recs[k].v])
ListValues == ValuesOf(seg.recs)

(* Into a buffer of the segment, which must not have one.                  *)
UnpackOwn ==
  /\ seg.recs # <<>> /\ ~seg.there
  /\ IF Mixed THEN UNCHANGED <<seg, orig>>
     ELSE /\ seg' = [type |-> ListType, there |-> TRUE, recs |-> seg.recs, size |-> SizeOf[ListType] * Len(ListValues),
                     data |-> [k \in DOMAIN ListValues |-> [as |-> ListType, v |-> ListValues[k]]]]
          /\ orig' = ListValues

(* Into a buffer of the caller.  The type of the segment is set as well: a *)
(* caller who has converted its samples does not ask for this.             *)
UnpackOut ==
  /\ seg.recs # <<>> /\ ~Mixed
  /\ seg.there => seg.type = ListType
  /\ seg' = [seg EXCEPT !.type = ListType]
  /\ UNCHANGED orig

-----------------------------------------------------------------------------
(* mstl3_convertsamples()                                                  *)

(* The size of the buffer afterwards: fewer bytes are given back unless    *)
(* memory is allocated in blocks.                                          *)
Resized(type) ==
  CASE type = "d" -> SizeOf.d * Len(seg.data)
    [] type # "d" /\ seg.type = "d" /\ blocksize = 0 -> SizeOf[type] * Len(seg.data)
    [] OTHER -> seg.size

mstl3_convertsamples(type, truncate) ==
  LET losses == {k \in DOMAIN seg.data : type = "i" /\ ~truncate /\ Loses(seg.data[k].v)}
  IN  /\ seg.data # <<>> /\ seg.type # type
      /\ \/ /\ seg.type = "t"
            /\ UNCHANGED <<seg, marks>>
         \/ /\ seg.type # "t" /\ losses = {}
            /\ seg' = [type |-> type, there |-> seg.there, recs |-> seg.recs,
                       data |-> Represented(seg.data, type), size |-> Resized(type)]
            /\ marks' = [rounded |-> marks.rounded \/ (type = "i" /\ truncate), floated |-> marks.floated \/ type = "f",
                         spoiled |-> marks.spoiled]
         \/ /\ seg.type # "t" /\ losses # {}
            /\ LET lost == CHOOSE k \in losses : \A j \in losses : k <= j
                   data == seg.data
               IN  seg' = [seg EXCEPT !.data = Represented(SubSeq(data, 1, lost - 1), type) \o SubSeq(data, lost, Len(data))]
            /\ marks' = [marks EXCEPT !.spoiled = TRUE]
      /\ UNCHANGED orig

(* mstl3_resize_buffers(), for memory that is allocated in blocks.         *)
mstl3_resize_buffers ==
  LET size == SizeOf[seg.type] * Len(seg.data)
  IN  /\ blocksize # 0
      /\ seg' = IF seg.there /\ size > 0 /\ seg.size > size THEN [seg EXCEPT !.size = size] ELSE seg
      /\ UNCHANGED orig

BufferInit ==
  /\ blocksize \in BlockSizes
  /\ seg = NoSegment
  /\ orig = <<>>
  /\ marks = NoMarks

(* A conversion that fails leaves samples of both types behind: the caller *)
(* gives the segment up.                                                   *)
Discard ==
  /\ marks.spoiled
  /\ seg' = NoSegment /\ orig' = <<>>
  /\ marks' = NoMarks

BufferNext ==
  /\ \/ /\ ~marks.spoiled
        /\ \/ \E rec \in SegRecords, decoded \in BOOLEAN :
                Begin(rec, decoded) \/ \E atend \in BOOLEAN : Extend(rec, decoded, atend)
           \/ \E rec \in SegRecords : Refuse(rec)
           \/ UnpackOwn \/ UnpackOut \/ mstl3_resize_buffers
        /\ UNCHANGED marks
     \/ \E type \in {"i", "f", "d"}, truncate \in BOOLEAN : ~marks.spoiled /\ mstl3_convertsamples(type, truncate)
     \/ Discard
  /\ UNCHANGED blocksize

BufferSpec == BufferInit /\ [][BufferNext]_bufferVars

-----------------------------------------------------------------------------
(* Whatever was added, unpacked, converted and trimmed: every sample is in *)
(* the representation that the segment's sample type says, and the buffer  *)
(* has room for all of them.                                               *)
SamplesAsTyped ==
  ~marks.spoiled =>
    /\ \A k \in DOMAIN seg.data : seg.data[k].as = seg.type
    /\ seg.size >= SizeOf[seg.type] * Len(seg.data)

(* The samples keep their values and their order: those of the records of  *)
(* the list if all are decoded, exact unless a conversion to float had too *)
(* few bits, or one to integer rounded what it was told to or a negative   *)
(* value, by half at most.                                                 *)
ValuesKept ==
  ~marks.spoiled =>
    /\ Len(orig) = Len(seg.data)
    /\ Len(seg.data) = Len(ListValues) => orig = ListValues
    /\ \A k \in DOMAIN orig :
         Abs(seg.data[k].v - orig[k]) <= (IF marks.rounded \/ orig[k] < 0 THEN 2 ELSE 0) + (IF marks.floated THEN Quantum(orig[k]) ELSE 0)

(* The buffer of a segment has room for its samples, in the type it says,  *)
(* with the values the records had.                                        *)
SegmentSamplesKept == SamplesAsTyped /\ ValuesKept
=============================================================================
