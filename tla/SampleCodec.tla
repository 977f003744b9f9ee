---------------------------- MODULE SampleCodec -----------------------------
(***************************************************************************)
(* The encodings of samples (packdata.c, unpackdata.c).  A payload is a    *)
(* sequence: of samples for the fixed width encodings, of frames for the   *)
(* Steim compressions.  A frame is [x, w]: x is <<X0, Xn>> in the first    *)
(* frame and empty in the others, w the words that hold differences; the   *)
(* words after them have nibble 00.  A word is [nib, dnib, v, sw]: v holds *)
(* its bytes, halves, 32 bits or, under a dnib, the 30 bits left as one    *)
(* number; sw is the size of the units whose bytes were swapped, 0 if they *)
(* have the host's order.                                                  *)
(***************************************************************************)
EXTENDS Integers, Sequences, SequencesExt

CONSTANTS
  FrameWords,   \* words of a frame: 16
  IntMax        \* the largest int32_t: 2^31 - 1

ASSUME CodecAssumption == FrameWords \in 4 .. 16 /\ IntMax > 2^29

IntMin == -IntMax - 1
FrameBytes == 4 * FrameWords

(* Integer subtraction and addition wrap around.                           *)
Int32(x) == CASE x > IntMax -> (x - IntMax - 1) + IntMin
              [] x < IntMin -> (x - IntMin) + IntMax + 1
              [] OTHER -> x

Unsigned(v, w) == v % 2^w
AsSigned(f, w) == IF f >= 2^(w - 1) THEN f - 2^w ELSE f

(* The value whose bytes are those of v in the other order; eight bytes    *)
(* are two values of four.                                                 *)
ms_gswap2(v) == AsSigned(v % 2^8, 8) * 2^8 + ((v \div 2^8) % 2^8)
ms_gswap4(v) == AsSigned(v % 2^8, 8) * 2^24 + ((v \div 2^8) % 2^8) * 2^16 + ((v \div 2^16) % 2^8) * 2^8 + ((v \div 2^24) % 2^8)
ms_gswap8(v) == <<ms_gswap4(v[2]), ms_gswap4(v[1])>>
HO2(v, swapflag) == IF swapflag THEN ms_gswap2(v) ELSE v
HO4(v, swapflag) == IF swapflag THEN ms_gswap4(v) ELSE v
HO8(v, swapflag) == IF swapflag THEN ms_gswap8(v) ELSE v

-----------------------------------------------------------------------------
(* Encoding.                                                               *)

(* The first width of the ladder that holds the value.                     *)
Ladder == <<4, 5, 6, 8, 10, 15, 16, 30>>
BadBITWIDTH(v) ==
  LET i == SelectInSeq(Ladder, LAMBDA w : -2^(w - 1) <= v /\ v <= 2^(w - 1))
  IN  IF i = 0 THEN 32 ELSE Ladder[i]
BITWIDTH(v) ==
  LET i == SelectInSeq(Ladder, LAMBDA w : -2^(w - 1) <= v /\ v <= 2^(w - 1) - 1)
  IN  IF i = 0 THEN 32 ELSE Ladder[i]

(* The ways to fill a word, in the order they are tried: n differences of  *)
(* w bits.                                                                 *)
Packing(n, w, nib, dnib) == [n |-> n, w |-> w, nib |-> nib, dnib |-> dnib]
Steim1Packings == <<Packing(4, 8, 1, 0), Packing(2, 16, 2, 0), Packing(1, 32, 3, 0)>>
Steim2Packings == <<Packing(7, 4, 3, 2), Packing(6, 5, 3, 1), Packing(5, 6, 3, 0), Packing(4, 8, 1, 0),
                    Packing(3, 10, 2, 3), Packing(2, 15, 2, 2), Packing(1, 30, 2, 1)>>

(* The differences of a packing as they are stored: shifted into one word  *)
(* by Steim-2, as an array of bytes or halves otherwise.                   *)
Stored(p, diffs) ==
  CASE p.w = 32 -> <<diffs[1]>>
    [] p.w \in {8, 16} -> [i \in 1 .. p.n |-> Unsigned(diffs[i], p.w)]
    [] OTHER -> <<FoldLeft(LAMBDA acc, i : acc + Unsigned(diffs[i], p.w) * 2^(p.w * (p.n - i)), 0, [i \in 1 .. p.n |-> i])>>

(* The bytes swapped for the other byte order.                             *)
SwapUnit(p) == CASE p.w = 8 -> 0 [] p.w = 16 -> 2 [] OTHER -> 4

Unrepresentable == [nib |-> -1, dnib |-> 0, v |-> <<>>, sw |-> 0, n |-> 0]

(* The words of the differences, as long as there is room for words.       *)
RECURSIVE WordsOf(_, _, _, _)
WordsOf(diffs, packings, room, swapflag) ==
  IF diffs = <<>> \/ room = 0 THEN <<>>
  ELSE LET i == SelectInSeq(packings, LAMBDA p : p.n <= Len(diffs) /\ \A k \in 1 .. p.n : BITWIDTH(diffs[k]) <= p.w)
           p == packings[i]
       IN  IF i = 0 THEN <<Unrepresentable>>
           ELSE <<[nib |-> p.nib, dnib |-> p.dnib, v |-> Stored(p, diffs), sw |-> IF swapflag THEN SwapUnit(p) ELSE 0, n |-> p.n]>>
                \o WordsOf(SubSeq(diffs, p.n + 1, Len(diffs)), packings, room - 1, swapflag)

(* Words in frames: the first frame has two words less.                    *)
InFrames(x0, xn, words) ==
  LET per == FrameWords - 1
      count == (Len(words) + 2 + per - 1) \div per
      cut(a, b) == SubSeq(words, a, IF b < Len(words) THEN b ELSE Len(words))
  IN  [k \in 1 .. count |-> IF k = 1 THEN [x |-> <<x0, xn>>, w |-> cut(1, per - 2)]
                            ELSE [x |-> <<>>, w |-> cut((k - 1) * per - 1, k * per - 2)]]

Failed == [ret |-> -1, bytes |-> 0, payload |-> <<>>]

(* The words for differences in an output of so many bytes.                *)
Room(outputlength) == (outputlength \div FrameBytes) * (FrameWords - 1) - 2

(* msr_encode_steim1() and msr_encode_steim2(): as many samples as fit in  *)
(* the frames of the output.  Xn is the last sample packed, not the last   *)
(* one given.                                                              *)
SteimEncoded(samples, words) ==
  LET packed == FoldLeft(LAMBDA acc, w : acc + w.n, 0, words)
      frames == InFrames(samples[1], samples[packed], words)
  IN  IF Last(words) = Unrepresentable THEN Failed
      ELSE [ret |-> packed, bytes |-> Len(frames) * FrameBytes, payload |-> frames]
EncodeSteim(samples, packings, diff0, outputlength, swapflag) ==
  LET diffs == [i \in 1 .. Len(samples) |-> IF i = 1 THEN diff0 ELSE Int32(samples[i] - samples[i - 1])]
  IN  CASE samples = <<>> -> [Failed EXCEPT !.ret = 0]
        [] samples # <<>> /\ outputlength = 0 -> Failed
        [] OTHER -> SteimEncoded(samples, WordsOf(diffs, packings, Room(outputlength), swapflag))

msr_encode_steim1(samples, outputlength, diff0, swapflag) == EncodeSteim(samples, Steim1Packings, diff0, outputlength, swapflag)
msr_encode_steim2(samples, outputlength, diff0, swapflag) == EncodeSteim(samples, Steim2Packings, diff0, outputlength, swapflag)

(* The other encoders take what fits of the values, which are cast to the  *)
(* type and swapped.                                                       *)
EncodeFixed(samples, size, outputlength) ==
  LET n == Min({Len(samples), outputlength \div size})
  IN  CASE samples = <<>> -> [Failed EXCEPT !.ret = 0]
        [] outputlength = 0 -> Failed
        [] OTHER -> [ret |-> n, bytes |-> n * size, payload |-> SubSeq(samples, 1, n)]

AsInt16(v) == AsSigned(Unsigned(v, 16), 16)
msr_encode_text(samples, outputlength) == EncodeFixed(samples, 1, outputlength)
msr_encode_int16(samples, outputlength, swapflag) == EncodeFixed([i \in DOMAIN samples |-> HO2(AsInt16(samples[i]), swapflag)], 2, outputlength)
msr_encode_int32(samples, outputlength, swapflag) == EncodeFixed([i \in DOMAIN samples |-> HO4(samples[i], swapflag)], 4, outputlength)
msr_encode_float32(samples, outputlength, swapflag) == EncodeFixed([i \in DOMAIN samples |-> HO4(samples[i], swapflag)], 4, outputlength)
msr_encode_float64(samples, outputlength, swapflag) == EncodeFixed([i \in DOMAIN samples |-> HO8(samples[i], swapflag)], 8, outputlength)

-----------------------------------------------------------------------------
(* Decoding.                                                               *)

EXTRACTBITRANGE(v, startbit, bits) == (v \div 2^startbit) % 2^bits

(* The differences of a word, or -1.  A word whose bytes were not swapped  *)
(* the way the decoder swaps them holds something else: nothing known.     *)
Fields(word, n, w, start) == [i \in 1 .. n |-> AsSigned(EXTRACTBITRANGE(word.v[1], start - (i - 1) * w, w), w)]
Array(word, n, w) == [i \in 1 .. n |-> AsSigned(word.v[i], w)]
Garbled(word, unit, swapflag) == word.sw # (IF swapflag THEN unit ELSE 0)

Good(d) == [ok |-> TRUE, d |-> d]
Steim1Diffs(word, swapflag) ==
  CASE word.nib = 0 -> Good(<<>>)
    [] word.nib = 1 -> Good(Array(word, 4, 8))
    [] word.nib = 2 /\ ~Garbled(word, 2, swapflag) -> Good(Array(word, 2, 16))
    [] word.nib = 3 /\ ~Garbled(word, 4, swapflag) -> Good(<<word.v[1]>>)
    [] OTHER -> Good(<<>>)

Steim2Diffs(word, swapflag) ==
  CASE word.nib = 0 -> Good(<<>>)
    [] word.nib = 1 -> Good(Array(word, 4, 8))
    [] word.nib \in {2, 3} /\ Garbled(word, 4, swapflag) -> Good(<<>>)
    [] word.nib = 2 /\ word.dnib = 1 -> Good(Fields(word, 1, 30, 0))
    [] word.nib = 2 /\ word.dnib = 2 -> Good(Fields(word, 2, 15, 15))
    [] word.nib = 2 /\ word.dnib = 3 -> Good(Fields(word, 3, 10, 20))
    [] word.nib = 3 /\ word.dnib = 0 -> Good(Fields(word, 5, 6, 24))
    [] word.nib = 3 /\ word.dnib = 1 -> Good(Fields(word, 6, 5, 25))
    [] word.nib = 3 /\ word.dnib = 2 -> Good(Fields(word, 7, 4, 24))
    [] OTHER -> [ok |-> FALSE, d |-> <<>>]

WordDiffs(steim, word, swapflag) == IF steim = 1 THEN Steim1Diffs(word, swapflag) ELSE Steim2Diffs(word, swapflag)

(* The samples after those in out, from the frames k and on.  The first    *)
(* difference of the first frame leads to X0 and is not used.              *)
FirstDiff(k) == IF k = 1 THEN 2 ELSE 1
RECURSIVE FramesDecoded(_, _, _, _, _, _)
FramesDecoded(steim, frames, k, out, samplecount, swapflag) ==
  IF k > Len(frames) \/ Len(out) >= samplecount THEN [ok |-> TRUE, d |-> out]
  ELSE LET first == IF k = 1 THEN <<frames[1].x[1]>> ELSE out
           words == [i \in DOMAIN frames[k].w |-> WordDiffs(steim, frames[k].w[i], swapflag)]
           all == FoldLeft(LAMBDA acc, w : acc \o w.d, <<>>, words)
           used == SubSeq(all, FirstDiff(k), Min({Len(all), FirstDiff(k) - 1 + samplecount - Len(first)}))
           next == FoldLeft(LAMBDA acc, d : Append(acc, Int32(Last(acc) + d)), first, used)
       IN  IF \E i \in DOMAIN words : ~words[i].ok THEN [ok |-> FALSE, d |-> <<>>]
           ELSE FramesDecoded(steim, frames, k + 1, next, samplecount, swapflag)

(* The samples, and whether the integrity check against Xn failed, which   *)
(* is only logged.                                                         *)
Decoded(samples) == [ret |-> Len(samples), samples |-> samples, warned |-> FALSE]
DecodeFailed == [Decoded(<<>>) EXCEPT !.ret = -1]
SteimDecoded(frames, r, samplecount) ==
  IF r.ok THEN [Decoded(r.d) EXCEPT !.warned = Len(r.d) = samplecount /\ Last(r.d) # frames[1].x[2]] ELSE DecodeFailed
DecodeSteim(steim, frames, samplecount, swapflag) ==
  IF frames = <<>> THEN Decoded(<<>>)
  ELSE SteimDecoded(frames, FramesDecoded(steim, frames, 1, <<>>, samplecount, swapflag), samplecount)

msr_decode_steim1(frames, samplecount, swapflag) == DecodeSteim(1, frames, samplecount, swapflag)
msr_decode_steim2(frames, samplecount, swapflag) == DecodeSteim(2, frames, samplecount, swapflag)

(* The other decoders stop with the samples or with the payload.           *)
DecodeFixed(payload, samplecount) == Decoded(SubSeq(payload, 1, Min({samplecount, Len(payload)})))

msr_decode_int16(payload, samplecount, swapflag) == DecodeFixed([i \in DOMAIN payload |-> HO2(payload[i], swapflag)], samplecount)
msr_decode_int32(payload, samplecount, swapflag) == DecodeFixed([i \in DOMAIN payload |-> HO4(payload[i], swapflag)], samplecount)
msr_decode_float32(payload, samplecount, swapflag) == DecodeFixed([i \in DOMAIN payload |-> HO4(payload[i], swapflag)], samplecount)
msr_decode_float64(payload, samplecount, swapflag) == DecodeFixed([i \in DOMAIN payload |-> HO8(payload[i], swapflag)], samplecount)

(* The gain ranged encodings of older networks: 16 bits to a sample.       *)
MAX12 == 2^11 - 1
MAX14 == 2^13 - 1
MAX16 == 2^15 - 1
MAX24 == 2^23 - 1

msr_decode_cdsn(sint) ==
  LET mult == <<0, 2, 4, 7>>
  IN  ((sint % 2^14) - MAX14) * 2^(mult[sint \div 2^14 + 1])

msr_decode_sro(sint) ==
  LET m == sint % 2^12
      exponent == 10 - sint \div 2^12
  IN  IF exponent \notin 0 .. 10 THEN [ok |-> FALSE, v |-> 0]
      ELSE [ok |-> TRUE, v |-> (IF m > MAX12 THEN m - 2 * (MAX12 + 1) ELSE m) * 2^exponent]

msr_decode_dwwssn(sint) == IF sint > MAX16 THEN sint - 2 * (MAX16 + 1) ELSE sint

(* GEOSCOPE samples are fractions: <<mantissa, power of two>>.             *)
msr_decode_geoscope(encoding, s) ==
  CASE encoding = "GEOSCOPE163" -> <<(s % 2^12) - 2048, (s \div 2^12) % 8>>
    [] encoding = "GEOSCOPE164" -> <<(s % 2^12) - 2048, (s \div 2^12) % 16>>

(* Three bytes are put into four of the host and read as one integer; a    *)
(* negative one is too large as well, as it is compared as unsigned.       *)
msr_decode_geoscope24(input, swapflag, bigendianhost) ==
  LET b == IF swapflag THEN <<input[3], input[2], input[1], 0>> ELSE <<0, input[1], input[2], input[3]>>
      h == IF bigendianhost THEN b ELSE Reverse(b)
      mantissa == AsSigned(h[1], 8) * 2^24 + h[2] * 2^16 + h[3] * 2^8 + h[4]
  IN  <<IF mantissa < 0 \/ mantissa > MAX24 THEN mantissa - 2 * (MAX24 + 1) ELSE mantissa, 0>>

-----------------------------------------------------------------------------
(* The dispatch by encoding.                                               *)

Steims == {"STEIM1", "STEIM2"}
FixedSize == [e \in {"TEXT", "INT16", "INT32", "FLOAT32", "FLOAT64"} |->
                CASE e = "TEXT" -> 1 [] e = "INT16" -> 2 [] e = "FLOAT64" -> 8 [] OTHER -> 4]
TypeOf(encoding) == CASE encoding = "TEXT" -> "t" [] encoding = "FLOAT32" -> "f" [] encoding = "FLOAT64" -> "d" [] OTHER -> "i"

(* msr_pack_data().  Steim frames are big-endian whatever the format       *)
(* version says of the other encodings.                                    *)
SteimSwap(bigendianhost) == ~bigendianhost
msr_pack_data(samples, maxdatabytes, sampletype, encoding, swapflag, bigendianhost) ==
  CASE encoding \notin Steims \cup DOMAIN FixedSize -> Failed
    [] sampletype # TypeOf(encoding) -> Failed
    [] encoding \in Steims /\ maxdatabytes < FrameBytes -> Failed
    [] encoding \in DOMAIN FixedSize \ {"TEXT"} /\ maxdatabytes < FixedSize[encoding] -> Failed
    [] encoding = "STEIM1" -> msr_encode_steim1(samples, maxdatabytes, 0, SteimSwap(bigendianhost))
    [] encoding = "STEIM2" -> msr_encode_steim2(samples, maxdatabytes, 0, SteimSwap(bigendianhost))
    [] encoding = "TEXT" -> msr_encode_text(samples, maxdatabytes)
    [] encoding = "INT16" -> msr_encode_int16(samples, maxdatabytes, swapflag)
    [] encoding = "INT32" -> msr_encode_int32(samples, maxdatabytes, swapflag)
    [] encoding = "FLOAT32" -> msr_encode_float32(samples, maxdatabytes, swapflag)
    [] encoding = "FLOAT64" -> msr_encode_float64(samples, maxdatabytes, swapflag)

(* ms_decode_data(): an error unless every sample expected is decoded.     *)
Complete(r, samplecount) == IF r.ret # samplecount THEN [r EXCEPT !.ret = -1] ELSE r
DecodeAs(payload, encoding, samplecount, swapflag) ==
  CASE encoding = "STEIM1" -> msr_decode_steim1(payload, samplecount, swapflag)
    [] encoding = "STEIM2" -> msr_decode_steim2(payload, samplecount, swapflag)
    [] encoding = "INT16" -> msr_decode_int16(payload, samplecount, swapflag)
    [] encoding = "INT32" -> msr_decode_int32(payload, samplecount, swapflag)
    [] encoding = "FLOAT32" -> msr_decode_float32(payload, samplecount, swapflag)
    [] encoding = "FLOAT64" -> msr_decode_float64(payload, samplecount, swapflag)
    [] encoding = "TEXT" -> DecodeFixed(payload, samplecount)
    [] OTHER -> DecodeFailed
ms_decode_data(payload, encoding, samplecount, swapflag) ==
  IF samplecount = 0 THEN Decoded(<<>>) ELSE Complete(DecodeAs(payload, encoding, samplecount, swapflag), samplecount)
=============================================================================
