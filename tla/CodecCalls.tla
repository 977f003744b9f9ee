----------------------------- MODULE CodecCalls -----------------------------
(* Callers that encode and decode samples, and what they rely on.          *)
EXTENDS LibraryCall, SampleCodec

CONSTANTS
  Series,      \* sequences of integer samples
  PayloadSizes,   \* bytes there are for a payload
  Words16      \* the 16-bit words given to the older decoders

Encodings == {"INT16", "INT32", "STEIM1", "STEIM2"}

Encode(s, encoding, room, host) ==
  Call("encode", <<s, encoding, room, host>>, msr_pack_data(s, room, "i", encoding, host, host))

(* A word as one big-endian sample, or the first two bytes of three.       *)
Decode(word) ==
  Call("decode", word, [cdsn |-> msr_decode_cdsn(word), sro |-> msr_decode_sro(word), dwwssn |-> msr_decode_dwwssn(word),
                        geo |-> [e \in {"GEOSCOPE163", "GEOSCOPE164"} |-> msr_decode_geoscope(e, word)],
                        geo24 |-> [host \in BOOLEAN |-> msr_decode_geoscope24(<<word \div 256, word % 256, 255>>, ~host, host)]])

CodecNext ==
  /\ call.op = "idle"
  /\ \/ \E s \in Series, e \in Encodings, room \in PayloadSizes, host \in BOOLEAN : Encode(s, e, room, host)
     \/ \E w \in Words16 : Decode(w)

-----------------------------------------------------------------------------
(* Properties.                                                             *)

(* The decoder's byte swapping for a payload made on this host.            *)
Swapped(encoding, host) == IF encoding \in Steims THEN ~host ELSE host

(* msr_pack_data() and ms_decode_data(): the samples that were packed come *)
(* back one for one, differences at the edge of a width and ones that wrap *)
(* around the integers included, and pass the check against the last one.  *)
CodecRoundTrip ==
  (call.op = "encode" /\ call.val.ret > 0) =>
    LET s == SubSeq(call.arg[1], 1, call.val.ret)
        back == ms_decode_data(call.val.payload, call.arg[2], call.val.ret, Swapped(call.arg[2], call.arg[4]))
    IN  /\ back.ret = call.val.ret
        /\ back.samples = [i \in DOMAIN s |-> IF call.arg[2] = "INT16" THEN AsInt16(s[i]) ELSE s[i]]
        /\ ~back.warned

(* The encoders stop early only when the room is used up: they never write *)
(* past it, every frame but the last is full, and samples are left over    *)
(* only if the last one is.  They refuse only a difference that 30 bits do *)
(* not hold, and room for less than one frame or sample.                   *)
EncodesWhatFits ==
  call.op = "encode" =>
    LET s == call.arg[1]
        room == call.arg[3]
        frames == call.val.payload
        full(k) == Len(frames[k].w) = FrameWords - (IF k = 1 THEN 3 ELSE 1)
        unit == IF call.arg[2] \in Steims THEN FrameBytes ELSE FixedSize[call.arg[2]]
    IN  IF call.val.ret = -1
        THEN \/ room < unit
             \/ call.arg[2] = "STEIM2" /\ \E i \in 2 .. Len(s) : BITWIDTH(Int32(s[i] - s[i - 1])) = 32
        ELSE /\ call.val.bytes <= room
             /\ call.val.ret < Len(s) => call.val.bytes = (room \div unit) * unit
             /\ call.arg[2] \in Steims =>
                  /\ \A k \in 1 .. Len(frames) - 1 : full(k)
                  /\ call.val.ret < Len(s) => full(Len(frames))

(* The older decoders give two's complement and gain ranged values: DWWSSN *)
(* is INT16 with its bytes read as unsigned, SRO and GEOSCOPE cover the    *)
(* range of their mantissa at each gain, CDSN is symmetric about its bias; *)
(* 24 bits are the same number on a host of either byte order.             *)
GainRangedExact ==
  call.op = "decode" =>
    LET w == call.arg
    IN  /\ call.val.dwwssn = AsInt16(w)
        /\ \A host \in BOOLEAN : call.val.geo24[host] = <<256 * AsInt16(w) + 255, 0>>
        /\ call.val.sro.ok = (w \div 2^12 <= 10)
        /\ call.val.sro.ok => call.val.sro.v * 2^(w \div 2^12) = AsSigned(w % 2^12, 12) * 2^10
        /\ \E g \in {0, 2, 4, 7}, m \in -8191 .. 8192 : call.val.cdsn = m * 2^g /\ m + 8191 = w % 2^14
        /\ \A e \in DOMAIN call.val.geo : call.val.geo[e][1] \in -2048 .. 2047
=============================================================================
