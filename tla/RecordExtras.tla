---------------------------- MODULE RecordExtras ----------------------------
(***************************************************************************)
(* Extra headers and the blockettes of version 2 they correspond to        *)
(* (pack.c, unpack.c, extraheaders.c).  An entry of a list of extra        *)
(* headers is a function from the names that are present to values; the    *)
(* fields of a blockette always have a value, zero when nothing was set.   *)
(* Numbers are integers, in half units of what a blockette stores where it *)
(* rounds; a text is its length; times are nanoseconds.                    *)
(***************************************************************************)
EXTENDS RecordTime, Sequences, FiniteSets, TLC

(* The kinds of fields: what a blockette stores of a value, and when a     *)
(* stored value becomes a header.                                          *)
Number == <<"number", 0>>      \* shown if not zero
NonNegative == <<"signed", 0>> \* shown if not negative
Ticks == <<"ticks", 0>>        \* rounded to a unit
Byte == <<"byte", 255>>        \* left out when above the limit
Med == <<"byte", 254>>
Count == <<"count", 0>>        \* shown if positive
True == <<"true", 0>>          \* shown if set
Time == <<"time", 0>>
TimeUsec == <<"time", 1>>      \* a time with an offset of microseconds
Text(size) == <<"text", size>>

Least(a, b) == IF a < b THEN a ELSE b

StoredValue(kind, v) ==
  CASE kind[1] = "ticks" -> (v + 1) \div 2
    [] kind[1] = "byte" -> IF v <= kind[2] THEN v ELSE 0
    [] kind[1] = "text" -> Least(v, kind[2])
    [] kind = Time -> [btime |-> ms_timestr2btime(v), off |-> 0]
    [] kind = TimeUsec -> [btime |-> ms_timestr2btime(v), off |-> nstime2fsec_usec_offset(v).off]
    [] OTHER -> v

ZeroValue(kind) == IF kind[1] = "time" THEN [btime |-> NoTime, off |-> 0] ELSE 0

Shown(kind, s) ==
  CASE kind[1] = "time" -> s.btime # NoTime
    [] kind[1] = "byte" -> TRUE
    [] kind[1] = "signed" -> s >= 0
    [] kind[1] = "count" -> s > 0
    [] OTHER -> s # 0

HeaderValue(kind, s) ==
  CASE kind[1] = "time" -> ms_btime2nstime(s.btime) + s.off * NsPerUsec
    [] kind[1] = "ticks" -> 2 * s
    [] OTHER -> s

(* The fields of a blockette of an entry, with the bits of its flags, and  *)
(* the entry that they become with the words that flags stand for.         *)
Body(layout, e, bits) ==
  [f |-> [x \in DOMAIN layout |-> IF x \in DOMAIN e THEN StoredValue(layout[x], e[x]) ELSE ZeroValue(layout[x])], bits |-> bits]
Entry(layout, b, words) ==
  [x \in {y \in DOMAIN layout : Shown(layout[y], b.f[y])} |-> HeaderValue(layout[x], b.f[x])] @@ words

Says(e, field, word) == field \in DOMAIN e /\ e[field] = word
Bit(n, condition) == IF condition THEN {n} ELSE {}
AutomaticBit(e) == Bit(2, Says(e, "Trigger", "AUTOMATIC"))
TriggerWord(b) == [Trigger |-> IF 2 \in b.bits THEN "AUTOMATIC" ELSE "MANUAL"]
WaveWord(b) == [Wave |-> IF 0 \in b.bits THEN "DILATATION" ELSE "COMPRESSION"]

(* Blockette 200, a generic detection: bit 2 is set without a wave, and    *)
(* read as there being one.                                                *)
Layout200 == [SignalAmplitude |-> Number, SignalPeriod |-> Number, BackgroundEstimate |-> Number, OnsetTime |-> Time, Detector |-> Text(24)]
Pack200(e) ==
  Body(Layout200, e, Bit(0, Says(e, "Wave", "DILATATION")) \cup Bit(2, "Wave" \notin DOMAIN e)
                     \cup Bit(1, "Units" \in DOMAIN e /\ e["Units"] # "COUNTS"))
Unpack200(b) ==
  Entry(Layout200, b, [Type |-> "GENERIC", Units |-> IF 1 \in b.bits THEN "DECONVOLVED" ELSE "COUNTS"]
                      @@ (IF 2 \in b.bits THEN WaveWord(b) ELSE <<>>))

(* Blockette 201, a Murdock detection.                                     *)
Layout201 == Layout200 @@ [MEDSNR |-> Number, MEDLookback |-> Med, MEDPickAlgorithm |-> Med]
Pack201(e) == Body(Layout201, e, Bit(0, Says(e, "Wave", "DILATATION")))
Unpack201(b) == Entry(Layout201, b, [Type |-> "MURDOCK"] @@ WaveWord(b))

(* Blockettes 300 to 395, calibrations.                                    *)
Layout390 == [BeginTime |-> Time, Continued |-> True, Duration |-> Ticks, Amplitude |-> Number, InputChannel |-> Text(3)]
Pack390(e) == Body(Layout390, e, AutomaticBit(e))
Unpack390(b) == Entry(Layout390, b, [Type |-> "GENERIC"] @@ TriggerWord(b))

ReferenceFields == [ReferenceAmplitude |-> Ticks, Coupling |-> Text(12), Rolloff |-> Text(12)]
Layout300 == Layout390 @@ ReferenceFields @@ [Steps |-> Byte, StepFirstPulsePositive |-> True, StepAlternateSign |-> True, StepBetween |-> Ticks]
Pack300(e) == Body(Layout300, e, AutomaticBit(e))
Unpack300(b) == Entry(Layout300, b, [Type |-> "STEP"] @@ TriggerWord(b))

Layout310 == Layout390 @@ ReferenceFields @@ [SinePeriod |-> Number]
Pack310(e) ==
  Body(Layout310, e, AutomaticBit(e) \cup Bit(4, Says(e, "AmplitudeRange", "PEAKTOPEAK"))
                     \cup Bit(5, Says(e, "AmplitudeRange", "ZEROTOPEAK")) \cup Bit(6, Says(e, "AmplitudeRange", "RMS")))
Unpack310(b) ==
  Entry(Layout310, b, [Type |-> "SINE"] @@ TriggerWord(b) @@
                      (CASE 4 \in b.bits -> [AmplitudeRange |-> "PEAKTOPEAK"]
                         [] 4 \notin b.bits /\ 5 \in b.bits -> [AmplitudeRange |-> "ZEROTOPEAK"]
                         [] b.bits \cap {4, 5} = {} /\ 6 \in b.bits -> [AmplitudeRange |-> "RMS"]
                         [] OTHER -> <<>>))

Layout320 == Layout390 @@ ReferenceFields @@ [Noise |-> Text(8)]
Pack320(e) == Body(Layout320, e, AutomaticBit(e) \cup Bit(4, Says(e, "AmplitudeRange", "RANDOM")))
Unpack320(b) == Entry(Layout320, b, [Type |-> "PSEUDORANDOM"] @@ TriggerWord(b) @@ (IF 4 \in b.bits THEN [AmplitudeRange |-> "RANDOM"] ELSE <<>>))

Layout395 == [EndTime |-> Time]
Pack395(e) == Body(Layout395, e, {})
Unpack395(b) == Entry(Layout395, b, [Type |-> "ABORT"])

(* Blockette 500, a timing exception, with the model of the clock.         *)
Layout500 == [VCOCorrection |-> NonNegative, Time |-> TimeUsec, ReceptionQuality |-> Byte, Count |-> Count, Type |-> Text(16), ClockStatus |-> Text(128)]
Pack500(e, model) == LET b == Body(Layout500, e, {}) IN [b EXCEPT !.f = @ @@ [ClockModel |-> model]]
Unpack500(b) == Entry(Layout500, b, <<>>)

PackEntry(type, e) ==
  CASE type = 200 -> Pack200(e) [] type = 201 -> Pack201(e) [] type = 300 -> Pack300(e) [] type = 310 -> Pack310(e)
    [] type = 320 -> Pack320(e) [] type = 390 -> Pack390(e) [] type = 395 -> Pack395(e)

(* The blockettes of an entry of /FDSN/Calibration/Sequence, -1 if it has  *)
(* no known type and no end.                                               *)
CalibrationTypes(e) ==
  LET known == [STEP |-> 300, SINE |-> 310, PSEUDORANDOM |-> 320, GENERIC |-> 390]
      first == CASE "Type" \in DOMAIN e -> IF e["Type"] \in DOMAIN known THEN <<known[e["Type"]]>> ELSE <<-1>>
                 [] "EndTime" \in DOMAIN e -> <<>>
                 [] OTHER -> <<-1>>
  IN  IF "EndTime" \in DOMAIN e THEN first \o <<395>> ELSE first
DetectionType(e) == IF Says(e, "Type", "MURDOCK") THEN 201 ELSE 200

-----------------------------------------------------------------------------
(* The extra headers of a record: lists of entries, flags that are true,   *)
(* and values that are there (<<v>>) or not (<<>>).  The time correction   *)
(* and its stored value are in ticks of a tenth of a millisecond, the      *)
(* header in halves of them.                                               *)
NoExtras == [flags |-> {}, leap |-> <<>>, correction |-> <<>>, quality |-> <<>>, dataquality |-> <<>>, sequence |-> <<>>,
             clock |-> <<>>, exceptions |-> <<>>, detections |-> <<>>, calibrations |-> <<>>]

(* The length of the serialized headers grows with what is in them.        *)
ExtraLength(eh) ==
  LET entries(s) == 24 * Len(s)
  IN  8 * Cardinality(eh.flags) + entries(eh.leap) + entries(eh.correction) + entries(eh.quality) + entries(eh.dataquality)
      + entries(eh.sequence) + entries(eh.clock) + entries(eh.exceptions) + entries(eh.detections) + entries(eh.calibrations)

(* The flags of the fixed header, <<byte, bit>>.                           *)
HeaderFlags ==
  [EventBegin |-> <<"act", 2>>, EventEnd |-> <<"act", 3>>, EventInProgress |-> <<"act", 6>>,
   StationVolumeParityError |-> <<"io", 0>>, LongRecordRead |-> <<"io", 1>>, ShortRecordRead |-> <<"io", 2>>,
   StartOfTimeSeries |-> <<"io", 3>>, EndOfTimeSeries |-> <<"io", 4>>,
   AmplifierSaturation |-> <<"dq", 0>>, DigitizerClipping |-> <<"dq", 1>>, Spikes |-> <<"dq", 2>>, Glitches |-> <<"dq", 3>>,
   MissingData |-> <<"dq", 4>>, TelemetrySyncError |-> <<"dq", 5>>, FilterCharging |-> <<"dq", 6>>]
(* The bits of MS3Record.flags.                                            *)
RecordFlags == [Calibration |-> <<"act", 0>>, TimeQuestionable |-> <<"dq", 7>>, ClockLocked |-> <<"io", 5>>]
=============================================================================
