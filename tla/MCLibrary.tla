----------------------------- MODULE MCLibrary ------------------------------
(* What callers of the library ask of it besides records and traces, one   *)
(* kind at a time: conversions, which are calls that leave nothing behind, *)
(* and what is kept between calls, log messages, selections, the parsed    *)
(* extra headers of a record, the samples of a segment or the list of IDs. *)
EXTENDS TimeString, SourceIdCalls, GlobCalls, CodecCalls, RateCalls, LogRegistry, Selection, ExtraHeaders, SampleBuffer, SkipList

VARIABLE active   \* what the caller works with

-----------------------------------------------------------------------------
(* The conversions on small instances: two hours of two minutes of two     *)
(* seconds to the day, two nanoseconds to the microsecond.                 *)
McFormats == {"ISOMONTHDAY", "ISOMONTHDAY_DOY", "ISOMONTHDAY_SPACE", "SEEDORDINAL", "UNIXEPOCH", "NANOSECONDEPOCH"}
McSubSeconds == {"NONE", "MICRO", "NANO", "MICRO_NONE", "NANO_NONE", "NANO_MICRO", "NANO_MICRO_NONE"}

(* Days around the epoch, leap days, centuries and the ends of the range.  *)
McDays == {-106650, -72561, -25567, -366, -1, 0, 58, 365, 789, 11016, 13878, 13879, 106750}
McTimes == {d * SecPerDay * NSTMODULUS + o : d \in McDays, o \in {0, 1, 2, 4, 11, 31}} \cup {NSTERROR, NSTUNSET}
McDates == {<<y, yd, h, m, s, n>> : y \in {1677, 1678, 1700, 1899, 1900, 1969, 1970, 1972, 1999, 2000, 2100, 2262, 2263},
                                    yd \in {0, 1, 60, 101, 366}, h \in {0, 2}, m \in {1}, s \in {0, 2}, n \in {0, 3}}
McMonthDays == {<<y, m, d>> : y \in {1677, 1678, 1900, 1999, 2000, 2004, 2262}, m \in 0 .. 13, d \in {0, 1, 28, 29, 30, 31, 32}}

McNets == {<<>>, <<"N">>, <<"N", " ">>}
McChans == {<<"B", "H", "Z">>, <<"B", " ", "Z">>, <<"B", "H">>, <<"B", "_", "H", "_", "Z">>,
            <<"B", "_", "H", "_", "Z", "Y">>, <<"B", "_", "H", "R", "_", "Z">>, <<"_", "_">>, <<"_", "H", "_">>}
McCodes == McNets \X {<<"S">>, <<"S", "T", "A", "T", "N", "S">>, <<"S", " ", "T">>} \X {<<>>, <<"0", " ">>, <<"0", "0">>} \X McChans
McSids == {ns \o n \o <<"_">> \o <<"S", "T">> \o <<"_">> \o l \o <<"_">> \o c :
             ns \in {<<"FDSN", ":">>, <<"FDSN", ":", "X", ":">>, <<"XFDSN", ":">>}, n \in McNets,
             l \in {<<>>, <<"0", "0", "0">>}, c \in McChans}
McSizes == {<<3, 6, 3, 4>>, <<9, 9, 9, 9>>}

(* Strings of whole characters of up to three bytes.                       *)
McChars == {<<"a">>, <<" ">>, <<"2", "~">>, <<"3", "~", "~">>}
McTexts == {a \o b \o c : a \in McChars, b \in McChars \cup {<<>>}, c \in McChars \cup {<<>>}}

(* Strings of up to four characters; patterns of up to four items.         *)
McAscii == <<"!", "*", "-", "0", "7", "9", ":", "?", "A", "B", "FDSN", "H", "N", "Q", "S", "X", "Z", "[", "\\", "]", "_", "a", "b">>
McOrder == [c \in Range(McAscii) |-> CHOOSE i \in DOMAIN McAscii : McAscii[i] = c]
McStrings == SeqOf({"a", "b"}, 4)
McItems == {<<>>, <<"a">>, <<"b">>, <<"*">>, <<"?">>, <<"[", "a", "-", "b", "]">>, <<"[", "!", "a", "]">>, <<"[", "b">>, <<"\\", "b">>}
McPatterns == {w \o x \o y \o z : w \in McItems, x \in McItems, y \in McItems, z \in {<<>>, <<"*">>, <<"a">>, <<"\\">>, <<"[", "]", "-", "b", "]">>}}

(* Runs of equal differences at the edges of the widths, two to a series.  *)
McDiffs == {0, 7, -8, 8, 15, -16, 16, -32, 32, 127, -129, 511, -16384, 16384, 32768, 2^29 - 1, -2^29, 2^29}
Walk(d, i, e, j) == [k \in 1 .. i + j + 1 |-> Int32((IF k - 1 < i THEN k - 1 ELSE i) * (d % 2^20) + (IF k > i + 1 THEN (k - i - 1) % 2 ELSE 0) * e)]
McSeries == {Walk(d, i, e, j) : d \in McDiffs, i \in {0, 2, 6, 8}, e \in McDiffs, j \in {0, 1, 5, 9}}
            \cup {<<IntMax, IntMin, IntMax>>, <<IntMin, 0, IntMax, IntMax - 40, IntMin>>}
McWords16 == {k * 2^12 + m : k \in 0 .. 15, m \in {0, 1, 2047, 2048, 2049, 4095}}

(* Rates and periods on both sides of what two factors up to 11 express.   *)
McRates == {<<p, q>> : p \in 0 .. 150, q \in 1 .. 30} \cup {<<1, n>> : n \in 31 .. 150}

-----------------------------------------------------------------------------
(* Selections, headers and samples.                                        *)
Sid(n, s, l) == <<"FDSN", ":", n, "_", s, "_">> \o l \o <<"_", "B", "_", "H", "_", "Z">>
McEntries == {<<<<"*">>, 3, 5, 0>>, <<<<"*", "N", "_", "?", "_", "*">>, -1, 2, 1>>, <<<<"*", "N", "_", "?", "_", "*">>, 6, -1, 0>>,
              <<[i \in 1 .. 100 |-> IF i < 100 THEN "*" ELSE "Q"], 6, 8, 1>>, <<<<"*", "[", "A", "-", "B", "]", "_", "*", "_", "Z">>, -1, -1, 2>>}
McComponents == {<<<<"N">>, <<"*">>, <<"-", "-">>, <<"B", "H", "Z">>>>, <<<<"*">>, <<"A">>, <<"*">>, <<"?", "*", "Z">>>>,
                 <<<<"X">>, <<"S">>, <<"0", "0">>, <<"B", "_", "H", "_", "Z">>>>}
T(c) == [text |-> <<c>>, kind |-> "text", v |-> 0]
D(v) == [text |-> <<"9", "-", "9">>, kind |-> "date", v |-> v]
I(v) == [text |-> <<"7">>, kind |-> "int", v |-> v]
McFiles == {<< <<T("*")>>, <<T("*"), D(3)>>, <<>>, <<T("*"), D(3), D(4), I(300)>>, <<T("?")>> >>,
            << <<T("*"), D(2), D(3), I(2)>>, <<T("N"), T("S")>> >>,
            << <<T("N"), T("*"), T("*"), T("*"), I(1)>>, <<T("X"), T("*"), T("*"), T("*"), T("Q"), D(1), D(2)>> >>}
McQueries == {<<Sid(n, s, l), t[1], t[2], pub>> : n \in {"N", "X"}, s \in {"A", "S"}, l \in {<<>>, <<"0", "0">>},
                t \in {<<1, 2>>, <<2, 6>>, <<5, 5>>, <<4, -1>>}, pub \in {1, 2}}

McPointers == {<<"a">>, <<"a", "b">>, <<"l">>}
McScalars == {<<"n", 3>>}
McPatches == {<<<<"a">>, <<"b">> :> Null>>, <<<<>>, (<<"a">> :> Null) @@ (<<"l">> :> Scalar("i", 3))>>, <<<<>>, <<"l", "b">> :> Null>>}
Blank(fields) == [x \in DOMAIN fields |-> IF Included(fields[x], 0) THEN Unset ELSE 0]
Typed(fields) == [Blank(fields) EXCEPT !.Type = 1]
McStructs == {<<"detection", Typed(EventDetection)>>, <<"calibration", Typed(CalibrationEntry)>>, <<"exception", Typed(TimingException)>>,
              <<"recenter", Typed(RecenterEntry)>>, <<"recenter", [Blank(RecenterEntry) EXCEPT !.EndTime = InvalidTime]>>}
McOriginals == {[kind |-> "json", doc |-> Doc(<<"a", "b">> :> Scalar("u", 1))],
                [kind |-> "json", doc |-> Doc([p \in {<<"a">>, <<"c">>, <<"d">>, <<"e">>} |-> Scalar(IF p = <<"a">> THEN "s" ELSE "u", 1)])]}

(* Integers, floats that are and are not whole or fit the bits of a float, *)
(* doubles and text.                                                       *)
McSegRecords == {[enc |-> "i", v |-> <<4, -260>>], [enc |-> "i", v |-> <<140>>], [enc |-> "f", v |-> <<8, 6>>],
                 [enc |-> "f", v |-> <<-7>>], [enc |-> "d", v |-> <<12, 134>>], [enc |-> "t", v |-> <<1, 2>>]}

-----------------------------------------------------------------------------
Init ==
  /\ CallInit /\ LogInit /\ SelInit /\ ExtraInit /\ BufferInit /\ SkipInit
  /\ active \in {"conversions", "log", "selections", "headers", "samples", "ids"}
  /\ active # "headers" => extra = NoExtra
  /\ active # "samples" => blocksize = 0
  /\ active # "ids" => skip.split
Convert == TimeNext \/ SidNext \/ GlobNext \/ CodecNext \/ RateNext \/ Done
Next ==
  \/ active = "conversions" /\ Convert /\ UNCHANGED <<logVars, selVars, extraVars, bufferVars, skip, active>>
  \/ active = "log" /\ LogNext /\ UNCHANGED <<call, selVars, extraVars, bufferVars, skip, active>>
  \/ active = "selections" /\ SelNext /\ UNCHANGED <<call, logVars, extraVars, bufferVars, skip, active>>
  \/ active = "headers" /\ ExtraNext /\ UNCHANGED <<call, logVars, selVars, bufferVars, skip, active>>
  \/ active = "samples" /\ BufferNext /\ UNCHANGED <<call, logVars, selVars, extraVars, skip, active>>
  \/ active = "ids" /\ SkipNext /\ UNCHANGED <<call, logVars, selVars, extraVars, bufferVars, active>>
Spec == Init /\ [][Next]_<<call, logVars, selVars, extraVars, bufferVars, skip, active>> /\ LogFairness

(* The codes of this instance are such that joining them keeps them apart. *)
ASSUME PlainCodesAssumption == PlainCodes

(* Samples and rates come back from their encodings as they were put in,   *)
(* or are refused (msr_pack_data(), ms_decode_data(), ms_genfactmult()).   *)
EncodingsExact ==
  /\ CodecRoundTrip
  /\ EncodesWhatFits
  /\ GainRangedExact
  /\ RateRoundTrip
=============================================================================
