----------------------------- MODULE MCRecords ------------------------------
(* Records of two to eight frames, with time units of two nanoseconds, four *)
(* microseconds and three tenths of a millisecond.                         *)
EXTENDS RecordUse

Sid == [len |-> 20, seed |-> TRUE]
Hz(p, q) == [per |-> FALSE, q |-> <<p, q>>]
Series(n, step) == [k \in 1 .. n |-> (k * step) - (IF k % 5 = 0 THEN 3 * step ELSE 0)]
Wide(n) == [k \in 1 .. n |-> <<k * 7919, -k>>]
Short(n) == [k \in 1 .. n |-> (k * 37) % 128]

Kind(enc, stype, samples) == [enc |-> enc, stype |-> stype, samples |-> samples]
McKinds == {Kind("STEIM2", "i", Series(200, 1)), Kind("STEIM2", "i", Series(40, 100)), Kind("STEIM2", "i", Series(20, 2^20)),
            Kind("STEIM1", "i", Series(36, 1000)), Kind("STEIM1", "i", Series(75, 2)),
            Kind("INT32", "i", Series(40, 70001)), Kind("INT16", "i", Series(70, 300)), Kind("FLOAT32", "f", Series(33, 99)),
            Kind("FLOAT64", "d", Wide(20)), Kind("TEXT", "t", Short(140)), Kind("NONE", "i", Series(60, 3)),
            Kind("STEIM2", "f", Series(4, 1)), Kind("STEIM2", "i", <<0, 2^30 - 1, 0>>), Kind("NONE", "i", <<>>)}
McStarts == {<<0, Hz(1, 1)>>, <<5, Hz(5, 3)>>, <<-7, Hz(1, 3)>>, <<21, Hz(13, 1)>>, <<47, [per |-> TRUE, q |-> <<2, 1>>]>>}
McShapes == {<<128, <<5, Hz(5, 3)>>>>, <<128, <<-7, Hz(1, 3)>>>>, <<256, <<21, Hz(13, 1)>>>>, <<256, <<0, Hz(1, 1)>>>>}

Record(kind, start, reclen) ==
  [NewRecord EXCEPT !.reclen = reclen, !.sid = Sid, !.flags = {"ClockLocked"}, !.start = start[1], !.rate = start[2],
                    !.enc = kind.enc, !.pub = 1, !.samples = kind.samples, !.stype = kind.stype, !.cnt = Len(kind.samples)]

(* Records with little in the header, of every encoding.                   *)
McPlain == {[msr |-> Record(k, s[2], s[1]), flush |-> f, ver2 |-> v, callback |-> s[1] = 128] :
              k \in McKinds, s \in McShapes, f \in BOOLEAN, v \in BOOLEAN}

(* Records with extra headers, one or a few at a time.                     *)
Detection == [OnsetTime |-> 30, SignalAmplitude |-> 3, Detector |-> 30]
Murdock == Detection @@ [Type |-> "MURDOCK", Wave |-> "DILATATION", MEDSNR |-> 4, MEDLookback |-> 2]
Calibration == [BeginTime |-> 77, Duration |-> 5, Amplitude |-> 7, InputChannel |-> 3, Trigger |-> "AUTOMATIC", ReferenceAmplitude |-> 8]
Exception == [Time |-> 53, ReceptionQuality |-> 90, Count |-> 2, Type |-> 7, ClockStatus |-> 9]
McExtras ==
  {<<2, [NoExtras EXCEPT !.flags = {"EventBegin", "Spikes", "EndOfTimeSeries"}, !.leap = <<1>>, !.sequence = <<1000001>>]>>,
   <<4, [NoExtras EXCEPT !.flags = DOMAIN HeaderFlags, !.leap = <<-1>>, !.correction = <<3>>]>>,
   <<5, [NoExtras EXCEPT !.correction = <<-3>>, !.quality = <<300>>, !.dataquality = <<"M">>]>>,
   <<1, [NoExtras EXCEPT !.quality = <<80>>, !.dataquality = <<"X">>, !.sequence = <<7>>]>>,
   <<3, [NoExtras EXCEPT !.clock = <<12>>, !.exceptions = <<Exception>>]>>,
   <<0, [NoExtras EXCEPT !.quality = <<1>>, !.detections = <<Murdock, Detection>>]>>,
   <<2, [NoExtras EXCEPT !.detections = <<Murdock>>, !.calibrations = <<Calibration @@ [Type |-> "STEP", Steps |-> 3, StepBetween |-> 9]>>]>>,
   <<4, [NoExtras EXCEPT !.calibrations = <<Calibration @@ [Type |-> "SINE", AmplitudeRange |-> "RMS"], Calibration @@ [Type |-> "GENERIC"]>>]>>,
   <<5, [NoExtras EXCEPT !.calibrations = <<Calibration @@ [Type |-> "PSEUDORANDOM", AmplitudeRange |-> "RANDOM", EndTime |-> 50], [EndTime |-> 99]>>]>>,
   <<1, [NoExtras EXCEPT !.calibrations = <<Calibration>>]>>,
   <<3, [NoExtras EXCEPT !.calibrations = <<Calibration @@ [Type |-> "ABORT"]>>]>>}
McRich == {[msr |-> [Record(Kind("STEIM2", "i", Series(48, 40)), s, l) EXCEPT !.eh = e[2], !.pub = e[1]], flush |-> TRUE, ver2 |-> v, callback |-> TRUE] :
             e \in McExtras, s \in McStarts, l \in {256, 512}, v \in BOOLEAN}
(* What cannot be packed, and records without a length of their own.       *)
McOdd == {[msr |-> [Record(Kind("STEIM1", "i", Series(20, 1)), <<0, Hz(1, 1)>>, l) EXCEPT !.ver = v, !.sid = s], flush |-> TRUE, ver2 |-> FALSE, callback |-> TRUE] :
            l \in {-1, 39, 40, 100, 128, 200}, v \in {2, 3}, s \in {Sid, [Sid EXCEPT !.seed = FALSE], [Sid EXCEPT !.len = 63]}}

McTemplates == McPlain \cup McRich \cup McOdd
McSeconds == -1000 .. 1000
McLinks == {0, 46, 48, 50, 64, 76, 256, 257, 600}

Init == PackerInit /\ UseInit
Pack == PackerNext /\ UNCHANGED again
Finished == Ended /\ UNCHANGED <<packVars, again>>
Next == Pack \/ UseNext \/ Finished
Spec == Init /\ [][Next]_<<packVars, again>>
=============================================================================
