----------------------------- MODULE TimeString -----------------------------
(***************************************************************************)
(* Time strings: ms_nstime2timestr_n() writes them, ms_timestr2nstime()    *)
(* finds out which format it is given and reads it.                        *)
(***************************************************************************)
EXTENDS TimeConversion, SequencesExt

CONSTANTS Formats,      \* the ms_timeformat_t values used
          SubSeconds    \* the ms_subseconds_t values used

Num(v, digits) == [c |-> "#", v |-> v, n |-> digits]
Chr(c) == [c |-> c, v |-> 0, n |-> 1]
StrLength(s) == FoldLeft(LAMBDA n, e : n + e.n, 0, s)
Digits(v) == IF v < 10 THEN 1 ELSE IF v < 100 THEN 2 ELSE IF v < 1000 THEN 3
             ELSE IF v < 10000 THEN 4 ELSE IF v < 100000 THEN 5 ELSE 6

-----------------------------------------------------------------------------
(* Writing.                                                                *)

(* How many digits of subseconds are written: 0, 6 or 9.                   *)
SubDigits(sub, nanosec) ==
  LET microsec == nanosec \div SubMicro
      submicro == nanosec % SubMicro
  IN  IF \/ sub = "NONE"
         \/ sub = "MICRO_NONE" /\ microsec = 0
         \/ sub \in {"NANO_NONE", "NANO_MICRO_NONE"} /\ nanosec = 0 THEN 0
      ELSE IF \/ sub \in {"MICRO", "MICRO_NONE"}
              \/ sub \in {"NANO_MICRO", "NANO_MICRO_NONE"} /\ submicro = 0 THEN 6
      ELSE 9

Fraction(digits, nanosec) ==
  CASE digits = 0 -> <<>>
    [] digits = 6 -> <<Chr("."), Num(nanosec \div SubMicro, 6)>>
    [] digits = 9 -> <<Chr("."), Num(nanosec, 9)>>

Signed(v) == IF v < 0 THEN <<Chr("-"), Num(-v, Digits(-v))>> ELSE <<Num(v, Digits(v))>>

Clock(tms) == <<Num(tms.hour, 2), Chr(":"), Num(tms.min, 2), Chr(":"), Num(tms.sec, 2)>>

(* What the year takes: %4d.                                               *)
MonthDate(tms) == <<Num(tms.year, 4), Chr("-"), Num(tms.mon, 2), Chr("-"), Num(tms.mday, 2)>>

ZFormats == {"ISOMONTHDAY_Z", "ISOMONTHDAY_DOY_Z", "ISOMONTHDAY_SPACE_Z"}
SpaceFormats == {"ISOMONTHDAY_SPACE", "ISOMONTHDAY_SPACE_Z"}
DoyFormats == {"ISOMONTHDAY_DOY", "ISOMONTHDAY_DOY_Z"}

(* An epoch value is the truncated second and, unsigned, what was cut off. *)
BadEpochString(nstime, digits) ==
  LET isec == CDiv(nstime, NSTMODULUS)
  IN  Signed(isec) \o Fraction(digits, SplitTime(nstime)[2])
EpochString(nstime, digits) ==
  LET isec == CDiv(nstime, NSTMODULUS)
      raw == nstime - isec * NSTMODULUS
  IN  Signed(isec) \o Fraction(digits, IF nstime < 0 THEN -raw ELSE raw)

ms_nstime2timestr_n(nstime, format, sub) ==
  LET split == SplitTime(nstime)
      tms == ms_gmtime64_r(split[1])
      digits == SubDigits(sub, split[2])
      z == IF format \in ZFormats THEN <<Chr("Z")>> ELSE <<>>
  IN  IF nstime = NSTERROR THEN <<Chr("E")>>
      ELSE IF nstime = NSTUNSET THEN <<Chr("U")>>
      ELSE IF format = "NANOSECONDEPOCH" THEN Signed(nstime)
      ELSE IF format = "UNIXEPOCH" THEN EpochString(nstime, digits)
      ELSE IF format = "SEEDORDINAL" THEN
             <<Num(tms.year, 4), Chr(","), Num(tms.yday, 3), Chr(",")>>
               \o Clock(tms) \o Fraction(digits, split[2])
      ELSE MonthDate(tms) \o <<Chr(IF format \in SpaceFormats THEN " " ELSE "T")>>
             \o Clock(tms) \o Fraction(digits, split[2]) \o z
             \o (IF format \in DoyFormats
                 THEN <<Chr(" "), Chr("("), Num(tms.yday, 3), Chr(")")>> ELSE <<>>)

(* The older functions: a buffer of 36 bytes, and a Z for every ISO form.  *)
ms_nstime2timestr(nstime, format, sub) == ms_nstime2timestr_n(nstime, format, sub)
WithZ(format) ==
  CASE format = "ISOMONTHDAY" -> "ISOMONTHDAY_Z"
    [] format = "ISOMONTHDAY_DOY" -> "ISOMONTHDAY_DOY_Z"
    [] format = "ISOMONTHDAY_SPACE" -> "ISOMONTHDAY_SPACE_Z"
    [] OTHER -> format
ms_nstime2timestrz(nstime, format, sub) == ms_nstime2timestr_n(nstime, WithZ(format), sub)

-----------------------------------------------------------------------------
(* Reading.                                                                *)

Delimiters == {"-", "/", ",", ":", "."}

(* The scan that classifies a string stops at a final Z and at the first   *)
(* character that no format has.                                           *)
Classify(s) ==
  LET seps == {i \in 1 .. Len(s) : s[i].c \in {"T", " "}}
      sep == IF seps = {} THEN Len(s) + 1 ELSE CHOOSE i \in seps : \A j \in seps : i <= j
      delims == {i \in 1 .. Len(s) : s[i].c \in Delimiters}
      known(i) == \/ s[i].c \in Delimiters \cup {"#"}
                  \/ s[i].c = "+" /\ i = 1
                  \/ i = sep
                  \/ s[i].c = "Z" /\ i = Len(s)
      number(i) == \/ s[i].c \in {"#", "."}
                   \/ s[i].c \in {"-", "+"} /\ i = 1
  IN  [error |-> \E i \in 1 .. Len(s) : ~known(i),
       first |-> IF delims = {} THEN "" ELSE s[CHOOSE i \in delims : \A j \in delims : i <= j].c,
       delimiters |-> Cardinality({i \in delims : i < sep}),
       separator |-> seps # {},
       numberlike |-> \A i \in 1 .. Len(s) : number(i)]

(* sscanf(): integers between runs of delimiters (after the date also a T  *)
(* or a blank), and after the last integer a fraction if a point follows.  *)
RECURSIVE Scan(_, _, _, _)
Scan(s, want, date, got) ==
  IF want = 0 \/ s = <<>> \/ Head(s).c # "#"
  THEN [ints |-> got,
        nsec |-> IF want = 0 /\ Len(s) >= 2 /\ s[1].c = "." /\ s[2].c = "#"
                 THEN s[2].v * (IF s[2].n = 6 THEN SubMicro ELSE 1) ELSE 0]
  ELSE LET rest == Tail(s)
           skip == Delimiters \cup IF Len(got) + 1 = date THEN {"T", " "} ELSE {}
           upto == SelectInSeq(rest, LAMBDA e : e.c \notin skip)
           next == IF upto = 0 THEN <<>> ELSE SubSeq(rest, upto, Len(rest))
       IN  IF want = 1 THEN Scan(rest, 0, date, Append(got, s[1].v))
           ELSE IF rest = next THEN [ints |-> Append(got, s[1].v), nsec |-> 0]
           ELSE Scan(next, want - 1, date, Append(got, s[1].v))

FieldOf(scan, i, default) == IF i <= Len(scan.ints) THEN scan.ints[i] ELSE default

ms_mdtimestr2nstime(s) ==
  LET f == Scan(s, 6, 3, <<>>)
      year == FieldOf(f, 1, 0)
      yday == ms_md2doy(year, FieldOf(f, 2, 1), FieldOf(f, 3, 1))
  IN  IF \/ Len(f.ints) < 1 \/ yday = <<>> \/ ~VALIDHOUR(FieldOf(f, 4, 0))
         \/ ~VALIDMIN(FieldOf(f, 5, 0)) \/ ~VALIDSEC(FieldOf(f, 6, 0)) \/ ~VALIDNANOSEC(f.nsec)
      THEN NSTERROR
      ELSE ms_time2nstime_int(year, yday[1], FieldOf(f, 4, 0), FieldOf(f, 5, 0), FieldOf(f, 6, 0), f.nsec)

ms_seedtimestr2nstime(s) ==
  LET f == Scan(s, 5, 2, <<>>)
  IN  IF Len(f.ints) < 1 THEN NSTERROR
      ELSE ms_time2nstime(f.ints[1], FieldOf(f, 2, 1), FieldOf(f, 3, 0), FieldOf(f, 4, 0),
                          FieldOf(f, 5, 0), f.nsec)

(* "%lld%lf": a sign belongs to the integer, the fraction follows it away  *)
(* from zero unless the integer is zero.                                   *)
EpochValue(s) ==
  LET sign == IF s[1].c = "-" THEN -1 ELSE 1
      f == Scan(IF s[1].c \in {"-", "+"} THEN Tail(s) ELSE s, 1, 0, <<>>)
      sec == sign * FieldOf(f, 1, 0) * NSTMODULUS
  IN  IF f.ints = <<>> THEN NSTERROR ELSE IF sec >= 0 THEN sec + f.nsec ELSE sec - f.nsec

ms_timestr2nstime(s) ==
  LET k == Classify(s)
  IN  IF ~k.error /\ k.numberlike /\ (StrLength(s) # 4 \/ s[1].c \in {"-", "+"}) THEN EpochValue(s)
      ELSE IF k.error \/ StrLength(s) \notin 4 .. 32 THEN NSTERROR
      ELSE IF k.first \in {"-", "/"} /\ k.delimiters = 2 THEN ms_mdtimestr2nstime(s)
      ELSE IF (k.first = "-" /\ k.delimiters = 1) \/ k.first = "," THEN ms_seedtimestr2nstime(s)
      ELSE IF k.first = "" /\ StrLength(s) = 4 /\ ~k.separator THEN ms_seedtimestr2nstime(s)
      ELSE NSTERROR

-----------------------------------------------------------------------------
(* Callers.                                                                *)

Write(t, format, sub) ==
  \/ Call("timestr", <<t, format, sub>>, ms_nstime2timestr(t, format, sub))
  \/ Call("timestr", <<t, WithZ(format), sub>>, ms_nstime2timestrz(t, format, sub))

(* The string of the first n fields of a date, as documented: "YYYY",      *)
(* "YYYY-DDD", "YYYY-DDDTHH...", or with commas throughout.                *)
OrdinalString(d, n, comma) ==
  LET sep == IF comma THEN <<"", ",", ",", ",", ",">> ELSE <<"", "-", "T", ":", ":">>
      digits == <<4, 3, 2, 2, 2>>
      field(i) == (IF i = 1 THEN <<>> ELSE <<Chr(sep[i])>>) \o <<Num(d[i], digits[i])>>
  IN  FoldLeft(LAMBDA s, i : s \o field(i), <<>>, [i \in 1 .. (IF n < 5 THEN n ELSE 5) |-> i])
        \o (IF n < 6 THEN <<>> ELSE <<Chr(IF comma THEN "," ELSE "."), Num(d[6], 9)>>)

Read(d, n, comma) ==
  Call("timestr2nstime", <<d, n>>, ms_timestr2nstime(OrdinalString(d, n, comma)))

TimeNext ==
  \/ CalendarNext
  \/ /\ call.op = "idle"
     /\ \/ \E t \in Times, format \in Formats, sub \in SubSeconds : Write(t, format, sub)
        \/ \E d \in Dates, n \in 1 .. 5, comma \in BOOLEAN : Read(d, n, comma)
        \/ \E d \in Dates : Read(d, 6, FALSE)

-----------------------------------------------------------------------------
(* Properties.                                                             *)

(* The instant that the subseconds left in a string stand for: truncation  *)
(* to the digits shown, toward the past for a date, toward zero for an     *)
(* epoch value.                                                            *)
ShownTime(t, format, sub) ==
  LET digits == SubDigits(sub, SplitTime(t)[2])
      unit == CASE digits = 0 -> NSTMODULUS [] digits = 6 -> SubMicro [] OTHER -> 1
  IN  IF format = "UNIXEPOCH" THEN CDiv(t, unit) * unit ELSE (t \div unit) * unit

(* ms_timestr2nstime() reads what ms_nstime2timestr() and                  *)
(* ms_nstime2timestrz() write: the same instant to the digits shown.  Left *)
(* out are the forms that are not meant to be read (with the day of year   *)
(* in parentheses, or in nanoseconds), the two reserved values, unsigned   *)
(* epoch values that look like a year, and epoch values within a second    *)
(* before 1970, whose sign the written form does not have.                 *)
TimeStringRoundTrip ==
  (/\ call.op = "timestr"
   /\ call.arg[1] \notin {NSTERROR, NSTUNSET}
   /\ call.arg[2] \notin DoyFormats \cup {"NANOSECONDEPOCH"}
   /\ call.arg[2] = "UNIXEPOCH" => /\ CDiv(call.arg[1], NSTMODULUS) \notin 1000 .. 9999
                                  /\ call.arg[1] \notin -NSTMODULUS + 1 .. -1) =>
    ms_timestr2nstime(call.val) = ShownTime(call.arg[1], call.arg[2], call.arg[3])

(* A date given only in part stands for the start of the period it names,  *)
(* and four digits for a year.                                             *)
PartialDateIsStart ==
  call.op = "timestr2nstime" =>
    LET d == call.arg[1]
        given(i, default) == IF i <= call.arg[2] THEN d[i] ELSE default
    IN  call.val = ms_time2nstime(d[1], given(2, 1), given(3, 0), given(4, 0), given(5, 0), given(6, 0))

(* Time strings stand for one instant: ms_timestr2nstime() reads what was  *)
(* written, and what is given only in part.                                *)
TimeStringsReadBack == TimeStringRoundTrip /\ PartialDateIsStart
=============================================================================
