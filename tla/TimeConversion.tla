--------------------------- MODULE TimeConversion ---------------------------
(***************************************************************************)
(* Dates, epoch times and time strings: the time functions of genutils.c   *)
(* over ms_gmtime64_r() of gmtime64.c.  The calendar is the real one; the  *)
(* units below a day are parameters, because an nstime_t does not fit the  *)
(* integers of TLC.  A time string is a sequence of numbers, each with its *)
(* digits, and of single characters.                                       *)
(***************************************************************************)
EXTENDS LibraryCall, Integers, Sequences, FiniteSets

CONSTANTS
  HourPerDay, MinPerHour, SecPerMin,  \* 24, 60, 60
  SubMicro,                           \* 1000: nanoseconds in a microsecond
  MicroPerSec,                        \* 1000000
  LastDay,                            \* 106751: the last whole day an nstime_t can hold
  Times,                              \* the nstime_t values converted
  Dates,                              \* date-times as <<year, yday, hour, min, sec, nsec>>
  MonthDays                           \* dates as <<year, month, day>>

NSTMODULUS == SubMicro * MicroPerSec
SecPerDay == HourPerDay * MinPerHour * SecPerMin

ASSUME UnitsAssumption ==
  \A u \in {HourPerDay, MinPerHour, SecPerMin, SubMicro, MicroPerSec, LastDay} : u \in Nat \ {0}

(* 1902-01-01T00:00:00, and one nanosecond later.                          *)
NSTERROR == -24837 * SecPerDay * NSTMODULUS
NSTUNSET == NSTERROR + 1

(* What an int64_t can hold, and what is left of a larger value.           *)
MaxTime == (LastDay + 1) * SecPerDay * NSTMODULUS - 1
AsInt64(t) == ((t + MaxTime + 1) % (2 * (MaxTime + 1))) - (MaxTime + 1)

(* Dates are given in numbers of any size.  Times are in years that dates  *)
(* can have: an nstime_t reaches back into 1677, VALIDYEAR to 1678, whose  *)
(* first day is the 106650th before the epoch.                             *)
FirstTime == -106650 * SecPerDay * NSTMODULUS
ASSUME CalendarAssumption ==
  /\ LastDay <= 106751
  /\ Times \subseteq FirstTime .. MaxTime
  /\ Dates \subseteq Int \X Int \X Int \X Int \X Int \X Int
  /\ MonthDays \subseteq Int \X Int \X Int

(* Division of C, which truncates.                                         *)
CDiv(a, b) == IF a >= 0 THEN a \div b ELSE -((-a) \div b)
CMod(a, b) == a - b * CDiv(a, b)

-----------------------------------------------------------------------------
(* The calendar.                                                           *)

LEAPYEAR(year) == (year % 4 = 0 /\ year % 100 # 0) \/ year % 400 = 0
monthdays(year) == <<31, IF LEAPYEAR(year) THEN 29 ELSE 28, 31, 30, 31, 30, 31, 31, 30, 31, 30, 31>>
YearLength(year) == IF LEAPYEAR(year) THEN 366 ELSE 365
DaysBefore(year, month) ==
  LET before[m \in 1 .. 12] == IF m = 1 THEN 0 ELSE before[m - 1] + monthdays(year)[m - 1]
  IN  before[month]

VALIDYEAR(year) == year \in 1678 .. 2262
VALIDMONTH(month) == month \in 1 .. 12
VALIDMONTHDAY(year, month, mday) == mday \in 0 .. monthdays(year)[month]
VALIDYEARDAY(year, yday) == yday \in 1 .. YearLength(year)
VALIDHOUR(hour) == hour \in 0 .. HourPerDay - 1
VALIDMIN(min) == min \in 0 .. MinPerHour - 1
VALIDSEC(sec) == sec \in 0 .. SecPerMin
VALIDNANOSEC(nsec) == nsec \in 0 .. NSTMODULUS - 1

(* The month is the first one that the day does not run over.              *)
ms_doy2md(year, yday) ==
  IF ~VALIDYEAR(year) \/ ~VALIDYEARDAY(year, yday) THEN <<>>
  ELSE LET month == CHOOSE m \in 1 .. 12 :
                      /\ yday - DaysBefore(year, m) <= monthdays(year)[m]
                      /\ yday > DaysBefore(year, m)
       IN  <<month, yday - DaysBefore(year, month)>>

ms_md2doy(year, month, mday) ==
  IF ~VALIDYEAR(year) \/ ~VALIDMONTH(month) \/ ~VALIDMONTHDAY(year, month, mday) THEN <<>>
  ELSE <<DaysBefore(year, month) + mday>>

-----------------------------------------------------------------------------
(* ms_gmtime64_r(): from seconds to a date.                                *)

CHEAT_DAYS == 13879
CycleDays == 365 * 400 + 100 - 4 + 1

(* The days in the years from a to before b.                               *)
DaysBetween(a, b) ==
  LET before(y) == 365 * y + ((y - 1) \div 4) - ((y - 1) \div 100) + ((y - 1) \div 400)
  IN  before(b) - before(a)

(* The loops that take whole years off the days m, in either direction.    *)
YearsForward(m, year) ==
  LET y == CHOOSE y \in year + (m \div 366) .. year + (m \div 365) :
             DaysBetween(year, y) <= m /\ m < DaysBetween(year, y + 1)
  IN  <<m - DaysBetween(year, y), y>>
YearsBack(m, year) ==
  LET y == CHOOSE y \in year - ((-m) \div 365) .. year - ((-m) \div 366) :
             DaysBetween(y, year + 1) >= -m /\ -m > DaysBetween(y + 1, year + 1)
  IN  <<m + DaysBetween(y + 1, year + 1), y>>

(* The year and the day in it, counted from 0, of a day of the epoch.      *)
DayOf(day) ==
  LET start == IF day >= CHEAT_DAYS THEN 2008 ELSE 1970
      m == IF day >= CHEAT_DAYS THEN day - CHEAT_DAYS ELSE day
      cycles == IF m >= 0 THEN CDiv(m, CycleDays) ELSE CDiv(m, CycleDays) + 1
      rest == m - cycles * CycleDays
      last == YearsBack(rest, start - 1 + 400 * cycles)
  IN  IF m >= 0 THEN YearsForward(rest, start + 400 * cycles)
      ELSE <<last[1] + YearLength(last[2]), last[2]>>

(* Truncating division leaves negative parts, which borrow from the next.  *)
Wrap(a, unit) == IF a < 0 THEN <<a + unit, -1>> ELSE <<a, 0>>

DateAt(day, hour, min, sec) ==
  LET month == CHOOSE m \in 1 .. 12 :
                 day[1] \in DaysBefore(day[2], m) .. DaysBefore(day[2], m) + monthdays(day[2])[m] - 1
  IN  [year |-> day[2], yday |-> day[1] + 1, mon |-> month,
       mday |-> day[1] - DaysBefore(day[2], month) + 1,
       hour |-> hour, min |-> min, sec |-> sec]
ms_gmtime64_r(time) ==
  LET mins == CDiv(time, SecPerMin)
      hours == CDiv(mins, MinPerHour)
      sec == Wrap(CMod(time, SecPerMin), SecPerMin)
      min == Wrap(CMod(mins, MinPerHour) + sec[2], MinPerHour)
      hour == Wrap(CMod(hours, HourPerDay) + min[2], HourPerDay)
  IN  DateAt(DayOf(CDiv(hours, HourPerDay) + hour[2]), hour[1], min[1], sec[1])

(* Seconds and nanoseconds, the latter never negative.                     *)
BadSplitTime(nstime) ==
  LET isec == CDiv(nstime, NSTMODULUS)
      ifract == nstime - isec * NSTMODULUS
  IN  IF nstime < 0 THEN <<isec - 1, NSTMODULUS + ifract>> ELSE <<isec, ifract>>
SplitTime(nstime) ==
  LET isec == CDiv(nstime, NSTMODULUS)
      ifract == nstime - isec * NSTMODULUS
  IN  IF nstime < 0 /\ ifract # 0 THEN <<isec - 1, NSTMODULUS + ifract>> ELSE <<isec, ifract>>

DateTuple(tms, nsec) == <<tms.year, tms.yday, tms.hour, tms.min, tms.sec, nsec>>
ms_nstime2time(nstime) == DateTuple(ms_gmtime64_r(SplitTime(nstime)[1]), SplitTime(nstime)[2])

(* a >> 2 of C is a floor.                                                 *)
ms_time2nstime_int(year, yday, hour, min, sec, nsec) ==
  LET short == year - 1900
      a4 == (short \div 4) + 475 - (IF short % 4 = 0 THEN 1 ELSE 0)
      a100 == CDiv(a4, 25) - (IF CMod(a4, 25) < 0 THEN 1 ELSE 0)
      days == 365 * (short - 70) + (a4 - 492) - (a100 - 19) + ((a100 \div 4) - 4) + (yday - 1)
  IN  AsInt64((SecPerMin * (MinPerHour * (HourPerDay * days + hour) + min) + sec) * NSTMODULUS + nsec)

ms_time2nstime(year, yday, hour, min, sec, nsec) ==
  IF /\ VALIDYEAR(year) /\ VALIDYEARDAY(year, yday) /\ VALIDHOUR(hour) /\ VALIDMIN(min)
     /\ VALIDSEC(sec) /\ VALIDNANOSEC(nsec)
  THEN ms_time2nstime_int(year, yday, hour, min, sec, nsec) ELSE NSTERROR

-----------------------------------------------------------------------------
(* Callers.                                                                *)

ToEpoch(d) ==
  Call("time2nstime", d, ms_time2nstime(d[1], d[2], d[3], d[4], d[5], d[6]))

FromEpoch(t) == Call("nstime2time", t, ms_nstime2time(t))

ToYearDay(d) == Call("md2doy", d, ms_md2doy(d[1], d[2], d[3]))

CalendarNext ==
  /\ call.op = "idle"
  /\ \/ \E d \in Dates : ToEpoch(d)
     \/ \E t \in Times : FromEpoch(t)
     \/ \E d \in MonthDays : ToYearDay(d)

CalendarSpec == CallInit /\ [][CalendarNext \/ Done]_call

-----------------------------------------------------------------------------
(* Properties.                                                             *)

(* Reference: days since 1970-01-01, by counting the leap years between.   *)
RefDays(year, yday) ==
  LET leaps(a, b) == Cardinality({y \in a .. b : LEAPYEAR(y)})
  IN  365 * (year - 1970) + leaps(1970, year - 1) - leaps(year, 1969) + yday - 1
RefTime(d) ==
  (((RefDays(d[1], d[2]) * HourPerDay + d[3]) * MinPerHour + d[4]) * SecPerMin + d[5]) * NSTMODULUS + d[6]

ValidDate(d) ==
  /\ VALIDYEAR(d[1]) /\ VALIDYEARDAY(d[1], d[2]) /\ VALIDHOUR(d[3])
  /\ VALIDMIN(d[4]) /\ VALIDSEC(d[5]) /\ VALIDNANOSEC(d[6])

(* ms_time2nstime(): the shifts and divisions that count leap days agree   *)
(* with the calendar for every date an nstime_t can hold, on both sides of *)
(* the epoch and of the century years, and nothing else is taken for one.  *)
EpochExact ==
  call.op = "time2nstime" =>
    LET t == RefTime(call.arg)
    IN  IF ValidDate(call.arg) /\ t \in -MaxTime .. MaxTime THEN call.val = t
        ELSE ~ValidDate(call.arg) => call.val = NSTERROR

(* ms_nstime2time() over ms_gmtime64_r(): the components name exactly the  *)
(* given instant, before 1970 too, where C division truncates and          *)
(* fractions and clock fields have to borrow.                              *)
DateExact ==
  call.op = "nstime2time" =>
    /\ ValidDate(call.val) /\ call.val[5] < SecPerMin
    /\ RefTime(call.val) = call.arg

(* ms_md2doy() and ms_doy2md() are inverse to each other on the days of    *)
(* the calendar.                                                           *)
MonthDayInverse ==
  (call.op = "md2doy" /\ call.val # <<>> /\ call.arg[3] > 0) =>
    ms_doy2md(call.arg[1], call.val[1]) = <<call.arg[2], call.arg[3]>>

(* Calendar dates, days of the year and epoch times are converted into     *)
(* each other exactly, over the whole range of an nstime_t                 *)
(* (ms_time2nstime(), ms_nstime2time(), ms_md2doy() and ms_doy2md()).      *)
CalendarExact ==
  /\ EpochExact
  /\ DateExact
  /\ MonthDayInverse
=============================================================================
