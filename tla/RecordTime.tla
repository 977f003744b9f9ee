----------------------------- MODULE RecordTime -----------------------------
(***************************************************************************)
(* Times in record headers.  A time is a number of nanoseconds.  The       *)
(* calendar fields of a header are taken together as the second they name, *)
(* so a version 3 time is [sec, nsec] and a version 2 time [sec, fsec]     *)
(* with an offset of microseconds kept elsewhere.                          *)
(***************************************************************************)
EXTENDS Integers

CONSTANTS
  NsPerUsec,    \* 1000
  UsecPerFsec,  \* 100 microseconds to a tenth of a millisecond
  FsecPerSec    \* 10000

ASSUME RecordTimeAssumption ==
  /\ NsPerUsec \in Nat /\ NsPerUsec > 0 /\ NsPerUsec % 2 = 0
  /\ UsecPerFsec \in Nat /\ UsecPerFsec > 0 /\ UsecPerFsec % 2 = 0
  /\ FsecPerSec \in Nat \ {0}

NsPerFsec == NsPerUsec * UsecPerFsec
NsPerSec == NsPerFsec * FsecPerSec

(* C division truncates.                                                   *)
Quotient(a, b) == IF a >= 0 THEN a \div b ELSE -((-a) \div b)

(* The nearest microsecond, half away from zero.                           *)
NearestUsec(t) == Quotient(IF t >= 0 THEN t + NsPerUsec \div 2 ELSE t - NsPerUsec \div 2, NsPerUsec)

(* nstime2fsec_usec_offset(): the second, the nearest tenth of a           *)
(* millisecond in it and what is left, at most half a tenth.               *)
Badnstime2fsec_usec_offset(t) ==
  LET usec == NearestUsec(t)
      fsec == Quotient(usec, UsecPerFsec)
      off == usec - fsec * UsecPerFsec
      carry == IF off > UsecPerFsec \div 2 - 1 THEN 1 ELSE 0
  IN  [sec |-> (fsec + carry) \div FsecPerSec, fsec |-> (fsec + carry) % FsecPerSec, off |-> off - carry]
nstime2fsec_usec_offset(t) ==
  LET usec == NearestUsec(t)
      fsec == Quotient(usec, UsecPerFsec)
      off == usec - fsec * UsecPerFsec
      carry == CASE off > UsecPerFsec \div 2 - 1 -> 1
                 [] off < -(UsecPerFsec \div 2) -> -1
                 [] OTHER -> 0
  IN  [sec |-> (fsec + carry) \div FsecPerSec, fsec |-> (fsec + carry) % FsecPerSec, off |-> off - carry * UsecPerFsec]

(* What ms_nstime2time() gives of a time, and ms_time2nstime() of a header.*)
Second(t) == t \div NsPerSec
Nanosecond(t) == t % NsPerSec
FromParts(sec, nsec) == sec * NsPerSec + nsec

(* A BTIME of zeros, which has no year.                                    *)
NoTime == [sec |-> 0, fsec |-> -1]

(* ms_timestr2btime() takes the second from the time itself, and the tenth *)
(* of a millisecond from the split that may have carried into the next.    *)
ms_timestr2btime(t) == [sec |-> Second(t), fsec |-> nstime2fsec_usec_offset(t).fsec]
ms_btime2nstime(btime) == FromParts(btime.sec, btime.fsec * NsPerFsec)

(* The time of a sample, given a rate in samples per second.               *)
ms_sampletime(start, offset, hz) ==
  IF hz[1] = 0 THEN start ELSE start + (2 * offset * NsPerSec * hz[2] + hz[1]) \div (2 * hz[1])
=============================================================================
