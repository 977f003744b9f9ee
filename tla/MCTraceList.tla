---------------------------- MODULE MCTraceList ----------------------------
(***************************************************************************)
(* Instances of TraceList for TLC: the sets of records callers add.  The   *)
(* clock ticks 12 times a second: 6 Hz is a period of 2 ticks with a       *)
(* default tolerance of 1, 3 Hz a period of 4 with a tolerance of 2.       *)
(***************************************************************************)
EXTENDS TraceList

NullTolerance == -1

SampleTimes(start, rate, cnt) ==
  [i \in 1 .. cnt |-> SampleTime(start, i - 1, rate)]

Rec(sid, version, start, rate, cnt, type) ==
  [sid |-> sid, pubversion |-> version, start |-> start, rate |-> rate,
   cnt |-> cnt, type |-> type, data |-> SampleTimes(start, rate, cnt)]

(* A record whose payload was not decoded: msr3_init() left it no type.    *)
Undecoded(rec) == [rec EXCEPT !.data = <<>>, !.type = "none"]

(* One channel: records of one or two samples, any order, gaps, overlaps,  *)
(* repeats and shifts within and beyond the tolerance.                     *)
OneChannel ==
  {Rec("a", 1, start, 6, cnt, "i") : start \in 0 .. 9, cnt \in {1, 2}}
  \cup {Rec("a", 1, start, 6, 3, "i") : start \in {0, 4}}

(* Several channels, versions and kinds of record. *)
Mixed ==
  {Rec("a", version, start, 6, 2, "i") : version \in {1, 127, 200}, start \in {0, 3, 4, 8}}
  \cup {Rec("b", 2, start, 6, 1, "i") : start \in {0, 2}}
  \cup {Rec("a", 1, 4, 0, 2, "t"), Rec("a", 1, 2, 0, 0, "i"), Rec("a", 1, 4, 3, 1, "i")}

(* A crowded channel, for a tolerance of two sample periods: an encoding   *)
(* that changes from integers to floats, undecoded records, another        *)
(* publication version and another rate.                                   *)
MixedKinds ==
  {Rec("a", 1, start, 6, cnt, "i") : start \in {0, 6, 8, 14}, cnt \in {1, 2}}
  \cup {Rec("a", 1, start, 6, 1, "f") : start \in {3, 6, 11}}
  \cup {Undecoded(Rec("a", 1, start, 6, 1, "i")) : start \in {3, 4, 11}}
  \cup {Rec("a", 200, start, 6, 2, "i") : start \in {0, 4}} \cup {Rec("a", 0, 4, 6, 1, "i")}
  \cup {Rec("a", 1, 7, 3, 1, "i")}

(* Rates nearer to each other than the tolerance asked for, and not. *)
NearRates == {Rec("a", 1, start, rate, 2, "i") : start \in 0 .. 8, rate \in {6, 4}}
=============================================================================
