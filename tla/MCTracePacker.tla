--------------------------- MODULE MCTracePacker ---------------------------
(***************************************************************************)
(* Instances of TracePacker for TLC.  As in MCTraceList a 6 Hz sample      *)
(* period is 2 ticks; records are aligned to it unless said otherwise.     *)
(***************************************************************************)
EXTENDS TracePacker

NullTolerance == -1

SampleTimes(start, rate, cnt) ==
  [i \in 1 .. cnt |-> SampleTime(start, i - 1, rate)]

Rec(sid, start, cnt) ==
  [sid |-> sid, pubversion |-> 1, start |-> start, rate |-> 6, cnt |-> cnt,
   type |-> "i", data |-> SampleTimes(start, 6, cnt)]

(* Two channels: one continuous with an overlap, one with a single record. *)
Rolling ==
  {Rec("a", 0, 2), Rec("a", 4, 3), Rec("a", 10, 2), Rec("a", 2, 2), Rec("b", 0, 3)}

Order == << <<"a", 1>>, <<"b", 1>> >>

(* A channel with a header-only record as well, and another beside it. *)
Small == {Rec("a", 0, 2), Rec("a", 4, 3), Rec("a", 20, 0)}
Beside == Small \cup {Rec("b", 2, 1)}
OneID == << <<"a", 1>> >>
=============================================================================
