------------------------------ MODULE SourceId ------------------------------
(***************************************************************************)
(* Source identifiers and code strings (genutils.c): network, station,     *)
(* location and channel codes to and from "FDSN:NET_STA_LOC_B_S_P", and    *)
(* the copying of strings to and from blank padded fields.  A string is a  *)
(* sequence of characters, each one byte: "2" and "3" stand for the first  *)
(* byte of a character of two and three bytes, "~" for any later byte.     *)
(***************************************************************************)
EXTENDS Integers, Sequences, SequencesExt

CONSTANT MinSidLen   \* 16: the smallest buffer that ms_nslc2sid() takes
ASSUME SourceIdAssumption == MinSidLen \in Nat

NoBlanks(s) ==
  LET upto[i \in 0 .. Len(s)] == IF i = 0 THEN <<>> ELSE IF s[i] = " " THEN upto[i - 1] ELSE Append(upto[i - 1], s[i])
  IN  upto[Len(s)]
Trunc(s, n) == SubSeq(s, 1, IF Len(s) < n THEN Len(s) ELSE n)
Sep == <<"_">>

-----------------------------------------------------------------------------
(* Channels: three characters, or band, source and subsource.              *)

(* <<>> when the channel is not of the form to be converted.               *)
ms_seedchan2xchan(chan) ==
  IF Len(chan) = 3 THEN NoBlanks(<<chan[1], "_", chan[2], "_", chan[3]>>) ELSE <<>>

ms_xchan2seedchan(x) ==
  IF Len(x) = 5 /\ x[2] = "_" /\ x[4] = "_" THEN <<x[1], x[3], x[5]>> ELSE <<>>

-----------------------------------------------------------------------------
(* Identifiers.                                                            *)

Prefix == <<"FDSN", ":">>
PrefixLen == 5

(* The bytes of an identifier: the prefix takes five.                      *)
SidBytes(sid) == Len(sid) - Len(Prefix) + PrefixLen

(* What does not fit is left out, and then the result is an error.         *)
Badms_nslc2sid(sidlen, net, sta, loc, chan) ==
  LET x == ms_seedchan2xchan(chan)
      sid == Prefix \o net \o Sep \o sta \o Sep \o loc \o Sep \o (IF x # <<>> THEN x ELSE chan)
  IN  IF sidlen < MinSidLen \/ SidBytes(sid) > sidlen THEN [ret |-> -1, sid |-> <<>>]
      ELSE [ret |-> SidBytes(NoBlanks(sid)), sid |-> NoBlanks(sid)]
ms_nslc2sid(sidlen, net, sta, loc, chan) ==
  LET x == ms_seedchan2xchan(chan)
      sid == Prefix \o net \o Sep \o sta \o Sep \o loc \o Sep \o (IF x # <<>> THEN x ELSE chan)
  IN  IF sidlen < MinSidLen \/ SidBytes(sid) + 1 > sidlen THEN [ret |-> -1, sid |-> <<>>]
      ELSE [ret |-> SidBytes(NoBlanks(sid)), sid |-> NoBlanks(sid)]

(* All namespaces are skipped, what follows must have five delimiters, the *)
(* first three of which end a code; codes are cut to the buffers.          *)
ms_sid2nslc_n(sid, sizes) ==
  LET colons == {i \in 1 .. Len(sid) : sid[i] = ":"}
      id == SubSeq(sid, (CHOOSE i \in colons : \A j \in colons : j <= i) + 1, Len(sid))
      delims == SetToSortSeq({i \in 1 .. Len(id) : id[i] = "_"}, <)
      chan == SubSeq(id, delims[3] + 1, Len(id))
      seed == ms_xchan2seedchan(chan)
  IN  IF Trunc(sid, 2) # Prefix \/ Len(delims) # 5 THEN [ret |-> -1, codes |-> <<>>]
      ELSE [ret |-> 0,
            codes |-> <<Trunc(SubSeq(id, 1, delims[1] - 1), sizes[1] - 1),
                        Trunc(SubSeq(id, delims[1] + 1, delims[2] - 1), sizes[2] - 1),
                        Trunc(SubSeq(id, delims[2] + 1, delims[3] - 1), sizes[3] - 1),
                        IF seed # <<>> THEN seed ELSE Trunc(chan, sizes[4] - 1)>>]

-----------------------------------------------------------------------------
(* Copying.                                                                *)

(* The bytes that a character starting with c has.                         *)
CharLen(c) == CASE c = "2" -> 2 [] c = "3" -> 3 [] c = "~" -> 0 [] OTHER -> 1

(* How far the first max bytes are whole characters: the decoder goes on   *)
(* after each complete one and never leaves its reject state.              *)
utf8length_int(s, max) ==
  LET WholeTo[i \in 0 .. Len(s)] ==
        \/ i = 0
        \/ \E k \in 1 .. 3 :
             /\ k <= i /\ WholeTo[i - k] /\ CharLen(s[i - k + 1]) = k
             /\ \A j \in i - k + 2 .. i : s[j] = "~"
      ends == {i \in 0 .. Len(s) : i <= max /\ WholeTo[i]}
  IN  CHOOSE i \in ends : \A j \in ends : j <= i

ms_strncpclean(source, length) == NoBlanks(Trunc(source, utf8length_int(source, length)))

ms_strncpcleantail(source, length) ==
  LET s == Trunc(source, utf8length_int(source, length))
      kept == {i \in 1 .. Len(s) : s[i] # " "}
  IN  IF kept = {} THEN <<>> ELSE SubSeq(s, 1, CHOOSE i \in kept : \A j \in kept : j <= i)

ms_strncpopen(source, length) ==
  LET n == utf8length_int(source, length)
  IN  [i \in 1 .. length |-> IF i <= n THEN source[i] ELSE " "]
=============================================================================
