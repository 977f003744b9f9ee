--------------------------- MODULE SourceIdCalls ----------------------------
(* Callers that convert codes and identifiers, and what they rely on.      *)
EXTENDS LibraryCall, SourceId

CONSTANTS
  SidLens,     \* the buffer sizes callers have
  Codes,       \* code tuples <<net, sta, loc, chan>> given by callers
  CodeSizes,   \* buffer sizes <<net, sta, loc, chan>> for reading
  Sids,        \* identifiers given by callers
  Texts,       \* strings copied to fields
  FieldSizes   \* and the sizes of the fields

MakeSid(c, sidlen) == Call("nslc2sid", <<c, sidlen>>, ms_nslc2sid(sidlen, c[1], c[2], c[3], c[4]))

ParseSid(sid, sizes) == Call("sid2nslc", <<sid, sizes>>, ms_sid2nslc_n(sid, sizes))

CopyToField(s, n) == Call("strncpopen", <<s, n>>, ms_strncpopen(s, n))

SidNext ==
  /\ call.op = "idle"
  /\ \/ \E c \in Codes, n \in SidLens : MakeSid(c, n)
     \/ \E sid \in Sids, sizes \in CodeSizes : ParseSid(sid, sizes)
     \/ \E s \in Texts, n \in FieldSizes : CopyToField(s, n)

-----------------------------------------------------------------------------
(* Properties.                                                             *)

(* ms_nslc2sid(): an identifier that is returned is whole, fits its buffer *)
(* with the terminator and is as long as the result says; it is refused    *)
(* only when it does not fit.                                              *)
SidFitsOrRefused ==
  call.op = "nslc2sid" =>
    LET codes == call.arg[1]
        full == Prefix \o codes[1] \o Sep \o codes[2] \o Sep \o codes[3] \o Sep
        x == ms_seedchan2xchan(codes[4])
        bytes == SidBytes(full) + Len(IF x # <<>> THEN x ELSE codes[4])
    IN  IF call.val.ret = -1 THEN call.arg[2] < MinSidLen \/ bytes >= call.arg[2]
        ELSE /\ call.val.ret = SidBytes(call.val.sid) /\ call.val.ret < call.arg[2]
             /\ SubSeq(call.val.sid, 1, Len(Prefix)) = Prefix

(* A channel of three characters, or of three parts.  Three parts of which *)
(* only the middle one is there, "_S_", look like three characters and are *)
(* taken for them.                                                         *)
RegularChannel(chan) ==
  /\ " " \notin Range(chan)
  /\ IF Len(chan) = 3 THEN "_" \notin Range(chan)
     ELSE Len(SelectSeq(chan, LAMBDA c : c = "_")) = 2

(* Codes survive the way to an identifier and back, blanks apart, when     *)
(* the buffers are large enough: a channel of three non-blank characters   *)
(* as it was, one that is given in three parts as it was or, if each part  *)
(* is one character, in the short form.                                    *)
CodesRoundTrip ==
  (call.op = "nslc2sid" /\ call.val.ret # -1) =>
    LET back == ms_sid2nslc_n(call.val.sid, <<9, 9, 9, 9>>)
        c == call.arg[1]
        short == ms_xchan2seedchan(c[4])
    IN  RegularChannel(c[4]) =>
          /\ back.ret = 0
          /\ \A i \in 1 .. 3 : back.codes[i] = NoBlanks(c[i])
          /\ back.codes[4] = IF short # <<>> THEN short ELSE c[4]

(* ms_sid2nslc_n(): what is read names the same source, up to what the     *)
(* buffers cut off, and the namespaces.                                    *)
SidRoundTrip ==
  (call.op = "sid2nslc" /\ call.val.ret = 0 /\ RegularChannel(call.val.codes[4])) =>
    LET c == call.val.codes
        back == ms_nslc2sid(99, c[1], c[2], c[3], c[4]).sid
        cut == \E i \in 1 .. 4 : Len(c[i]) >= call.arg[2][i] - 1
    IN  cut \/ IsSuffix(SubSeq(back, 3, Len(back)), NoBlanks(call.arg[1]))

(* ms_strncpopen() and ms_strncpclean(): a code written to a fixed field   *)
(* and read from it is the code without blanks, cut only between the bytes *)
(* of different characters.                                                *)
NoSplitCharacter ==
  call.op = "strncpopen" =>
    LET s == call.arg[1]
        back == ms_strncpclean(call.val, call.arg[2])
        next == Len(ms_strncpcleantail(call.val, call.arg[2]))
    IN  /\ Len(call.val) = call.arg[2]
        /\ IsPrefix(back, NoBlanks(s))
        /\ next < Len(s) => s[next + 1] # "~"
        /\ Len(s) <= call.arg[2] => back = NoBlanks(s)

(* Source identifiers and their codes are converted into each other        *)
(* without losing, cutting or splitting anything that fits.                *)
IdentifiersKept ==
  /\ SidFitsOrRefused
  /\ CodesRoundTrip
  /\ SidRoundTrip
  /\ NoSplitCharacter
=============================================================================
