---------------------------- MODULE StreamReader ----------------------------
(***************************************************************************)
(* Reading records from a file or URL: _ms3_readmsr_impl() in fileutils.c  *)
(* over msio_fread() and msio_feof() in msio.c.  A buffer of MaxRecLen     *)
(* bytes is refilled when it holds too little, records are parsed from it, *)
(* and what is not wanted is skipped.  A step is a part of one turn of the *)
(* loop; a call ends with a record or with the reason for having none.     *)
(***************************************************************************)
EXTENDS RecordFormat

(* Definitions named Bad... are faulty variants of the one that follows:   *)
(* mistakes the properties are known to notice.                            *)

CONSTANTS
  Streams,   \* the contents of files and URLs
  Options    \* how callers read them: records with the fields
             \*   skip   - MSF_SKIPNOTDATA
             \*   select - selections are given, which defers decoding
             \*            (MSF_UNPACKDATA is always asked for)
             \*   start, end - byte range, 0 when not given
             \*   chunk  - 0 for a file, else the most bytes that libcurl
             \*            hands over at once

VARIABLES
  stream,   \* the bytes of the file or URL
  opt,      \* the caller's options
  io,       \* LMIO: bytes handed out so far, and the end-of-stream state
  msfp,     \* MS3FileParam: readbuffer, readoffset, streampos, recordcount
  rd,       \* the call: where it is, whether parseval > 0, what it returned
  out       \* history: positions of the records returned

readerVars == <<stream, opt, io, msfp, rd, out>>

ASSUME ReaderAssumption ==
  /\ Streams \subseteq Seq(Cell)
  /\ Options \subseteq [skip : BOOLEAN, select : BOOLEAN, start : Nat, end : Nat, chunk : Nat]

BufLen == Len(msfp.buf) - msfp.off
Unread == SubSeq(msfp.buf, msfp.off + 1, Len(msfp.buf))

-----------------------------------------------------------------------------
(* The input.                                                              *)

(* fread() delivers all it can.  libcurl is read until the next chunk does *)
(* not fit, the space is used up, or the transfer is complete.             *)
ReadCounts(size) ==
  LET rest == IF io.pos < Len(stream) THEN Len(stream) - io.pos ELSE 0
  IN  IF opt.chunk = 0 THEN {IF rest < size THEN rest ELSE size}
      ELSE {n \in 0 .. size : n <= rest /\ (n = rest \/ size - n < opt.chunk)}

(* feof() is known after a short read only, the end of a transfer whenever *)
(* it was seen.                                                            *)
EofAfter(size, n) ==
  IF opt.chunk = 0 THEN {n < size}
  ELSE IF io.pos + n < Len(stream) THEN {FALSE}
  ELSE IF n < size THEN {TRUE} ELSE {TRUE, FALSE}

-----------------------------------------------------------------------------
(* One turn of the loop.                                                   *)

Return(ret) == rd' = [rd EXCEPT !.pc = IF ret = "record" THEN "ready" ELSE "done", !.ret = ret]
GoTo(pc, more) == rd' = [rd EXCEPT !.pc = pc, !.more = more]

(* The next call of ms3_readmsr_selection(). *)
Call ==
  /\ rd.pc = "ready"
  /\ GoTo("loop", FALSE)
  /\ UNCHANGED <<stream, opt, io, msfp, out>>

RangeEnded == opt.end > 0 /\ opt.end + 1 - msfp.pos < MinRecLen

EndOfRange ==
  /\ rd.pc = "loop" /\ RangeEnded
  /\ Return("eof")
  /\ UNCHANGED <<stream, opt, io, msfp, out>>

BadNeedsData == ~io.eof /\ BufLen < MinRecLen
NeedsData == ~io.eof /\ (BufLen < MinRecLen \/ rd.more)

(* ms3_shift_msfp() drops what was processed from the buffer. *)
BadShifted == msfp.buf
Shifted == Unread

Fill ==
  /\ rd.pc = "loop" /\ ~RangeEnded /\ NeedsData
  /\ LET size == MaxRecLen - Len(Shifted)
     IN  \E n \in ReadCounts(size) : \E eof \in EofAfter(size, n) :
           /\ io' = [pos |-> io.pos + n, eof |-> eof]
           /\ msfp' = [msfp EXCEPT !.off = 0,
                                   !.buf = Shifted \o SubSeq(stream, io.pos + 1, io.pos + n)]
           /\ IF n = 0 /\ ~eof THEN Return("error") ELSE GoTo("parse", rd.more)
  /\ UNCHANGED <<stream, opt, out>>

NoFill ==
  /\ rd.pc = "loop" /\ ~RangeEnded /\ ~NeedsData
  /\ GoTo("parse", rd.more)
  /\ UNCHANGED <<stream, opt, io, msfp, out>>

(* What msr3_parse() says to the buffer; decoding is left for later when   *)
(* there are selections.                                                   *)
Parsing(how) ==
  IF rd.pc = "parse" /\ BufLen >= MinRecLen
  THEN {r \in Parse(Unread, io.eof, ~opt.select) : r.how \in how}
  ELSE {}

Wanted == ~opt.select \/ Unread[1].selected

(* n bytes are behind the reader. *)
BadAdvance(n) == msfp' = [msfp EXCEPT !.off = @ + n, !.pos = @ + n - MinRecLen]
Advance(n) == msfp' = [msfp EXCEPT !.off = @ + n, !.pos = @ + n]

ReturnRecord ==
  /\ \E r \in Parsing({"record"}) :
       /\ Wanted /\ Unread[1].content = "good"
       /\ msfp' = [msfp EXCEPT !.off = @ + r.n, !.pos = @ + r.n, !.count = @ + 1]
       /\ Return("record")
  /\ out' = Append(out, msfp.pos)
  /\ UNCHANGED <<stream, opt, io>>

(* The deferred decoding fails: the reader stays where it is. *)
DecodeError ==
  /\ Parsing({"record"}) # {} /\ Wanted /\ Unread[1].content = "baddata"
  /\ Return("error")
  /\ UNCHANGED <<stream, opt, io, msfp, out>>

SkipUnwanted ==
  /\ \E r \in Parsing({"record"}) : ~Wanted /\ Advance(r.n)
  /\ GoTo("check", FALSE)
  /\ UNCHANGED <<stream, opt, io, out>>

ParseError ==
  /\ \E r \in Parsing({"notseed", "outofrange", "error"}) :
       \/ opt.skip /\ Advance(1) /\ GoTo("check", FALSE)
       \/ ~opt.skip /\ Return(r.how) /\ UNCHANGED msfp
  /\ UNCHANGED <<stream, opt, io, out>>

BadTooMuch(n) == n > MaxRecLen
TooMuch(n) == BufLen + n > MaxRecLen

(* More bytes than the buffer can hold, or than the stream has, or ...     *)
NeedTooMuch ==
  /\ \E r \in Parsing({"need"}) : TooMuch(r.n)
  /\ \/ opt.skip /\ Advance(1) /\ GoTo("check", TRUE)
     \/ ~opt.skip /\ Return("outofrange") /\ UNCHANGED msfp
  /\ UNCHANGED <<stream, opt, io, out>>

(* ... bytes that the next turn of the loop reads.                         *)
NeedMore ==
  /\ \E r \in Parsing({"need"}) : ~TooMuch(r.n)
  /\ IF io.eof THEN Return("eof") ELSE GoTo("check", TRUE)
  /\ UNCHANGED <<stream, opt, io, msfp, out>>

TooShort ==
  /\ rd.pc = "parse" /\ BufLen < MinRecLen
  /\ GoTo("check", rd.more)
  /\ UNCHANGED <<stream, opt, io, msfp, out>>

(* The end of the turn: the end of the stream. *)
CheckEnd ==
  /\ rd.pc = "check"
  /\ IF io.eof /\ BufLen < MinRecLen
     THEN Return(IF msfp.count = 0 THEN "notseed" ELSE "eof")
     ELSE GoTo("loop", rd.more)
  /\ UNCHANGED <<stream, opt, io, msfp, out>>

ReaderInit ==
  /\ stream \in Streams
  /\ opt \in Options
  /\ io = [pos |-> opt.start, eof |-> FALSE]
  /\ msfp = [buf |-> <<>>, off |-> 0, pos |-> opt.start, count |-> 0]
  /\ rd = [pc |-> "ready", more |-> FALSE, ret |-> "none"]
  /\ out = <<>>

ReaderNext ==
  \/ Call \/ EndOfRange \/ Fill \/ NoFill
  \/ ReturnRecord \/ DecodeError \/ SkipUnwanted \/ ParseError
  \/ NeedTooMuch \/ NeedMore \/ TooShort \/ CheckEnd

ReaderSpec == ReaderInit /\ [][ReaderNext]_readerVars /\ WF_readerVars(ReaderNext)

-----------------------------------------------------------------------------
(* Properties.                                                             *)

ReaderTypeOK ==
  /\ stream \in Streams /\ opt \in Options
  /\ io \in [pos : Nat, eof : BOOLEAN]
  /\ msfp \in [buf : Seq(Cell), off : Nat, pos : Nat, count : Nat]
  /\ rd \in [pc : {"ready", "loop", "parse", "check", "done"}, more : BOOLEAN,
             ret : {"none", "record", "eof", "notseed", "outofrange", "error"}]
  /\ out \in Seq(Nat)

(* Through all refills, shifts and skips the buffer stays a window on the  *)
(* stream: the bytes in it that are not processed are those at streampos,  *)
(* and nothing between them and the input is lost or read twice.           *)
BufferAligned ==
  /\ Len(msfp.buf) <= MaxRecLen
  /\ msfp.off <= Len(msfp.buf)
  /\ Unread = SubSeq(stream, msfp.pos + 1, io.pos)

(* Where buffering shows.  The buffer ends in the middle of a 2.x header   *)
(* while the stream goes on: parsing does not ask for more first, and can  *)
(* take what follows the bytes it has for the header's.  Or it ends so far *)
(* behind a header without a length that the buffer cannot take MINRECLEN  *)
(* bytes more, although there are some that show where the next header is. *)
HeaderCut == /\ Unread[1].hdr = "v2" /\ Unread[1].len > 0
             /\ FixedLen <= BufLen /\ BufLen < FixedLen + BlktLen
LengthCut == /\ Unread[1].hdr # "none" /\ Unread[1].len = 0
             /\ BufLen < MaxRecLen /\ BufLen + MinRecLen > MaxRecLen
Torn ==
  IF rd.pc = "parse" /\ BufLen >= MinRecLen /\ io.pos < Len(stream)
  THEN {how \in {"notseed"} : HeaderCut} \cup {how \in {"outofrange"} : LengthCut}
  ELSE {}

(* Otherwise buffering is invisible: the reader returns exactly the        *)
(* records of the stream, and ends for the reason the stream gives.        *)
Promise ==
  INSTANCE RecordStream WITH
    pos <- msfp.pos,
    status <- IF rd.pc = "done" THEN rd.ret ELSE "reading",
    torn <- Torn

ReadsTheStream == Promise!StreamSpec
=============================================================================
