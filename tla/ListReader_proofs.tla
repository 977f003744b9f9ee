-------------------------- MODULE ListReader_proofs -------------------------
(***************************************************************************)
(* Proofs about StreamReader and ListReader for every stream, every way of *)
(* reading it, every way the input arrives in pieces, and every record     *)
(* length limit: the type invariant, that the read buffer is a window on   *)
(* the stream, that the reader implements RecordStream, that the same      *)
(* holds when ms3_readtracelist_selection() drives it and lists every      *)
(* record that it gets once, and that mstl3_readbuffer_selection(), given  *)
(* the same bytes in memory, lists the same records.                       *)
(***************************************************************************)
EXTENDS ListReader, TLAPS, WellFoundedInduction, SequenceTheorems, FiniteSetTheorems

-----------------------------------------------------------------------------
(* Parsing.                                                                *)

(* A set of natural numbers that is not empty has a least element. *)
LEMMA LeastOffset ==
  ASSUME NEW S \in SUBSET Nat, S # {}
  PROVE  \E m \in S : \A n \in S : m <= n
<1>1. PICK x \in S : \A y \in S : ~(<<y, x>> \in OpToRel(<, Nat))
  BY NatLessThanWellFounded, WFMin, Zenon
<1>2. \A y \in S : ~(y < x)
  BY <1>1 DEF OpToRel
<1> QED BY <1>2

(* ms3_detect() returns an integer. *)
LEMMA DetectIsInteger ==
  ASSUME NEW buf \in Seq(Cell), Len(buf) > 0, NEW len \in Detect(buf)
  PROVE  len \in Int
<1>1. buf[1].len \in Nat
  <2>1. buf[1] \in Cell
    BY SMT
  <2> QED BY <2>1 DEF Cell
<1> DEFINE next == NextHeaders(buf)
<1>2. CASE next = {}
  BY <1>1, <1>2 DEF Detect
<1>3. CASE next # {}
  <2>1. next \in SUBSET Nat
    BY DEF NextHeaders
  <2>2. \E m \in next : \A n \in next : m <= n
    BY <1>3, <2>1, LeastOffset
  <2>3. (CHOOSE offset \in next : \A other \in next : offset <= other) \in Int
    BY <2>1, <2>2
  <2> QED BY <1>1, <2>3 DEF Detect
<1> QED BY <1>2, <1>3

(* A record that msr3_parse() returns lies within the buffer. *)
LEMMA RecordInBuffer ==
  ASSUME NEW buf \in Seq(Cell), Len(buf) > 0, NEW ateof \in BOOLEAN, NEW unpack \in BOOLEAN,
         NEW r \in Parse(buf, ateof, unpack), r.how = "record"
  PROVE  r.n \in Nat /\ r.n <= Len(buf)
<1>1. PICK len \in RecordLengths(buf, ateof) : r = ParseAs(buf, len, unpack)
  BY DEF Parse
<1>2. len \in Int
  BY DetectIsInteger DEF RecordLengths
<1>3. r = Outcome("record", len) /\ ~(len < 0) /\ ~(len > Len(buf))
  <2> USE <1>1
  <2>1. CASE len < 0
    BY <2>1 DEF ParseAs, Outcome
  <2>2. CASE ~(len < 0) /\ len = 0
    BY <2>2 DEF ParseAs, Outcome
  <2>3. CASE ~(len < 0) /\ len # 0 /\ (len < MinRecLen \/ len > MaxRecLen)
    BY <2>3 DEF ParseAs, Outcome
  <2>4. CASE ~(len < 0) /\ len # 0 /\ ~(len < MinRecLen \/ len > MaxRecLen) /\ len > Len(buf)
    BY <2>4 DEF ParseAs, Outcome
  <2>5. CASE ~(len < 0) /\ len # 0 /\ ~(len < MinRecLen \/ len > MaxRecLen) /\ ~(len > Len(buf))
    BY <2>5 DEF ParseAs, Outcome
  <2> QED BY <2>1, <2>2, <2>3, <2>4, <2>5
<1> QED BY <1>2, <1>3 DEF Outcome

-----------------------------------------------------------------------------
(* The buffer.                                                             *)

(* The elements of a sequence from lo to hi. *)
LEMMA SubSeqBetween ==
  ASSUME NEW S, NEW s, NEW lo \in Int, NEW hi \in Int, \A i \in lo .. hi : s[i] \in S
  PROVE  /\ SubSeq(s, lo, hi) \in Seq(S)
         /\ Len(SubSeq(s, lo, hi)) = IF lo <= hi THEN hi - lo + 1 ELSE 0
         /\ \A i \in 1 .. hi - lo + 1 : SubSeq(s, lo, hi)[i] = s[lo + i - 1]
BY SubSeqProperties

(* The n elements behind the first a. *)
LEMMA SubSeqBehind ==
  ASSUME NEW S, NEW s, NEW a \in Nat, NEW n \in Nat, NEW lo \in Int, NEW hi \in Int,
         lo = a + 1, hi = a + n, \A i \in lo .. hi : s[i] \in S
  PROVE  /\ SubSeq(s, lo, hi) \in Seq(S)
         /\ Len(SubSeq(s, lo, hi)) = n
         /\ \A i \in 1 .. n : SubSeq(s, lo, hi)[i] = s[a + i]
<1> DEFINE more == SubSeq(s, lo, hi)
<1>1. /\ more \in Seq(S)
      /\ Len(more) = IF lo <= hi THEN hi - lo + 1 ELSE 0
      /\ \A i \in 1 .. hi - lo + 1 : more[i] = s[lo + i - 1]
  BY SubSeqBetween
<1> HIDE DEF more
<1>2. Len(more) = n
  BY <1>1
<1>3. ASSUME NEW i \in 1 .. n PROVE more[i] = s[a + i]
  <2>1. i \in 1 .. hi - lo + 1 /\ lo + i - 1 = a + i
    OBVIOUS
  <2> QED BY <1>1, <2>1
<1> QED BY <1>1, <1>2, <1>3 DEF more

(* BufferAligned byte by byte, and what makes it inductive: the counters   *)
(* agree on how much is unread, and that part of the stream exists.        *)
Window ==
  /\ Len(msfp.buf) <= MaxRecLen
  /\ msfp.off <= Len(msfp.buf)
  /\ Len(msfp.buf) - msfp.off = io.pos - msfp.pos
  /\ msfp.pos < io.pos => io.pos <= Len(stream)
  /\ \A i \in 1 .. io.pos - msfp.pos : msfp.buf[msfp.off + i] = stream[msfp.pos + i]

ReaderInv == ReaderTypeOK /\ Window

(* What is unread, and how much of it. *)
LEMMA UnreadProperties ==
  ASSUME ReaderInv
  PROVE  /\ stream \in Seq(Cell)
         /\ Unread \in Seq(Cell)
         /\ Len(Unread) = BufLen
         /\ BufLen = io.pos - msfp.pos
         /\ BufLen \in Nat
         /\ \A i \in 1 .. BufLen : Unread[i] = stream[msfp.pos + i]
<1>1. msfp.buf \in Seq(Cell) /\ msfp.off \in Nat /\ msfp.pos \in Nat /\ io.pos \in Nat
  BY DEF ReaderInv, ReaderTypeOK
<1>2. stream \in Seq(Cell)
  BY ReaderAssumption DEF ReaderInv, ReaderTypeOK
<1>3. \A i \in msfp.off + 1 .. Len(msfp.buf) : msfp.buf[i] \in Cell
  BY <1>1
<1>4. /\ Unread \in Seq(Cell)
      /\ Len(Unread) = IF msfp.off + 1 <= Len(msfp.buf) THEN Len(msfp.buf) - (msfp.off + 1) + 1 ELSE 0
      /\ \A i \in 1 .. Len(msfp.buf) - (msfp.off + 1) + 1 :
           Unread[i] = msfp.buf[(msfp.off + 1) + i - 1]
  <2>1. msfp.off + 1 \in Int /\ Len(msfp.buf) \in Int
    BY <1>1
  <2> QED BY <1>3, <2>1, SubSeqProperties, SMTT(40) DEF Unread
<1>5. BufLen \in Nat /\ Len(Unread) = BufLen /\ BufLen = io.pos - msfp.pos
  BY <1>1, <1>4 DEF ReaderInv, Window, BufLen
<1>6. ASSUME NEW i \in 1 .. BufLen PROVE Unread[i] = stream[msfp.pos + i]
  <2>1. Unread[i] = msfp.buf[msfp.off + i]
    BY <1>1, <1>4, SMTT(40) DEF BufLen
  <2>2. i \in 1 .. io.pos - msfp.pos
    BY <1>5
  <2> QED BY <2>1, <2>2 DEF ReaderInv, Window
<1> QED BY <1>2, <1>4, <1>5, <1>6

(* The window is the property that buffering is for. *)
LEMMA WindowAligned == ReaderInv => BufferAligned
<1> SUFFICES ASSUME ReaderInv PROVE BufferAligned
  OBVIOUS
<1>1. msfp.pos \in Nat /\ io.pos \in Nat
  BY DEF ReaderInv, ReaderTypeOK
<1> DEFINE w == SubSeq(stream, msfp.pos + 1, io.pos)
<1>2. \A i \in msfp.pos + 1 .. io.pos : stream[i] \in Cell
  BY <1>1, UnreadProperties DEF ReaderInv, Window
<1>3. /\ w \in Seq(Cell)
      /\ Len(w) = IF msfp.pos + 1 <= io.pos THEN io.pos - (msfp.pos + 1) + 1 ELSE 0
      /\ \A i \in 1 .. io.pos - (msfp.pos + 1) + 1 : w[i] = stream[(msfp.pos + 1) + i - 1]
  <2>1. msfp.pos + 1 \in Int /\ io.pos \in Int
    BY <1>1
  <2> QED BY <1>2, <2>1, SubSeqProperties
<1> HIDE DEF w
<1>4. Len(w) = Len(Unread)
  BY <1>1, <1>3, UnreadProperties
<1>5. ASSUME NEW i \in 1 .. Len(Unread) PROVE Unread[i] = w[i]
  <2>1. i \in 1 .. BufLen /\ i \in 1 .. io.pos - (msfp.pos + 1) + 1
    BY <1>1, UnreadProperties
  <2>2. w[i] = stream[(msfp.pos + 1) + i - 1]
    BY <1>3, <2>1
  <2>3. (msfp.pos + 1) + i - 1 = msfp.pos + i
    BY <1>1, <2>1, UnreadProperties
  <2> QED BY <2>1, <2>2, <2>3, UnreadProperties
<1>6. Unread = w
  BY <1>3, <1>4, <1>5, UnreadProperties, SeqEqual
<1> QED BY <1>6 DEF BufferAligned, ReaderInv, Window, w

-----------------------------------------------------------------------------
(* The steps.                                                              *)

(* A step that leaves the buffer and the input alone keeps the window. *)
LEMMA WindowKept ==
  ASSUME Window, UNCHANGED <<stream, io, msfp>>
  PROVE  Window'
BY DEF Window

(* Passing over n unread bytes keeps the window. *)
LEMMA AdvanceKeeps ==
  ASSUME ReaderInv, NEW n \in Nat, n <= BufLen,
         UNCHANGED <<stream, io>>,
         msfp'.buf = msfp.buf, msfp'.off = msfp.off + n, msfp'.pos = msfp.pos + n
  PROVE  Window'
<1> DEFINE len == Len(msfp.buf)
           off == msfp.off
           pos == msfp.pos
           inp == io.pos
<1>1. len \in Nat /\ off \in Nat /\ pos \in Nat /\ inp \in Nat
  BY DEF ReaderInv, ReaderTypeOK
<1>2. /\ len <= MaxRecLen /\ len - off = inp - pos
      /\ pos < inp => inp <= Len(stream)
      /\ \A i \in 1 .. inp - pos : msfp.buf[off + i] = stream[pos + i]
  BY DEF ReaderInv, Window
<1>3. n <= len - off
  BY DEF BufLen
<1>4. Window' <=> /\ len <= MaxRecLen /\ off + n <= len /\ len - (off + n) = inp - (pos + n)
                  /\ pos + n < inp => inp <= Len(stream)
                  /\ \A i \in 1 .. inp - (pos + n) :
                       msfp.buf[(off + n) + i] = stream[(pos + n) + i]
  BY DEF Window
<1> HIDE DEF len, off, pos, inp
<1>5. off + n <= len /\ len - (off + n) = inp - (pos + n) /\ (pos + n < inp => pos < inp)
  BY <1>1, <1>2, <1>3
<1>6. ASSUME NEW i \in 1 .. inp - (pos + n)
      PROVE  msfp.buf[(off + n) + i] = stream[(pos + n) + i]
  <2>1. n + i \in 1 .. inp - pos
    BY <1>1
  <2>2. msfp.buf[off + (n + i)] = stream[pos + (n + i)]
    BY <1>2, <2>1
  <2>3. off + (n + i) = (off + n) + i /\ pos + (n + i) = (pos + n) + i
    BY <1>1
  <2> QED BY <2>2, <2>3
<1> QED BY <1>2, <1>4, <1>5, <1>6

(* msio_fread() returns no more than was asked for and than there is. *)
LEMMA ReadCountsBound ==
  ASSUME ReaderInv, NEW size \in Nat, NEW n \in ReadCounts(size)
  PROVE  n \in 0 .. size /\ (n > 0 => io.pos + n <= Len(stream))
<1>1. io.pos \in Nat /\ Len(stream) \in Nat
  BY UnreadProperties DEF ReaderInv, ReaderTypeOK
<1> QED BY <1>1 DEF ReadCounts

(* Refilling the buffer keeps the window: the new bytes follow those that  *)
(* were shifted to the front.                                              *)
LEMMA FillKeeps ==
  ASSUME ReaderInv, Fill
  PROVE  Window' /\ msfp' \in [buf : Seq(Cell), off : Nat, pos : Nat, count : Nat]
         /\ io' \in [pos : Nat, eof : BOOLEAN]
<1> DEFINE size == MaxRecLen - Len(Shifted)
<1>0. PICK n \in ReadCounts(size) : \E eof \in EofAfter(size, n) :
        /\ io' = [pos |-> io.pos + n, eof |-> eof]
        /\ msfp' = [msfp EXCEPT !.off = 0,
                                !.buf = Shifted \o SubSeq(stream, io.pos + 1, io.pos + n)]
  BY DEF Fill
<1>1. PICK eof \in EofAfter(size, n) :
        /\ io' = [pos |-> io.pos + n, eof |-> eof]
        /\ msfp' = [msfp EXCEPT !.off = 0,
                                !.buf = Shifted \o SubSeq(stream, io.pos + 1, io.pos + n)]
  BY <1>0
<1>2. stream' = stream
  BY DEF Fill
<1>3. /\ msfp \in [buf : Seq(Cell), off : Nat, pos : Nat, count : Nat]
      /\ msfp.off \in Nat /\ msfp.pos \in Nat /\ io.pos \in Nat
  BY DEF ReaderInv, ReaderTypeOK
<1>4. size \in Nat
  BY <1>3, UnreadProperties, FormatAssumption, SMTT(40) DEF Shifted, BufLen, ReaderInv, Window
<1> HIDE DEF size
<1>5. n \in 0 .. size /\ (n > 0 => io.pos + n <= Len(stream))
  BY <1>4, ReadCountsBound
<1> DEFINE buf == Shifted \o SubSeq(stream, io.pos + 1, io.pos + n)
<1>6. /\ buf \in Seq(Cell)
      /\ Len(buf) = (io.pos - msfp.pos) + n
      /\ \A i \in 1 .. (io.pos + n) - msfp.pos : buf[i] = stream[msfp.pos + i]
  <2> DEFINE s == stream
             u == Unread
             p == msfp.pos
             q == io.pos
             lo == io.pos + 1
             hi == io.pos + n
             more == SubSeq(s, lo, hi)
  <2>1. s \in Seq(Cell) /\ u \in Seq(Cell) /\ p \in Nat /\ q \in Nat /\ n \in Nat
    BY <1>3, <1>4, <1>5, UnreadProperties
  <2>2. Len(u) = q - p /\ \A i \in 1 .. q - p : u[i] = s[p + i]
    BY UnreadProperties
  <2>3. n > 0 => q + n <= Len(s)
    BY <1>5
  <2>4. buf = u \o more
    BY DEF Shifted
  <2>5. lo = q + 1 /\ hi = q + n /\ lo \in Int /\ hi \in Int
    BY <2>1
  <2> HIDE DEF buf, s, u, p, q, lo, hi
  <2>6. more \in Seq(Cell) /\ Len(more) = n /\ \A i \in 1 .. n : more[i] = s[q + i]
    <3>1. ASSUME NEW i \in lo .. hi PROVE s[i] \in Cell
      <4>1. n > 0 /\ Len(s) \in Nat
        BY <2>1, <2>5
      <4>2. i \in 1 .. Len(s)
        BY <2>1, <2>3, <2>5, <4>1
      <4> QED BY <2>1, <4>2
    <3> QED BY <2>1, <2>5, <3>1, SubSeqBehind
  <2> HIDE DEF more
  <2>7. /\ u \o more \in Seq(Cell)
        /\ Len(u \o more) = Len(u) + Len(more)
        /\ \A i \in 1 .. Len(u) + Len(more) :
             (u \o more)[i] = IF i <= Len(u) THEN u[i] ELSE more[i - Len(u)]
    BY <2>1, <2>6, ConcatProperties
  <2>8. Len(u \o more) = (q - p) + n
    BY <2>1, <2>2, <2>6, <2>7
  <2>9. ASSUME NEW i \in 1 .. (q + n) - p PROVE (u \o more)[i] = s[p + i]
    <3>1. i \in 1 .. Len(u) + Len(more)
      BY <2>1, <2>2, <2>6
    <3>2. CASE i <= Len(u)
      <4>1. i \in 1 .. q - p
        BY <2>1, <2>2, <3>1, <3>2
      <4> QED BY <2>2, <2>7, <3>1, <3>2, <4>1
    <3>3. CASE ~(i <= Len(u))
      <4>1. i - Len(u) \in 1 .. n /\ q + (i - Len(u)) = p + i
        BY <2>1, <2>2, <2>6, <3>1, <3>3
      <4>2. (u \o more)[i] = more[i - Len(u)]
        BY <2>7, <3>1, <3>3
      <4> QED BY <2>6, <4>1, <4>2
    <3> QED BY <3>2, <3>3
  <2> QED BY <2>4, <2>7, <2>8, <2>9, Zenon DEF s, p, q
<1> HIDE DEF buf
<1>9. msfp'.buf = buf /\ msfp'.off = 0 /\ msfp'.pos = msfp.pos /\ io'.pos = io.pos + n
  BY <1>1, <1>3 DEF buf
<1>11. Len(buf) <= MaxRecLen /\ Len(buf) - 0 = (io.pos + n) - msfp.pos
  <2> DEFINE p == msfp.pos
             q == io.pos
             len == Len(buf)
             z == size
  <2>1. size = MaxRecLen - (q - p)
    BY UnreadProperties DEF size, Shifted
  <2>2. p \in Nat /\ q \in Nat /\ len = (q - p) + n
    BY <1>3, <1>6
  <2>3. n \in 0 .. z /\ MaxRecLen \in Nat /\ z = MaxRecLen - (q - p)
    BY <1>5, <2>1, FormatAssumption
  <2> HIDE DEF p, q, len, z
  <2>4. len <= MaxRecLen /\ len - 0 = (q + n) - p
    BY <2>2, <2>3
  <2> QED BY <2>4, Zenon DEF p, q, len
<1>12. msfp.pos < io.pos + n => io.pos + n <= Len(stream)
  <2>1. CASE n = 0
    BY <2>1, <1>3 DEF ReaderInv, Window
  <2>2. CASE n # 0
    BY <2>2, <1>5
  <2> QED BY <2>1, <2>2
<1>13. Window'
  <2>1. Window' <=>
          /\ Len(buf) <= MaxRecLen
          /\ 0 <= Len(buf)
          /\ Len(buf) - 0 = (io.pos + n) - msfp.pos
          /\ msfp.pos < io.pos + n => io.pos + n <= Len(stream)
          /\ \A i \in 1 .. (io.pos + n) - msfp.pos : buf[0 + i] = stream[msfp.pos + i]
    BY <1>2, <1>9 DEF Window
  <2>2. 0 <= Len(buf)
    BY <1>6
  <2>3. \A i \in 1 .. (io.pos + n) - msfp.pos : buf[0 + i] = stream[msfp.pos + i]
    BY <1>3, <1>5, <1>6
  <2>4. Len(buf) <= MaxRecLen
    BY <1>11
  <2>5. Len(buf) - 0 = (io.pos + n) - msfp.pos
    BY <1>11
  <2> QED BY <1>12, <2>1, <2>2, <2>3, <2>4, <2>5, Zenon
<1>14. eof \in BOOLEAN
  <2>1. CASE opt.chunk = 0
    BY <1>4, <1>5, <2>1 DEF EofAfter
  <2>2. CASE opt.chunk # 0
    <3>1. EofAfter(size, n) \subseteq {TRUE, FALSE}
      BY <2>2, Zenon DEF EofAfter
    <3> QED BY <3>1
  <2> QED BY <2>1, <2>2
<1>15. io' \in [pos : Nat, eof : BOOLEAN]
  BY <1>1, <1>3, <1>5, <1>14
<1>16. msfp' \in [buf : Seq(Cell), off : Nat, pos : Nat, count : Nat]
  BY <1>1, <1>3, <1>6 DEF buf
<1> QED BY <1>13, <1>15, <1>16

(* A call goes on or returns with one of the return codes. *)
CallType ==
  [pc : {"ready", "loop", "parse", "check", "done"}, more : BOOLEAN,
   ret : {"none", "record", "eof", "notseed", "outofrange", "error"}]

LEMMA ReturnType ==
  ASSUME rd \in CallType,
         NEW ret \in {"record", "eof", "notseed", "outofrange", "error"}, Return(ret)
  PROVE  rd' \in CallType
BY DEF Return, CallType

LEMMA GoToType ==
  ASSUME rd \in CallType,
         NEW pc \in {"loop", "parse", "check"}, NEW more \in BOOLEAN, GoTo(pc, more)
  PROVE  rd' \in CallType
BY DEF GoTo, CallType

(* A parsed record lies within what is unread. *)
LEMMA ParsedRecord ==
  ASSUME ReaderInv, NEW r \in Parsing({"record"})
  PROVE  r.n \in Nat /\ r.n <= BufLen
<1>1. BufLen >= MinRecLen /\ r \in Parse(Unread, io.eof, ~opt.select) /\ r.how = "record"
  BY DEF Parsing
<1>2. Len(Unread) = BufLen /\ Len(Unread) > 0 /\ Unread \in Seq(Cell)
  BY <1>1, UnreadProperties, FormatAssumption
<1>3. io.eof \in BOOLEAN /\ (~opt.select) \in BOOLEAN
  BY DEF ReaderInv, ReaderTypeOK
<1> QED BY <1>1, <1>2, <1>3, RecordInBuffer

(* There is a byte to skip. *)
LEMMA ByteToSkip ==
  ASSUME ReaderInv, NEW how, Parsing(how) # {}
  PROVE  1 <= BufLen
<1>1. BufLen >= MinRecLen
  BY DEF Parsing
<1> QED BY <1>1, UnreadProperties, FormatAssumption

(* Advance(n) keeps types and window. *)
LEMMA AdvanceInv ==
  ASSUME ReaderInv, NEW n \in Nat, n <= BufLen, Advance(n), UNCHANGED <<stream, io>>
  PROVE  Window' /\ msfp' \in [buf : Seq(Cell), off : Nat, pos : Nat, count : Nat]
<1>1. msfp \in [buf : Seq(Cell), off : Nat, pos : Nat, count : Nat]
  BY DEF ReaderInv, ReaderTypeOK
<1>2. msfp'.buf = msfp.buf /\ msfp'.off = msfp.off + n /\ msfp'.pos = msfp.pos + n
  BY <1>1 DEF Advance
<1>3. msfp' \in [buf : Seq(Cell), off : Nat, pos : Nat, count : Nat]
  <2>1. msfp.off + n \in Nat /\ msfp.pos + n \in Nat
    BY <1>1
  <2> QED BY <1>1, <2>1, Zenon DEF Advance
<1> QED BY <1>2, <1>3, AdvanceKeeps

(* Every step of the reader keeps types and window. *)
LEMMA ReaderNextKeeps ==
  ASSUME ReaderInv, [ReaderNext]_readerVars
  PROVE  ReaderInv'
<1> DEFINE FileParam == [buf : Seq(Cell), off : Nat, pos : Nat, count : Nat]
<1>1. /\ stream \in Streams /\ opt \in Options /\ io \in [pos : Nat, eof : BOOLEAN]
      /\ msfp \in FileParam /\ rd \in CallType /\ out \in Seq(Nat) /\ Window
  BY DEF ReaderInv, ReaderTypeOK, CallType
<1>2. rd.more \in BOOLEAN
  BY <1>1 DEF CallType
<1>3. UNCHANGED <<stream, opt>>
  BY DEF ReaderNext, readerVars, Call, EndOfRange, Fill, NoFill, ReturnRecord, DecodeError,
         SkipUnwanted, ParseError, NeedTooMuch, NeedMore, TooShort, CheckEnd
<1>4. SUFFICES /\ io' \in [pos : Nat, eof : BOOLEAN] /\ msfp' \in FileParam
               /\ rd' \in CallType /\ out' \in Seq(Nat) /\ Window'
  BY <1>1, <1>3 DEF ReaderInv, ReaderTypeOK, CallType
<1> DEFINE Goal == /\ io' \in [pos : Nat, eof : BOOLEAN] /\ msfp' \in FileParam
                   /\ rd' \in CallType /\ out' \in Seq(Nat) /\ Window'
<1> HIDE DEF FileParam
<1>5. ASSUME UNCHANGED <<stream, io, msfp, out>>, rd' \in CallType PROVE Goal
  BY <1>1, <1>5, WindowKept
<1>6. ASSUME NEW n \in Nat, n <= BufLen, Advance(n), UNCHANGED <<stream, io, out>>,
             rd' \in CallType
      PROVE  Goal
  BY <1>1, <1>6, AdvanceInv DEF FileParam
<1>7. CASE UNCHANGED readerVars
  BY <1>1, <1>5, <1>7 DEF readerVars
<1>8. CASE Call
  BY <1>1, <1>5, <1>8, GoToType DEF Call
<1>9. CASE EndOfRange
  BY <1>1, <1>5, <1>9, ReturnType DEF EndOfRange
<1>10. CASE Fill
  <2>1. Return("error") \/ GoTo("parse", rd.more)
    BY <1>10 DEF Fill
  <2>2. rd' \in CallType
    BY <1>1, <1>2, <2>1, ReturnType, GoToType
  <2>3. out' = out
    BY <1>10 DEF Fill
  <2> QED BY <1>1, <1>10, <2>2, <2>3, FillKeeps DEF FileParam
<1>11. CASE NoFill
  BY <1>1, <1>2, <1>5, <1>11, GoToType DEF NoFill
<1>12. CASE ReturnRecord
  <2>1. PICK r \in Parsing({"record"}) :
          /\ msfp' = [msfp EXCEPT !.off = @ + r.n, !.pos = @ + r.n, !.count = @ + 1]
          /\ Return("record")
    BY <1>12 DEF ReturnRecord
  <2>2. r.n \in Nat /\ r.n <= BufLen
    BY ParsedRecord
  <2>3. /\ msfp' \in FileParam
        /\ msfp'.buf = msfp.buf /\ msfp'.off = msfp.off + r.n /\ msfp'.pos = msfp.pos + r.n
    <3>1. msfp.off + r.n \in Nat /\ msfp.pos + r.n \in Nat /\ msfp.count + 1 \in Nat
      BY <1>1, <2>2 DEF FileParam
    <3>2. msfp' \in FileParam
      BY <1>1, <2>1, <3>1, Zenon DEF FileParam
    <3> QED BY <1>1, <2>1, <3>2 DEF FileParam
  <2>4. UNCHANGED <<stream, io>> /\ out' = Append(out, msfp.pos) /\ msfp.pos \in Nat
    BY <1>1, <1>12 DEF ReturnRecord, FileParam
  <2>5. Window'
    BY <2>2, <2>3, <2>4, AdvanceKeeps
  <2>6. rd' \in CallType
    BY <1>1, <2>1, ReturnType
  <2>7. out' \in Seq(Nat)
    BY <1>1, <2>4
  <2> QED BY <1>1, <2>3, <2>4, <2>5, <2>6, <2>7
<1>13. CASE DecodeError
  BY <1>1, <1>5, <1>13, ReturnType DEF DecodeError
<1>14. CASE SkipUnwanted
  <2>1. PICK r \in Parsing({"record"}) : Advance(r.n)
    BY <1>14 DEF SkipUnwanted
  <2>2. r.n \in Nat /\ r.n <= BufLen
    BY ParsedRecord
  <2>3. rd' \in CallType /\ UNCHANGED <<stream, io, out>>
    BY <1>1, <1>14, GoToType DEF SkipUnwanted
  <2> QED BY <1>6, <2>1, <2>2, <2>3
<1>15. CASE ParseError
  <2>1. PICK r \in Parsing({"notseed", "outofrange", "error"}) :
          \/ opt.skip /\ Advance(1) /\ GoTo("check", FALSE)
          \/ ~opt.skip /\ Return(r.how) /\ UNCHANGED msfp
    BY <1>15 DEF ParseError
  <2>2. r.how \in {"notseed", "outofrange", "error"}
    BY DEF Parsing
  <2>3. UNCHANGED <<stream, io, out>>
    BY <1>15 DEF ParseError
  <2>4. CASE Advance(1) /\ GoTo("check", FALSE)
    <3>1. 1 <= BufLen
      BY ByteToSkip
    <3>2. rd' \in CallType
      BY <1>1, <2>4, GoToType
    <3> QED BY <1>6, <2>3, <2>4, <3>1, <3>2
  <2>5. CASE Return(r.how) /\ UNCHANGED msfp
    <3>1. rd' \in CallType
      BY <1>1, <2>2, <2>5, ReturnType
    <3> QED BY <1>5, <2>3, <2>5, <3>1
  <2> QED BY <2>1, <2>4, <2>5
<1>16. CASE NeedTooMuch
  <2>1. Parsing({"need"}) # {}
    BY <1>16 DEF NeedTooMuch
  <2>2. UNCHANGED <<stream, io, out>>
    BY <1>16 DEF NeedTooMuch
  <2>3. CASE Advance(1) /\ GoTo("check", TRUE)
    <3>1. 1 <= BufLen
      BY <2>1, ByteToSkip
    <3>2. rd' \in CallType
      BY <1>1, <2>3, GoToType
    <3> QED BY <1>6, <2>2, <2>3, <3>1, <3>2
  <2>4. CASE Return("outofrange") /\ UNCHANGED msfp
    <3>1. rd' \in CallType
      BY <1>1, <2>4, ReturnType
    <3> QED BY <1>5, <2>2, <2>4, <3>1
  <2> QED BY <1>16, <2>3, <2>4 DEF NeedTooMuch
<1>17. CASE NeedMore
  <2>1. Return("eof") \/ GoTo("check", TRUE)
    BY <1>17 DEF NeedMore
  <2>2. rd' \in CallType
    BY <1>1, <2>1, ReturnType, GoToType
  <2> QED BY <1>5, <1>17, <2>2 DEF NeedMore
<1>18. CASE TooShort
  BY <1>1, <1>2, <1>5, <1>18, GoToType DEF TooShort
<1>19. CASE CheckEnd
  <2>1. Return("notseed") \/ Return("eof") \/ GoTo("loop", rd.more)
    BY <1>19 DEF CheckEnd
  <2>2. rd' \in CallType
    BY <1>1, <1>2, <2>1, ReturnType, GoToType
  <2> QED BY <1>5, <1>19, <2>2 DEF CheckEnd
<1> QED BY <1>7, <1>8, <1>9, <1>10, <1>11, <1>12, <1>13, <1>14, <1>15, <1>16, <1>17,
           <1>18, <1>19 DEF ReaderNext

-----------------------------------------------------------------------------
(* Types and window.                                                       *)

(* The reader starts with an empty window. *)
LEMMA ReaderInitInv == ReaderInit => ReaderInv
<1> SUFFICES ASSUME ReaderInit PROVE ReaderInv
  OBVIOUS
<1>1. opt \in [skip : BOOLEAN, select : BOOLEAN, start : Nat, end : Nat, chunk : Nat]
  BY ReaderAssumption DEF ReaderInit
<1>2. opt.start \in Nat
  BY <1>1
<1>3. ReaderTypeOK
  BY <1>2 DEF ReaderInit, ReaderTypeOK
<1>4. Window
  BY <1>2, FormatAssumption DEF ReaderInit, Window
<1> QED BY <1>3, <1>4 DEF ReaderInv

(* Types and window hold in every state of every reading of a stream. *)
THEOREM ReaderInvariance == ReaderSpec => []ReaderInv
<1>1. ReaderInit => ReaderInv
  BY ReaderInitInv
<1>2. ReaderInv /\ [ReaderNext]_readerVars => ReaderInv'
  BY ReaderNextKeeps
<1> QED BY <1>1, <1>2, PTL DEF ReaderSpec

(* The fields of MS3FileParam and the state of a call keep their types. *)
THEOREM ReaderTypeCorrect == ReaderSpec => []ReaderTypeOK
<1>1. ReaderInv => ReaderTypeOK
  BY DEF ReaderInv
<1> QED BY <1>1, ReaderInvariance, PTL

(* However the input arrives in pieces, and whatever is returned, passed   *)
(* over or skipped, the unread part of the buffer is the part of the       *)
(* stream between streampos and the input: no byte is lost or read twice,  *)
(* and the buffer never overflows.                                         *)
THEOREM BufferIsWindow == ReaderSpec => []BufferAligned
<1>1. ReaderInv => BufferAligned
  BY WindowAligned
<1> QED BY <1>1, ReaderInvariance, PTL

-----------------------------------------------------------------------------
(* Parsing a part of what there is.                                        *)

LEMMA LeastIs ==
  ASSUME NEW S \in SUBSET Nat, NEW m \in S, \A n \in S : m <= n
  PROVE  (CHOOSE x \in S : \A y \in S : x <= y) = m
<1> DEFINE x == CHOOSE x \in S : \A y \in S : x <= y
<1>1. x \in S /\ \A y \in S : x <= y
  OBVIOUS
<1> HIDE DEF x
<1>2. x <= m /\ m <= x /\ x \in Nat /\ m \in Nat
  BY <1>1
<1>3. x = m
  BY <1>2
<1> QED BY <1>3 DEF x

(* The nearest header in a part of the bytes is the nearest in all. *)
LEMMA NearestHeader ==
  ASSUME NEW buf \in Seq(Cell), NEW full \in Seq(Cell), Len(buf) <= Len(full),
         \A i \in 1 .. Len(buf) : full[i] = buf[i], NextHeaders(buf) # {}
  PROVE  /\ NextHeaders(full) # {}
         /\ (CHOOSE x \in NextHeaders(full) : \A y \in NextHeaders(full) : x <= y)
              = (CHOOSE x \in NextHeaders(buf) : \A y \in NextHeaders(buf) : x <= y)
<1>1. NextHeaders(buf) \in SUBSET Nat /\ NextHeaders(full) \in SUBSET Nat
  BY DEF NextHeaders
<1>2. PICK m \in NextHeaders(buf) : \A n \in NextHeaders(buf) : m <= n
  BY <1>1, LeastOffset
<1>3. Len(buf) \in Nat /\ Len(full) \in Nat /\ FixedLen \in Nat
  BY FormatAssumption
<1>4. m \in NextHeaders(full)
  <2>1. m \in 1 .. Len(buf) - 1 /\ m % ScanStep = 0 /\ m + FixedLen < Len(buf) /\ buf[m + 1].hdr = "v2"
    BY DEF NextHeaders
  <2>2. m + 1 \in 1 .. Len(buf)
    BY <1>3, <2>1
  <2>3. full[m + 1].hdr = "v2"
    BY <2>1, <2>2
  <2>4. m \in 1 .. Len(full) - 1 /\ m + FixedLen < Len(full)
    BY <1>3, <2>1
  <2> QED BY <2>1, <2>3, <2>4 DEF NextHeaders
<1>5. ASSUME NEW n \in NextHeaders(full) PROVE m <= n
  <2>1. n \in 1 .. Len(full) - 1 /\ n % ScanStep = 0 /\ full[n + 1].hdr = "v2"
    BY DEF NextHeaders
  <2>2. m \in 1 .. Len(buf) - 1 /\ m + FixedLen < Len(buf)
    BY DEF NextHeaders
  <2>3. CASE n < m
    <3>1. n \in 1 .. Len(buf) - 1 /\ n + 1 \in 1 .. Len(buf) /\ n + FixedLen < Len(buf)
      BY <1>3, <2>1, <2>2, <2>3
    <3>2. n \in NextHeaders(buf)
      BY <2>1, <3>1 DEF NextHeaders
    <3> QED BY <1>2, <3>2
  <2>4. CASE ~(n < m)
    BY <2>1, <2>2, <2>4
  <2> QED BY <2>3, <2>4
<1>6. (CHOOSE x \in NextHeaders(full) : \A y \in NextHeaders(full) : x <= y) = m
  BY <1>1, <1>4, <1>5, LeastIs
<1>7. (CHOOSE x \in NextHeaders(buf) : \A y \in NextHeaders(buf) : x <= y) = m
  BY <1>1, <1>2, LeastIs
<1> QED BY <1>4, <1>6, <1>7

(* A record length that ms3_detect() finds in a part of the bytes is the   *)
(* one that it finds in all of them, but for a header that is cut off.     *)
LEMMA DetectPart ==
  ASSUME NEW buf \in Seq(Cell), NEW full \in Seq(Cell), 0 < Len(buf), Len(buf) <= Len(full),
         \A i \in 1 .. Len(buf) : full[i] = buf[i],
         NEW len \in Detect(buf), len # 0
  PROVE  \/ len \in Detect(full)
         \/ /\ len = -1 /\ Len(buf) < Len(full)
            /\ buf[1].hdr = "v2" /\ buf[1].len > 0
            /\ FixedLen <= Len(buf) /\ Len(buf) < FixedLen + BlktLen
<1> DEFINE l == Len(buf)
           f == Len(full)
           c == buf[1].len
           missing == IF c > 0 THEN FixedLen + BlktLen - l ELSE FixedLen - l
           Missing == IF c > 0 THEN FixedLen + BlktLen - f ELSE FixedLen - f
<1>1. full[1] = buf[1] /\ c \in Nat
  <2>1. 1 \in 1 .. Len(buf) /\ buf[1] \in Cell
    BY SMT
  <2> QED BY <2>1 DEF Cell
<1>2. l \in Nat /\ f \in Nat /\ FixedLen \in Nat /\ BlktLen \in Nat /\ l <= f
  BY FormatAssumption
<1>3. CASE buf[1].hdr = "none"
  BY <1>1, <1>3 DEF Detect
<1>4. CASE buf[1].hdr # "none" /\ buf[1].hdr = "v2" /\ missing > 0
  <2>1. len = -1 /\ l >= FixedLen
    <3>1. len \in (IF l >= FixedLen THEN {0, -1} ELSE {0})
      BY <1>4 DEF Detect
    <3> QED BY <3>1
  <2>2. c > 0 /\ l < FixedLen + BlktLen
    BY <1>1, <1>2, <1>4, <2>1
  <2>3. CASE l < f
    BY <1>4, <2>1, <2>2, <2>3
  <2>4. CASE l = f
    BY <1>1, <1>4, <2>1, <2>4 DEF Detect
  <2> QED BY <1>2, <2>3, <2>4
<1>5. CASE buf[1].hdr # "none" /\ ~(buf[1].hdr = "v2" /\ missing > 0)
  <2>1. ~(full[1].hdr = "v2" /\ Missing > 0)
    BY <1>1, <1>2, <1>5
  <2>2. CASE c > 0
    <3>1. len = c
      BY <1>5, <2>2 DEF Detect
    <3>2. c \in Detect(full)
      BY <1>1, <1>5, <2>1, <2>2 DEF Detect
    <3> QED BY <3>1, <3>2
  <2>3. CASE ~(c > 0)
    <3>1. NextHeaders(buf) # {} /\ len = CHOOSE x \in NextHeaders(buf) : \A y \in NextHeaders(buf) : x <= y
      BY <1>5, <2>3 DEF Detect
    <3>2. /\ NextHeaders(full) # {}
          /\ (CHOOSE x \in NextHeaders(full) : \A y \in NextHeaders(full) : x <= y) = len
      BY <3>1, NearestHeader
    <3> QED BY <1>1, <1>5, <2>1, <2>3, <3>2 DEF Detect
  <2> QED BY <2>2, <2>3
<1> QED BY <1>3, <1>4, <1>5

(* So what msr3_parse() says of a part of the bytes is what it says of     *)
(* all, unless it asks for more that the buffer can hold, or the header or *)
(* what tells the length is cut off.                                       *)
LEMMA ParsePart ==
  ASSUME NEW buf \in Seq(Cell), NEW full \in Seq(Cell), 0 < Len(buf), Len(buf) <= Len(full),
         Len(full) <= MaxRecLen, \A i \in 1 .. Len(buf) : full[i] = buf[i],
         NEW ateof \in BOOLEAN, NEW unpack \in BOOLEAN, NEW r \in Parse(buf, FALSE, unpack)
  PROVE  \/ r \in Parse(full, ateof, unpack)
         \/ r.how = "need" /\ Len(buf) + r.n <= MaxRecLen
         \/ /\ r = Outcome("notseed", 0) /\ Len(buf) < Len(full)
            /\ buf[1].hdr = "v2" /\ buf[1].len > 0
            /\ FixedLen <= Len(buf) /\ Len(buf) < FixedLen + BlktLen
         \/ /\ r.how = "need" /\ Len(buf) < Len(full)
            /\ buf[1].hdr # "none" /\ buf[1].len = 0 /\ Len(buf) + MinRecLen > MaxRecLen
<1>1. PICK len \in RecordLengths(buf, FALSE) : r = ParseAs(buf, len, unpack)
  BY DEF Parse
<1>2. len \in Detect(buf) /\ len \in Int
  BY DetectIsInteger DEF RecordLengths
<1>3. /\ MinRecLen \in Nat \ {0} /\ MaxRecLen \in Nat /\ FixedLen \in Nat /\ BlktLen \in Nat
      /\ Len(buf) \in Nat /\ Len(full) \in Nat /\ FixedLen + BlktLen + MinRecLen <= MaxRecLen
  BY FormatAssumption
<1>4. full[1] = buf[1] /\ buf[1].len \in Nat
  <2>1. 1 \in 1 .. Len(buf) /\ buf[1] \in Cell
    BY SMT
  <2> QED BY <2>1 DEF Cell
<1>5. ASSUME len \in Detect(full), len # 0 PROVE ParseAs(full, len, unpack) \in Parse(full, ateof, unpack)
  <2>1. len \in RecordLengths(full, ateof)
    BY <1>5 DEF RecordLengths
  <2> QED BY <2>1 DEF Parse
<1>6. CASE len < 0
  <2>1. r = Outcome("notseed", 0)
    BY <1>1, <1>6 DEF ParseAs
  <2>2. ParseAs(full, len, unpack) = Outcome("notseed", 0)
    BY <1>6 DEF ParseAs
  <2>3. len # 0
    BY <1>6
  <2>4. \/ len \in Detect(full)
        \/ /\ Len(buf) < Len(full)
           /\ buf[1].hdr = "v2" /\ buf[1].len > 0
           /\ FixedLen <= Len(buf) /\ Len(buf) < FixedLen + BlktLen
    BY <1>2, <2>3, DetectPart
  <2> QED BY <1>5, <2>1, <2>2, <2>3, <2>4
<1>7. CASE len = 0
  <2>1. r = Outcome("need", MinRecLen) /\ r.how = "need" /\ r.n = MinRecLen
    BY <1>1, <1>7 DEF ParseAs, Outcome
  <2>2. CASE Len(buf) + MinRecLen <= MaxRecLen
    BY <2>1, <2>2
  <2>3. CASE Len(buf) + MinRecLen > MaxRecLen
    <3>1. Len(buf) >= FixedLen + BlktLen
      BY <1>3, <2>3
    <3>2. buf[1].hdr # "none" /\ ~(buf[1].len > 0) /\ NextHeaders(buf) = {}
      <4> DEFINE missing == IF buf[1].len > 0 THEN FixedLen + BlktLen - Len(buf) ELSE FixedLen - Len(buf)
      <4>1. ~(missing > 0)
        BY <1>3, <3>1
      <4>2. buf[1].hdr # "none"
        BY <1>2, <1>7 DEF Detect
      <4>3. ~(buf[1].len > 0)
        BY <1>2, <1>7, <4>1, <4>2 DEF Detect
      <4>4. ASSUME NextHeaders(buf) # {} PROVE FALSE
        <5>1. NextHeaders(buf) \in SUBSET (Nat \ {0})
          BY DEF NextHeaders
        <5>2. 0 = CHOOSE x \in NextHeaders(buf) : \A y \in NextHeaders(buf) : x <= y
          BY <1>2, <1>7, <4>1, <4>2, <4>3, <4>4 DEF Detect
        <5>3. \E m \in NextHeaders(buf) : \A n \in NextHeaders(buf) : m <= n
          BY <4>4, <5>1, LeastOffset
        <5>4. (CHOOSE x \in NextHeaders(buf) : \A y \in NextHeaders(buf) : x <= y) \in NextHeaders(buf)
          BY <5>3
        <5> QED BY <5>1, <5>2, <5>4
      <4> QED BY <4>2, <4>3, <4>4
    <3>3. CASE Len(buf) < Len(full)
      BY <1>4, <2>1, <2>3, <3>2, <3>3
    <3>4. CASE Len(buf) = Len(full)
      <4>1. NextHeaders(full) = {}
        <5> SUFFICES ASSUME NEW o \in NextHeaders(full) PROVE o \in NextHeaders(buf)
          BY <3>2
        <5>1. o \in 1 .. Len(full) - 1 /\ o + 1 \in 1 .. Len(buf)
          BY <1>3, <3>4 DEF NextHeaders
        <5> QED BY <3>4, <5>1 DEF NextHeaders
      <4>2. ~(FixedLen - Len(full) > 0)
        BY <1>3, <3>1, <3>4
      <4>3. 0 \in Detect(full)
        BY <1>4, <3>2, <4>1, <4>2 DEF Detect
      <4>4. ~IsPowerOf2(Len(full))
        <5>1. ASSUME IsPowerOf2(Len(full)) PROVE FALSE
          <6>1. Len(full) \in 1 .. MaxRecLen
            BY <1>3, <3>4
          <6>2. Len(full) + MinRecLen <= MaxRecLen
            BY <5>1, <6>1, FormatAssumption
          <6> QED BY <1>3, <2>3, <3>4, <6>2
        <5> QED BY <5>1
      <4>5. 0 \in RecordLengths(full, ateof)
        BY <4>3, <4>4 DEF RecordLengths
      <4>6. ParseAs(full, 0, unpack) = r
        BY <2>1 DEF ParseAs
      <4> QED BY <4>5, <4>6 DEF Parse
    <3> QED BY <1>3, <3>3, <3>4
  <2> QED BY <1>3, <2>2, <2>3
<1>8. CASE len > 0
  <2>1. len \in Detect(full) /\ len # 0 /\ ~(len < 0)
    BY <1>2, <1>8, DetectPart
  <2>2. CASE len < MinRecLen \/ len > MaxRecLen
    <3>1. r = Outcome("outofrange", 0)
      BY <1>1, <2>1, <2>2 DEF ParseAs
    <3>2. ParseAs(full, len, unpack) = r
      BY <2>1, <2>2, <3>1 DEF ParseAs
    <3> QED BY <1>5, <2>1, <3>2
  <2>3. CASE ~(len < MinRecLen \/ len > MaxRecLen) /\ len > Len(buf)
    <3>1. r = Outcome("need", len - Len(buf))
      BY <1>1, <2>1, <2>3 DEF ParseAs
    <3>2. r.how = "need" /\ Len(buf) + r.n <= MaxRecLen
      BY <1>2, <1>3, <2>3, <3>1 DEF Outcome
    <3> QED BY <3>2
  <2>4. CASE ~(len < MinRecLen \/ len > MaxRecLen) /\ ~(len > Len(buf))
    <3>1. ~(len > Len(full))
      BY <1>2, <1>3, <2>4
    <3>2. ParseAs(full, len, unpack) = r
      BY <1>1, <1>4, <2>1, <2>4, <3>1 DEF ParseAs
    <3> QED BY <1>5, <2>1, <3>2
  <2> QED BY <2>2, <2>3, <2>4
<1> QED BY <1>2, <1>6, <1>7, <1>8

-----------------------------------------------------------------------------
(* What else holds from step to step.                                      *)

(* The end is only reported when it was reached, every record returned is  *)
(* counted, the range is looked at before parsing, and when more bytes are *)
(* asked for there is room for them.                                       *)
Steady ==
  /\ io.eof => Len(stream) <= io.pos
  /\ msfp.count = Len(out)
  /\ rd.pc = "parse" => ~RangeEnded
  /\ rd.pc \in {"loop", "check"} /\ rd.more => BufLen < MaxRecLen

(* A hint at missing bytes is a positive number. *)
LEMMA NeedPositive ==
  ASSUME NEW buf \in Seq(Cell), Len(buf) > 0, NEW ateof \in BOOLEAN, NEW unpack \in BOOLEAN,
         NEW r \in Parse(buf, ateof, unpack), r.how = "need"
  PROVE  r.n \in Nat \ {0}
<1>1. PICK len \in RecordLengths(buf, ateof) : r = ParseAs(buf, len, unpack)
  BY DEF Parse
<1>2. len \in Int /\ Len(buf) \in Nat /\ MinRecLen \in Nat \ {0}
  BY DetectIsInteger, FormatAssumption DEF RecordLengths
<1>3. \/ r = Outcome("need", MinRecLen)
      \/ len > Len(buf) /\ r = Outcome("need", len - Len(buf))
  <2>1. CASE len < 0
    BY <1>1, <2>1 DEF ParseAs, Outcome
  <2>2. CASE ~(len < 0) /\ len = 0
    BY <1>1, <2>2 DEF ParseAs, Outcome
  <2>3. CASE ~(len < 0) /\ len # 0 /\ (len < MinRecLen \/ len > MaxRecLen)
    BY <1>1, <2>3 DEF ParseAs, Outcome
  <2>4. CASE ~(len < 0) /\ len # 0 /\ ~(len < MinRecLen \/ len > MaxRecLen) /\ len > Len(buf)
    BY <1>1, <2>4 DEF ParseAs, Outcome
  <2>5. CASE ~(len < 0) /\ len # 0 /\ ~(len < MinRecLen \/ len > MaxRecLen) /\ ~(len > Len(buf))
    BY <1>1, <2>5 DEF ParseAs, Outcome
  <2> QED BY <2>1, <2>2, <2>3, <2>4, <2>5
<1> QED BY <1>2, <1>3 DEF Outcome

(* The end of the stream is not reported too early. *)
LEMMA FillEnd ==
  ASSUME ReaderInv, Fill
  PROVE  /\ io'.eof => Len(stream) <= io'.pos
         /\ msfp'.pos = msfp.pos /\ msfp'.count = msfp.count
<1> DEFINE size == MaxRecLen - Len(Shifted)
<1>1. PICK n \in ReadCounts(size) : \E eof \in EofAfter(size, n) :
        /\ io' = [pos |-> io.pos + n, eof |-> eof]
        /\ msfp' = [msfp EXCEPT !.off = 0,
                                !.buf = Shifted \o SubSeq(stream, io.pos + 1, io.pos + n)]
  BY DEF Fill
<1>2. PICK eof \in EofAfter(size, n) :
        /\ io' = [pos |-> io.pos + n, eof |-> eof]
        /\ msfp' = [msfp EXCEPT !.off = 0,
                                !.buf = Shifted \o SubSeq(stream, io.pos + 1, io.pos + n)]
  BY <1>1
<1>3. msfp \in [buf : Seq(Cell), off : Nat, pos : Nat, count : Nat]
  BY DEF ReaderInv, ReaderTypeOK
<1>4. msfp'.pos = msfp.pos /\ msfp'.count = msfp.count
  BY <1>2, <1>3
<1>5. io.pos \in Nat /\ Len(stream) \in Nat /\ size \in Int
  BY UnreadProperties, FormatAssumption DEF ReaderInv, ReaderTypeOK, Shifted
<1> HIDE DEF size
<1>6. ASSUME eof PROVE Len(stream) <= io.pos + n
  <2>1. CASE opt.chunk = 0
    <3> DEFINE rest == IF io.pos < Len(stream) THEN Len(stream) - io.pos ELSE 0
    <3>1. n = IF rest < size THEN rest ELSE size
      BY <2>1 DEF ReadCounts
    <3>2. n < size
      <4>1. eof \in {n < size}
        BY <2>1, Zenon DEF EofAfter
      <4>2. eof = (n < size)
        BY <4>1, Zenon
      <4> QED BY <1>6, <4>2
    <3>3. rest \in Nat
      BY <1>5
    <3> HIDE DEF rest
    <3>4. n = rest
      BY <1>5, <3>1, <3>2, <3>3
    <3> QED BY <1>5, <3>4 DEF rest
  <2>2. CASE opt.chunk # 0
    <3>1. CASE io.pos + n < Len(stream)
      <4>1. eof = FALSE
        BY <2>2, <3>1, Zenon DEF EofAfter
      <4> QED BY <1>6, <4>1
    <3>2. CASE ~(io.pos + n < Len(stream))
      <4>1. n \in Int
        BY <2>2 DEF ReadCounts
      <4> QED BY <1>5, <3>2, <4>1
    <3> QED BY <3>1, <3>2
  <2> QED BY <2>1, <2>2
<1> QED BY <1>2, <1>4, <1>6

(* Every step keeps this. *)
LEMMA SteadyKept ==
  ASSUME ReaderInv, Steady, [ReaderNext]_readerVars
  PROVE  Steady'
<1>1. /\ rd \in CallType /\ rd.more \in BOOLEAN /\ out \in Seq(Nat)
      /\ msfp \in [buf : Seq(Cell), off : Nat, pos : Nat, count : Nat]
      /\ Len(msfp.buf) \in Nat /\ msfp.off \in Nat /\ msfp.pos \in Nat /\ msfp.count \in Nat
  BY DEF ReaderInv, ReaderTypeOK, CallType
<1>2. MinRecLen \in Nat \ {0} /\ MaxRecLen \in Nat /\ MinRecLen < MaxRecLen
  BY FormatAssumption
<1>3. BufLen \in Nat /\ BufLen <= MaxRecLen
  BY <1>1, <1>2, UnreadProperties DEF ReaderInv, Window, BufLen
<1>4. UNCHANGED <<stream, opt>>
  BY DEF ReaderNext, readerVars, Call, EndOfRange, Fill, NoFill, ReturnRecord, DecodeError,
         SkipUnwanted, ParseError, NeedTooMuch, NeedMore, TooShort, CheckEnd
<1>5. ASSUME NEW ret, Return(ret) PROVE rd'.pc \in {"ready", "done"}
  BY <1>1, <1>5 DEF Return, CallType
<1>6. ASSUME NEW pc, NEW more, GoTo(pc, more) PROVE rd'.pc = pc /\ rd'.more = more
  BY <1>1, <1>6 DEF GoTo, CallType
<1>7. ASSUME UNCHANGED <<io, msfp, out>>, rd'.pc = "parse" => ~RangeEnded,
             rd'.pc \in {"loop", "check"} /\ rd'.more => BufLen < MaxRecLen
      PROVE  Steady'
  BY <1>4, <1>7 DEF Steady, RangeEnded, BufLen
<1>8. ASSUME UNCHANGED <<io, out>>, NEW n \in Nat \ {0}, n <= BufLen, Advance(n),
             rd'.pc \in {"ready", "done", "check"}
      PROVE  Steady'
  <2>1. msfp'.count = msfp.count /\ msfp'.buf = msfp.buf /\ msfp'.off = msfp.off + n
    BY <1>1, <1>8 DEF Advance
  <2>2. BufLen' = BufLen - n
    BY <1>1, <2>1, <1>8 DEF BufLen
  <2>3. BufLen' < MaxRecLen
    BY <1>2, <1>3, <1>8, <2>2
  <2> QED BY <1>4, <1>8, <2>1, <2>3 DEF Steady
<1>9. CASE UNCHANGED readerVars
  BY <1>9 DEF readerVars, Steady, RangeEnded, BufLen
<1>10. CASE Call
  <2>1. rd'.pc = "loop" /\ rd'.more = FALSE /\ UNCHANGED <<io, msfp, out>>
    BY <1>6, <1>10 DEF Call
  <2> QED BY <1>7, <2>1
<1>11. CASE EndOfRange
  BY <1>5, <1>7, <1>11 DEF EndOfRange
<1>12. CASE Fill
  <2>1. Return("error") \/ GoTo("parse", rd.more)
    BY <1>12 DEF Fill
  <2>2. rd'.pc \in {"ready", "done", "parse"}
    BY <1>5, <1>6, <2>1
  <2>3. out' = out /\ ~RangeEnded
    BY <1>12 DEF Fill
  <2>4. (io'.eof => Len(stream) <= io'.pos) /\ msfp'.pos = msfp.pos /\ msfp'.count = msfp.count
    BY <1>12, FillEnd
  <2> QED BY <1>4, <2>2, <2>3, <2>4 DEF Steady, RangeEnded
<1>13. CASE NoFill
  BY <1>6, <1>7, <1>13 DEF NoFill
<1>14. CASE ReturnRecord
  <2>1. PICK r \in Parsing({"record"}) :
          /\ msfp' = [msfp EXCEPT !.off = @ + r.n, !.pos = @ + r.n, !.count = @ + 1]
          /\ Return("record")
    BY <1>14 DEF ReturnRecord
  <2>2. msfp'.count = msfp.count + 1
    BY <1>1, <2>1
  <2>3. io' = io /\ out' = Append(out, msfp.pos) /\ Len(Append(out, msfp.pos)) = Len(out) + 1
    BY <1>1, <1>14, AppendProperties DEF ReturnRecord
  <2>4. rd'.pc \in {"ready", "done"}
    BY <1>5, <2>1
  <2> QED BY <1>4, <2>2, <2>3, <2>4 DEF Steady
<1>15. CASE DecodeError
  BY <1>5, <1>7, <1>15 DEF DecodeError
<1>16. CASE SkipUnwanted
  <2>1. PICK r \in Parsing({"record"}) : Advance(r.n)
    BY <1>16 DEF SkipUnwanted
  <2>2. r.n \in Nat /\ r.n <= BufLen
    BY ParsedRecord
  <2>3. UNCHANGED <<io, out>> /\ rd'.pc = "check" /\ rd'.more = FALSE
    BY <1>6, <1>16 DEF SkipUnwanted
  <2>4. msfp'.count = msfp.count
    BY <1>1, <2>1 DEF Advance
  <2> QED BY <1>4, <2>3, <2>4 DEF Steady
<1>17. CASE ParseError
  <2>1. PICK r \in Parsing({"notseed", "outofrange", "error"}) :
          \/ opt.skip /\ Advance(1) /\ GoTo("check", FALSE)
          \/ ~opt.skip /\ Return(r.how) /\ UNCHANGED msfp
    BY <1>17 DEF ParseError
  <2>2. 1 <= BufLen /\ 1 \in Nat \ {0}
    BY ByteToSkip
  <2>3. UNCHANGED <<io, out>>
    BY <1>17 DEF ParseError
  <2>4. CASE Advance(1) /\ GoTo("check", FALSE)
    BY <1>6, <1>8, <2>2, <2>3, <2>4
  <2>5. CASE Return(r.how) /\ UNCHANGED msfp
    BY <1>5, <1>7, <2>3, <2>5
  <2> QED BY <2>1, <2>4, <2>5
<1>18. CASE NeedTooMuch
  <2>1. Parsing({"need"}) # {}
    BY <1>18 DEF NeedTooMuch
  <2>2. 1 <= BufLen /\ 1 \in Nat \ {0}
    BY <2>1, ByteToSkip
  <2>3. UNCHANGED <<io, out>>
    BY <1>18 DEF NeedTooMuch
  <2>4. CASE Advance(1) /\ GoTo("check", TRUE)
    BY <1>6, <1>8, <2>2, <2>3, <2>4
  <2>5. CASE Return("outofrange") /\ UNCHANGED msfp
    BY <1>5, <1>7, <2>3, <2>5
  <2> QED BY <1>18, <2>4, <2>5 DEF NeedTooMuch
<1>19. CASE NeedMore
  <2>1. Return("eof") \/ GoTo("check", TRUE)
    BY <1>19 DEF NeedMore
  <2>2. rd'.pc \in {"ready", "done", "check"}
    BY <1>5, <1>6, <2>1
  <2>3. PICK r \in Parsing({"need"}) : ~TooMuch(r.n)
    BY <1>19 DEF NeedMore
  <2>4. r.n \in Nat \ {0}
    <3>1. BufLen >= MinRecLen /\ r \in Parse(Unread, io.eof, ~opt.select) /\ r.how = "need"
      BY DEF Parsing
    <3>2. Len(Unread) > 0 /\ Unread \in Seq(Cell)
      BY <3>1, UnreadProperties, FormatAssumption
    <3>3. io.eof \in BOOLEAN /\ (~opt.select) \in BOOLEAN
      BY DEF ReaderInv, ReaderTypeOK
    <3> QED BY <3>1, <3>2, <3>3, NeedPositive
  <2>5. BufLen < MaxRecLen
    BY <1>2, <1>3, <2>3, <2>4 DEF TooMuch
  <2>6. UNCHANGED <<io, msfp, out>>
    BY <1>19 DEF NeedMore
  <2> QED BY <1>7, <2>2, <2>5, <2>6
<1>20. CASE TooShort
  <2>1. BufLen < MaxRecLen
    BY <1>2, <1>3, <1>20 DEF TooShort
  <2> QED BY <1>6, <1>7, <1>20, <2>1 DEF TooShort
<1>21. CASE CheckEnd
  <2>1. Return("notseed") \/ Return("eof") \/ GoTo("loop", rd.more)
    BY <1>21 DEF CheckEnd
  <2>2. rd'.pc \in {"ready", "done"} \/ (rd'.pc = "loop" /\ rd'.more = rd.more)
    BY <1>5, <1>6, <2>1
  <2>3. rd.pc = "check" /\ UNCHANGED <<io, msfp, out>>
    BY <1>21 DEF CheckEnd
  <2> QED BY <1>7, <2>2, <2>3 DEF Steady
<1> QED BY <1>9, <1>10, <1>11, <1>12, <1>13, <1>14, <1>15, <1>16, <1>17, <1>18, <1>19,
           <1>20, <1>21 DEF ReaderNext

-----------------------------------------------------------------------------
(* The promise.                                                            *)

(* RecordStream parses as the reader does. *)
LEMMA SameParse ==
  ASSUME NEW buf, NEW ateof, NEW unpack
  PROVE  Promise!Parse(buf, ateof, unpack) = Parse(buf, ateof, unpack)
<1>1. Promise!NextHeaders(buf) = NextHeaders(buf)
  BY DEF Promise!NextHeaders, NextHeaders
<1>2. Promise!Detect(buf) = Detect(buf)
  BY <1>1 DEF Promise!Detect, Detect
<1>3. Promise!RecordLengths(buf, ateof) = RecordLengths(buf, ateof)
  BY <1>2 DEF Promise!RecordLengths, RecordLengths, Promise!IsPowerOf2, IsPowerOf2
<1>4. ASSUME NEW len PROVE Promise!ParseAs(buf, len, unpack) = ParseAs(buf, len, unpack)
  BY DEF Promise!ParseAs, ParseAs, Promise!Outcome, Outcome
<1> QED BY <1>3, <1>4 DEF Promise!Parse, Parse

(* What is left of the stream, and how much of it decides. *)
LEMMA AheadIs ==
  ASSUME ReaderInv
  PROVE  LET rest == Len(Promise!Rest)
             a == Promise!Ahead
         IN  /\ rest = IF msfp.pos < Len(stream) THEN Len(stream) - msfp.pos ELSE 0
             /\ msfp.pos < Len(stream) =>
                  /\ a \in Seq(Cell)
                  /\ Len(a) = IF rest > MaxRecLen THEN MaxRecLen ELSE rest
                  /\ \A i \in 1 .. Len(a) : a[i] = stream[msfp.pos + i]
<1> DEFINE p == msfp.pos
           n == Len(stream)
           rest == Len(Promise!Rest)
           a == Promise!Ahead
           k == IF rest > MaxRecLen THEN MaxRecLen ELSE rest
           hi == IF rest > MaxRecLen THEN p + MaxRecLen ELSE n
<1>1. stream \in Seq(Cell) /\ p \in Nat /\ n \in Nat /\ MaxRecLen \in Nat
  BY UnreadProperties, FormatAssumption DEF ReaderInv, ReaderTypeOK
<1>2. \A i \in 1 .. n : stream[i] \in Cell
  BY <1>1, ElementOfSeq
<1>3. rest = IF p < n THEN n - p ELSE 0
  <2>1. p + 1 \in Int /\ n \in Int /\ \A i \in p + 1 .. n : stream[i] \in Cell
    BY <1>1, <1>2
  <2>2. Len(SubSeq(stream, p + 1, n)) = IF p + 1 <= n THEN n - (p + 1) + 1 ELSE 0
    BY <2>1, SubSeqBetween
  <2>3. rest = Len(SubSeq(stream, p + 1, n))
    BY DEF Promise!Rest
  <2> HIDE DEF rest, n, p
  <2> QED BY <1>1, <2>2, <2>3
<1>4. ASSUME p < n
      PROVE  a \in Seq(Cell) /\ Len(a) = k /\ \A i \in 1 .. Len(a) : a[i] = stream[p + i]
  <2>1. a = SubSeq(stream, p + 1, hi)
    BY DEF Promise!Ahead
  <2> DEFINE lo == p + 1
  <2> HIDE DEF a, rest, p, n
  <2>2. k \in Nat /\ hi = p + k /\ lo = p + 1 /\ lo \in Int /\ hi \in Int /\ hi <= n
    BY <1>1, <1>3, <1>4
  <2>5. a = SubSeq(stream, lo, hi)
    BY <2>1
  <2> HIDE DEF k, hi, lo
  <2>3. \A i \in lo .. hi : stream[i] \in Cell
    BY <1>1, <1>2, <2>2
  <2>4. a \in Seq(Cell) /\ Len(a) = k /\ \A i \in 1 .. k : a[i] = stream[p + i]
    BY <1>1, <2>2, <2>3, <2>5, SubSeqBehind
  <2> QED BY <2>4 DEF k
<1> HIDE DEF a, rest
<1> QED BY <1>3, <1>4 DEF a, rest

(* Whatever parsing the buffer says, parsing the stream says as well, it   *)
(* asks for bytes that will be read, or the record is torn.                *)
LEMMA FoundInStream ==
  ASSUME ReaderInv, Steady, NEW how, NEW r \in Parsing(how)
  PROVE  /\ rd.pc = "parse" /\ ~RangeEnded /\ BufLen >= MinRecLen /\ r.how \in how
         /\ stream[msfp.pos + 1] = Unread[1]
         /\ BufLen <= Len(Promise!Ahead)
         /\ \/ r \in Promise!Found /\ (io.eof => Len(Promise!Ahead) = BufLen)
            \/ ~io.eof /\ r.how = "need" /\ ~TooMuch(r.n)
            \/ r = Outcome("notseed", 0) /\ "notseed" \in Torn
            \/ r.how = "need" /\ "outofrange" \in Torn
<1> DEFINE a == Promise!Ahead
           rest == Len(Promise!Rest)
           p == msfp.pos
           n == Len(stream)
<1>1. /\ rd.pc = "parse" /\ BufLen >= MinRecLen /\ r.how \in how
      /\ r \in Parse(Unread, io.eof, ~opt.select)
  BY DEF Parsing
<1>2. ~RangeEnded
  BY <1>1 DEF Steady
<1>3. /\ stream \in Seq(Cell) /\ Unread \in Seq(Cell) /\ Len(Unread) = BufLen /\ BufLen = io.pos - p
      /\ BufLen \in Nat /\ \A i \in 1 .. BufLen : Unread[i] = stream[p + i]
  BY UnreadProperties
<1>4. /\ MinRecLen \in Nat \ {0} /\ MaxRecLen \in Nat /\ n \in Nat /\ p \in Nat /\ io.pos \in Nat
      /\ io.eof \in BOOLEAN
  BY <1>3, FormatAssumption DEF ReaderInv, ReaderTypeOK
<1>5. p < io.pos /\ io.pos <= n /\ BufLen <= MaxRecLen
  <2>1. p < io.pos
    BY <1>1, <1>3, <1>4
  <2>2. Len(msfp.buf) - msfp.off <= MaxRecLen
    BY <1>4 DEF ReaderInv, ReaderTypeOK, Window
  <2> QED BY <2>1, <2>2 DEF ReaderInv, Window, BufLen
<1>6. /\ rest = n - p /\ a \in Seq(Cell)
      /\ Len(a) = IF rest > MaxRecLen THEN MaxRecLen ELSE rest
      /\ \A i \in 1 .. Len(a) : a[i] = stream[p + i]
  <2>1. p < n
    BY <1>4, <1>5
  <2> QED BY <2>1, AheadIs
<1> HIDE DEF a, rest
<1>7. /\ BufLen <= Len(a) /\ Len(a) <= MaxRecLen /\ rest >= MinRecLen /\ 0 < Len(Unread)
      /\ Len(a) \in Nat /\ Len(a) <= rest /\ rest \in Nat
  <2> DEFINE b == BufLen
             q == io.pos
             l == Len(a)
  <2>1. /\ b >= MinRecLen /\ b = q - p /\ b <= MaxRecLen /\ rest = n - p /\ q <= n
        /\ l = IF rest > MaxRecLen THEN MaxRecLen ELSE rest
        /\ q \in Nat /\ p \in Nat /\ n \in Nat /\ Len(Unread) = b
    BY <1>1, <1>3, <1>4, <1>5, <1>6
  <2> HIDE DEF b, q, l, p, n
  <2>2. b <= l /\ l <= MaxRecLen /\ rest >= MinRecLen /\ 0 < b /\ l \in Nat /\ l <= rest /\ rest \in Nat
    BY <1>4, <2>1
  <2> QED BY <2>1, <2>2 DEF b, l
<1>8. \A i \in 1 .. Len(Unread) : a[i] = Unread[i]
  BY <1>3, <1>6, <1>7
<1>9. Promise!Found = Parse(a, rest <= MaxRecLen, ~opt.select)
  <2>1. ~(rest < MinRecLen)
    BY <1>4, <1>7
  <2>2. Promise!Found = Promise!Parse(a, rest <= MaxRecLen, ~opt.select)
    BY <2>1 DEF Promise!Found, a, rest
  <2> QED BY <2>2, SameParse
<1>10. stream[p + 1] = Unread[1]
  BY <1>3, <1>7
<1>11. CASE io.eof
  <2>1. io.pos = n /\ Len(a) = BufLen /\ rest <= MaxRecLen
    BY <1>3, <1>4, <1>5, <1>6, <1>11 DEF Steady
  <2>2. a = Unread
    BY <1>3, <1>6, <1>8, <2>1, SeqEqual
  <2>3. io.eof = TRUE /\ (rest <= MaxRecLen) = TRUE
    BY <1>4, <1>11, <2>1
  <2>4. r \in Promise!Found
    BY <1>1, <1>9, <2>2, <2>3
  <2> QED BY <1>1, <1>2, <1>7, <1>10, <2>1, <2>4 DEF a
<1>12. CASE ~io.eof
  <2>1. io.eof = FALSE
    BY <1>4, <1>12
  <2>2. r \in Parse(Unread, FALSE, ~opt.select)
    BY <1>1, <2>1
  <2>3. (rest <= MaxRecLen) \in BOOLEAN /\ (~opt.select) \in BOOLEAN
    BY <1>4, <1>7
  <2>4. \/ r \in Promise!Found
        \/ r.how = "need" /\ Len(Unread) + r.n <= MaxRecLen
        \/ /\ r = Outcome("notseed", 0) /\ Len(Unread) < Len(a)
           /\ Unread[1].hdr = "v2" /\ Unread[1].len > 0
           /\ FixedLen <= Len(Unread) /\ Len(Unread) < FixedLen + BlktLen
        \/ /\ r.how = "need" /\ Len(Unread) < Len(a)
           /\ Unread[1].hdr # "none" /\ Unread[1].len = 0 /\ Len(Unread) + MinRecLen > MaxRecLen
    BY <1>3, <1>6, <1>7, <1>8, <1>9, <2>2, <2>3, ParsePart
  <2>5. CASE r \in Promise!Found
    BY <1>1, <1>2, <1>7, <1>10, <1>12, <2>5 DEF a
  <2>6. CASE r.how = "need" /\ Len(Unread) + r.n <= MaxRecLen
    <3>1. ~TooMuch(r.n)
      <4>1. r.n \in Nat \ {0}
        BY <1>3, <1>7, <2>2, <2>3, <2>6, NeedPositive
      <4> QED BY <1>3, <1>4, <2>6, <4>1 DEF TooMuch
    <3> QED BY <1>1, <1>2, <1>7, <1>10, <1>12, <2>6, <3>1 DEF a
  <2>7. ASSUME Len(Unread) < Len(a) PROVE io.pos < Len(stream)
    <3> DEFINE q == io.pos
               l == Len(a)
    <3>1. q - p < l /\ l <= rest /\ rest = n - p /\ l \in Nat /\ q \in Nat /\ p \in Nat /\ n \in Nat
      BY <1>3, <1>4, <1>6, <1>7, <2>7
    <3> HIDE DEF q, l, p, n
    <3>2. q < n
      BY <1>7, <3>1
    <3> QED BY <3>2 DEF q, n
  <2>8. CASE /\ r = Outcome("notseed", 0) /\ Len(Unread) < Len(a)
             /\ Unread[1].hdr = "v2" /\ Unread[1].len > 0
             /\ FixedLen <= Len(Unread) /\ Len(Unread) < FixedLen + BlktLen
    <3>1. HeaderCut
      BY <1>3, <2>8 DEF HeaderCut
    <3>2. "notseed" \in Torn
      BY <1>1, <2>7, <2>8, <3>1 DEF Torn
    <3> QED BY <1>1, <1>2, <1>7, <1>10, <2>8, <3>2 DEF a
  <2>9. CASE /\ r.how = "need" /\ Len(Unread) < Len(a)
             /\ Unread[1].hdr # "none" /\ Unread[1].len = 0 /\ Len(Unread) + MinRecLen > MaxRecLen
    <3>1. LengthCut
      BY <1>3, <1>4, <1>7, <2>9 DEF LengthCut
    <3>2. "outofrange" \in Torn
      BY <1>1, <2>7, <2>9, <3>1 DEF Torn
    <3> QED BY <1>1, <1>2, <1>7, <1>10, <2>9, <3>2 DEF a
  <2> QED BY <2>4, <2>5, <2>6, <2>8, <2>9
<1> QED BY <1>11, <1>12

(* The reason for which reading ended, as the promise has it. *)
Status == IF rd.pc = "done" THEN rd.ret ELSE "reading"

(* Every step of the reader is a step of the promise, or none. *)
LEMMA StepKeepsPromise ==
  ASSUME ReaderInv, Steady, [ReaderNext]_readerVars
  PROVE  [Promise!StreamNext]_(Promise!streamVars)
<1>1. /\ rd \in CallType /\ out \in Seq(Nat)
      /\ msfp \in [buf : Seq(Cell), off : Nat, pos : Nat, count : Nat]
      /\ msfp.pos \in Nat /\ io.pos \in Nat
  BY DEF ReaderInv, ReaderTypeOK, CallType
<1>2. UNCHANGED <<stream, opt>>
  BY DEF ReaderNext, readerVars, Call, EndOfRange, Fill, NoFill, ReturnRecord, DecodeError,
         SkipUnwanted, ParseError, NeedTooMuch, NeedMore, TooShort, CheckEnd
<1>3. ASSUME NEW ret, Return(ret), ret # "record" PROVE rd'.pc = "done" /\ Status' = ret
  BY <1>1, <1>3 DEF Return, CallType, Status
<1>4. ASSUME NEW pc, NEW more, GoTo(pc, more), pc # "done" PROVE rd'.pc # "done" /\ Status' = "reading"
  BY <1>1, <1>4 DEF GoTo, CallType, Status
<1>5. Promise!streamVars = <<stream, opt, msfp.pos, out, Status>>
  BY DEF Promise!streamVars, Status
<1>6. ASSUME msfp'.pos = msfp.pos, out' = out, Status' = Status
      PROVE  [Promise!StreamNext]_(Promise!streamVars)
  BY <1>2, <1>6 DEF Promise!streamVars, Status
<1>7. RangeEnded <=> Promise!RangeEnded
  BY DEF RangeEnded, Promise!RangeEnded
<1>8. ASSUME NEW how, NEW r \in Parsing(how)
      PROVE  /\ Status = "reading" /\ ~Promise!RangeEnded
             /\ Wanted <=> Promise!Wanted
             /\ stream[msfp.pos + 1] = Unread[1]
             /\ r.how \in how
             /\ r.how # "need" =>
                  r \in Promise!Found \/ (r = Outcome("notseed", 0) /\ "notseed" \in Torn)
  BY <1>7, <1>8, FoundInStream DEF Status, Wanted, Promise!Wanted
<1>9. ASSUME NEW ret, Return(ret), ret # "record", UNCHANGED <<msfp, out>>,
             Status = "reading",
             \/ /\ ~Promise!RangeEnded
                /\ \/ ~opt.skip /\ \E r \in Promise!NoRecord : ret = IF r.how = "need" THEN "outofrange" ELSE r.how
                   \/ /\ \E r \in Promise!Found :
                           r.how = "record" /\ Promise!Wanted /\ stream[msfp.pos + 1].content = "baddata"
                      /\ ret = "error"
             \/ Promise!RangeEnded /\ ret = "eof"
             \/ Len(Promise!Rest) < MinRecLen /\ ret = IF out = <<>> THEN "notseed" ELSE "eof"
             \/ (\E r \in Promise!Found \ Promise!NoRecord : r.how = "need") /\ ret = "eof"
             \/ opt.chunk > 0 /\ ret = "error"
      PROVE  Promise!StreamNext
  <2>1. Status' = ret /\ UNCHANGED <<stream, opt, msfp, out>>
    BY <1>2, <1>3, <1>9
  <2>2. Promise!StopAtError \/ Promise!StopAtEnd \/ Promise!StopAtReadError
    BY <1>9, <2>1 DEF Promise!StopAtError, Promise!StopAtEnd, Promise!StopAtReadError, Status
  <2> QED BY <1>9, <2>2 DEF Promise!StreamNext, Status
<1>10. ASSUME Status = "reading", ~Promise!RangeEnded, opt.skip, Promise!NoRecord # {},
              Advance(1), out' = out, Status' = "reading"
       PROVE  Promise!StreamNext
  <2>1. msfp'.pos = msfp.pos + 1
    BY <1>1, <1>10 DEF Advance
  <2>2. Promise!SkipByte
    BY <1>2, <1>10, <2>1 DEF Promise!SkipByte, Status
  <2> QED BY <1>10, <2>2 DEF Promise!StreamNext, Status
<1>11. ASSUME NEW how \in Torn
       PROVE  Outcome(how, 0) \in Promise!NoRecord /\ Outcome(how, 0).how = how /\ how # "need"
  <2>1. Outcome(how, 0) = Promise!Outcome(how, 0) /\ Outcome(how, 0).how = how
    BY DEF Outcome, Promise!Outcome
  <2>2. how \in {"notseed", "outofrange"}
    BY DEF Torn
  <2> QED BY <2>1, <2>2 DEF Promise!NoRecord
<1>20. CASE UNCHANGED readerVars
  BY <1>6, <1>20 DEF readerVars, Status
<1>21. CASE Call
  BY <1>4, <1>6, <1>21 DEF Call, Status
<1>22. CASE EndOfRange
  BY <1>7, <1>9, <1>22 DEF EndOfRange, Status
<1>23. CASE Fill
  <2>1. msfp'.pos = msfp.pos /\ out' = out /\ Status = "reading" /\ rd.pc = "loop"
    BY <1>23, FillEnd DEF Fill, Status
  <2>2. CASE GoTo("parse", rd.more)
    BY <1>4, <1>6, <2>1, <2>2
  <2>3. CASE ~GoTo("parse", rd.more)
    <3> DEFINE size == MaxRecLen - Len(Shifted)
    <3>1. PICK n \in ReadCounts(size) : \E eof \in EofAfter(size, n) :
            IF n = 0 /\ ~eof THEN Return("error") ELSE GoTo("parse", rd.more)
      BY <1>23 DEF Fill
    <3>2. PICK eof \in EofAfter(size, n) :
            IF n = 0 /\ ~eof THEN Return("error") ELSE GoTo("parse", rd.more)
      BY <3>1
    <3>3. n = 0 /\ ~eof /\ Return("error")
      BY <2>3, <3>2
    <3>4. BufLen < MinRecLen \/ rd.more
      BY <1>23 DEF Fill, NeedsData
    <3>5. size > 0
      <4>1. BufLen < MaxRecLen /\ BufLen \in Nat /\ Len(Unread) = BufLen /\ MaxRecLen \in Nat
        BY <2>1, <3>4, UnreadProperties, FormatAssumption DEF Steady
      <4> QED BY <4>1 DEF Shifted
    <3>6. opt.chunk # 0
      <4>1. CASE opt.chunk = 0
        <5>1. eof \in {n < size}
          BY <4>1, Zenon DEF EofAfter
        <5>2. eof = (n < size)
          BY <5>1, Zenon
        <5> QED BY <3>3, <3>5, <5>2
      <4> QED BY <4>1
    <3>7. opt.chunk > 0
      <4>1. opt.chunk \in Nat
        BY ReaderAssumption DEF ReaderInv, ReaderTypeOK
      <4> QED BY <3>6, <4>1
    <3>8. Status' = "error" /\ UNCHANGED <<stream, opt>>
      BY <1>2, <1>3, <3>3
    <3>9. Promise!StopAtReadError
      BY <2>1, <3>7, <3>8 DEF Promise!StopAtReadError, Status
    <3> QED BY <2>1, <3>9 DEF Promise!StreamNext, Status
  <2> QED BY <2>2, <2>3
<1>24. CASE NoFill
  BY <1>4, <1>6, <1>24 DEF NoFill, Status
<1>25. CASE ReturnRecord
  <2>1. PICK r \in Parsing({"record"}) :
          /\ Wanted /\ Unread[1].content = "good"
          /\ msfp' = [msfp EXCEPT !.off = @ + r.n, !.pos = @ + r.n, !.count = @ + 1]
          /\ Return("record")
    BY <1>25 DEF ReturnRecord
  <2>2. r.how = "record" /\ r \in Promise!Found
    BY <1>8 DEF Outcome
  <2>3. msfp'.pos = msfp.pos + r.n
    BY <1>1, <2>1
  <2>4. Status' = "reading"
    BY <1>1, <2>1 DEF Return, CallType, Status
  <2>5. out' = Append(out, msfp.pos)
    BY <1>25 DEF ReturnRecord
  <2>6. Promise!Wanted /\ stream[msfp.pos + 1].content # "baddata" /\ ~Promise!RangeEnded /\ Status = "reading"
    BY <1>8, <2>1
  <2>7. Promise!Deliver
    BY <1>2, <2>2, <2>3, <2>4, <2>5, <2>6 DEF Promise!Deliver, Status
  <2> QED BY <2>6, <2>7 DEF Promise!StreamNext, Status
<1>26. CASE DecodeError
  <2>1. PICK r \in Parsing({"record"}) : TRUE
    BY <1>26 DEF DecodeError
  <2>2. r.how = "record" /\ r \in Promise!Found
    BY <1>8 DEF Outcome
  <2>3. /\ Promise!Wanted /\ stream[msfp.pos + 1].content = "baddata" /\ ~Promise!RangeEnded
        /\ Status = "reading" /\ Return("error") /\ UNCHANGED <<msfp, out>>
    BY <1>8, <1>26, <2>1 DEF DecodeError
  <2> QED BY <1>9, <2>2, <2>3
<1>27. CASE SkipUnwanted
  <2>1. PICK r \in Parsing({"record"}) : ~Wanted /\ Advance(r.n)
    BY <1>27 DEF SkipUnwanted
  <2>2. r.how = "record" /\ r \in Promise!Found
    BY <1>8 DEF Outcome
  <2>3. msfp'.pos = msfp.pos + r.n
    BY <1>1, <2>1 DEF Advance
  <2>4. Status' = "reading" /\ out' = out
    BY <1>4, <1>27 DEF SkipUnwanted
  <2>5. ~Promise!Wanted /\ ~Promise!RangeEnded /\ Status = "reading"
    BY <1>8, <2>1
  <2>6. Promise!Deliver
    BY <1>2, <2>2, <2>3, <2>4, <2>5 DEF Promise!Deliver, Status
  <2> QED BY <2>5, <2>6 DEF Promise!StreamNext, Status
<1>28. CASE ParseError
  <2>1. PICK r \in Parsing({"notseed", "outofrange", "error"}) :
          \/ opt.skip /\ Advance(1) /\ GoTo("check", FALSE)
          \/ ~opt.skip /\ Return(r.how) /\ UNCHANGED msfp
    BY <1>28 DEF ParseError
  <2>2. r.how \in {"notseed", "outofrange", "error"} /\ ~Promise!RangeEnded /\ Status = "reading"
    BY <1>8
  <2>3. r \in Promise!NoRecord
    <3>1. CASE r \in Promise!Found
      BY <2>2, <3>1 DEF Promise!NoRecord
    <3>2. CASE r = Outcome("notseed", 0) /\ "notseed" \in Torn
      BY <1>11, <3>2
    <3> QED BY <1>8, <2>2, <3>1, <3>2
  <2>4. out' = out
    BY <1>28 DEF ParseError
  <2>5. CASE opt.skip /\ Advance(1) /\ GoTo("check", FALSE)
    BY <1>4, <1>10, <2>2, <2>3, <2>4, <2>5
  <2>6. CASE ~opt.skip /\ Return(r.how) /\ UNCHANGED msfp
    BY <1>9, <2>2, <2>3, <2>4, <2>6
  <2> QED BY <2>1, <2>5, <2>6
<1>29. CASE NeedTooMuch
  <2>1. PICK r \in Parsing({"need"}) : TooMuch(r.n)
    BY <1>29 DEF NeedTooMuch
  <2>2. r.how = "need" /\ ~Promise!RangeEnded /\ Status = "reading" /\ BufLen <= Len(Promise!Ahead)
    BY <1>8, FoundInStream
  <2>3. PICK q \in Promise!NoRecord : "outofrange" = IF q.how = "need" THEN "outofrange" ELSE q.how
    <3>1. CASE r \in Promise!Found
      <4>1. Len(Promise!Ahead) + r.n > MaxRecLen
        <5>1. r.n \in Nat \ {0}
          <6>1. BufLen >= MinRecLen /\ r \in Parse(Unread, io.eof, ~opt.select)
            BY DEF Parsing
          <6>2. Len(Unread) > 0 /\ Unread \in Seq(Cell)
            BY <6>1, UnreadProperties, FormatAssumption
          <6>3. io.eof \in BOOLEAN /\ (~opt.select) \in BOOLEAN
            BY DEF ReaderInv, ReaderTypeOK
          <6> QED BY <2>2, <6>1, <6>2, <6>3, NeedPositive
        <5>2. BufLen \in Nat /\ Len(Promise!Ahead) \in Nat /\ MaxRecLen \in Nat
          <6>1. BufLen \in Nat /\ MaxRecLen \in Nat /\ BufLen >= MinRecLen /\ MinRecLen \in Nat \ {0}
                /\ BufLen = io.pos - msfp.pos /\ Len(stream) \in Nat
            BY UnreadProperties, FormatAssumption DEF Parsing
          <6>2. msfp.pos < io.pos /\ io.pos <= Len(stream)
            BY <1>1, <6>1, SMTT(40) DEF ReaderInv, Window
          <6>3. msfp.pos < Len(stream)
            BY <1>1, <6>1, <6>2
          <6>4. Promise!Ahead \in Seq(Cell)
            BY <6>3, AheadIs
          <6> QED BY <6>1, <6>4
        <5> QED BY <2>1, <2>2, <5>1, <5>2 DEF TooMuch
      <4> QED BY <2>2, <3>1, <4>1 DEF Promise!NoRecord
    <3>2. CASE "outofrange" \in Torn
      BY <1>11, <3>2
    <3>3. CASE r = Outcome("notseed", 0)
      BY <2>2, <3>3 DEF Outcome
    <3> QED BY <2>1, <3>1, <3>2, <3>3, FoundInStream
  <2>4. out' = out
    BY <1>29 DEF NeedTooMuch
  <2>5. CASE opt.skip /\ Advance(1) /\ GoTo("check", TRUE)
    BY <1>4, <1>10, <2>2, <2>3, <2>4, <2>5
  <2>6. CASE ~opt.skip /\ Return("outofrange") /\ UNCHANGED msfp
    BY <1>9, <2>2, <2>3, <2>4, <2>6
  <2> QED BY <1>29, <2>5, <2>6 DEF NeedTooMuch
<1>30. CASE NeedMore
  <2>1. PICK r \in Parsing({"need"}) : ~TooMuch(r.n)
    BY <1>30 DEF NeedMore
  <2>2. r.how = "need" /\ ~Promise!RangeEnded /\ Status = "reading" /\ UNCHANGED <<msfp, out>>
    BY <1>8, <1>30 DEF NeedMore
  <2>3. CASE ~io.eof
    BY <1>4, <1>6, <1>30, <2>2, <2>3 DEF NeedMore
  <2>4. CASE io.eof
    <3>1. Return("eof")
      BY <1>30, <2>4 DEF NeedMore
    <3>2. Torn = {}
      <4>1. io.pos \in Nat /\ Len(stream) \in Nat /\ ~(io.pos < Len(stream))
        BY <1>1, <2>4, UnreadProperties DEF Steady
      <4> QED BY <4>1 DEF Torn
    <3>3. r \in Promise!Found /\ Len(Promise!Ahead) = BufLen
      BY <2>4, <3>2, FoundInStream
    <3>4. r \notin Promise!NoRecord
      BY <2>1, <2>2, <3>2, <3>3 DEF Promise!NoRecord, TooMuch
    <3> QED BY <1>9, <2>2, <3>1, <3>3, <3>4
  <2> QED BY <2>3, <2>4
<1>31. CASE TooShort
  BY <1>4, <1>6, <1>31 DEF TooShort, Status
<1>32. CASE CheckEnd
  <2>1. Status = "reading" /\ UNCHANGED <<msfp, out>>
    BY <1>32 DEF CheckEnd, Status
  <2>2. CASE io.eof /\ BufLen < MinRecLen
    <3>1. Return(IF msfp.count = 0 THEN "notseed" ELSE "eof")
      BY <1>32, <2>2 DEF CheckEnd
    <3>2. msfp.count = 0 <=> out = <<>>
      BY <1>1, EmptySeq DEF Steady
    <3>3. Len(Promise!Rest) < MinRecLen
      <4> DEFINE p == msfp.pos
                 q == io.pos
                 n == Len(stream)
                 l == Len(Promise!Rest)
                 b == BufLen
      <4>1. /\ l = IF p < n THEN n - p ELSE 0
            /\ p \in Nat /\ q \in Nat /\ n \in Nat /\ MinRecLen \in Nat \ {0}
            /\ b = q - p /\ n <= q /\ b < MinRecLen
        BY <1>1, <2>2, AheadIs, UnreadProperties, FormatAssumption DEF Steady
      <4> HIDE DEF p, q, n, l, b
      <4>2. l < MinRecLen
        BY <4>1
      <4> QED BY <4>2 DEF l
    <3> QED BY <1>9, <2>1, <3>1, <3>2, <3>3
  <2>3. CASE ~(io.eof /\ BufLen < MinRecLen)
    BY <1>4, <1>6, <1>32, <2>1, <2>3 DEF CheckEnd
  <2> QED BY <2>2, <2>3
<1> QED BY <1>20, <1>21, <1>22, <1>23, <1>24, <1>25, <1>26, <1>27, <1>28, <1>29, <1>30,
           <1>31, <1>32 DEF ReaderNext

(* And so is the start. *)
LEMMA InitKeepsPromise == ReaderInit => Promise!StreamInit /\ Steady
<1> SUFFICES ASSUME ReaderInit PROVE Promise!StreamInit /\ Steady
  OBVIOUS
<1>1. Promise!StreamInit
  BY DEF ReaderInit, Promise!StreamInit
<1>2. Steady
  BY DEF ReaderInit, Steady
<1> QED BY <1>1, <1>2

(* However the input arrives in pieces and is buffered, the reader returns *)
(* the records of the stream one behind the other, passes over and skips   *)
(* what it is told to, and ends for the reason the stream gives: it        *)
(* implements RecordStream, in which there is no buffer.                   *)
THEOREM ReaderKeepsPromise == ReaderSpec => ReadsTheStream
<1>1. ReaderInit => Promise!StreamInit /\ Steady
  BY InitKeepsPromise
<1>2. ReaderInv /\ Steady /\ [ReaderNext]_readerVars => Steady'
  BY SteadyKept
<1>3. ReaderInv /\ Steady /\ [ReaderNext]_readerVars => [Promise!StreamNext]_(Promise!streamVars)
  BY StepKeepsPromise
<1> QED BY <1>1, <1>2, <1>3, ReaderInvariance, PTL DEF ReaderSpec, ReadsTheStream, Promise!StreamSpec

-----------------------------------------------------------------------------
(* The records that are listed.                                            *)

(* The k-th record seen is the one before once more. *)
Repeats(seen, k) == k > 1 /\ seen[k] = seen[k - 1]
Kept(seen, dedup) == {k \in DOMAIN seen : ~(dedup /\ Repeats(seen, k))}

(* Those of the records seen that are added; the last one is not if it     *)
(* could not be.                                                           *)
Listed(seen, dedup, failed) ==
  IF failed THEN Kept(seen, dedup) \ {Len(seen)} ELSE Kept(seen, dedup)

(* The place of record k in the list. *)
Place(listed, k) == Cardinality({j \in listed : j <= k})

(* A list holds the records listed at their positions. *)
Holds(file, listed, pos) ==
  /\ Len(file) = Cardinality(listed)
  /\ \A k \in listed : file[Place(listed, k)] = pos[k]

LEMMA ListedOnceIs ==
  ListedOnce <=> Holds(lst.file, Listed(lst.seen, lst.dedup, lst.fileret = "adderror"), out)
BY DEF ListedOnce, Holds, Place, Listed, Kept, Repeats

(* One record more is seen. *)
LEMMA SeenMore ==
  ASSUME NEW S, NEW seen \in Seq(S), NEW r \in S, NEW dedup \in BOOLEAN
  PROVE  /\ Append(seen, r) \in Seq(S) /\ Len(Append(seen, r)) = Len(seen) + 1
         /\ Kept(Append(seen, r), dedup) =
              IF dedup /\ seen # <<>> /\ Last(seen) = r
              THEN Kept(seen, dedup) ELSE Kept(seen, dedup) \cup {Len(seen) + 1}
<1> DEFINE more == Append(seen, r)
           n == Len(seen)
           skips == dedup /\ seen # <<>> /\ Last(seen) = r
<1>1. n \in Nat /\ DOMAIN seen = 1 .. n
  BY LenProperties
<1>2. /\ more \in Seq(S) /\ Len(more) = n + 1
      /\ \A i \in 1 .. n : more[i] = seen[i]
      /\ more[n + 1] = r
  BY AppendProperties
<1> HIDE DEF more
<1>3. DOMAIN more = 1 .. n + 1
  BY <1>2, LenProperties
<1>5. ASSUME NEW k \in 1 .. n PROVE Repeats(more, k) <=> Repeats(seen, k)
  <2>1. CASE k > 1
    <3>1. k - 1 \in 1 .. n
      BY <1>1, <2>1
    <3> QED BY <1>2, <3>1 DEF Repeats
  <2>2. CASE ~(k > 1)
    BY <2>2 DEF Repeats
  <2> QED BY <2>1, <2>2
<1>6. Repeats(more, n + 1) <=> seen # <<>> /\ Last(seen) = r
  <2>1. CASE seen = <<>>
    <3>1. n = 0
      BY <2>1
    <3> QED BY <2>1, <3>1 DEF Repeats
  <2>2. CASE seen # <<>>
    <3>1. n > 0 /\ n \in 1 .. n /\ (n + 1) - 1 = n
      BY <1>1, <2>2, EmptySeq
    <3>2. Last(seen) = seen[n]
      BY DEF Last
    <3>3. more[(n + 1) - 1] = seen[n]
      BY <1>2, <3>1
    <3>4. n + 1 > 1
      BY <1>1, <3>1
    <3> QED BY <1>2, <2>2, <3>2, <3>3, <3>4 DEF Repeats
  <2> QED BY <2>1, <2>2
<1>7. ASSUME NEW k PROVE k \in Kept(more, dedup) <=> k \in Kept(seen, dedup) \/ (~skips /\ k = n + 1)
  <2>1. k \in 1 .. n + 1 <=> k \in 1 .. n \/ k = n + 1
    BY <1>1
  <2>2. n + 1 \notin 1 .. n
    BY <1>1
  <2>3. CASE k \in 1 .. n
    BY <1>1, <1>3, <1>5, <2>1, <2>2, <2>3 DEF Kept
  <2>4. CASE k = n + 1
    BY <1>1, <1>3, <1>6, <2>1, <2>2, <2>4 DEF Kept
  <2>5. CASE k \notin 1 .. n + 1
    BY <1>1, <1>3, <2>1, <2>5 DEF Kept
  <2> QED BY <2>1, <2>3, <2>4, <2>5
<1>8. Kept(more, dedup) = IF skips THEN Kept(seen, dedup) ELSE Kept(seen, dedup) \cup {n + 1}
  BY <1>7
<1> QED BY <1>2, <1>8 DEF more

(* The list with one record more. *)
LEMMA HoldsMore ==
  ASSUME NEW n \in Nat, NEW A \in SUBSET (1 .. n), NEW file \in Seq(Nat), NEW pos \in Seq(Nat),
         Len(pos) = n + 1, Holds(file, A, pos)
  PROVE  Holds(Append(file, pos[n + 1]), A \cup {n + 1}, pos)
<1> DEFINE B == A \cup {n + 1}
           more == Append(file, pos[n + 1])
<1>1. IsFiniteSet(A) /\ Cardinality(A) \in Nat
  <2>1. IsFiniteSet(1 .. n)
    BY FS_Interval
  <2> QED BY <2>1, FS_Subset, FS_CardinalityType
<1>2. n + 1 \notin A /\ \A j \in A : j \in 1 .. n /\ j <= n /\ j \in Int
  OBVIOUS
<1>3. Cardinality(B) = Cardinality(A) + 1
  BY <1>1, <1>2, FS_AddElement
<1>4. pos[n + 1] \in Nat
  BY ElementOfSeq
<1>5. /\ more \in Seq(Nat) /\ Len(more) = Len(file) + 1 /\ Len(file) \in Nat
      /\ \A i \in 1 .. Len(file) : more[i] = file[i]
      /\ more[Len(file) + 1] = pos[n + 1]
  BY <1>4, AppendProperties, LenProperties
<1>6. Len(file) = Cardinality(A)
  BY DEF Holds
<1> HIDE DEF more
<1>7. ASSUME NEW k \in B PROVE more[Place(B, k)] = pos[k]
  <2>1. CASE k = n + 1
    <3>1. {j \in B : j <= k} = B
      <4>1. \A j \in B : j <= k
        BY <1>2, <2>1
      <4> QED BY <4>1
    <3> QED BY <1>3, <1>5, <1>6, <2>1, <3>1 DEF Place
  <2>2. CASE k \in A
    <3> DEFINE P == {j \in A : j <= k}
    <3>1. {j \in B : j <= k} = P
      BY <1>2, <2>2
    <3>2. P \in SUBSET A /\ P # {}
      BY <1>2, <2>2
    <3>3. IsFiniteSet(P) /\ Cardinality(P) \in Nat /\ Cardinality(P) <= Cardinality(A) /\ Cardinality(P) # 0
      BY <1>1, <3>2, FS_Subset, FS_CardinalityType, FS_EmptySet
    <3>4. Cardinality(P) \in 1 .. Len(file)
      BY <1>1, <1>6, <3>3
    <3>5. Place(B, k) = Cardinality(P) /\ Place(A, k) = Cardinality(P)
      BY <3>1 DEF Place
    <3> QED BY <1>5, <2>2, <3>4, <3>5 DEF Holds
  <2> QED BY <2>1, <2>2
<1> QED BY <1>3, <1>5, <1>6, <1>7 DEF Holds, more

-----------------------------------------------------------------------------
(* The invariant.                                                          *)

Returns == {"none", "noerror", "record", "eof", "notseed", "outofrange", "error", "adderror"}

ListTypes ==
  \E S : lst \in [pc : {"file", "buffer", "done"}, dedup : BOOLEAN, seen : Seq(S), file : Seq(Nat),
                  buffer : Seq(Nat), offset : Nat, fileret : Returns, bufret : Returns]

(* While the file is read, at most one record is not looked at yet. *)
ListInv ==
  /\ ReaderInv
  /\ ListTypes
  /\ lst.pc = "file" => /\ lst.fileret = "none"
                        /\ Len(lst.seen) <= Len(out) /\ Len(out) <= Len(lst.seen) + 1
  /\ ListedOnce

(* A record that msr3_parse() finds in the rest of the buffer lies in it. *)
LEMMA BufferRecord ==
  ASSUME ListInv, NEW how, NEW r \in BufferParsing(how), r.how = "record"
  PROVE  r.n \in Nat
<1>1. lst.offset \in Nat /\ stream \in Seq(Cell)
  BY UnreadProperties DEF ListInv, ListTypes
<1>2. \A i \in lst.offset + 1 .. Len(stream) : stream[i] \in Cell
  BY <1>1, ElementOfSeq
<1>3. Remaining \in Seq(Cell)
  BY <1>1, <1>2, SubSeqBetween DEF Remaining
<1>4. r \in Parse(Remaining, FALSE, ~opt.select) /\ Len(Remaining) > MinRecLen
  BY DEF BufferParsing, Left
<1>5. Len(Remaining) > 0 /\ (~opt.select) \in BOOLEAN
  BY <1>3, <1>4, FormatAssumption
<1> QED BY <1>3, <1>4, <1>5, RecordInBuffer

(* The reader returns one record at a time. *)
LEMMA OutGrows ==
  ASSUME ReaderNext
  PROVE  out' = out \/ out' = Append(out, msfp.pos)
BY DEF ReaderNext, Call, EndOfRange, Fill, NoFill, ReturnRecord, DecodeError, SkipUnwanted,
       ParseError, NeedTooMuch, NeedMore, TooShort, CheckEnd

(* Every step keeps the invariant. *)
LEMMA ListNextKeeps ==
  ASSUME ListInv, [ListNext]_listVars
  PROVE  ListInv'
<1> DEFINE L(S) == [pc : {"file", "buffer", "done"}, dedup : BOOLEAN, seen : Seq(S), file : Seq(Nat),
                    buffer : Seq(Nat), offset : Nat, fileret : Returns, bufret : Returns]
           failed == lst.fileret = "adderror"
           A == Kept(lst.seen, lst.dedup)
           n == Len(lst.seen)
<1>0. ListedOnce' <=> Holds(lst'.file, Listed(lst'.seen, lst'.dedup, lst'.fileret = "adderror"), out')
  BY DEF ListedOnce, Holds, Place, Listed, Kept, Repeats
<1>1. PICK S : lst \in L(S)
  BY DEF ListInv, ListTypes
<1>2. /\ lst.seen \in Seq(S) /\ lst.dedup \in BOOLEAN /\ lst.file \in Seq(Nat) /\ lst.buffer \in Seq(Nat)
      /\ lst.offset \in Nat /\ n \in Nat /\ lst.fileret \in Returns
  BY <1>1, LenProperties
<1>3. out \in Seq(Nat) /\ Len(out) \in Nat /\ msfp.pos \in Nat /\ rd \in CallType
  BY LenProperties DEF ListInv, ReaderInv, ReaderTypeOK, CallType
<1>4. Holds(lst.file, Listed(lst.seen, lst.dedup, failed), out)
  BY ListedOnceIs DEF ListInv
<1>5. ReaderInv'
  <2>1. [ReaderNext]_readerVars
    BY DEF ListNext, listVars, readerVars, ReadNext, AddRecord, AddFails, FileRead, AddFromBuffer,
           PassOver, BufferFails, BufferRead
  <2> QED BY <2>1, ReaderNextKeeps DEF ListInv
<1>6. A \in SUBSET (1 .. n)
  BY <1>2 DEF Kept
<1>7. ASSUME out' = out, lst'.file = lst.file, lst'.seen = lst.seen, lst'.dedup = lst.dedup,
             lst'.fileret = lst.fileret \/ (lst.pc = "file" /\ lst'.fileret # "adderror"),
             lst'.pc \in {"buffer", "done"}, ListTypes'
      PROVE  ListInv'
  <2>1. lst'.fileret = "adderror" <=> failed
    BY <1>7 DEF ListInv
  <2>2. ListedOnce'
    BY <1>0, <1>4, <1>7, <2>1
  <2> QED BY <1>5, <1>7, <2>2 DEF ListInv
<1>8. CASE UNCHANGED listVars
  <2>1. lst' = lst /\ out' = out
    BY <1>8 DEF listVars
  <2>2. ListedOnce' /\ ListTypes'
    BY <1>0, <1>4, <2>1 DEF ListInv, ListTypes
  <2> QED BY <1>5, <2>1, <2>2 DEF ListInv
<1>9. CASE ReadNext
  <2>1. lst' = lst /\ lst.pc = "file" /\ ~Pending /\ ReaderNext
    BY <1>9 DEF ReadNext
  <2>2. lst.fileret = "none" /\ Len(out) = n
    BY <1>2, <1>3, <2>1 DEF ListInv, Pending
  <2>3. out' = out \/ out' = Append(out, msfp.pos)
    BY <2>1, OutGrows
  <2>4. CASE out' = out
    <3>1. ListedOnce' /\ ListTypes'
      BY <1>0, <1>4, <2>1, <2>4 DEF ListInv, ListTypes
    <3> QED BY <1>5, <2>1, <2>4, <3>1 DEF ListInv
  <2>5. CASE out' = Append(out, msfp.pos)
    <3>1. Len(out') = n + 1 /\ \A k \in 1 .. n : out'[k] = out[k]
      BY <1>3, <2>2, <2>5, AppendProperties
    <3>2. Listed(lst.seen, lst.dedup, failed) \in SUBSET (1 .. n)
      BY <1>6 DEF Listed
    <3>3. Holds(lst.file, Listed(lst.seen, lst.dedup, failed), out')
      BY <1>4, <3>1, <3>2 DEF Holds
    <3>4. ListedOnce'
      BY <1>0, <2>1, <3>3
    <3>5. Len(lst'.seen) <= Len(out') /\ Len(out') <= Len(lst'.seen) + 1
      BY <1>2, <2>1, <3>1
    <3> QED BY <1>5, <2>1, <3>4, <3>5 DEF ListInv, ListTypes
  <2> QED BY <2>3, <2>4, <2>5
<1>10. ASSUME Pending, NEW r, r = Record
       PROVE  /\ lst.pc = "file" /\ lst.fileret = "none" /\ Len(out) = n + 1
              /\ Append(lst.seen, r) \in Seq(S \cup {r}) /\ Len(Append(lst.seen, r)) = n + 1
              /\ Kept(Append(lst.seen, r), lst.dedup) = IF Skips THEN A ELSE A \cup {n + 1}
              /\ FileOffset = out[n + 1] /\ FileOffset \in Nat
  <2>1. lst.pc = "file" /\ lst.fileret = "none" /\ Len(out) = n + 1
    BY <1>2, <1>3, <1>10 DEF ListInv, Pending
  <2>2. lst.seen \in Seq(S \cup {r})
    BY <1>2
  <2>3. r \in S \cup {r}
    OBVIOUS
  <2>4. /\ Append(lst.seen, r) \in Seq(S \cup {r}) /\ Len(Append(lst.seen, r)) = n + 1
        /\ Kept(Append(lst.seen, r), lst.dedup) =
             IF lst.dedup /\ lst.seen # <<>> /\ Last(lst.seen) = r THEN A ELSE A \cup {n + 1}
    <3> DEFINE T == S \cup {r}
               seen == lst.seen
               dedup == lst.dedup
    <3>1. seen \in Seq(T) /\ r \in T /\ dedup \in BOOLEAN
      BY <1>2, <2>2, <2>3
    <3> HIDE DEF T, seen, dedup
    <3>2. /\ Append(seen, r) \in Seq(T) /\ Len(Append(seen, r)) = Len(seen) + 1
          /\ Kept(Append(seen, r), dedup) =
               IF dedup /\ seen # <<>> /\ Last(seen) = r
               THEN Kept(seen, dedup) ELSE Kept(seen, dedup) \cup {Len(seen) + 1}
      BY <3>1, SeenMore
    <3> QED BY <3>2 DEF T, seen, dedup
  <2>5. Last(out) = out[n + 1] /\ out[n + 1] \in Nat
    BY <1>2, <1>3, <2>1, ElementOfSeq DEF Last
  <2>6. FileOffset = out[n + 1]
    BY <1>3, <2>5 DEF FileOffset, RecLen
  <2> QED BY <1>10, <2>1, <2>4, <2>5, <2>6 DEF Skips
<1>11. CASE AddRecord
  <2> DEFINE r == Record
             more == Append(lst.seen, r)
             file == IF Skips THEN lst.file ELSE Append(lst.file, FileOffset)
  <2>1. Pending /\ lst' = [lst EXCEPT !.seen = more, !.file = file] /\ UNCHANGED readerVars
    BY <1>11 DEF AddRecord
  <2>2. /\ lst.pc = "file" /\ lst.fileret = "none" /\ Len(out) = n + 1
        /\ more \in Seq(S \cup {r}) /\ Len(more) = n + 1
        /\ Kept(more, lst.dedup) = IF Skips THEN A ELSE A \cup {n + 1}
        /\ FileOffset = out[n + 1] /\ FileOffset \in Nat
    BY <1>10, <2>1
  <2>3. file \in Seq(Nat)
    BY <1>2, <2>2
  <2>4. out' = out
    BY <2>1 DEF readerVars
  <2> HIDE DEF file, more
  <2>5. /\ lst'.seen = more /\ lst'.file = file /\ lst'.dedup = lst.dedup /\ lst'.pc = "file"
        /\ lst'.fileret = "none" /\ lst' \in L(S \cup {r})
    BY <1>1, <2>1, <2>2, <2>3
  <2>6. Listed(lst.seen, lst.dedup, failed) = A /\ Listed(lst'.seen, lst'.dedup, lst'.fileret = "adderror") = Kept(more, lst.dedup)
    BY <2>2, <2>5 DEF Listed
  <2>7. Holds(file, Kept(more, lst.dedup), out)
    <3>1. CASE Skips
      BY <1>4, <2>2, <2>6, <3>1 DEF file
    <3>2. CASE ~Skips
      <4>1. Holds(Append(lst.file, out[n + 1]), A \cup {n + 1}, out)
        BY <1>2, <1>3, <1>4, <1>6, <2>2, <2>6, HoldsMore
      <4> QED BY <2>2, <3>2, <4>1 DEF file
    <3> QED BY <3>1, <3>2
  <2>8. ListedOnce'
    BY <1>0, <2>4, <2>5, <2>6, <2>7
  <2>9. ListTypes'
    BY <2>5 DEF ListTypes
  <2>10. Len(lst'.seen) <= Len(out') /\ Len(out') <= Len(lst'.seen) + 1
    BY <1>2, <2>2, <2>4, <2>5
  <2> QED BY <1>5, <2>5, <2>8, <2>9, <2>10 DEF ListInv
<1>12. CASE AddFails
  <2> DEFINE r == Record
             more == Append(lst.seen, r)
  <2>1. /\ Pending /\ ~Skips /\ UNCHANGED readerVars
        /\ lst' = [lst EXCEPT !.pc = "buffer", !.seen = more, !.fileret = "adderror"]
    BY <1>12 DEF AddFails
  <2>2. /\ lst.pc = "file" /\ lst.fileret = "none" /\ Len(out) = n + 1
        /\ more \in Seq(S \cup {r}) /\ Len(more) = n + 1
        /\ Kept(more, lst.dedup) = A \cup {n + 1}
    BY <1>10, <2>1
  <2>3. out' = out
    BY <2>1 DEF readerVars
  <2> HIDE DEF more
  <2>4. /\ lst'.seen = more /\ lst'.file = lst.file /\ lst'.dedup = lst.dedup /\ lst'.pc = "buffer"
        /\ lst'.fileret = "adderror" /\ lst' \in L(S \cup {r})
    BY <1>1, <2>1, <2>2 DEF Returns
  <2>5. n + 1 \notin A
    BY <1>2, <1>6
  <2>6. Listed(lst.seen, lst.dedup, failed) = A /\ Listed(lst'.seen, lst'.dedup, lst'.fileret = "adderror") = A
    BY <2>2, <2>4, <2>5 DEF Listed
  <2>7. ListedOnce'
    BY <1>0, <1>4, <2>3, <2>4, <2>6
  <2>8. ListTypes'
    BY <2>4 DEF ListTypes
  <2> QED BY <1>5, <2>4, <2>7, <2>8 DEF ListInv
<1>13. CASE FileRead
  <2> DEFINE ret == IF rd.ret = "eof" THEN "noerror" ELSE rd.ret
  <2>1. lst' = [lst EXCEPT !.pc = "buffer", !.fileret = ret] /\ lst.pc = "file" /\ UNCHANGED readerVars
    BY <1>13 DEF FileRead
  <2>2. ret \in Returns /\ ret # "adderror"
    BY <1>3 DEF CallType, Returns
  <2> HIDE DEF ret
  <2>3. /\ lst'.seen = lst.seen /\ lst'.file = lst.file /\ lst'.dedup = lst.dedup
        /\ lst'.pc = "buffer" /\ lst'.fileret = ret /\ lst' \in L(S)
    BY <1>1, <2>1, <2>2
  <2>4. out' = out /\ ListTypes'
    BY <2>1, <2>3 DEF readerVars, ListTypes
  <2> QED BY <1>7, <2>1, <2>2, <2>3, <2>4
<1>14. ASSUME NEW pc \in {"buffer", "done"}, NEW b \in Seq(Nat), NEW o \in Nat, NEW ret \in Returns,
              lst' = [lst EXCEPT !.pc = pc, !.buffer = b, !.offset = o, !.bufret = ret], out' = out
       PROVE  ListInv'
  <2>1. /\ lst'.seen = lst.seen /\ lst'.file = lst.file /\ lst'.dedup = lst.dedup
        /\ lst'.pc = pc /\ lst'.fileret = lst.fileret /\ lst' \in L(S)
    BY <1>1, <1>14
  <2>2. ListTypes'
    BY <2>1 DEF ListTypes
  <2> QED BY <1>7, <1>14, <2>1, <2>2
<1>15. lst.bufret \in Returns
  BY <1>1
<1>16. CASE AddFromBuffer
  <2>1. PICK r \in BufferParsing({"record"}) :
          lst' = [lst EXCEPT !.buffer = Append(@, lst.offset), !.offset = @ + r.n]
    BY <1>16 DEF AddFromBuffer
  <2>2. r.how = "record" /\ lst.pc = "buffer"
    BY DEF BufferParsing
  <2>3. r.n \in Nat
    BY <2>2, BufferRecord
  <2>4. Append(lst.buffer, lst.offset) \in Seq(Nat) /\ lst.offset + r.n \in Nat
    BY <1>2, <2>3
  <2>5. out' = out
    BY <1>16 DEF AddFromBuffer, readerVars
  <2>6. lst' = [lst EXCEPT !.pc = "buffer", !.buffer = Append(lst.buffer, lst.offset),
                           !.offset = lst.offset + r.n, !.bufret = lst.bufret]
    BY <1>1, <2>1, <2>2
  <2> QED BY <1>14, <1>15, <2>4, <2>5, <2>6
<1>17. CASE PassOver
  <2>1. PICK r \in BufferParsing({"record"}) : lst' = [lst EXCEPT !.offset = @ + r.n]
    BY <1>17 DEF PassOver
  <2>2. r.how = "record" /\ lst.pc = "buffer"
    BY DEF BufferParsing
  <2>3. r.n \in Nat
    BY <2>2, BufferRecord
  <2>4. lst.offset + r.n \in Nat
    BY <1>2, <2>3
  <2>5. out' = out
    BY <1>17 DEF PassOver, readerVars
  <2>6. lst' = [lst EXCEPT !.pc = "buffer", !.buffer = lst.buffer, !.offset = lst.offset + r.n, !.bufret = lst.bufret]
    BY <1>1, <2>1, <2>2
  <2> QED BY <1>2, <1>14, <1>15, <2>4, <2>5, <2>6
<1>18. ASSUME NEW ret \in Returns, lst' = [lst EXCEPT !.pc = "done", !.bufret = ret], UNCHANGED readerVars
       PROVE  ListInv'
  <2>1. lst' = [lst EXCEPT !.pc = "done", !.buffer = lst.buffer, !.offset = lst.offset, !.bufret = ret]
    BY <1>1, <1>18
  <2>2. out' = out
    BY <1>18 DEF readerVars
  <2> QED BY <1>2, <1>14, <2>1, <2>2
<1>19. CASE BufferFails
  <2>1. CASE \E r \in BufferParsing({"notseed", "outofrange", "error"}) : lst' = [lst EXCEPT !.pc = "done", !.bufret = r.how]
    <3>1. PICK r \in BufferParsing({"notseed", "outofrange", "error"}) : lst' = [lst EXCEPT !.pc = "done", !.bufret = r.how]
      BY <2>1
    <3>2. r.how \in Returns
      BY DEF BufferParsing, Returns
    <3> QED BY <1>18, <1>19, <3>1, <3>2 DEF BufferFails
  <2>2. CASE lst' = [lst EXCEPT !.pc = "done", !.bufret = IF Remaining[1].content = "baddata" THEN "error" ELSE "adderror"]
    BY <1>18, <1>19, <2>2 DEF BufferFails, Returns
  <2> QED BY <1>19, <2>1, <2>2 DEF BufferFails
<1>20. CASE BufferRead
  BY <1>18, <1>20 DEF BufferRead, Returns
<1> QED BY <1>8, <1>9, <1>11, <1>12, <1>13, <1>16, <1>17, <1>19, <1>20 DEF ListNext

(* It holds when reading starts. *)
LEMMA ListInvStarts == ListInit => ListInv
<1> SUFFICES ASSUME ListInit PROVE ListInv
  OBVIOUS
<1>1. ReaderInv
  BY ReaderInitInv DEF ListInit
<1>2. PICK dedup \in BOOLEAN :
        lst = [pc |-> "file", dedup |-> dedup, seen |-> <<>>, file |-> <<>>,
               buffer |-> <<>>, offset |-> 0, fileret |-> "none", bufret |-> "none"]
  BY DEF ListInit
<1>3. lst \in [pc : {"file", "buffer", "done"}, dedup : BOOLEAN, seen : Seq({}), file : Seq(Nat),
               buffer : Seq(Nat), offset : Nat, fileret : Returns, bufret : Returns]
  BY <1>2 DEF Returns
<1>4. ListTypes
  BY <1>3 DEF ListTypes
<1>5. Kept(<<>>, dedup) = {}
  BY DEF Kept
<1>6. ListedOnce
  BY <1>2, <1>5, FS_EmptySet, ListedOnceIs DEF Holds, Listed
<1>7. out = <<>> /\ Len(out) = 0 /\ Len(lst.seen) = 0
  BY <1>2 DEF ListInit, ReaderInit
<1> QED BY <1>1, <1>2, <1>4, <1>6, <1>7 DEF ListInv

-----------------------------------------------------------------------------
(* The theorems.                                                           *)

(* Every record that the reader returns is in the trace list once and at   *)
(* its place, with the position it has in the file, but for repetitions    *)
(* that are not wanted and a record that could not be added.               *)
THEOREM RecordsListedOnce == ListSpec => []ListedOnce
<1>1. ListInit => ListInv
  BY ListInvStarts
<1>2. ListInv /\ [ListNext]_listVars => ListInv'
  BY ListNextKeeps
<1>3. ListInv => ListedOnce
  BY DEF ListInv
<1> QED BY <1>1, <1>2, <1>3, PTL DEF ListSpec

(* Driven by ms3_readtracelist_selection() the reader keeps its promise:   *)
(* what is listed are the records of the stream, in its order.             *)
THEOREM ListKeepsPromise == ListSpec => ReadsTheStream
<1>1. ListInit => ReaderInv /\ Promise!StreamInit /\ Steady
  BY ReaderInitInv, InitKeepsPromise DEF ListInit
<1>2. [ListNext]_listVars => [ReaderNext]_readerVars
  BY DEF ListNext, listVars, readerVars, ReadNext, AddRecord, AddFails, FileRead, AddFromBuffer,
         PassOver, BufferFails, BufferRead
<1>3. ReaderInv /\ Steady /\ [ReaderNext]_readerVars => (ReaderInv /\ Steady)'
  BY ReaderNextKeeps, SteadyKept
<1>4. ReaderInv /\ Steady /\ [ReaderNext]_readerVars => [Promise!StreamNext]_(Promise!streamVars)
  BY StepKeepsPromise
<1> QED BY <1>1, <1>2, <1>3, <1>4, PTL DEF ListSpec, ReadsTheStream, Promise!StreamSpec

-----------------------------------------------------------------------------
(* Reading from memory.                                                    *)

(* A record that msr3_parse() returns has a length it found, at least      *)
(* MinRecLen bytes, all of them there, and these decide what is returned.  *)
LEMMA RecordLength ==
  ASSUME NEW buf \in Seq(Cell), Len(buf) > 0, NEW ateof \in BOOLEAN, NEW unpack \in BOOLEAN,
         NEW r \in Parse(buf, ateof, unpack), r.how = "record"
  PROVE  /\ r.n \in RecordLengths(buf, ateof) /\ r.n \in Nat \ {0}
         /\ MinRecLen <= r.n /\ r.n <= Len(buf) /\ r.n <= MaxRecLen
         /\ r = Outcome("record", r.n)
         /\ ~(buf[1].content = "badheader" \/ (unpack /\ buf[1].content = "baddata"))
<1>1. PICK len \in RecordLengths(buf, ateof) : r = ParseAs(buf, len, unpack)
  BY DEF Parse
<1>2. len \in Int /\ Len(buf) \in Nat /\ MinRecLen \in Nat \ {0} /\ MaxRecLen \in Nat
  BY DetectIsInteger, FormatAssumption DEF RecordLengths
<1>3. /\ r = Outcome("record", len) /\ ~(len < 0) /\ len # 0 /\ ~(len < MinRecLen \/ len > MaxRecLen)
      /\ ~(len > Len(buf))
      /\ ~(buf[1].content = "badheader" \/ (unpack /\ buf[1].content = "baddata"))
  <2> USE <1>1
  <2>1. CASE len < 0
    BY <2>1 DEF ParseAs, Outcome
  <2>2. CASE ~(len < 0) /\ len = 0
    BY <2>2 DEF ParseAs, Outcome
  <2>3. CASE ~(len < 0) /\ len # 0 /\ (len < MinRecLen \/ len > MaxRecLen)
    BY <2>3 DEF ParseAs, Outcome
  <2>4. CASE ~(len < 0) /\ len # 0 /\ ~(len < MinRecLen \/ len > MaxRecLen) /\ len > Len(buf)
    BY <2>4 DEF ParseAs, Outcome
  <2>5. CASE ~(len < 0) /\ len # 0 /\ ~(len < MinRecLen \/ len > MaxRecLen) /\ ~(len > Len(buf))
    BY <2>5 DEF ParseAs, Outcome
  <2> QED BY <2>1, <2>2, <2>3, <2>4, <2>5
<1>4. r.n = len
  BY <1>3 DEF Outcome
<1> QED BY <1>1, <1>2, <1>3, <1>4

(* ms3_detect() knows one length or none. *)
LEMMA OneLength ==
  ASSUME NEW buf \in Seq(Cell), Len(buf) > 0, NEW len \in Detect(buf), NEW other \in Detect(buf), len > 0
  PROVE  other = len
<1> DEFINE missing == IF buf[1].len > 0 THEN FixedLen + BlktLen - Len(buf) ELSE FixedLen - Len(buf)
<1>1. CASE buf[1].hdr = "none"
  BY <1>1 DEF Detect
<1>2. CASE buf[1].hdr # "none" /\ buf[1].hdr = "v2" /\ missing > 0
  <2>1. len \in {0, -1}
    BY <1>2 DEF Detect
  <2> QED BY <2>1
<1>3. CASE buf[1].hdr # "none" /\ ~(buf[1].hdr = "v2" /\ missing > 0)
  <2>1. Detect(buf) = IF buf[1].len > 0 THEN {buf[1].len}
                      ELSE IF NextHeaders(buf) = {} THEN {0}
                      ELSE {CHOOSE x \in NextHeaders(buf) : \A y \in NextHeaders(buf) : x <= y}
    BY <1>3, Zenon DEF Detect
  <2>2. PICK k : Detect(buf) = {k}
    BY <2>1, Zenon
  <2> QED BY <2>2
<1> QED BY <1>1, <1>2, <1>3

(* If it does not know the length there is no record yet; for a header     *)
(* with a length that is because the blockette that has it is cut off.     *)
LEMMA UnknownLength ==
  ASSUME NEW buf \in Seq(Cell), Len(buf) > 0, 0 \in Detect(buf), NEW unpack \in BOOLEAN
  PROVE  /\ \A r \in Parse(buf, FALSE, unpack) : r.how # "record"
         /\ buf[1].hdr = "v2" => buf[1].len = 0 \/ Len(buf) < FixedLen + BlktLen
<1>1. ASSUME NEW r \in Parse(buf, FALSE, unpack), r.how = "record" PROVE FALSE
  <2>1. r.n \in RecordLengths(buf, FALSE) /\ r.n \in Nat \ {0}
    BY <1>1, RecordLength
  <2>2. r.n \in Detect(buf)
    BY <2>1 DEF RecordLengths
  <2>3. r.n > 0
    BY <2>1
  <2>4. 0 = r.n
    BY <2>2, <2>3, OneLength
  <2> QED BY <2>1, <2>4
<1>2. ASSUME buf[1].hdr = "v2", ~(Len(buf) < FixedLen + BlktLen) PROVE buf[1].len = 0
  <2>1. buf[1].len \in Nat
    <3>1. buf[1] \in Cell
      BY SMT
    <3> QED BY <3>1 DEF Cell
  <2>2. Len(buf) \in Nat /\ FixedLen \in Nat /\ BlktLen \in Nat
    BY FormatAssumption
  <2>3. ASSUME buf[1].len > 0 PROVE FALSE
    <3>1. ~(FixedLen + BlktLen - Len(buf) > 0)
      BY <1>2, <2>2
    <3>2. Detect(buf) = {buf[1].len}
      BY <1>2, <2>3, <3>1 DEF Detect
    <3> QED BY <2>1, <2>3, <3>2
  <2> QED BY <2>1, <2>3
<1> QED BY <1>1, <1>2

(* One record or another outcome, never both. *)
LEMMA OneRecord ==
  ASSUME NEW buf \in Seq(Cell), Len(buf) > 0, NEW unpack \in BOOLEAN,
         NEW r \in Parse(buf, FALSE, unpack), NEW q \in Parse(buf, FALSE, unpack), r.how = "record"
  PROVE  q = r
<1>1. r.n \in RecordLengths(buf, FALSE) /\ r.n \in Nat \ {0}
  BY RecordLength
<1>2. r.n \in Detect(buf) /\ r.n > 0
  BY <1>1 DEF RecordLengths
<1>3. PICK k \in RecordLengths(buf, FALSE) : r = ParseAs(buf, k, unpack)
  BY DEF Parse
<1>4. PICK l \in RecordLengths(buf, FALSE) : q = ParseAs(buf, l, unpack)
  BY DEF Parse
<1>5. k \in Detect(buf) /\ l \in Detect(buf)
  BY DEF RecordLengths
<1>6. k = r.n /\ l = r.n
  BY <1>2, <1>5, OneLength
<1> QED BY <1>3, <1>4, <1>6

(* Who asks for more has no record. *)
LEMMA NeedIsNoRecord ==
  ASSUME NEW buf \in Seq(Cell), Len(buf) > 0, NEW ateof \in BOOLEAN, NEW unpack \in BOOLEAN,
         NEW r \in Parse(buf, ateof, unpack), r.how = "need",
         NEW q \in Parse(buf, FALSE, unpack), q.how = "record"
  PROVE  FALSE
<1>1. PICK len \in RecordLengths(buf, ateof) : r = ParseAs(buf, len, unpack)
  BY DEF Parse
<1>2. len \in Int /\ Len(buf) \in Nat \ {0}
  BY DetectIsInteger, LenProperties DEF RecordLengths
<1>3. len = 0 \/ len > Len(buf)
  <2> USE <1>1
  <2>1. CASE len < 0
    BY <2>1 DEF ParseAs, Outcome
  <2>2. CASE ~(len < 0) /\ len # 0 /\ (len < MinRecLen \/ len > MaxRecLen)
    BY <2>2 DEF ParseAs, Outcome
  <2>3. CASE ~(len < 0) /\ len # 0 /\ ~(len < MinRecLen \/ len > MaxRecLen) /\ ~(len > Len(buf))
    BY <2>3 DEF ParseAs, Outcome
  <2> QED BY <2>1, <2>2, <2>3
<1>4. len \in Detect(buf)
  <2>1. len \in Detect(buf) \/ len = Len(buf)
    BY DEF RecordLengths
  <2> QED BY <1>2, <1>3, <2>1
<1>5. q.n \in RecordLengths(buf, FALSE) /\ q.n \in Nat \ {0} /\ q.n <= Len(buf)
  BY RecordLength
<1>6. q.n \in Detect(buf) /\ q.n > 0
  BY <1>5 DEF RecordLengths
<1>7. len = q.n
  BY <1>4, <1>6, OneLength
<1> QED BY <1>2, <1>3, <1>5, <1>7

(* A record in a part of the bytes is the record that is there, unless its *)
(* length was told by the end of the file.                                 *)
LEMMA PartRecord ==
  ASSUME NEW buf \in Seq(Cell), NEW full \in Seq(Cell), 0 < Len(buf), Len(buf) <= Len(full),
         \A i \in 1 .. Len(buf) : full[i] = buf[i],
         NEW ateof \in BOOLEAN, NEW unpack \in BOOLEAN, NEW r \in Parse(buf, ateof, unpack),
         r.how = "record"
  PROVE  \/ r \in Parse(full, FALSE, unpack)
         \/ /\ ateof /\ buf[1].hdr = "v2" /\ 0 \in Detect(buf)
            /\ r.n = Len(buf) /\ IsPowerOf2(Len(buf))
<1>1. /\ r.n \in RecordLengths(buf, ateof) /\ r.n \in Nat \ {0}
      /\ MinRecLen <= r.n /\ r.n <= Len(buf) /\ r.n <= MaxRecLen
      /\ r = Outcome("record", r.n)
      /\ ~(buf[1].content = "badheader" \/ (unpack /\ buf[1].content = "baddata"))
  BY RecordLength
<1>2. PICK len \in Detect(buf) :
        r.n = IF buf[1].hdr = "v2" /\ len = 0 /\ ateof /\ IsPowerOf2(Len(buf)) /\ Len(buf) <= MaxRecLen
              THEN Len(buf) ELSE len
  BY <1>1 DEF RecordLengths
<1>3. CASE buf[1].hdr = "v2" /\ len = 0 /\ ateof /\ IsPowerOf2(Len(buf)) /\ Len(buf) <= MaxRecLen
  BY <1>2, <1>3
<1>4. CASE ~(buf[1].hdr = "v2" /\ len = 0 /\ ateof /\ IsPowerOf2(Len(buf)) /\ Len(buf) <= MaxRecLen)
  <2>1. r.n = len /\ len \in Nat \ {0}
    BY <1>1, <1>2, <1>4
  <2>2. len \in Detect(full)
    <3>1. len # 0 /\ len # -1
      BY <2>1
    <3> QED BY <3>1, DetectPart
  <2>3. len \in RecordLengths(full, FALSE)
    BY <2>2 DEF RecordLengths
  <2>4. full[1] = buf[1] /\ Len(buf) \in Nat /\ Len(full) \in Nat /\ MinRecLen \in Nat /\ MaxRecLen \in Nat
    <3>1. 1 \in 1 .. Len(buf)
      BY LenProperties
    <3> QED BY <3>1, LenProperties, FormatAssumption
  <2>5. ~(len < 0) /\ len # 0 /\ ~(len < MinRecLen \/ len > MaxRecLen) /\ ~(len > Len(full))
    BY <1>1, <2>1, <2>4
  <2>6. ParseAs(full, len, unpack) = Outcome("record", len)
    BY <1>1, <2>4, <2>5 DEF ParseAs
  <2>7. r = ParseAs(full, len, unpack)
    BY <1>1, <2>1, <2>6
  <2> QED BY <2>3, <2>7 DEF Parse
<1> QED BY <1>3, <1>4

-----------------------------------------------------------------------------
(* The records of a stream, one behind the other.                          *)

(* The bytes of s from position p on, whether they begin with a record,    *)
(* and what follows it.                                                    *)
Behind(s, p) == SubSeq(s, p + 1, Len(s))
RecordsAt(s, u, p) == {r \in Parse(Behind(s, p), FALSE, u) : r.how = "record"}
IsRecord(s, u, p) == p < Len(s) /\ RecordsAt(s, u, p) # {}
After(s, u, p) == p + IF IsRecord(s, u, p) THEN (CHOOSE r \in RecordsAt(s, u, p) : TRUE).n ELSE 1

(* The positions one reaches from the start, and those of records that are *)
(* asked for.                                                              *)
Chain(s, u) ==
  {p \in Nat : \A S \in SUBSET Nat : 0 \in S /\ (\A q \in S : After(s, u, q) \in S) => p \in S}
Asked(s, sel) == {p \in Chain(s, ~sel) : ~sel \/ s[p + 1].selected}

LEMMA BehindIs ==
  ASSUME NEW s \in Seq(Cell), NEW p \in Nat, p < Len(s)
  PROVE  /\ Behind(s, p) \in Seq(Cell) /\ Len(Behind(s, p)) = Len(s) - p /\ Len(Behind(s, p)) > 0
         /\ \A i \in 1 .. Len(s) - p : Behind(s, p)[i] = s[p + i]
<1> DEFINE lo == p + 1
           hi == Len(s)
           n == Len(s) - p
<1>1. Len(s) \in Nat /\ n \in Nat \ {0} /\ lo \in Int /\ hi \in Int /\ lo = p + 1 /\ hi = p + n /\ hi = Len(s)
  BY LenProperties
<1> HIDE DEF lo, hi, n
<1>2. ASSUME NEW i \in lo .. hi PROVE s[i] \in Cell
  <2>1. i \in 1 .. Len(s)
    BY <1>1
  <2> QED BY <2>1, ElementOfSeq
<1>3. /\ SubSeq(s, lo, hi) \in Seq(Cell)
      /\ Len(SubSeq(s, lo, hi)) = n
      /\ \A i \in 1 .. n : SubSeq(s, lo, hi)[i] = s[p + i]
  <2>1. n \in Nat
    BY <1>1
  <2> QED BY <1>1, <1>2, <2>1, SubSeqBehind
<1>4. n > 0
  BY <1>1
<1> QED BY <1>3, <1>4, Zenon DEF Behind, lo, hi, n

(* What follows a record is in the stream, and at least MinRecLen further. *)
LEMMA RecordAfter ==
  ASSUME NEW s \in Seq(Cell), NEW u \in BOOLEAN, NEW p \in Nat, IsRecord(s, u, p)
  PROVE  /\ After(s, u, p) \in Nat /\ p + MinRecLen <= After(s, u, p) /\ After(s, u, p) <= Len(s)
         /\ \A r \in RecordsAt(s, u, p) : After(s, u, p) = p + r.n
<1> DEFINE b == Behind(s, p)
           c == CHOOSE r \in RecordsAt(s, u, p) : TRUE
<1>1. p < Len(s) /\ RecordsAt(s, u, p) # {}
  BY DEF IsRecord
<1>2. b \in Seq(Cell) /\ Len(b) = Len(s) - p /\ Len(b) > 0
  BY <1>1, BehindIs
<1>3. c \in RecordsAt(s, u, p)
  BY <1>1
<1> HIDE DEF c
<1>4. ASSUME NEW r \in RecordsAt(s, u, p) PROVE r \in Parse(b, FALSE, u) /\ r.how = "record"
  BY DEF RecordsAt
<1> HIDE DEF b
<1>5. c \in Parse(b, FALSE, u) /\ c.how = "record"
  BY <1>3, <1>4
<1>6. c.n \in Nat \ {0} /\ MinRecLen <= c.n /\ c.n <= Len(b)
  BY <1>2, <1>5, RecordLength
<1>7. After(s, u, p) = p + c.n
  BY DEF After, c
<1>8. ASSUME NEW r \in RecordsAt(s, u, p) PROVE r = c
  BY <1>2, <1>4, <1>5, OneRecord
<1>9. Len(s) \in Nat /\ MinRecLen \in Nat
  BY LenProperties, FormatAssumption
<1> QED BY <1>2, <1>6, <1>7, <1>8, <1>9

LEMMA AfterGrows ==
  ASSUME NEW s \in Seq(Cell), NEW u \in BOOLEAN, NEW p \in Nat
  PROVE  After(s, u, p) \in Nat /\ p < After(s, u, p)
<1>1. CASE IsRecord(s, u, p)
  <2>1. MinRecLen \in Nat \ {0}
    BY FormatAssumption
  <2> QED BY <1>1, <2>1, RecordAfter
<1>2. CASE ~IsRecord(s, u, p)
  BY <1>2 DEF After
<1> QED BY <1>1, <1>2

(* The chain is a set that contains 0 and what follows its elements, and   *)
(* everything that holds of 0 and from one to the next holds of it.        *)
LEMMA ChainClosed ==
  ASSUME NEW s \in Seq(Cell), NEW u \in BOOLEAN
  PROVE  /\ Chain(s, u) \in SUBSET Nat /\ 0 \in Chain(s, u)
         /\ \A p \in Chain(s, u) : After(s, u, p) \in Chain(s, u)
<1>1. Chain(s, u) \in SUBSET Nat /\ 0 \in Chain(s, u)
  BY DEF Chain
<1>2. ASSUME NEW p \in Chain(s, u) PROVE After(s, u, p) \in Chain(s, u)
  <2>1. After(s, u, p) \in Nat
    BY <1>1, AfterGrows
  <2>2. ASSUME NEW S \in SUBSET Nat, 0 \in S, \A q \in S : After(s, u, q) \in S
        PROVE  After(s, u, p) \in S
    <3>1. p \in S
      BY <2>2 DEF Chain
    <3> QED BY <2>2, <3>1
  <2> QED BY <2>1, <2>2 DEF Chain
<1> QED BY <1>1, <1>2

LEMMA ChainLeast ==
  ASSUME NEW s, NEW u, NEW S \in SUBSET Nat, 0 \in S, \A q \in S : After(s, u, q) \in S
  PROVE  Chain(s, u) \subseteq S
BY DEF Chain

(* Between an element and what follows it there is none. *)
LEMMA ChainGap ==
  ASSUME NEW s \in Seq(Cell), NEW u \in BOOLEAN, NEW p \in Chain(s, u), NEW q \in Chain(s, u), p < q
  PROVE  After(s, u, p) <= q
<1> DEFINE C == Chain(s, u)
           A(x) == After(s, u, x)
           D == {x \in C : \A y \in C : y < x => A(y) <= x}
<1>1. C \in SUBSET Nat /\ 0 \in C /\ \A x \in C : A(x) \in C
  BY ChainClosed
<1>2. \A x \in C : A(x) \in Nat /\ x < A(x)
  BY <1>1, AfterGrows
<1>3. ASSUME NEW S \in SUBSET Nat, 0 \in S, \A x \in S : A(x) \in S PROVE C \subseteq S
  BY <1>3, ChainLeast
<1> HIDE DEF C, A
<1>4. 0 \in D
  BY <1>1
<1>5. ASSUME NEW x \in D PROVE A(x) \in D
  <2> DEFINE R == {y \in C : y <= x \/ A(x) <= y}
  <2>1. x \in C /\ x \in Nat /\ A(x) \in C /\ A(x) \in Nat /\ x < A(x)
    BY <1>1, <1>2
  <2>2. 0 \in R
    BY <1>1, <2>1
  <2>3. ASSUME NEW y \in R PROVE A(y) \in R
    <3>1. y \in C /\ y \in Nat /\ A(y) \in C /\ A(y) \in Nat /\ y < A(y)
      BY <1>1, <1>2
    <3>2. CASE y < x
      <4>1. A(y) <= x
        BY <3>1, <3>2
      <4> QED BY <3>1, <4>1
    <3>3. CASE y = x
      BY <2>1, <3>3
    <3>4. CASE A(x) <= y
      BY <2>1, <3>1, <3>4
    <3>5. y < x \/ y = x \/ A(x) <= y
      BY <2>1, <3>1
    <3> QED BY <3>2, <3>3, <3>4, <3>5
  <2>4. R \in SUBSET Nat
    BY <1>1
  <2> HIDE DEF R
  <2>5. C \subseteq R
    BY <1>3, <2>2, <2>3, <2>4
  <2>6. ASSUME NEW y \in C, y < A(x) PROVE A(y) <= A(x)
    <3>1. y \in Nat /\ A(y) \in Nat
      BY <1>1, <1>2
    <3>2. y <= x \/ A(x) <= y
      BY <2>5 DEF R
    <3>3. CASE y < x
      <4>1. A(y) <= x
        BY <3>3
      <4> QED BY <2>1, <3>1, <4>1
    <3>4. CASE y = x
      BY <2>1, <3>4
    <3> QED BY <2>1, <2>6, <3>1, <3>2, <3>3, <3>4
  <2> QED BY <2>1, <2>6
<1>6. D \in SUBSET Nat
  BY <1>1
<1> HIDE DEF D
<1>7. C \subseteq D
  BY <1>3, <1>4, <1>5, <1>6
<1>8. \A x \in D : \A y \in C : y < x => A(y) <= x
  BY DEF D
<1>9. p \in C /\ q \in D
  BY <1>7 DEF C
<1> QED BY <1>8, <1>9 DEF A

-----------------------------------------------------------------------------
(* Lists of positions.                                                     *)

(* s begins the enumeration of the set X, and is it up to x. *)
Enumerates(s, X) ==
  \A k \in 1 .. Len(s) :
    /\ s[k] \in X
    /\ \A j \in 1 .. k - 1 : s[j] < s[k]
    /\ \A q \in X : q < s[k] => k > 1 /\ q <= s[k - 1]
UpTo(s, X, x) ==
  /\ Enumerates(s, X)
  /\ \A q \in X : q < x <=> Len(s) > 0 /\ q <= s[Len(s)]

LEMMA EnumeratedAlike ==
  ASSUME NEW X \in SUBSET Nat, NEW s \in Seq(Nat), NEW t \in Seq(Nat), Enumerates(s, X), Enumerates(t, X)
  PROVE  \A k \in 1 .. Len(s) : k \in 1 .. Len(t) => s[k] = t[k]
<1> DEFINE D == {k \in 1 .. Len(s) : k \in 1 .. Len(t) /\ s[k] # t[k]}
<1>1. D \in SUBSET Nat
  OBVIOUS
<1>2. SUFFICES ASSUME D # {} PROVE FALSE
  OBVIOUS
<1>3. PICK k \in D : \A j \in D : k <= j
  <2> HIDE DEF D
  <2> QED BY <1>1, <1>2, LeastOffset
<1>4. k \in 1 .. Len(s) /\ k \in 1 .. Len(t) /\ s[k] # t[k] /\ s[k] \in X /\ t[k] \in X /\ k \in Nat
  BY DEF Enumerates
<1>5. ASSUME k > 1 PROVE s[k - 1] = t[k - 1] /\ s[k - 1] \in X
  <2>1. k - 1 \in 1 .. Len(s) /\ k - 1 \in 1 .. Len(t) /\ ~(k <= k - 1)
    BY <1>4, <1>5
  <2>2. k - 1 \notin D
    BY <1>3, <2>1
  <2> QED BY <2>1, <2>2 DEF Enumerates
<1>6. ASSUME s[k] < t[k] PROVE FALSE
  <2>1. k > 1 /\ s[k] <= t[k - 1]
    BY <1>4, <1>6 DEF Enumerates
  <2>2. s[k - 1] < s[k]
    <3>1. k - 1 \in 1 .. k - 1
      BY <1>4, <2>1
    <3> QED BY <1>4, <3>1 DEF Enumerates
  <2>3. s[k] \in Nat /\ s[k - 1] \in Nat
    BY <1>4, <1>5, <2>1
  <2> QED BY <1>5, <2>1, <2>2, <2>3
<1>7. ASSUME t[k] < s[k] PROVE FALSE
  <2>1. k > 1 /\ t[k] <= s[k - 1]
    BY <1>4, <1>7 DEF Enumerates
  <2>2. t[k - 1] < t[k]
    <3>1. k - 1 \in 1 .. k - 1
      BY <1>4, <2>1
    <3> QED BY <1>4, <3>1 DEF Enumerates
  <2>3. t[k] \in Nat /\ s[k - 1] \in Nat
    BY <1>4, <1>5, <2>1
  <2> QED BY <1>5, <2>1, <2>2, <2>3
<1>8. s[k] \in Nat /\ t[k] \in Nat
  BY <1>4
<1> QED BY <1>4, <1>6, <1>7, <1>8

(* The shorter of two such lists is a prefix of the other. *)
LEMMA ShorterIsPrefix ==
  ASSUME NEW s \in Seq(Nat), NEW t \in Seq(Nat), Len(s) <= Len(t), \A k \in 1 .. Len(s) : s[k] = t[k]
  PROVE  IsPrefix(s, t)
<1> DEFINE n == Len(s)
<1>1. n \in Nat /\ Len(t) \in Nat /\ n <= Len(t)
  BY LenProperties
<1>2. ASSUME NEW k \in 1 .. n PROVE s[k] = t[k] /\ s[k] \in Nat /\ t[k] \in Nat
  BY <1>2, ElementOfSeq
<1> HIDE DEF n
<1>3. 1 \in Int /\ n \in Int
  BY <1>1
<1>4. SubSeq(s, 1, n) \in Seq(Nat) /\ Len(SubSeq(s, 1, n)) = (IF 1 <= n THEN n - 1 + 1 ELSE 0)
      /\ \A i \in 1 .. n - 1 + 1 : SubSeq(s, 1, n)[i] = s[1 + i - 1]
  BY <1>2, <1>3, SubSeqBetween
<1>5. SubSeq(t, 1, n) \in Seq(Nat) /\ Len(SubSeq(t, 1, n)) = (IF 1 <= n THEN n - 1 + 1 ELSE 0)
      /\ \A i \in 1 .. n - 1 + 1 : SubSeq(t, 1, n)[i] = t[1 + i - 1]
  BY <1>2, <1>3, SubSeqBetween
<1> DEFINE a == SubSeq(s, 1, n)
           b == SubSeq(t, 1, n)
<1>6. a \in Seq(Nat) /\ b \in Seq(Nat) /\ Len(a) = n /\ Len(b) = n
  BY <1>1, <1>4, <1>5
<1>7. ASSUME NEW i \in 1 .. Len(a) PROVE a[i] = b[i]
  <2>1. i \in 1 .. n /\ i \in 1 .. n - 1 + 1 /\ 1 + i - 1 = i
    BY <1>1, <1>6
  <2>2. a[i] = s[1 + i - 1] /\ b[i] = t[1 + i - 1]
    BY <1>4, <1>5, <2>1
  <2> QED BY <1>2, <2>1, <2>2
<1> HIDE DEF a, b
<1>8. a = b
  BY <1>6, <1>7, SeqEqual
<1> QED BY <1>1, <1>8 DEF IsPrefix, n, a, b

LEMMA OneIsPrefix ==
  ASSUME NEW X \in SUBSET Nat, NEW s \in Seq(Nat), NEW t \in Seq(Nat), Enumerates(s, X), Enumerates(t, X)
  PROVE  IsPrefix(s, t) \/ IsPrefix(t, s)
<1>1. Len(s) \in Nat /\ Len(t) \in Nat
  BY LenProperties
<1>2. CASE Len(s) <= Len(t)
  <2>1. ASSUME NEW k \in 1 .. Len(s) PROVE s[k] = t[k]
    <3>1. k \in 1 .. Len(t)
      BY <1>1, <1>2
    <3> QED BY <3>1, EnumeratedAlike
  <2> QED BY <1>2, <2>1, ShorterIsPrefix
<1>3. CASE Len(t) <= Len(s)
  <2>1. ASSUME NEW k \in 1 .. Len(t) PROVE t[k] = s[k]
    <3>1. k \in 1 .. Len(s)
      BY <1>1, <1>3
    <3> QED BY <3>1, EnumeratedAlike
  <2> QED BY <1>3, <2>1, ShorterIsPrefix
<1> QED BY <1>1, <1>2, <1>3

(* A part of an enumeration is one. *)
LEMMA PartEnumerates ==
  ASSUME NEW X, NEW s \in Seq(Nat), NEW t \in Seq(Nat), Enumerates(t, X),
         Len(s) <= Len(t), \A k \in 1 .. Len(s) : s[k] = t[k]
  PROVE  Enumerates(s, X)
<1> SUFFICES ASSUME NEW k \in 1 .. Len(s)
             PROVE  /\ s[k] \in X
                    /\ \A j \in 1 .. k - 1 : s[j] < s[k]
                    /\ \A q \in X : q < s[k] => k > 1 /\ q <= s[k - 1]
  BY DEF Enumerates
<1>1. Len(s) \in Nat /\ Len(t) \in Nat
  BY LenProperties
<1>2. k \in 1 .. Len(t) /\ s[k] = t[k]
  BY <1>1
<1>3. \A j \in 1 .. k - 1 : s[j] = t[j]
  BY <1>1
<1>4. ASSUME k > 1 PROVE s[k - 1] = t[k - 1]
  <2>1. k - 1 \in 1 .. k - 1
    BY <1>1, <1>4
  <2> QED BY <1>3, <2>1
<1> QED BY <1>2, <1>3, <1>4 DEF Enumerates

(* Two that reach equally far are equal. *)
LEMMA UpToSame ==
  ASSUME NEW X \in SUBSET Nat, NEW s \in Seq(Nat), NEW t \in Seq(Nat), NEW x \in Nat,
         UpTo(s, X, x), UpTo(t, X, x)
  PROVE  s = t
<1>1. Len(s) \in Nat /\ Len(t) \in Nat /\ Enumerates(s, X) /\ Enumerates(t, X)
  BY LenProperties DEF UpTo
<1>2. ASSUME NEW a \in Seq(Nat), NEW b \in Seq(Nat), UpTo(a, X, x), UpTo(b, X, x) PROVE ~(Len(a) < Len(b))
  <2> SUFFICES ASSUME Len(a) < Len(b) PROVE FALSE
    OBVIOUS
  <2> DEFINE n == Len(a)
             m == Len(b)
  <2>1. n \in Nat /\ m \in Nat /\ n < m
    BY LenProperties
  <2>2. n + 1 \in 1 .. m /\ m \in 1 .. m /\ m > 0
    BY <2>1
  <2>3. Enumerates(a, X) /\ Enumerates(b, X)
    BY <1>2 DEF UpTo
  <2>4. b[m] \in X /\ b[n + 1] \in X /\ b[m] \in Nat /\ b[n + 1] \in Nat
    BY <2>2, <2>3 DEF Enumerates
  <2>5. b[m] < x
    BY <1>2, <2>2, <2>4 DEF UpTo
  <2>6. b[n + 1] <= b[m]
    <3>1. CASE n + 1 = m
      BY <2>4, <3>1
    <3>2. CASE n + 1 # m
      <4>1. n + 1 \in 1 .. m - 1
        BY <2>1, <3>2
      <4>2. b[n + 1] < b[m]
        BY <2>2, <2>3, <4>1 DEF Enumerates
      <4> QED BY <2>4, <4>2
    <3> QED BY <3>1, <3>2
  <2>7. b[n + 1] < x
    <3>1. x \in Nat
      OBVIOUS
    <3> QED BY <2>4, <2>5, <2>6, <3>1
  <2>8. n > 0 /\ b[n + 1] <= a[n]
    BY <1>2, <2>4, <2>7 DEF UpTo
  <2>9. n \in 1 .. n /\ n \in 1 .. m /\ (n + 1) - 1 = n /\ n + 1 > 1
    BY <2>1, <2>8
  <2>10. a[n] = b[n]
    BY <2>3, <2>9, EnumeratedAlike
  <2>11. b[n] < b[n + 1] /\ b[n] \in Nat
    <3>1. n \in 1 .. (n + 1) - 1
      BY <2>9
    <3> QED BY <2>2, <2>3, <2>9, <3>1, ElementOfSeq DEF Enumerates
  <2> QED BY <2>4, <2>8, <2>10, <2>11
<1>3. Len(s) = Len(t)
  <2>1. ~(Len(s) < Len(t)) /\ ~(Len(t) < Len(s))
    BY <1>2
  <2> QED BY <1>1, <2>1
<1>4. ASSUME NEW k \in 1 .. Len(s) PROVE s[k] = t[k]
  <2>1. k \in 1 .. Len(t)
    BY <1>3
  <2> QED BY <1>1, <2>1, EnumeratedAlike
<1> QED BY <1>3, <1>4, SeqEqual

(* One element more. *)
LEMMA AppendEnumerates ==
  ASSUME NEW X \in SUBSET Nat, NEW s \in Seq(Nat), NEW x \in X, UpTo(s, X, x)
  PROVE  Enumerates(Append(s, x), X) /\ Append(s, x) \in Seq(Nat)
<1> DEFINE n == Len(s)
           t == Append(s, x)
<1>1. x \in Nat
  OBVIOUS
<1>2. /\ n \in Nat /\ t \in Seq(Nat) /\ Len(t) = n + 1
      /\ \A i \in 1 .. n : t[i] = s[i]
      /\ t[n + 1] = x
  BY <1>1, AppendProperties, LenProperties
<1> HIDE DEF t, n
<1>3. Enumerates(s, X) /\ \A q \in X : q < x <=> n > 0 /\ q <= s[n]
  BY DEF UpTo, n
<1>4. ASSUME NEW k \in 1 .. n + 1
      PROVE  /\ t[k] \in X
             /\ \A j \in 1 .. k - 1 : t[j] < t[k]
             /\ \A q \in X : q < t[k] => k > 1 /\ q <= t[k - 1]
  <2>1. CASE k \in 1 .. n
    <3>1. t[k] = s[k] /\ (k > 1 => t[k - 1] = s[k - 1]) /\ \A j \in 1 .. k - 1 : t[j] = s[j]
      BY <1>2, <2>1
    <3>2. k \in 1 .. Len(s)
      BY <2>1 DEF n
    <3> QED BY <1>3, <3>1, <3>2 DEF Enumerates
  <2>2. CASE k = n + 1
    <3>1. t[k] = x
      BY <1>2, <2>2
    <3>2. k > 1 => n \in 1 .. n /\ k - 1 = n /\ n > 0
      BY <1>2, <2>2
    <3>3. k > 1 => t[k - 1] = s[n] /\ s[n] \in X
      <4>1. n \in 1 .. n => s[n] \in X
        BY <1>3 DEF Enumerates, n
      <4> QED BY <1>2, <3>2, <4>1
    <3>4. ASSUME NEW j \in 1 .. k - 1 PROVE t[j] < x
      <4>1. j \in 1 .. n /\ n \in 1 .. n /\ k > 1 /\ n > 0
        BY <1>2, <2>2
      <4>2. t[j] = s[j] /\ s[n] \in X /\ s[n] \in Nat
        BY <1>2, <3>3, <4>1
      <4>3. s[n] < x
        BY <1>3, <4>1, <4>2
      <4>4. j = n \/ (j \in 1 .. n - 1)
        BY <1>2, <4>1
      <4>5. j \in 1 .. n - 1 => s[j] < s[n] /\ s[j] \in X
        <5>1. \A i \in 1 .. n : s[i] \in X /\ \A h \in 1 .. i - 1 : s[h] < s[i]
          BY <1>3 DEF Enumerates, n
        <5> QED BY <4>1, <5>1
      <4>6. j \in 1 .. n - 1 => s[j] \in Nat
        BY <4>5
      <4> QED BY <1>1, <4>2, <4>3, <4>4, <4>5, <4>6
    <3>5. ASSUME NEW q \in X, q < x PROVE k > 1 /\ q <= s[n]
      <4>1. n > 0 /\ q <= s[n]
        BY <1>3, <3>5
      <4> QED BY <1>2, <2>2, <4>1
    <3> QED BY <3>1, <3>3, <3>4, <3>5
  <2>3. k \in 1 .. n \/ k = n + 1
    BY <1>2
  <2> QED BY <2>1, <2>2, <2>3
<1> QED BY <1>2, <1>4 DEF Enumerates, t

(* From x to what follows it. *)
LEMMA UpToMore ==
  ASSUME NEW X \in SUBSET Nat, NEW s \in Seq(Nat), NEW x \in Nat, NEW y \in Nat, x < y,
         \A q \in X : x < q => y <= q, UpTo(s, X, x)
  PROVE  /\ x \in X => Append(s, x) \in Seq(Nat) /\ UpTo(Append(s, x), X, y)
         /\ x \notin X => UpTo(s, X, y)
<1>0. Len(s) \in Nat
  BY LenProperties
<1>1. ASSUME NEW q \in X PROVE q < y <=> q < x \/ q = x
  <2>1. q \in Nat
    OBVIOUS
  <2> QED BY <2>1
<1>2. Enumerates(s, X) /\ \A q \in X : q < x <=> Len(s) > 0 /\ q <= s[Len(s)]
  BY DEF UpTo
<1>3. CASE x \in X
  <2> DEFINE t == Append(s, x)
  <2>1. t \in Seq(Nat) /\ Enumerates(t, X)
    BY <1>3, AppendEnumerates
  <2>2. Len(t) = Len(s) + 1 /\ t[Len(s) + 1] = x /\ Len(s) \in Nat
    BY AppendProperties, LenProperties
  <2> HIDE DEF t
  <2>3. ASSUME NEW q \in X PROVE q < y <=> Len(t) > 0 /\ q <= t[Len(t)]
    <3>1. q \in Nat /\ (q <= x <=> q < x \/ q = x)
      OBVIOUS
    <3>2. Len(t) > 0 /\ t[Len(t)] = x
      BY <2>2
    <3> QED BY <1>1, <3>1, <3>2
  <2> QED BY <1>3, <2>1, <2>3 DEF UpTo, t
<1>4. CASE x \notin X
  <2>1. ASSUME NEW q \in X PROVE q < y <=> Len(s) > 0 /\ q <= s[Len(s)]
    <3>1. q # x
      BY <1>4
    <3> QED BY <1>1, <1>2, <3>1
  <2> QED BY <1>2, <1>4, <2>1 DEF UpTo
<1> QED BY <1>3, <1>4

-----------------------------------------------------------------------------
(* What a reader of a whole file returns.                                  *)

Plain == ~opt.skip /\ opt.start = 0 /\ opt.end = 0

(* The reader is in the chain, has passed records only, has returned those *)
(* that are asked for, and ends where there is no record.                  *)
Straight ==
  LET u == ~opt.select
  IN  /\ msfp.pos \in Chain(stream, u) /\ msfp.pos <= Len(stream)
      /\ \A q \in Chain(stream, u) : q < msfp.pos => IsRecord(stream, u, q)
      /\ UpTo(out, Asked(stream, opt.select), msfp.pos)
      /\ rd.pc = "done" /\ rd.ret = "eof" => ~IsRecord(stream, u, msfp.pos)

(* Or it is at the end of the file, behind a last record at t whose length *)
(* only the end of the file tells.                                         *)
AtTail ==
  LET u == ~opt.select
      X == Asked(stream, opt.select)
  IN  /\ io.eof /\ io.pos = msfp.pos /\ msfp.pos = Len(stream)
      /\ \E t \in Chain(stream, u) :
           /\ t < Len(stream) /\ ~IsRecord(stream, u, t)
           /\ \A q \in Chain(stream, u) : q < t => IsRecord(stream, u, q)
           /\ Len(stream) - t = MinRecLen \/ stream[t + 1].len = 0
           /\ \E s \in Seq(Nat) : UpTo(s, X, t) /\ out = IF t \in X THEN Append(s, t) ELSE s

(* At the end of the file the buffer has all the rest. *)
LEMMA RestBuffered ==
  ASSUME ReaderInv, Steady, io.eof, BufLen > 0
  PROVE  Unread = Behind(stream, msfp.pos) /\ io.pos = Len(stream)
<1>1. msfp.pos \in Nat /\ io.pos \in Nat /\ Len(stream) \in Nat /\ BufLen = io.pos - msfp.pos
  BY UnreadProperties, LenProperties DEF ReaderInv, ReaderTypeOK
<1>2. msfp.pos < io.pos => io.pos <= Len(stream)
  BY DEF ReaderInv, Window
<1>3. Len(stream) <= io.pos
  BY DEF Steady
<1>4. io.pos = Len(stream)
  <2> DEFINE p == msfp.pos
             q == io.pos
             n == Len(stream)
             b == BufLen
  <2>1. p \in Nat /\ q \in Nat /\ n \in Nat /\ b = q - p /\ b > 0 /\ (p < q => q <= n) /\ n <= q
    BY <1>1, <1>2, <1>3
  <2> HIDE DEF p, q, n, b
  <2>2. q = n
    BY <2>1
  <2> QED BY <2>2 DEF q, n
<1>5. Unread = SubSeq(stream, msfp.pos + 1, io.pos)
  BY WindowAligned DEF BufferAligned
<1> QED BY <1>4, <1>5 DEF Behind

(* What is unread is the beginning of the rest. *)
LEMMA UnreadBegins ==
  ASSUME ReaderInv, BufLen > 0
  PROVE  /\ msfp.pos \in Nat /\ msfp.pos < Len(stream) /\ Behind(stream, msfp.pos) \in Seq(Cell)
         /\ Unread \in Seq(Cell) /\ 0 < Len(Unread) /\ Len(Unread) <= Len(Behind(stream, msfp.pos))
         /\ \A i \in 1 .. Len(Unread) : Behind(stream, msfp.pos)[i] = Unread[i]
         /\ Unread[1] = stream[msfp.pos + 1]
<1> DEFINE p == msfp.pos
           q == io.pos
           n == Len(stream)
           l == Len(Unread)
           b == Behind(stream, p)
<1>1. /\ p \in Nat /\ q \in Nat /\ n \in Nat /\ l = q - p /\ l > 0 /\ (p < q => q <= n)
      /\ stream \in Seq(Cell) /\ Unread \in Seq(Cell)
      /\ \A i \in 1 .. l : Unread[i] = stream[p + i]
  BY UnreadProperties, LenProperties DEF ReaderInv, ReaderTypeOK, Window
<1> HIDE DEF p, q, n, l
<1>2. p < n /\ l <= n - p
  BY <1>1
<1>3. b \in Seq(Cell) /\ Len(b) = Len(stream) - p /\ \A i \in 1 .. Len(stream) - p : b[i] = stream[p + i]
  <2>1. p < Len(stream)
    BY <1>2 DEF n
  <2> QED BY <1>1, <2>1, BehindIs
<1> HIDE DEF b
<1>4. ASSUME NEW i \in 1 .. l PROVE b[i] = Unread[i]
  <2>1. i \in 1 .. n - p
    BY <1>1, <1>2
  <2> QED BY <1>1, <1>3, <2>1 DEF n
<1>5. Unread[1] = stream[p + 1]
  <2>1. 1 \in 1 .. l
    BY <1>1
  <2> QED BY <1>1, <2>1
<1>6. Len(b) = n - p
  BY <1>3 DEF n
<1> QED BY <1>1, <1>2, <1>3, <1>4, <1>5, <1>6 DEF p, n, l, b

(* A record that the reader finds is the one in the chain, or the last one *)
(* of a file that tells its length.                                        *)
LEMMA RecordIsNext ==
  ASSUME ReaderInv, Steady, NEW r \in Parsing({"record"})
  PROVE  \/ IsRecord(stream, ~opt.select, msfp.pos) /\ msfp.pos + r.n = After(stream, ~opt.select, msfp.pos)
         \/ /\ io.eof /\ io.pos = Len(stream) /\ msfp.pos + r.n = Len(stream)
            /\ ~IsRecord(stream, ~opt.select, msfp.pos)
            /\ Len(stream) - msfp.pos = MinRecLen \/ stream[msfp.pos + 1].len = 0
<1> DEFINE p == msfp.pos
           u == ~opt.select
           b == Behind(stream, p)
           w == Unread
           eof == io.eof
<1>1. BufLen >= MinRecLen /\ r \in Parse(w, eof, u) /\ r.how = "record"
  BY DEF Parsing
<1>2. MinRecLen \in Nat \ {0} /\ BufLen \in Nat /\ BufLen > 0
  BY <1>1, UnreadProperties, FormatAssumption
<1>3. /\ p \in Nat /\ p < Len(stream) /\ b \in Seq(Cell)
      /\ w \in Seq(Cell) /\ 0 < Len(w) /\ Len(w) <= Len(b)
      /\ \A i \in 1 .. Len(w) : b[i] = w[i]
      /\ w[1] = stream[p + 1]
  BY <1>2, UnreadBegins
<1>4. eof \in BOOLEAN /\ u \in BOOLEAN /\ stream \in Seq(Cell)
  BY UnreadProperties DEF ReaderInv, ReaderTypeOK
<1>5. eof => w = b /\ io.pos = Len(stream)
  BY <1>2, RestBuffered
<1>6. Len(b) = Len(stream) - p /\ Len(stream) \in Nat
  BY <1>3, <1>4, BehindIs, LenProperties
<1> HIDE DEF b, w, u, p, eof
<1>7. \/ r \in Parse(b, FALSE, u)
      \/ /\ eof /\ w[1].hdr = "v2" /\ 0 \in Detect(w)
         /\ r.n = Len(w) /\ IsPowerOf2(Len(w))
  BY <1>1, <1>3, <1>4, PartRecord
<1>8. CASE r \in Parse(b, FALSE, u)
  <2>1. r \in RecordsAt(stream, u, p)
    BY <1>1, <1>8 DEF RecordsAt, b
  <2>2. IsRecord(stream, u, p)
    BY <1>3, <2>1 DEF IsRecord
  <2>3. After(stream, u, p) = p + r.n
    BY <1>3, <1>4, <2>1, <2>2, RecordAfter
  <2> QED BY <2>2, <2>3 DEF p, u
<1>9. CASE /\ eof /\ w[1].hdr = "v2" /\ 0 \in Detect(w)
           /\ r.n = Len(w) /\ IsPowerOf2(Len(w))
  <2>1. w = b /\ io.pos = Len(stream)
    BY <1>5, <1>9
  <2>2. /\ \A x \in Parse(w, FALSE, u) : x.how # "record"
        /\ w[1].len = 0 \/ Len(w) < FixedLen + BlktLen
    BY <1>3, <1>4, <1>9, UnknownLength
  <2>3. ~IsRecord(stream, u, p)
    BY <2>1, <2>2 DEF IsRecord, RecordsAt, b
  <2>4. p + r.n = Len(stream)
    BY <1>3, <1>6, <1>9, <2>1
  <2>5. MinRecLen <= Len(w)
    <3>1. r \in Parse(w, eof, u) /\ r.how = "record" /\ w \in Seq(Cell) /\ Len(w) > 0
      BY <1>1, <1>3
    <3>2. MinRecLen <= r.n
      BY <1>4, <3>1, RecordLength
    <3> QED BY <1>9, <3>2
  <2>6. ASSUME Len(w) < FixedLen + BlktLen, Len(w) # MinRecLen PROVE FALSE
    <3>1. Len(w) \in Nat /\ FixedLen \in Nat /\ BlktLen \in Nat /\ MinRecLen \in Nat
      BY <1>3, LenProperties, FormatAssumption
    <3>2. Len(w) \in MinRecLen + 1 .. FixedLen + BlktLen - 1
      BY <2>5, <2>6, <3>1
    <3> QED BY <1>9, <3>2, FormatAssumption
  <2>7. Len(stream) - p = MinRecLen \/ stream[p + 1].len = 0
    BY <1>3, <1>6, <2>1, <2>2, <2>6
  <2> QED BY <1>9, <2>1, <2>3, <2>4, <2>7 DEF p, u, eof
<1> QED BY <1>7, <1>8, <1>9

(* Going on to the next record of the chain. *)
LEMMA ChainStep ==
  ASSUME NEW s \in Seq(Cell), NEW sel \in BOOLEAN, NEW p \in Chain(s, ~sel), IsRecord(s, ~sel, p),
         \A q \in Chain(s, ~sel) : q < p => IsRecord(s, ~sel, q),
         NEW list \in Seq(Nat), UpTo(list, Asked(s, sel), p)
  PROVE  LET y == After(s, ~sel, p)
         IN  /\ y \in Chain(s, ~sel) /\ y \in Nat /\ y <= Len(s) /\ p + MinRecLen <= y
             /\ \A q \in Chain(s, ~sel) : q < y => IsRecord(s, ~sel, q) /\ q <= p
             /\ p \in Asked(s, sel) => Append(list, p) \in Seq(Nat) /\ UpTo(Append(list, p), Asked(s, sel), y)
             /\ p \notin Asked(s, sel) => UpTo(list, Asked(s, sel), y)
<1> DEFINE u == ~sel
           C == Chain(s, u)
           X == Asked(s, sel)
           y == After(s, u, p)
<1>1. u \in BOOLEAN
  OBVIOUS
<1>2. C \in SUBSET Nat /\ y \in C
  BY <1>1, ChainClosed
<1>3. X \in SUBSET Nat /\ X \subseteq C
  BY <1>2 DEF Asked
<1>4. p \in Nat
  BY <1>2
<1>5. y \in Nat /\ y <= Len(s) /\ p + MinRecLen <= y
  BY <1>1, <1>4, RecordAfter
<1>6. p < y
  <2>1. MinRecLen \in Nat \ {0}
    BY FormatAssumption
  <2> HIDE DEF y
  <2> QED BY <1>4, <1>5, <2>1
<1>7. ASSUME NEW q \in C, p < q PROVE y <= q
  BY <1>1, <1>7, ChainGap
<1> USE DEF C
<1> HIDE DEF y
<1>8. ASSUME NEW q \in C, q < y PROVE IsRecord(s, u, q) /\ q <= p
  <2>1. q \in Nat
    BY <1>2
  <2>2. ~(p < q)
    BY <1>5, <1>7, <1>8, <2>1
  <2>3. q < p \/ q = p
    BY <1>4, <2>1, <2>2
  <2> QED BY <1>4, <2>1, <2>3
<1> HIDE DEF X
<1>9. \A q \in X : p < q => y <= q
  BY <1>3, <1>7
<1>10. UpTo(list, X, p)
  BY DEF X
<1>11. /\ p \in X => Append(list, p) \in Seq(Nat) /\ UpTo(Append(list, p), X, y)
       /\ p \notin X => UpTo(list, X, y)
  BY <1>3, <1>4, <1>5, <1>6, <1>9, <1>10, UpToMore
<1> QED BY <1>2, <1>5, <1>8, <1>11 DEF X, y

(* Every step of the reader keeps this. *)
LEMMA FileKept ==
  ASSUME ReaderInv, Steady, Plain, Straight \/ AtTail, [ReaderNext]_readerVars
  PROVE  (Straight \/ AtTail)'
<1> DEFINE u == ~opt.select
           C == Chain(stream, u)
           X == Asked(stream, opt.select)
           p == msfp.pos
<1>1. UNCHANGED <<stream, opt>>
  BY DEF ReaderNext, readerVars, Call, EndOfRange, Fill, NoFill, ReturnRecord, DecodeError,
         SkipUnwanted, ParseError, NeedTooMuch, NeedMore, TooShort, CheckEnd
<1>2. /\ rd \in CallType /\ out \in Seq(Nat) /\ p \in Nat /\ io.pos \in Nat /\ Len(stream) \in Nat
      /\ msfp \in [buf : Seq(Cell), off : Nat, pos : Nat, count : Nat]
      /\ stream \in Seq(Cell) /\ u \in BOOLEAN /\ io.eof \in BOOLEAN /\ opt.select \in BOOLEAN
  <2>1. opt.select \in BOOLEAN
    BY ReaderAssumption DEF ReaderInv, ReaderTypeOK
  <2> QED BY <2>1, UnreadProperties, LenProperties DEF ReaderInv, ReaderTypeOK, CallType
<1>3. MinRecLen \in Nat \ {0} /\ BufLen \in Nat /\ BufLen = io.pos - p
  BY UnreadProperties, FormatAssumption
<1>4. ASSUME NEW ret, Return(ret) PROVE rd'.ret = ret /\ rd'.pc \in {"ready", "done"}
  BY <1>2, <1>4 DEF Return, CallType
<1>5. ASSUME NEW pc, NEW more, GoTo(pc, more) PROVE rd'.pc = pc
  BY <1>2, <1>5 DEF GoTo, CallType
<1>6. ASSUME AtTail PROVE AtTail'
  <2>1. io.eof /\ io.pos = msfp.pos
    BY <1>6 DEF AtTail
  <2>2. BufLen < MinRecLen /\ ~(BufLen >= MinRecLen)
    BY <1>2, <1>3, <2>1
  <2>3. \A how : Parsing(how) = {}
    BY <2>2 DEF Parsing
  <2>4. ~NeedsData
    BY <2>1 DEF NeedsData
  <2>5. UNCHANGED <<io, msfp, out>>
    BY <2>3, <2>4 DEF ReaderNext, readerVars, Call, EndOfRange, Fill, NoFill, ReturnRecord, DecodeError,
         SkipUnwanted, ParseError, NeedTooMuch, NeedMore, TooShort, CheckEnd
  <2> QED BY <1>1, <1>6, <2>5 DEF AtTail
<1>7. SUFFICES ASSUME Straight PROVE (Straight \/ AtTail)'
  BY <1>6
<1>8. /\ p \in C /\ p <= Len(stream)
      /\ \A q \in C : q < p => IsRecord(stream, u, q)
      /\ UpTo(out, X, p)
  BY <1>7 DEF Straight
<1>9. ASSUME out' = out, msfp'.pos = msfp.pos,
             rd'.pc = "done" /\ rd'.ret = "eof" => ~IsRecord(stream, u, p)
      PROVE  Straight'
  BY <1>1, <1>8, <1>9 DEF Straight
<1>10. ASSUME NEW r \in Parsing({"record"}), msfp'.pos = p + r.n, io' = io, rd'.ret # "eof" \/ rd'.pc # "done",
              out' = IF p \in X THEN Append(out, p) ELSE out
       PROVE  (Straight \/ AtTail)'
  <2>1. CASE IsRecord(stream, u, p) /\ p + r.n = After(stream, u, p)
    <3> DEFINE y == After(stream, u, p)
    <3>1. /\ y \in C /\ y \in Nat /\ y <= Len(stream)
          /\ \A q \in C : q < y => IsRecord(stream, u, q)
          /\ p \in X => UpTo(Append(out, p), X, y)
          /\ p \notin X => UpTo(out, X, y)
      BY <1>2, <1>8, <2>1, ChainStep
    <3>2. msfp'.pos = y
      BY <1>10, <2>1
    <3>3. UpTo(out', X, y)
      BY <1>10, <3>1
    <3> HIDE DEF y
    <3>4. Straight'
      BY <1>1, <1>10, <3>1, <3>2, <3>3 DEF Straight
    <3> QED BY <3>4
  <2>2. CASE /\ io.eof /\ io.pos = Len(stream) /\ p + r.n = Len(stream)
             /\ ~IsRecord(stream, u, p)
             /\ Len(stream) - p = MinRecLen \/ stream[p + 1].len = 0
    <3>1. p < Len(stream)
      <4>1. BufLen >= MinRecLen
        BY DEF Parsing
      <4> QED BY <1>2, <1>3, <2>2, <4>1
    <3>2. msfp'.pos = Len(stream)
      BY <1>10, <2>2
    <3>3. \E s \in Seq(Nat) : UpTo(s, X, p) /\ out' = IF p \in X THEN Append(s, p) ELSE s
      BY <1>2, <1>8, <1>10
    <3>4. \E t \in C : /\ t < Len(stream) /\ ~IsRecord(stream, u, t)
                       /\ \A q \in C : q < t => IsRecord(stream, u, q)
                       /\ Len(stream) - t = MinRecLen \/ stream[t + 1].len = 0
                       /\ \E s \in Seq(Nat) : UpTo(s, X, t) /\ out' = IF t \in X THEN Append(s, t) ELSE s
      BY <1>8, <2>2, <3>1, <3>3
    <3>5. AtTail'
      BY <1>1, <1>10, <2>2, <3>2, <3>4 DEF AtTail
    <3> QED BY <3>5
  <2> QED BY <2>1, <2>2, RecordIsNext
<1>11. ASSUME Parsing({"record"}) # {} PROVE Wanted <=> p \in X
  <2>1. BufLen >= MinRecLen
    BY <1>11 DEF Parsing
  <2>2. Unread[1] = stream[p + 1]
    <3>1. BufLen > 0
      BY <1>3, <2>1
    <3> QED BY <3>1, UnreadBegins
  <2> QED BY <1>8, <2>2 DEF Wanted, Asked
<1>12. CASE UNCHANGED readerVars
  BY <1>7, <1>9, <1>12 DEF readerVars, Straight
<1>13. CASE Call
  BY <1>5, <1>9, <1>13 DEF Call
<1>14. CASE EndOfRange
  BY <1>14 DEF EndOfRange, RangeEnded, Plain
<1>15. CASE Fill
  <2>1. Return("error") \/ GoTo("parse", rd.more)
    BY <1>15 DEF Fill
  <2>2. rd'.pc = "parse" \/ rd'.ret = "error"
    BY <1>4, <1>5, <2>1
  <2>3. out' = out
    BY <1>15 DEF Fill
  <2> QED BY <1>9, <1>15, <2>2, <2>3, FillEnd
<1>16. CASE NoFill
  BY <1>5, <1>9, <1>16 DEF NoFill
<1>17. CASE ReturnRecord
  <2>1. PICK r \in Parsing({"record"}) :
          /\ Wanted /\ Unread[1].content = "good"
          /\ msfp' = [msfp EXCEPT !.off = @ + r.n, !.pos = @ + r.n, !.count = @ + 1]
          /\ Return("record")
    BY <1>17 DEF ReturnRecord
  <2>2. msfp'.pos = p + r.n
    BY <1>2, <2>1
  <2>3. rd'.ret # "eof"
    BY <1>4, <2>1
  <2>4. io' = io /\ out' = Append(out, p) /\ p \in X
    BY <1>11, <1>17, <2>1 DEF ReturnRecord
  <2> QED BY <1>10, <2>2, <2>3, <2>4
<1>18. CASE DecodeError
  <2>1. rd'.ret = "error"
    BY <1>4, <1>18 DEF DecodeError
  <2> QED BY <1>9, <1>18, <2>1 DEF DecodeError
<1>19. CASE SkipUnwanted
  <2>1. PICK r \in Parsing({"record"}) : ~Wanted /\ Advance(r.n)
    BY <1>19 DEF SkipUnwanted
  <2>2. msfp'.pos = p + r.n
    BY <1>2, <2>1 DEF Advance
  <2>3. io' = io /\ out' = out /\ p \notin X /\ rd'.pc # "done"
    BY <1>5, <1>11, <1>19, <2>1 DEF SkipUnwanted
  <2> QED BY <1>10, <2>2, <2>3
<1>20. CASE ParseError
  <2>1. PICK r \in Parsing({"notseed", "outofrange", "error"}) :
          \/ opt.skip /\ Advance(1) /\ GoTo("check", FALSE)
          \/ ~opt.skip /\ Return(r.how) /\ UNCHANGED msfp
    BY <1>20 DEF ParseError
  <2>2. Return(r.how) /\ UNCHANGED msfp
    BY <2>1 DEF Plain
  <2>3. rd'.ret # "eof"
    BY <1>4, <2>2 DEF Parsing
  <2> QED BY <1>9, <1>20, <2>2, <2>3 DEF ParseError
<1>21. CASE NeedTooMuch
  <2>1. Return("outofrange") /\ UNCHANGED msfp
    BY <1>21 DEF NeedTooMuch, Plain
  <2>2. rd'.ret = "outofrange"
    BY <1>4, <2>1
  <2> QED BY <1>9, <1>21, <2>1, <2>2 DEF NeedTooMuch
<1>22. CASE NeedMore
  <2>1. PICK r \in Parsing({"need"}) : TRUE
    BY <1>22 DEF NeedMore
  <2>2. UNCHANGED <<msfp, out>>
    BY <1>22 DEF NeedMore
  <2>3. CASE ~io.eof
    BY <1>5, <1>9, <1>22, <2>2, <2>3 DEF NeedMore
  <2>4. CASE io.eof
    <3>1. BufLen >= MinRecLen /\ r \in Parse(Unread, io.eof, u) /\ r.how = "need"
      BY DEF Parsing
    <3>2. BufLen > 0
      BY <1>3, <3>1
    <3>3. Unread = Behind(stream, p) /\ Unread \in Seq(Cell) /\ Len(Unread) > 0
      BY <2>4, <3>2, RestBuffered, UnreadBegins
    <3>4. ASSUME NEW q \in RecordsAt(stream, u, p) PROVE FALSE
      <4>1. q \in Parse(Unread, FALSE, u) /\ q.how = "record"
        BY <3>3, <3>4 DEF RecordsAt
      <4> QED BY <1>2, <3>1, <3>3, <4>1, NeedIsNoRecord
    <3>5. ~IsRecord(stream, u, p)
      BY <3>4 DEF IsRecord
    <3> QED BY <1>9, <2>2, <3>5
  <2> QED BY <2>3, <2>4
<1>23. CASE TooShort
  BY <1>5, <1>9, <1>23 DEF TooShort
<1>24. CASE CheckEnd
  <2>1. UNCHANGED <<msfp, out>>
    BY <1>24 DEF CheckEnd
  <2>2. CASE io.eof /\ BufLen < MinRecLen
    <3>1. ASSUME IsRecord(stream, u, p) PROVE FALSE
      <4> DEFINE y == After(stream, u, p)
                 q == io.pos
                 n == Len(stream)
      <4>1. y \in Nat /\ p + MinRecLen <= y /\ y <= n
        BY <1>2, <3>1, RecordAfter
      <4>2. n <= q
        BY <2>2 DEF Steady
      <4>3. q - p < MinRecLen /\ q \in Nat /\ n \in Nat /\ p \in Nat /\ MinRecLen \in Nat
        BY <1>2, <1>3, <2>2
      <4> HIDE DEF y, q, n, p
      <4> QED BY <4>1, <4>2, <4>3
    <3> QED BY <1>9, <2>1, <3>1
  <2>3. CASE ~(io.eof /\ BufLen < MinRecLen)
    <3>1. rd'.pc = "loop"
      BY <1>5, <1>24, <2>3 DEF CheckEnd
    <3> QED BY <1>9, <2>1, <3>1
  <2> QED BY <2>2, <2>3
<1> QED BY <1>12, <1>13, <1>14, <1>15, <1>16, <1>17, <1>18, <1>19, <1>20, <1>21, <1>22, <1>23, <1>24 DEF ReaderNext

(* It begins at the beginning. *)
LEMMA FileStarts ==
  ASSUME ReaderInit, Plain
  PROVE  Straight
<1> DEFINE u == ~opt.select
           X == Asked(stream, opt.select)
<1>1. /\ msfp.pos = 0 /\ out = <<>> /\ rd.pc = "ready" /\ stream \in Seq(Cell) /\ opt.select \in BOOLEAN
      /\ Len(stream) \in Nat /\ u \in BOOLEAN
  BY ReaderAssumption, LenProperties DEF ReaderInit, Plain
<1>2. 0 \in Chain(stream, u) /\ Chain(stream, u) \in SUBSET Nat
  BY <1>1, ChainClosed
<1>3. \A q \in Chain(stream, u) : ~(q < 0)
  BY <1>2
<1>4. X \subseteq Chain(stream, u)
  BY DEF Asked
<1>5. UpTo(<<>>, X, 0)
  BY <1>3, <1>4 DEF UpTo, Enumerates
<1> QED BY <1>1, <1>2, <1>3, <1>5 DEF Straight

(* What is listed from the file is what the reader returned, all of it if  *)
(* nothing failed.                                                         *)
ListedAsRead ==
  /\ Len(lst.file) <= Len(out) /\ \A k \in 1 .. Len(lst.file) : lst.file[k] = out[k]
  /\ lst.pc = "file" => Len(lst.file) = Len(lst.seen)
  /\ lst.fileret = "noerror" => lst.pc # "file" /\ lst.file = out /\ rd.pc = "done" /\ rd.ret = "eof"

(* Reading from memory is in the chain, too, and takes records that are    *)
(* longer than MinRecLen or followed by something.                         *)
BufferWalk ==
  LET u == ~opt.select
  IN  /\ lst.offset \in Chain(stream, u)
      /\ \A q \in Chain(stream, u) : q < lst.offset => IsRecord(stream, u, q) /\ q + MinRecLen < Len(stream)
      /\ UpTo(lst.buffer, Asked(stream, opt.select), lst.offset)
      /\ lst.pc = "done" /\ lst.bufret = "noerror" =>
           ~IsRecord(stream, u, lst.offset) \/ Len(stream) - lst.offset <= MinRecLen

SameInv ==
  /\ ListInv /\ Steady
  /\ Plain => Straight \/ AtTail
  /\ ~lst.dedup => ListedAsRead
  /\ BufferWalk

(* What is left in memory. *)
LEMMA RemainingIs ==
  ASSUME ListInv
  PROVE  /\ stream \in Seq(Cell) /\ Len(stream) \in Nat /\ lst.offset \in Nat /\ opt.select \in BOOLEAN
         /\ Remaining = Behind(stream, lst.offset)
         /\ Left <=> Len(stream) - lst.offset > MinRecLen
         /\ Left => lst.offset < Len(stream)
<1> DEFINE p == lst.offset
           n == Len(stream)
           b == Remaining
<1>1. stream \in Seq(Cell) /\ n \in Nat /\ p \in Nat /\ opt.select \in BOOLEAN /\ MinRecLen \in Nat \ {0}
  BY ReaderAssumption, UnreadProperties, LenProperties, FormatAssumption DEF ListInv, ListTypes, ReaderInv, ReaderTypeOK
<1>2. b = Behind(stream, p)
  BY DEF Remaining, Behind
<1>3. CASE p < n
  <2>1. Len(b) = n - p
    BY <1>1, <1>2, <1>3, BehindIs
  <2> HIDE DEF p, n, b
  <2>2. Len(b) > MinRecLen <=> n - p > MinRecLen
    BY <2>1
  <2> QED BY <1>1, <1>2, <1>3, <2>2 DEF Left, p, n, b
<1>4. CASE ~(p < n)
  <2>1. Len(b) = 0
    <3>1. p + 1 \in Int /\ n \in Int /\ ~(p + 1 <= n) /\ p + 1 .. n = {}
      BY <1>1, <1>4
    <3>2. \A i \in p + 1 .. n : stream[i] \in Cell
      BY <3>1
    <3> HIDE DEF p, n
    <3>3. Len(SubSeq(stream, p + 1, n)) = IF p + 1 <= n THEN n - (p + 1) + 1 ELSE 0
      BY <3>1, <3>2, SubSeqBetween
    <3> QED BY <3>1, <3>3 DEF Remaining, p, n
  <2>2. ~(Len(b) > MinRecLen) /\ ~(n - p > MinRecLen)
    BY <1>1, <1>4, <2>1
  <2> QED BY <1>1, <1>2, <2>2 DEF Left
<1> QED BY <1>3, <1>4

(* Taking a record from memory. *)
LEMMA BufferStep ==
  ASSUME ListInv, BufferWalk, NEW r \in BufferParsing({"record"}), UNCHANGED <<stream, opt>>,
         lst'.offset = lst.offset + r.n, lst'.pc # "done",
         lst'.buffer = IF BufferWants THEN Append(lst.buffer, lst.offset) ELSE lst.buffer
  PROVE  BufferWalk'
<1> DEFINE p == lst.offset
           u == ~opt.select
           C == Chain(stream, u)
           X == Asked(stream, opt.select)
           y == After(stream, u, p)
<1>1. Left /\ r \in Parse(Remaining, FALSE, u) /\ r.how = "record"
  BY DEF BufferParsing
<1>2. /\ stream \in Seq(Cell) /\ Len(stream) \in Nat /\ p \in Nat /\ opt.select \in BOOLEAN /\ u \in BOOLEAN
      /\ Remaining = Behind(stream, p) /\ p < Len(stream) /\ Len(stream) - p > MinRecLen
  BY <1>1, RemainingIs
<1>3. r \in RecordsAt(stream, u, p)
  BY <1>1, <1>2 DEF RecordsAt
<1>4. IsRecord(stream, u, p)
  BY <1>2, <1>3 DEF IsRecord
<1>5. lst'.offset = y
  BY <1>2, <1>3, <1>4, RecordAfter
<1>6. /\ p \in C /\ UpTo(lst.buffer, X, p) /\ lst.buffer \in Seq(Nat)
      /\ \A q \in C : q < p => IsRecord(stream, u, q) /\ q + MinRecLen < Len(stream)
  BY DEF BufferWalk, ListInv, ListTypes
<1>7. /\ y \in C /\ y \in Nat
      /\ \A q \in C : q < y => IsRecord(stream, u, q) /\ q <= p
      /\ p \in X => UpTo(Append(lst.buffer, p), X, y)
      /\ p \notin X => UpTo(lst.buffer, X, y)
  BY <1>2, <1>4, <1>6, ChainStep
<1>8. BufferWants <=> p \in X
  <2>1. Remaining[1] = stream[p + 1]
    <3>1. 1 \in 1 .. Len(stream) - p
      BY <1>2
    <3> QED BY <1>2, <3>1, BehindIs
  <2> QED BY <1>6, <2>1 DEF BufferWants, Asked
<1>9. UpTo(lst'.buffer, X, y)
  BY <1>7, <1>8
<1>10. C \in SUBSET Nat /\ MinRecLen \in Nat
  BY <1>2, ChainClosed, FormatAssumption
<1> HIDE DEF y
<1>11. ASSUME NEW q \in C, q < y PROVE IsRecord(stream, u, q) /\ q + MinRecLen < Len(stream)
  <2>1. q \in Nat /\ q <= p /\ IsRecord(stream, u, q)
    BY <1>7, <1>10, <1>11
  <2>2. q + MinRecLen < Len(stream)
    BY <1>2, <1>10, <2>1
  <2> QED BY <2>1, <2>2
<1> QED BY <1>5, <1>7, <1>9, <1>11 DEF BufferWalk

(* Every step keeps the invariant. *)
LEMMA SameInvKept ==
  ASSUME SameInv, [ListNext]_listVars
  PROVE  SameInv'
<1>1. ListInv' /\ ReaderInv
  BY ListNextKeeps DEF SameInv, ListInv
<1>2. [ReaderNext]_readerVars
  BY DEF ListNext, listVars, readerVars, ReadNext, AddRecord, AddFails, FileRead, AddFromBuffer,
         PassOver, BufferFails, BufferRead
<1>3. Steady'
  BY <1>1, <1>2, SteadyKept DEF SameInv
<1>4. UNCHANGED <<stream, opt>>
  BY <1>2 DEF ReaderNext, readerVars, Call, EndOfRange, Fill, NoFill, ReturnRecord, DecodeError,
         SkipUnwanted, ParseError, NeedTooMuch, NeedMore, TooShort, CheckEnd
<1>5. Plain' => (Straight \/ AtTail)'
  <2>1. Plain' <=> Plain
    BY <1>4 DEF Plain
  <2> QED BY <1>1, <1>2, <2>1, FileKept DEF SameInv
<1>6. PICK S : lst \in [pc : {"file", "buffer", "done"}, dedup : BOOLEAN, seen : Seq(S), file : Seq(Nat),
                        buffer : Seq(Nat), offset : Nat, fileret : Returns, bufret : Returns]
  BY DEF SameInv, ListInv, ListTypes
<1>7. /\ out \in Seq(Nat) /\ Len(out) \in Nat /\ rd \in CallType /\ lst.file \in Seq(Nat) /\ Len(lst.file) \in Nat
      /\ lst.seen \in Seq(S) /\ Len(lst.seen) \in Nat
  BY <1>1, <1>6, LenProperties DEF ReaderInv, ReaderTypeOK, CallType
<1>8. lst.pc = "file" => lst.fileret = "none" /\ Len(lst.seen) <= Len(out) /\ Len(out) <= Len(lst.seen) + 1
  BY DEF SameInv, ListInv
<1>9. ASSUME lst'.offset = lst.offset, lst'.buffer = lst.buffer,
             lst'.pc = "done" /\ lst'.bufret = "noerror" =>
               \/ lst.pc = "done" /\ lst.bufret = "noerror"
               \/ ~IsRecord(stream, ~opt.select, lst.offset) \/ Len(stream) - lst.offset <= MinRecLen
      PROVE  BufferWalk'
  BY <1>4, <1>9 DEF SameInv, BufferWalk
<1>10. ASSUME lst'.dedup = lst.dedup, lst'.file = lst.file, lst'.fileret = lst.fileret, UNCHANGED <<rd, out>>,
              lst.pc # "file", lst'.pc # "file"
       PROVE  ~lst'.dedup => ListedAsRead'
  BY <1>10 DEF SameInv, ListedAsRead
<1>11. CASE UNCHANGED listVars
  <2>1. UNCHANGED <<stream, opt, rd, out, lst>>
    BY <1>11 DEF listVars
  <2>2. BufferWalk' /\ (~lst'.dedup => ListedAsRead')
    BY <1>9, <2>1 DEF SameInv, ListedAsRead
  <2> QED BY <1>1, <1>3, <1>5, <2>2 DEF SameInv
<1>12. CASE ReadNext
  <2>1. lst' = lst /\ lst.pc = "file" /\ ~Pending /\ ReaderNext
    BY <1>12 DEF ReadNext
  <2>2. BufferWalk'
    BY <1>9, <2>1
  <2>3. /\ Len(out) <= Len(out') /\ \A k \in 1 .. Len(out) : out'[k] = out[k]
        /\ Len(out') \in Nat
    <3>1. out' = out \/ out' = Append(out, msfp.pos)
      BY <2>1, OutGrows
    <3>2. CASE out' = out
      BY <1>7, <3>2
    <3>3. CASE out' = Append(out, msfp.pos)
      <4>1. msfp.pos \in Nat
        BY <1>1 DEF ReaderInv, ReaderTypeOK
      <4>2. /\ Len(Append(out, msfp.pos)) = Len(out) + 1
            /\ \A k \in 1 .. Len(out) : Append(out, msfp.pos)[k] = out[k]
        BY <1>7, <4>1, AppendProperties
      <4> QED BY <1>7, <3>3, <4>2
    <3> QED BY <3>1, <3>2, <3>3
  <2>4. ~lst.dedup => ListedAsRead'
    <3> SUFFICES ASSUME ~lst.dedup PROVE ListedAsRead'
      OBVIOUS
    <3>1. ListedAsRead /\ lst.fileret = "none"
      BY <1>8, <2>1 DEF SameInv
    <3>2. Len(lst.file) <= Len(out) /\ (\A k \in 1 .. Len(lst.file) : lst.file[k] = out[k]) /\ Len(lst.file) = Len(lst.seen)
      BY <2>1, <3>1 DEF ListedAsRead
    <3>3. Len(lst.file) <= Len(out') /\ \A k \in 1 .. Len(lst.file) : lst.file[k] = out'[k]
      BY <1>7, <2>3, <3>2
    <3> QED BY <2>1, <3>1, <3>2, <3>3 DEF ListedAsRead
  <2> QED BY <1>1, <1>3, <1>5, <2>1, <2>2, <2>4 DEF SameInv
<1>13. ASSUME Pending PROVE /\ lst.pc = "file" /\ lst.fileret = "none" /\ Len(out) = Len(lst.seen) + 1
                            /\ Last(out) = out[Len(lst.seen) + 1] /\ FileOffset = Last(out) /\ Last(out) \in Nat
  <2>1. lst.pc = "file" /\ Len(lst.seen) < Len(out)
    BY <1>13 DEF Pending
  <2>2. lst.fileret = "none" /\ Len(out) = Len(lst.seen) + 1
    BY <1>7, <1>8, <2>1
  <2>3. Last(out) = out[Len(lst.seen) + 1] /\ Last(out) \in Nat
    <3>1. Len(lst.seen) + 1 \in 1 .. Len(out)
      BY <1>7, <2>2
    <3> QED BY <1>7, <2>2, <3>1, ElementOfSeq DEF Last
  <2>4. FileOffset = Last(out)
    <3>1. msfp.pos \in Nat
      BY <1>1 DEF ReaderInv, ReaderTypeOK
    <3> QED BY <2>3, <3>1 DEF FileOffset, RecLen
  <2> QED BY <2>1, <2>2, <2>3, <2>4
<1>14. CASE AddRecord
  <2> DEFINE more == Append(lst.seen, Record)
             file == IF Skips THEN lst.file ELSE Append(lst.file, FileOffset)
  <2>1. Pending /\ lst' = [lst EXCEPT !.seen = more, !.file = file] /\ UNCHANGED readerVars
    BY <1>14 DEF AddRecord
  <2>2. UNCHANGED <<rd, out>>
    BY <2>1 DEF readerVars
  <2>3. Len(more) = Len(lst.seen) + 1
    <3>1. lst.seen \in Seq(S \cup {Record}) /\ Record \in S \cup {Record}
      BY <1>7
    <3> QED BY <3>1, AppendProperties
  <2> HIDE DEF more, file
  <2>4. /\ lst'.pc = lst.pc /\ lst'.dedup = lst.dedup /\ lst'.seen = more /\ lst'.file = file
        /\ lst'.fileret = lst.fileret /\ lst'.buffer = lst.buffer /\ lst'.offset = lst.offset
    BY <1>6, <2>1
  <2>5. lst.pc = "file" /\ lst.fileret = "none" /\ Len(out) = Len(lst.seen) + 1
        /\ FileOffset = out[Len(lst.seen) + 1] /\ FileOffset \in Nat
    BY <1>13, <2>1
  <2>6. BufferWalk'
    BY <1>9, <2>4, <2>5
  <2>7. ~lst'.dedup => ListedAsRead'
    <3> SUFFICES ASSUME ~lst.dedup PROVE ListedAsRead'
      BY <2>4
    <3>1. file = Append(lst.file, FileOffset)
      BY DEF Skips, file
    <3>2. (\A k \in 1 .. Len(lst.file) : lst.file[k] = out[k]) /\ Len(lst.file) = Len(lst.seen)
      BY <2>5 DEF SameInv, ListedAsRead
    <3> DEFINE n == Len(lst.file)
    <3>3. Len(file) = n + 1 /\ (\A k \in 1 .. n : file[k] = lst.file[k]) /\ file[n + 1] = FileOffset /\ n \in Nat
      BY <1>7, <2>5, <3>1, AppendProperties
    <3>4. \A k \in 1 .. n : lst.file[k] = out[k]
      BY <3>2
    <3>5. n = Len(lst.seen)
      BY <3>2
    <3> HIDE DEF n
    <3>6. ASSUME NEW k \in 1 .. n + 1 PROVE file[k] = out[k]
      <4>1. CASE k \in 1 .. n
        BY <3>3, <3>4, <4>1
      <4>2. CASE k = n + 1
        BY <2>5, <3>3, <3>5, <4>2
      <4> QED BY <3>3, <4>1, <4>2
    <3> QED BY <2>2, <2>3, <2>4, <2>5, <3>3, <3>5, <3>6 DEF ListedAsRead
  <2> QED BY <1>1, <1>3, <1>5, <2>6, <2>7 DEF SameInv
<1>15. CASE AddFails
  <2>1. Pending /\ UNCHANGED readerVars /\ lst' = [lst EXCEPT !.pc = "buffer", !.seen = Append(@, Record), !.fileret = "adderror"]
    BY <1>15 DEF AddFails
  <2>2. UNCHANGED <<rd, out>>
    BY <2>1 DEF readerVars
  <2>3. /\ lst'.pc = "buffer" /\ lst'.dedup = lst.dedup /\ lst'.file = lst.file
        /\ lst'.fileret = "adderror" /\ lst'.buffer = lst.buffer /\ lst'.offset = lst.offset
    BY <1>6, <2>1
  <2>4. BufferWalk'
    BY <1>9, <2>3
  <2>5. ~lst'.dedup => ListedAsRead'
    BY <2>2, <2>3 DEF SameInv, ListedAsRead
  <2> QED BY <1>1, <1>3, <1>5, <2>4, <2>5 DEF SameInv
<1>16. CASE FileRead
  <2> DEFINE ret == IF rd.ret = "eof" THEN "noerror" ELSE rd.ret
  <2>1. /\ lst.pc = "file" /\ ~Pending /\ rd.pc = "done" /\ UNCHANGED readerVars
        /\ lst' = [lst EXCEPT !.pc = "buffer", !.fileret = ret]
    BY <1>16 DEF FileRead
  <2>2. UNCHANGED <<rd, out>>
    BY <2>1 DEF readerVars
  <2>3. ret = "noerror" => rd.ret = "eof"
    BY <1>7 DEF CallType
  <2> HIDE DEF ret
  <2>4. /\ lst'.pc = "buffer" /\ lst'.dedup = lst.dedup /\ lst'.file = lst.file
        /\ lst'.fileret = ret /\ lst'.buffer = lst.buffer /\ lst'.offset = lst.offset
    BY <1>6, <2>1
  <2>5. BufferWalk'
    BY <1>9, <2>4
  <2>6. ~lst.dedup => lst.file = out
    <3> SUFFICES ASSUME ~lst.dedup PROVE lst.file = out
      OBVIOUS
    <3>1. (\A k \in 1 .. Len(lst.file) : lst.file[k] = out[k]) /\ Len(lst.file) = Len(lst.seen)
      BY <2>1 DEF SameInv, ListedAsRead
    <3>2. Len(lst.file) = Len(out)
      BY <1>7, <1>8, <2>1, <3>1 DEF Pending
    <3> QED BY <1>7, <3>1, <3>2, SeqEqual
  <2>7. ~lst'.dedup => ListedAsRead'
    BY <2>1, <2>2, <2>3, <2>4, <2>6 DEF SameInv, ListedAsRead
  <2> QED BY <1>1, <1>3, <1>5, <2>5, <2>7 DEF SameInv
<1>17. CASE AddFromBuffer
  <2>1. PICK r \in BufferParsing({"record"}) :
          BufferWants /\ lst' = [lst EXCEPT !.buffer = Append(@, lst.offset), !.offset = @ + r.n]
    BY <1>17 DEF AddFromBuffer
  <2>2. lst.pc = "buffer"
    BY DEF BufferParsing
  <2>3. /\ lst'.pc = "buffer" /\ lst'.dedup = lst.dedup /\ lst'.file = lst.file /\ lst'.fileret = lst.fileret
        /\ lst'.buffer = Append(lst.buffer, lst.offset) /\ lst'.offset = lst.offset + r.n
    BY <1>6, <2>1, <2>2
  <2>4. BufferWalk'
    BY <1>4, <2>1, <2>3, BufferStep DEF SameInv
  <2>5. UNCHANGED <<rd, out>>
    BY <1>17 DEF AddFromBuffer, readerVars
  <2> QED BY <1>1, <1>3, <1>5, <1>10, <2>2, <2>3, <2>4, <2>5 DEF SameInv
<1>18. CASE PassOver
  <2>1. PICK r \in BufferParsing({"record"}) : ~BufferWants /\ lst' = [lst EXCEPT !.offset = @ + r.n]
    BY <1>18 DEF PassOver
  <2>2. lst.pc = "buffer"
    BY DEF BufferParsing
  <2>3. /\ lst'.pc = "buffer" /\ lst'.dedup = lst.dedup /\ lst'.file = lst.file /\ lst'.fileret = lst.fileret
        /\ lst'.buffer = lst.buffer /\ lst'.offset = lst.offset + r.n
    BY <1>6, <2>1, <2>2
  <2>4. BufferWalk'
    BY <1>4, <2>1, <2>3, BufferStep DEF SameInv
  <2>5. UNCHANGED <<rd, out>>
    BY <1>18 DEF PassOver, readerVars
  <2> QED BY <1>1, <1>3, <1>5, <1>10, <2>2, <2>3, <2>4, <2>5 DEF SameInv
<1>19. ASSUME NEW ret, lst' = [lst EXCEPT !.pc = "done", !.bufret = ret], UNCHANGED readerVars, lst.pc = "buffer",
              ret = "noerror" =>
                ~IsRecord(stream, ~opt.select, lst.offset) \/ Len(stream) - lst.offset <= MinRecLen
       PROVE  SameInv'
  <2>1. /\ lst'.pc = "done" /\ lst'.dedup = lst.dedup /\ lst'.file = lst.file /\ lst'.fileret = lst.fileret
        /\ lst'.buffer = lst.buffer /\ lst'.offset = lst.offset /\ lst'.bufret = ret
    BY <1>6, <1>19
  <2>2. BufferWalk'
    BY <1>9, <1>19, <2>1
  <2>3. UNCHANGED <<rd, out>>
    BY <1>19 DEF readerVars
  <2> QED BY <1>1, <1>3, <1>5, <1>10, <1>19, <2>1, <2>2, <2>3 DEF SameInv
<1>20. CASE BufferFails
  <2>1. CASE \E r \in BufferParsing({"notseed", "outofrange", "error"}) : lst' = [lst EXCEPT !.pc = "done", !.bufret = r.how]
    <3>1. PICK r \in BufferParsing({"notseed", "outofrange", "error"}) : lst' = [lst EXCEPT !.pc = "done", !.bufret = r.how]
      BY <2>1
    <3>2. r.how # "noerror" /\ lst.pc = "buffer"
      BY DEF BufferParsing
    <3> QED BY <1>19, <1>20, <3>1, <3>2 DEF BufferFails
  <2>2. CASE /\ BufferParsing({"record"}) # {}
             /\ lst' = [lst EXCEPT !.pc = "done", !.bufret = IF Remaining[1].content = "baddata" THEN "error" ELSE "adderror"]
    <3>1. lst.pc = "buffer"
      BY <2>2 DEF BufferParsing
    <3> QED BY <1>19, <1>20, <2>2, <3>1 DEF BufferFails
  <2> QED BY <1>20, <2>1, <2>2 DEF BufferFails
<1>21. CASE BufferRead
  <2>1. lst.pc = "buffer" /\ lst' = [lst EXCEPT !.pc = "done", !.bufret = "noerror"] /\ UNCHANGED readerVars
    BY <1>21 DEF BufferRead
  <2>2. ListInv
    BY DEF SameInv
  <2>3. CASE ~Left
    <3>1. Len(stream) - lst.offset <= MinRecLen
      <4>1. ~(Len(stream) - lst.offset > MinRecLen) /\ Len(stream) \in Nat /\ lst.offset \in Nat /\ MinRecLen \in Nat
        BY <2>2, <2>3, RemainingIs, FormatAssumption
      <4> QED BY <4>1
    <3> QED BY <1>19, <2>1, <3>1
  <2>4. CASE BufferParsing({"need"}) # {}
    <3> DEFINE u == ~opt.select
    <3>1. PICK r \in Parse(Remaining, FALSE, u) : r.how = "need" /\ Left
      BY <2>4 DEF BufferParsing
    <3>2. Remaining = Behind(stream, lst.offset) /\ Remaining \in Seq(Cell) /\ Len(Remaining) > 0 /\ u \in BOOLEAN
      BY <2>2, <3>1, RemainingIs, BehindIs
    <3>3. ASSUME NEW q \in RecordsAt(stream, u, lst.offset) PROVE FALSE
      <4>1. q \in Parse(Remaining, FALSE, u) /\ q.how = "record"
        BY <3>2, <3>3 DEF RecordsAt
      <4> QED BY <3>1, <3>2, <4>1, NeedIsNoRecord
    <3>4. ~IsRecord(stream, u, lst.offset)
      BY <3>3 DEF IsRecord
    <3> QED BY <1>19, <2>1, <3>4
  <2> QED BY <1>21, <2>3, <2>4 DEF BufferRead
<1> QED BY <1>11, <1>12, <1>14, <1>15, <1>16, <1>17, <1>18, <1>20, <1>21 DEF ListNext

(* The invariant says enough. *)
LEMMA SameRecordsFollow == SameInv => SameRecordsListed
<1> SUFFICES ASSUME SameInv, lst.pc = "done", ~lst.dedup, ~opt.skip, opt.start = 0, opt.end = 0
             PROVE  /\ IsPrefix(lst.buffer, lst.file) \/ IsPrefix(lst.file, lst.buffer)
                    /\ lst.fileret = "noerror" /\ lst.bufret = "noerror" /\ lst.buffer # lst.file =>
                         /\ lst.file = Append(lst.buffer, lst.offset)
                         /\ Len(Remaining) = MinRecLen \/ Remaining[1].len = 0
  BY DEF SameRecordsListed
<1> DEFINE u == ~opt.select
           C == Chain(stream, u)
           X == Asked(stream, opt.select)
           x == lst.offset
           y == msfp.pos
           n == Len(stream)
           R(q) == IsRecord(stream, u, q)
<1>1. /\ stream \in Seq(Cell) /\ n \in Nat /\ x \in Nat /\ opt.select \in BOOLEAN /\ u \in BOOLEAN
      /\ Remaining = Behind(stream, x) /\ MinRecLen \in Nat \ {0}
  BY RemainingIs, FormatAssumption DEF SameInv
<1>2. lst.buffer \in Seq(Nat) /\ lst.file \in Seq(Nat) /\ out \in Seq(Nat)
  BY DEF SameInv, ListInv, ListTypes, ReaderInv, ReaderTypeOK
<1>3. ListedAsRead /\ BufferWalk /\ (Straight \/ AtTail)
  BY DEF SameInv, Plain
<1>4. C \in SUBSET Nat /\ X \in SUBSET C /\ X \in SUBSET Nat
  <2>1. C \in SUBSET Nat
    BY <1>1, ChainClosed
  <2> QED BY <2>1 DEF Asked
<1>5. /\ x \in C /\ UpTo(lst.buffer, X, x)
      /\ \A q \in C : q < x => R(q) /\ q + MinRecLen < n
      /\ lst.bufret = "noerror" => ~R(x) \/ n - x <= MinRecLen
  BY <1>3 DEF BufferWalk
<1>6. ASSUME AtTail
      PROVE  \E t \in C, s \in Seq(Nat) :
                /\ t < n /\ ~R(t) /\ (n - t = MinRecLen \/ stream[t + 1].len = 0)
                /\ \A q \in C : q < t => R(q)
                /\ UpTo(s, X, t) /\ out = IF t \in X THEN Append(s, t) ELSE s
  BY <1>6 DEF AtTail
<1>7. Enumerates(out, X)
  <2>1. CASE Straight
    BY <2>1 DEF Straight, UpTo
  <2>2. CASE AtTail
    <3>1. PICK t \in C, s \in Seq(Nat) : UpTo(s, X, t) /\ out = IF t \in X THEN Append(s, t) ELSE s
      BY <1>6, <2>2
    <3> HIDE DEF X
    <3>2. CASE t \in X
      BY <1>4, <3>1, <3>2, AppendEnumerates
    <3>3. CASE t \notin X
      BY <3>1, <3>3 DEF UpTo
    <3> QED BY <3>2, <3>3
  <2> QED BY <1>3, <2>1, <2>2
<1>8. IsPrefix(lst.buffer, lst.file) \/ IsPrefix(lst.file, lst.buffer)
  <2> HIDE DEF X
  <2>1. Enumerates(lst.buffer, X)
    BY <1>5 DEF UpTo
  <2>2. Len(lst.file) <= Len(out) /\ \A k \in 1 .. Len(lst.file) : lst.file[k] = out[k]
    BY <1>3 DEF ListedAsRead
  <2>3. Enumerates(lst.file, X)
    BY <1>2, <1>7, <2>2, PartEnumerates
  <2> QED BY <1>2, <1>4, <2>1, <2>3, OneIsPrefix
<1>9. ASSUME lst.fileret = "noerror", lst.bufret = "noerror", lst.buffer # lst.file
      PROVE  /\ lst.file = Append(lst.buffer, x)
             /\ Len(Remaining) = MinRecLen \/ Remaining[1].len = 0
  <2>1. lst.file = out /\ rd.pc = "done" /\ rd.ret = "eof"
    BY <1>3, <1>9 DEF ListedAsRead
  <2>2. ~R(x) \/ n - x <= MinRecLen
    BY <1>5, <1>9
  <2>3. ASSUME NEW z \in C, x < z, R(x)
        PROVE  /\ n - x = MinRecLen /\ n <= z /\ After(stream, u, x) = n
    <3> DEFINE a == After(stream, u, x)
    <3>1. a \in Nat /\ x + MinRecLen <= a /\ a <= n
      BY <1>1, <2>3, RecordAfter
    <3>2. a <= z
      BY <1>1, <1>5, <2>3, ChainGap
    <3>3. n - x <= MinRecLen /\ z \in Nat
      BY <1>4, <2>2, <2>3
    <3> HIDE DEF a, x, n
    <3>4. n - x = MinRecLen /\ n <= z /\ a = n
      BY <1>1, <3>1, <3>2, <3>3
    <3> QED BY <3>4 DEF a, x, n
  <2>4. ASSUME x < n PROVE Len(Remaining) = n - x /\ Remaining[1] = stream[x + 1]
    <3>1. 1 \in 1 .. n - x
      BY <1>1, <2>4
    <3> QED BY <1>1, <2>4, <3>1, BehindIs
  <2>5. CASE Straight
    <3>1. /\ y \in C /\ y <= n /\ UpTo(out, X, y) /\ ~R(y)
          /\ \A q \in C : q < y => R(q)
      BY <2>1, <2>5 DEF Straight
    <3>2. y \in Nat
      BY <1>4, <3>1
    <3>3. CASE y < x
      BY <1>5, <3>1, <3>3
    <3>4. CASE x = y
      <4> HIDE DEF X
      <4>1. lst.buffer = out
        BY <1>1, <1>2, <1>4, <1>5, <3>1, <3>4, UpToSame
      <4> QED BY <1>9, <2>1, <4>1
    <3>5. CASE x < y
      <4>1. R(x)
        BY <1>5, <3>1, <3>5
      <4>2. n - x = MinRecLen /\ n <= y /\ After(stream, u, x) = n
        BY <2>3, <3>1, <3>5, <4>1
      <4>3. y = n /\ x < n
        BY <1>1, <3>1, <3>2, <3>5, <4>2
      <4>4. Len(Remaining) = MinRecLen
        BY <2>4, <4>2, <4>3
      <4>5. /\ x \in X => Append(lst.buffer, x) \in Seq(Nat) /\ UpTo(Append(lst.buffer, x), X, n)
            /\ x \notin X => UpTo(lst.buffer, X, n)
        <5>1. \A q \in C : q < x => R(q)
          BY <1>5
        <5> DEFINE a == After(stream, u, x)
        <5>2. /\ x \in X => Append(lst.buffer, x) \in Seq(Nat) /\ UpTo(Append(lst.buffer, x), X, a)
              /\ x \notin X => UpTo(lst.buffer, X, a)
          <6>1. x \in C /\ UpTo(lst.buffer, X, x)
            BY <1>5
          <6> QED BY <1>1, <1>2, <4>1, <5>1, <6>1, ChainStep
        <5>3. a = n
          BY <4>2
        <5> HIDE DEF a, X, n
        <5> QED BY <5>2, <5>3
      <4>6. UpTo(out, X, n)
        BY <3>1, <4>3
      <4> HIDE DEF X
      <4>7. CASE x \in X
        <5>1. Append(lst.buffer, x) = out
          BY <1>1, <1>2, <1>4, <4>5, <4>6, <4>7, UpToSame
        <5> QED BY <2>1, <4>4, <5>1
      <4>8. CASE x \notin X
        <5>1. lst.buffer = out
          BY <1>1, <1>2, <1>4, <4>5, <4>6, <4>8, UpToSame
        <5> QED BY <1>9, <2>1, <5>1
      <4> QED BY <4>7, <4>8
    <3>6. y < x \/ x = y \/ x < y
      BY <1>1, <3>2
    <3> QED BY <3>3, <3>4, <3>5, <3>6
  <2>6. CASE AtTail
    <3>1. PICK t \in C, s \in Seq(Nat) :
            /\ t < n /\ ~R(t) /\ (n - t = MinRecLen \/ stream[t + 1].len = 0)
            /\ \A q \in C : q < t => R(q)
            /\ UpTo(s, X, t) /\ out = IF t \in X THEN Append(s, t) ELSE s
      BY <1>6, <2>6
    <3>2. t \in Nat
      BY <1>4
    <3>3. CASE t < x
      BY <1>5, <3>1, <3>3
    <3>4. CASE x < t
      <4>1. R(x)
        BY <1>5, <3>1, <3>4
      <4>2. n <= t
        BY <2>3, <3>4, <4>1
      <4> QED BY <1>1, <3>1, <3>2, <4>2
    <3>5. CASE x = t
      <4> HIDE DEF X
      <4>1. lst.buffer = s
        BY <1>1, <1>2, <1>4, <1>5, <3>1, <3>5, UpToSame
      <4>2. t \in X
        BY <1>9, <2>1, <3>1, <4>1
      <4>3. lst.file = Append(lst.buffer, x)
        BY <2>1, <3>1, <3>5, <4>1, <4>2
      <4> QED BY <2>4, <3>1, <3>5, <4>3
    <3>6. t < x \/ x < t \/ x = t
      BY <1>1, <3>2
    <3> QED BY <3>3, <3>4, <3>5, <3>6
  <2> QED BY <1>3, <2>5, <2>6
<1> QED BY <1>8, <1>9

(* It holds when reading starts. *)
LEMMA SameInvStarts == ListInit => SameInv
<1> SUFFICES ASSUME ListInit PROVE SameInv
  OBVIOUS
<1>1. ListInv /\ Steady
  BY ListInvStarts, InitKeepsPromise DEF ListInit
<1>2. PICK dedup \in BOOLEAN :
        lst = [pc |-> "file", dedup |-> dedup, seen |-> <<>>, file |-> <<>>,
               buffer |-> <<>>, offset |-> 0, fileret |-> "none", bufret |-> "none"]
  BY DEF ListInit
<1>3. out = <<>> /\ Len(out) = 0
  BY DEF ListInit, ReaderInit
<1>4. ListedAsRead
  BY <1>2, <1>3 DEF ListedAsRead
<1>5. stream \in Seq(Cell) /\ opt.select \in BOOLEAN
  BY <1>1, RemainingIs
<1>6. 0 \in Chain(stream, ~opt.select) /\ Chain(stream, ~opt.select) \in SUBSET Nat
  BY <1>5, ChainClosed
<1>7. \A q \in Chain(stream, ~opt.select) : ~(q < 0)
  BY <1>6
<1>8. Asked(stream, opt.select) \subseteq Chain(stream, ~opt.select)
  BY DEF Asked
<1>9. UpTo(<<>>, Asked(stream, opt.select), 0)
  BY <1>7, <1>8 DEF UpTo, Enumerates
<1>10. BufferWalk
  BY <1>2, <1>6, <1>7, <1>9 DEF BufferWalk
<1>11. Plain => Straight
  BY FileStarts DEF ListInit
<1> QED BY <1>1, <1>4, <1>10, <1>11 DEF SameInv

(* A caller who has the bytes in memory lists the same records as one who  *)
(* reads the same file from its start to its end, whatever the pieces in   *)
(* which it arrives: mstl3_readbuffer_selection() and                      *)
(* ms3_readtracelist_selection() differ in the last record at most, and    *)
(* only if it has MinRecLen bytes or if the end of the file tells its      *)
(* length.                                                                 *)
THEOREM SameRecordsAreListed == ListSpec => []SameRecordsListed
<1>1. ListInit => SameInv
  BY SameInvStarts
<1>2. SameInv /\ [ListNext]_listVars => SameInv'
  BY SameInvKept
<1>3. SameInv => SameRecordsListed
  BY SameRecordsFollow
<1> QED BY <1>1, <1>2, <1>3, PTL DEF ListSpec
=============================================================================
