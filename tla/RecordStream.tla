---------------------------- MODULE RecordStream ----------------------------
(***************************************************************************)
(* What reading a stream with ms3_readmsr_selection() promises, whatever   *)
(* the pieces in which the bytes arrive and however they are buffered: the *)
(* records are found one behind the other at the read position, the first  *)
(* MaxRecLen bytes from there deciding what is found.                      *)
(***************************************************************************)
EXTENDS RecordFormat

VARIABLES
  stream,   \* the bytes of the file or URL
  opt,      \* how it is read: skip, select, start, end and chunk
  pos,      \* the read position
  out,      \* positions of the records returned
  status,   \* "reading", or why reading ended
  torn      \* what else can be said of the bytes because the reader does not
            \* have enough of them when it decides

streamVars == <<stream, opt, pos, out, status>>

Rest   == SubSeq(stream, pos + 1, Len(stream))
Ahead  == SubSeq(stream, pos + 1, IF Len(Rest) > MaxRecLen THEN pos + MaxRecLen ELSE Len(stream))
Found  == IF Len(Rest) < MinRecLen THEN {}
          ELSE Parse(Ahead, Len(Rest) <= MaxRecLen, ~opt.select)

RangeEnded == opt.end > 0 /\ opt.end + 1 - pos < MinRecLen

StreamInit ==
  /\ pos = opt.start
  /\ out = <<>>
  /\ status = "reading"

Wanted == ~opt.select \/ stream[pos + 1].selected

(* A wanted record is returned and an unwanted one passed over. *)
Deliver ==
  /\ ~RangeEnded
  /\ \E r \in Found :
       /\ r.how = "record"
       /\ pos' = pos + r.n
       /\ \/ Wanted /\ stream[pos + 1].content # "baddata" /\ out' = Append(out, pos)
          \/ ~Wanted /\ UNCHANGED out
  /\ UNCHANGED <<stream, opt, status>>

(* What is no record is skipped, a byte at a time, if the caller says so.  *)
(* A record that is torn can be taken for no record.                       *)
NoRecord ==
  {r \in Found : \/ r.how \in {"notseed", "outofrange", "error"}
                 \/ r.how = "need" /\ Len(Ahead) + r.n > MaxRecLen}
  \cup {Outcome(how, 0) : how \in torn}

SkipByte ==
  /\ opt.skip /\ ~RangeEnded /\ NoRecord # {}
  /\ pos' = pos + 1
  /\ UNCHANGED <<stream, opt, out, status>>

StopAtError ==
  /\ ~RangeEnded
  /\ \/ /\ ~opt.skip
        /\ \E r \in NoRecord : status' = IF r.how = "need" THEN "outofrange" ELSE r.how
     \/ /\ \E r \in Found : r.how = "record" /\ Wanted /\ stream[pos + 1].content = "baddata"
        /\ status' = "error"
  /\ UNCHANGED <<stream, opt, pos, out>>

(* The range, or the stream but for a truncated record, is read. *)
StopAtEnd ==
  /\ \/ RangeEnded /\ status' = "eof"
     \/ Len(Rest) < MinRecLen /\ status' = IF out = <<>> THEN "notseed" ELSE "eof"
     \/ /\ \E r \in Found \ NoRecord : r.how = "need"
        /\ status' = "eof"
  /\ UNCHANGED <<stream, opt, pos, out>>

(* Only reading from a URL can fail on the way. *)
StopAtReadError ==
  /\ opt.chunk > 0
  /\ status' = "error"
  /\ UNCHANGED <<stream, opt, pos, out>>

StreamNext ==
  status = "reading" /\ (Deliver \/ SkipByte \/ StopAtError \/ StopAtEnd \/ StopAtReadError)

StreamSpec == StreamInit /\ [][StreamNext]_streamVars
=============================================================================
