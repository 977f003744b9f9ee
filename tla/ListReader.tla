----------------------------- MODULE ListReader -----------------------------
(***************************************************************************)
(* Reading all records of a stream into a trace list: with                 *)
(* ms3_readtracelist_selection() (fileutils.c), which calls the reader of  *)
(* StreamReader until there is no record, and with                         *)
(* mstl3_readbuffer_selection() (tracelist.c), which has all of the bytes  *)
(* in memory.  Both are done here, one after the other, on the same bytes, *)
(* and the positions that the record list gets from each are kept.         *)
(***************************************************************************)
EXTENDS StreamReader

(* Definitions named Bad... are faulty variants of the one that follows:   *)
(* mistakes the properties are known to notice.                            *)

VARIABLE
  lst   \* pc     - which of the two is at work
        \* dedup  - MSF_SKIPADJACENTDUPLICATES
        \* seen   - the reader's records that were looked at; the checksum of
        \*          the last one is previous_crc
        \* file   - fileoffset of the records added from the file
        \* buffer - offsets of the records added from the buffer
        \* offset - offset in the buffer
        \* fileret, bufret - what they return

listVars == <<stream, opt, io, msfp, rd, out, lst>>

-----------------------------------------------------------------------------
(* ms3_readtracelist_selection()                                           *)

(* The record that was read last, behind which the reader is now.          *)
RecLen == msfp.pos - Last(out)
Record == SubSeq(stream, Last(out) + 1, msfp.pos)

BadFileOffset == msfp.pos
FileOffset == msfp.pos - RecLen

Pending == lst.pc = "file" /\ Len(lst.seen) < Len(out)

ReadNext ==
  /\ lst.pc = "file" /\ ~Pending
  /\ ReaderNext
  /\ UNCHANGED lst

Skips == lst.dedup /\ lst.seen # <<>> /\ Last(lst.seen) = Record

(* A record is added, or is the one before once more. *)
AddRecord ==
  /\ Pending
  /\ lst' = [lst EXCEPT !.seen = Append(@, Record), !.file = IF Skips THEN @ ELSE Append(@, FileOffset)]
  /\ UNCHANGED readerVars

(* mstl3_addmsr() fails.                                                   *)
AddFails ==
  /\ Pending /\ ~Skips
  /\ lst' = [lst EXCEPT !.pc = "buffer", !.seen = Append(@, Record), !.fileret = "adderror"]
  /\ UNCHANGED readerVars

FileRead ==
  /\ lst.pc = "file" /\ ~Pending /\ rd.pc = "done"
  /\ lst' = [lst EXCEPT !.pc = "buffer", !.fileret = IF rd.ret = "eof" THEN "noerror" ELSE rd.ret]
  /\ UNCHANGED readerVars

-----------------------------------------------------------------------------
(* mstl3_readbuffer_selection(): a turn of its loop.                       *)

Remaining == SubSeq(stream, lst.offset + 1, Len(stream))

Left == Len(Remaining) > MinRecLen

BufferParsing(how) ==
  IF lst.pc = "buffer" /\ Left THEN {r \in Parse(Remaining, FALSE, ~opt.select) : r.how \in how} ELSE {}
BadBufferWants == TRUE
BufferWants == ~opt.select \/ Remaining[1].selected

AddFromBuffer ==
  /\ \E r \in BufferParsing({"record"}) :
       /\ BufferWants /\ Remaining[1].content = "good"
       /\ lst' = [lst EXCEPT !.buffer = Append(@, lst.offset), !.offset = @ + r.n]
  /\ UNCHANGED readerVars

PassOver ==
  /\ \E r \in BufferParsing({"record"}) : ~BufferWants /\ lst' = [lst EXCEPT !.offset = @ + r.n]
  /\ UNCHANGED readerVars

(* An error of the parser, or of the decoding that selections defer, or of *)
(* adding the record. *)
BufferFails ==
  /\ \/ \E r \in BufferParsing({"notseed", "outofrange", "error"}) : lst' = [lst EXCEPT !.pc = "done", !.bufret = r.how]
     \/ /\ BufferParsing({"record"}) # {} /\ BufferWants
        /\ lst' = [lst EXCEPT !.pc = "done", !.bufret = IF Remaining[1].content = "baddata" THEN "error" ELSE "adderror"]
  /\ UNCHANGED readerVars

BufferRead ==
  /\ lst.pc = "buffer" /\ (~Left \/ BufferParsing({"need"}) # {})
  /\ lst' = [lst EXCEPT !.pc = "done", !.bufret = "noerror"]
  /\ UNCHANGED readerVars

ListInit ==
  /\ ReaderInit
  /\ \E dedup \in BOOLEAN :
       /\ dedup => opt.chunk = 0
       /\ lst = [pc |-> "file", dedup |-> dedup, seen |-> <<>>, file |-> <<>>,
                 buffer |-> <<>>, offset |-> 0, fileret |-> "none", bufret |-> "none"]

ListNext ==
  \/ ReadNext \/ AddRecord \/ AddFails \/ FileRead
  \/ AddFromBuffer \/ PassOver \/ BufferFails \/ BufferRead

(* Each function goes on until it returns. *)
ListSpec == ListInit /\ [][ListNext]_listVars /\ WF_listVars(ListNext)

-----------------------------------------------------------------------------
(* Properties.                                                             *)

(* Every record that the reader returned is in the trace list once, with   *)
(* the position it has in the file, except those that repeat the one       *)
(* before when these are not wanted, and one that could not be added.      *)
ListedOnce ==
  LET Repeats(k) == k > 1 /\ lst.seen[k] = lst.seen[k - 1]
      Kept == {k \in DOMAIN lst.seen : ~(lst.dedup /\ Repeats(k))}
      Added == IF lst.fileret = "adderror" THEN Kept \ {Len(lst.seen)} ELSE Kept
  IN  /\ Len(lst.file) = Cardinality(Added)
      /\ \A k \in Added : lst.file[Cardinality({j \in Added : j <= k})] = out[k]

(* A caller who has the bytes in memory gets the trace list that one who   *)
(* reads the same bytes from a file or URL gets.  The one difference when  *)
(* neither fails is the very last record: mstl3_readbuffer() does not take *)
(* one of MINRECLEN bytes, or one whose length only the end of the file    *)
(* tells.  If one fails, the records before the failure are the same.      *)
SameRecordsListed ==
  lst.pc = "done" /\ ~lst.dedup /\ ~opt.skip /\ opt.start = 0 /\ opt.end = 0 =>
    /\ IsPrefix(lst.buffer, lst.file) \/ IsPrefix(lst.file, lst.buffer)
    /\ lst.fileret = "noerror" /\ lst.bufret = "noerror" /\ lst.buffer # lst.file =>
         /\ lst.file = Append(lst.buffer, lst.offset)
         /\ Len(Remaining) = MinRecLen \/ Remaining[1].len = 0

(* Both return. *)
ListingEnds == <>(lst.pc = "done")
=============================================================================
