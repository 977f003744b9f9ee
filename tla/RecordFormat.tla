---------------------------- MODULE RecordFormat ----------------------------
(***************************************************************************)
(* What msr3_parse() finds at the start of a buffer (parseutils.c).        *)
(*                                                                         *)
(* A stream of bytes is a sequence of cells.  The cell in which a record   *)
(* header starts carries what the header says; all others are "none":      *)
(* the rest of a record, or bytes that are no miniSEED at all.             *)
(***************************************************************************)
EXTENDS Integers, Sequences, FiniteSets, SequencesExt

CONSTANTS
  MinRecLen,   \* MINRECLEN
  MaxRecLen,   \* MAXRECLEN
  FixedLen,    \* bytes of the fixed section of a 2.x header (48)
  BlktLen,     \* bytes of a blockette 1000 behind it (8)
  ScanStep     \* where the header of the next 2.x record can be (64)

(*   len      - record length, 0 for a 2.x record without blockette 1000;  *)
(*   content  - "good", "badheader" (a bad CRC, an inconsistent header) or *)
(*              "baddata" (samples that cannot be decoded);                *)
(*   selected - the record matches the caller's selections.                *)
Cell ==
  [hdr : {"none", "v2", "v3"}, len : Nat, content : {"good", "badheader", "baddata"},
   selected : BOOLEAN]

IsPowerOf2(n) == \E k \in 0 .. n : 2 ^ k = n

ASSUME FormatAssumption ==
  /\ MinRecLen \in Nat \ {0} /\ MaxRecLen \in Nat /\ ScanStep \in Nat \ {0}
  /\ FixedLen \in Nat /\ BlktLen \in Nat
  /\ MinRecLen < FixedLen /\ FixedLen + BlktLen <= ScanStep /\ ScanStep + MinRecLen <= MaxRecLen
  /\ \A n \in 1 .. MaxRecLen : IsPowerOf2(n) => n + MinRecLen <= MaxRecLen
  /\ \A n \in MinRecLen + 1 .. FixedLen + BlktLen - 1 : ~IsPowerOf2(n)

(* Offsets of further 2.x headers in the buffer. *)
NextHeaders(buf) ==
  {offset \in 1 .. Len(buf) - 1 :
     offset % ScanStep = 0 /\ offset + FixedLen < Len(buf) /\ buf[offset + 1].hdr = "v2"}

(* ms3_detect(): the record length, 0 if unknown, -1 if this is no record. *)
(* A blockette 1000 that is only partly in the buffer is not used, but the *)
(* offset of the blockette behind it is taken from bytes that were not     *)
(* read: these can be anything, also an offset that makes it give up.      *)
Detect(buf) ==
  LET missing == IF buf[1].len > 0 THEN FixedLen + BlktLen - Len(buf) ELSE FixedLen - Len(buf)
      next    == NextHeaders(buf)
  IN  IF buf[1].hdr = "none" THEN {-1}
      ELSE IF buf[1].hdr = "v2" /\ missing > 0
      THEN IF Len(buf) >= FixedLen THEN {0, -1} ELSE {0}
      ELSE IF buf[1].len > 0 THEN {buf[1].len}
      ELSE IF next = {} THEN {0}
      ELSE {CHOOSE offset \in next : \A other \in next : offset <= other}

(* At the end of the file a 2.x record of unknown length is taken to reach *)
(* up to it if that makes its length a power of two.                       *)
RecordLengths(buf, ateof) ==
  {IF buf[1].hdr = "v2" /\ len = 0 /\ ateof /\ IsPowerOf2(Len(buf)) /\ Len(buf) <= MaxRecLen
   THEN Len(buf) ELSE len : len \in Detect(buf)}

Outcome(how, n) == [how |-> how, n |-> n]

(* What msr3_parse() returns for a record of that length: the record, a    *)
(* hint at the number of bytes missing, or an error.                       *)
ParseAs(buf, len, unpack) ==
  IF len < 0 THEN Outcome("notseed", 0)
  ELSE IF len = 0 THEN Outcome("need", MinRecLen)
  ELSE IF len < MinRecLen \/ len > MaxRecLen THEN Outcome("outofrange", 0)
  ELSE IF len > Len(buf) THEN Outcome("need", len - Len(buf))
  ELSE IF buf[1].content = "badheader" \/ (unpack /\ buf[1].content = "baddata")
  THEN Outcome("error", 0)
  ELSE Outcome("record", len)

Parse(buf, ateof, unpack) == {ParseAs(buf, len, unpack) : len \in RecordLengths(buf, ateof)}
=============================================================================
