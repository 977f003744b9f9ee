---------------------------- MODULE ExtraHeaders ----------------------------
(***************************************************************************)
(* Reading and changing extra headers (extraheaders.c).  The headers of a  *)
(* record are a JSON text; a parse state keeps them parsed between calls,  *)
(* as a document that is read, one that is changed, or both.  A document   *)
(* is [there, root, at]: there is FALSE for a null pointer, root FALSE if  *)
(* it has no root value yet, at maps the paths of its values to them.      *)
(* Objects are the prefixes of paths, empty ones values of type "o".  A    *)
(* value is [t, n, list]: its type as mseh_get_ptr_type() names it, a      *)
(* number that stands for it, and the entries of an array.                 *)
(***************************************************************************)
EXTENDS Integers, Sequences, SequencesExt, FiniteSets

CONSTANTS
  Pointers,    \* JSON pointers that are used
  Scalars,     \* [t, n] of the values that are set
  Patches,     \* <<pointer, merge patch>>, functions from paths of at most
               \* two members to values or Null
  Structs,     \* <<kind, structure>> that entries are made of
  Originals,   \* the headers that records come with
  MaxExtra,    \* UINT16_MAX, the longest text
  MaxEntries   \* bound on the entries of an array

VARIABLES
  extra,    \* the text: [kind, doc], kind "none", "json" or "bad"
  state,    \* the parse state of the caller: [live, doc, mut]
  last,     \* the last call: [op, ret, ptr, val]
  said      \* the document that the caller was told there is

extraVars == <<extra, state, last, said>>

NullDoc == [there |-> FALSE, root |-> FALSE, at |-> <<>>]
NewDoc == [there |-> TRUE, root |-> FALSE, at |-> <<>>]
Doc(at) == [there |-> TRUE, root |-> TRUE, at |-> at]
NoExtra == [kind |-> "none", doc |-> NullDoc]
InvalidExtra == [kind |-> "bad", doc |-> NullDoc]
NoState == [live |-> FALSE, doc |-> NullDoc, mut |-> NullDoc]
Scalar(t, n) == [t |-> t, n |-> n, list |-> <<>>]
Null == Scalar("null", 0)
Empty == Scalar("o", 0)
ArrayOf(entries) == [t |-> "a", n |-> 0, list |-> entries]

(* The members of an entry with a value, and the values of a document.     *)
Entry == SUBSET (STRING \X Int)
Value == [t : {"null", "b", "u", "i", "n", "s", "a", "o"}, n : Int, list : Seq(Entry)]

Told(op, ret) == [op |-> op, ret |-> ret, ptr |-> <<>>, val |-> Null]
GetCall(ptr, ret, val) == [op |-> "get", ret |-> ret, ptr |-> ptr, val |-> val]

-----------------------------------------------------------------------------
(* Documents, as the JSON library handles them.                            *)

Below(ptr, path) == ptr # path /\ IsPrefix(ptr, path)

(* Setting creates the objects on the way, but does not replace a value    *)
(* that is no object.                                                      *)
PtrSet(d, ptr, v) ==
  LET kept == {p \in DOMAIN d.at : ~IsPrefix(ptr, p) /\ ~IsPrefix(p, ptr)}
  IN  IF \E p \in DOMAIN d.at : Below(p, ptr) /\ d.at[p] # Empty THEN [ok |-> FALSE, d |-> d]
      ELSE [ok |-> TRUE, d |-> Doc([p \in kept \cup {ptr} |-> IF p = ptr THEN v ELSE d.at[p]])]

PtrType(d, ptr) ==
  CASE ptr \in DOMAIN d.at -> d.at[ptr].t
    [] ptr \notin DOMAIN d.at /\ \E p \in DOMAIN d.at : Below(ptr, p) -> "o"
    [] OTHER -> "none"

PtrAppend(d, ptr, entry) ==
  CASE PtrType(d, ptr) = "none" -> PtrSet(d, ptr, ArrayOf(<<entry>>))
    [] PtrType(d, ptr) = "a" -> [ok |-> TRUE, d |-> Doc([d.at EXCEPT ![ptr].list = Append(d.at[ptr].list, entry)])]
    [] OTHER -> [ok |-> FALSE, d |-> d]

(* A merge patch at a value that exists, or at the root: members of the    *)
(* patch replace those of the document, null removes them, and what has    *)
(* members in the patch is an object afterwards, if only an empty one.     *)
PtrMerge(d, ptr, patch) ==
  LET set == {ptr \o q : q \in {r \in DOMAIN patch : patch[r] # Null}}
      objects == {ptr \o SubSeq(q, 1, n) : q \in DOMAIN patch, n \in 0..1} \ ({ptr \o q : q \in DOMAIN patch} \cup {<<>>})
      kept == {p \in DOMAIN d.at : ~\E q \in DOMAIN patch : IsPrefix(ptr \o q, p) \/ IsPrefix(p, ptr \o q)}
      empty == {p \in objects : ~\E q \in set \cup kept : Below(p, q)}
      value(p) == CASE p \in set -> patch[SubSeq(p, Len(ptr) + 1, Len(p))] [] p \in kept \ set -> d.at[p] [] OTHER -> Empty
  IN  IF ptr # <<>> /\ PtrType(d, ptr) = "none" THEN [ok |-> FALSE, d |-> d]
      ELSE [ok |-> TRUE, d |-> Doc([p \in set \cup empty \cup kept |-> value(p)])]

(* The text of a document: real numbers lose precision, and a signed       *)
(* number that is not negative reads as an unsigned one.                   *)
WrittenValue(v) ==
  CASE v.t = "n" -> [v EXCEPT !.n = 2 * (@ \div 2)]
    [] v.t = "i" /\ v.n >= 0 -> [v EXCEPT !.t = "u"]
    [] OTHER -> v
Written(d) == Doc([p \in DOMAIN d.at |-> WrittenValue(d.at[p])])
TextLength(d) == SumFunction([p \in DOMAIN d.at |-> 1 + Len(d.at[p].list)])
Fits(d) == TextLength(d) <= MaxExtra

Readable(v, type) ==
  CASE type = "i" -> v.t \in {"u", "i"}
    [] type = "n" -> v.t \in {"u", "i", "n"}
    [] OTHER -> v.t = type

-----------------------------------------------------------------------------
(* The parse state.                                                        *)

(* parse_json() for a caller without a parse state.                        *)
parse_json(e) == [live |-> e.kind # "bad", doc |-> IF e.kind = "json" THEN e.doc ELSE NullDoc, mut |-> NullDoc]

(* The document to read is made of the changed one if there is none.       *)
Current(s) == IF s.mut.there /\ ~s.doc.there THEN [s EXCEPT !.doc = IF s.mut.root THEN s.mut ELSE NullDoc] ELSE s

(* The document to change is made of the one to read, or empty.            *)
Changeable(s) ==
  IF s.mut.there THEN s ELSE [s EXCEPT !.mut = IF s.doc.there THEN s.doc ELSE NewDoc]

(* What a change leaves of the parse state: the document to read is out of *)
(* date.                                                                   *)
BadAfterSet(s, r) == [s EXCEPT !.mut = r.d]
AfterSet(s, r) == [live |-> s.live, doc |-> IF r.ok THEN NullDoc ELSE s.doc, mut |-> r.d]

(* mseh_serialize(): the headers, and whether it failed.                   *)
mseh_serialize(e, s) ==
  CASE ~s.live \/ ~s.mut.there -> [ok |-> TRUE, extra |-> e]
    [] s.live /\ s.mut.there /\ (~s.mut.root \/ ~Fits(s.mut)) -> [ok |-> FALSE, extra |-> e]
    [] OTHER -> [ok |-> TRUE, extra |-> [kind |-> "json", doc |-> Written(s.mut)]]

ExtraInit ==
  /\ extra \in {e \in Originals : Fits(e.doc)} \cup {NoExtra, InvalidExtra}
  /\ state = NoState
  /\ said = IF extra.kind = "json" THEN extra.doc ELSE NewDoc
  /\ last = Told("none", 0)

(* mseh_get_ptr_type() and mseh_get_ptr_r(), with or without the parse     *)
(* state.  Without headers in the record there is nothing to find, whatever*)
(* the parse state holds.                                                  *)
mseh_get_ptr_r(ptr, type, via) ==
  LET old == IF via /\ state.live THEN state ELSE parse_json(extra)
      s == Current(old)
      v == IF ptr \in DOMAIN s.doc.at THEN s.doc.at[ptr] ELSE Null
      found == PtrType(s.doc, ptr)
  IN  /\ \/ /\ extra.kind = "none"
            /\ last' = GetCall(ptr, 1, Null)
            /\ UNCHANGED state
         \/ /\ extra.kind # "none" /\ ~(s.live /\ s.doc.there)
            /\ last' = GetCall(ptr, -1, Null)
            /\ UNCHANGED state
         \/ /\ extra.kind # "none" /\ s.live /\ s.doc.there
            /\ last' = GetCall(ptr, CASE found = "none" -> 1 [] found # "none" /\ ~Readable(v, type) -> 2 [] OTHER -> 0, v)
            /\ state' = IF via THEN s ELSE state
      /\ UNCHANGED <<extra, said>>

(* The document after a change, and whether it could be made.              *)
Applied(d, change) ==
  CASE change.op = "set" -> PtrSet(d, change.ptr, change.v)
    [] change.op = "merge" -> PtrMerge(d, change.ptr, change.v)
    [] change.op = "add" -> PtrAppend(d, change.ptr, change.v)
    [] change.op = "invalid" -> [ok |-> FALSE, d |-> d]

(* A change of the document: mseh_set_ptr_r() of each of its value types.  *)
(* Without a parse state the headers are serialized at once, and whether   *)
(* that failed is not told.                                                *)
Change(change, via) ==
  LET old == IF via /\ state.live THEN state ELSE parse_json(extra)
      s == Changeable(old)
      r == Applied(s.mut, change)
      text == mseh_serialize(extra, AfterSet(s, r))
  IN  \/ /\ ~old.live
         /\ last' = Told(change.op, -1)
         /\ UNCHANGED <<extra, state, said>>
      \/ /\ old.live
         /\ last' = Told(change.op, IF r.ok THEN 0 ELSE -1)
         /\ extra' = IF via THEN extra ELSE text.extra
         /\ state' = IF via THEN AfterSet(s, r) ELSE state
         /\ said' = IF r.ok /\ (via \/ text.ok) THEN Applied(said, change).d ELSE said

SetValue(ptr, v, via) == Change([op |-> "set", ptr |-> ptr, v |-> v], via)
MergePatch(ptr, patch, via) == Change([op |-> "merge", ptr |-> ptr, v |-> patch], via)
InvalidPatch(via) == Change([op |-> "invalid"], via)

(* Members of an entry that are not marked as not included: texts that are *)
(* empty, numbers that are zero or negative, times that are unset.         *)
Unset == -1
InvalidTime == -2
Included(kind, v) == IF kind \in {"text", "real", "count"} THEN v # 0 ELSE v # Unset
Members(fields, s) == {<<x, s[x]>> : x \in {y \in DOMAIN fields : Included(fields[y], s[y])}}

EventDetection == [Type |-> "text", Detector |-> "text", SignalAmplitude |-> "real", SignalPeriod |-> "real", BackgroundEstimate |-> "real",
                   Wave |-> "text", Units |-> "text", OnsetTime |-> "time", MEDSNR |-> "real", MEDLookback |-> "int", MEDPickAlgorithm |-> "int"]
CalibrationEntry == [Type |-> "text", BeginTime |-> "time", EndTime |-> "time", Steps |-> "int", StepFirstPulsePositive |-> "int",
                     StepAlternateSign |-> "int", Trigger |-> "text", Continued |-> "int", Amplitude |-> "real", InputUnits |-> "text",
                     AmplitudeRange |-> "text", Duration |-> "real", SinePeriod |-> "real", StepBetween |-> "real", InputChannel |-> "text",
                     ReferenceAmplitude |-> "real", Coupling |-> "text", Rolloff |-> "text", Noise |-> "text"]
TimingException == [Time |-> "time", VCOCorrection |-> "int", ReceptionQuality |-> "int", Count |-> "count", Type |-> "text", ClockStatus |-> "text"]
RecenterEntry == [Type |-> "text", BeginTime |-> "time", EndTime |-> "time", Trigger |-> "text"]
EntryFields == [detection |-> EventDetection, calibration |-> CalibrationEntry, exception |-> TimingException, recenter |-> RecenterEntry]

(* mseh_add_event_detection_r() and the others: an entry is appended to an *)
(* array, unless one of its times cannot be written.                       *)
AddEntry(kind, s, ptr, via) ==
  /\ ptr \in DOMAIN state.mut.at => Len(state.mut.at[ptr].list) < MaxEntries
  /\ \/ /\ \E x \in DOMAIN s : EntryFields[kind][x] = "time" /\ s[x] = InvalidTime
        /\ last' = Told("add", -1)
        /\ UNCHANGED <<extra, state, said>>
     \/ /\ ~\E x \in DOMAIN s : EntryFields[kind][x] = "time" /\ s[x] = InvalidTime
        /\ Change([op |-> "add", ptr |-> ptr, v |-> Members(EntryFields[kind], s)], via)

Serialize ==
  LET text == mseh_serialize(extra, state)
  IN  /\ extra' = text.extra
      /\ last' = Told("serialize", IF text.ok THEN 0 ELSE -1)
      /\ UNCHANGED <<state, said>>

(* mseh_free_parsestate(): what was not serialized is given up.            *)
mseh_free_parsestate ==
  /\ state.live
  /\ state' = NoState
  /\ said' = IF extra.kind = "json" THEN extra.doc ELSE NewDoc
  /\ last' = Told("free", 0)
  /\ UNCHANGED extra

(* mseh_replace() with a text, one that does not parse, or none.           *)
mseh_replace(e) ==
  /\ ~state.live
  /\ LET refused == e.kind = "bad" \/ (e.kind = "json" /\ ~Fits(e.doc))
     IN  /\ extra' = IF refused THEN extra ELSE e
         /\ said' = IF refused THEN said ELSE IF e.kind = "json" THEN e.doc ELSE NewDoc
         /\ last' = Told("replace", IF refused THEN -1 ELSE 0)
  /\ UNCHANGED state

Path == Seq(STRING)
Tree(at) == at = [p \in DOMAIN at |-> at[p]] /\ \A p \in DOMAIN at : p \in Path /\ at[p] \in Value
MergeTree(patch) == Tree(patch) /\ \A q \in DOMAIN patch : Len(q) \in 1..2

(* What callers give: pointers are paths, values have the types above, and *)
(* a text that records come with has a value at its root.                  *)
ASSUME ExtraAssumption ==
  /\ Pointers \subseteq Path
  /\ \A v \in Scalars : Scalar(v[1], v[2]) \in Value
  /\ \A patch \in Patches : patch[1] \in Path /\ MergeTree(patch[2])
  /\ \A s \in Structs : Members(EntryFields[s[1]], s[2]) \in Entry
  /\ \A e \in Originals : e.kind = "json" /\ e.doc = Doc(e.doc.at) /\ e = [kind |-> e.kind, doc |-> e.doc] /\ Tree(e.doc.at)

(* A caller that has a parse state uses it until it is freed, as the       *)
(* documentation of mseh_replace() asks.                                   *)
ExtraNext ==
  \/ \E via \in BOOLEAN, ptr \in Pointers :
       /\ via \/ ~state.live
       /\ \/ \E type \in {"u", "i", "n", "s", "b"} : mseh_get_ptr_r(ptr, type, via)
          \/ \E v \in Scalars : SetValue(ptr, Scalar(v[1], v[2]), via)
          \/ \E s \in Structs : AddEntry(s[1], s[2], ptr, via)
  \/ \E via \in BOOLEAN :
       /\ via \/ ~state.live
       /\ \/ \E p \in Patches : MergePatch(p[1], p[2], via)
          \/ InvalidPatch(via)
  \/ Serialize \/ mseh_free_parsestate
  \/ \E e \in Originals \cup {NoExtra, InvalidExtra} : mseh_replace(e)

ExtraSpec == ExtraInit /\ [][ExtraNext]_extraVars

-----------------------------------------------------------------------------
(* What is read through a parse state is what was set through it last,     *)
(* changed or not, serialized or not; a copy that is out of date is never  *)
(* used.  (Without headers in the record nothing is read at all.)          *)
ReadsSeeWrites ==
  /\ state.doc.there /\ state.mut.there => state.doc.at = state.mut.at
  /\ last.op = "get" /\ last.ret \in {0, 2} =>
       WrittenValue(last.val) = (IF last.ptr \in DOMAIN said.at THEN WrittenValue(said.at[last.ptr]) ELSE Null)
  /\ last.op = "get" /\ last.ret = 1 /\ extra.kind # "none" => PtrType(said, last.ptr) = "none"

(* When no parse state is left, and after every successful call of         *)
(* mseh_serialize(), the text of the record has what the caller was told   *)
(* was set, in the precision that is written; a call that fails leaves the *)
(* text as it was.                                                         *)
PublishedAsSaid ==
  /\ extra.kind = "json" /\ ~state.live => Written(said) = Written(extra.doc)
  /\ last.op = "serialize" /\ last.ret = 0 /\ state.live /\ state.mut.there => extra.doc = Written(said)
  /\ extra.kind = "json" => Fits(extra.doc)

(* What a caller sets through a parse state is what it reads, and what is  *)
(* in the record once it is serialized.                                    *)
HeadersKept == ReadsSeeWrites /\ PublishedAsSaid
=============================================================================
