------------------------------ MODULE Selection -----------------------------
(***************************************************************************)
(* Data selections (selection.c): a list of source identifier patterns,    *)
(* each with a publication version and a list of time windows, built by    *)
(* the caller or from a file, and matched with the records that are read.  *)
(***************************************************************************)
EXTENDS GlobPattern, SourceId, FiniteSets

CONSTANTS
  Entries,      \* selections added by pattern: <<pattern, start, end, pubversion>>
  Components,   \* selections added by codes: <<net, sta, loc, chan>>
  SelFiles,     \* selection files: sequences of lines, a line a sequence of fields
  Queries,      \* data to match: <<sid, start, end, pubversion>>
  MaxAdded      \* bound on the number of windows that still allows to add

VARIABLES
  sels,    \* MS3Selections: records of pattern, pub and windows, latest first
  added,   \* history: the entries added
  comps,   \* history: the entries added by codes
  file,    \* the last file read, and the result
  hit      \* the last query, and the selection and window returned

selVars == <<sels, added, comps, file, hit>>

(* Two times before all data; the first is also what a time string that    *)
(* cannot be converted gives.                                              *)
NstErr == -2
NstUnset == -1
Open(t) == t \in {NstErr, NstUnset}

ASSUME SelectionAssumption ==
  /\ {"FDSN", ":", "_"} \subseteq DOMAIN CharOrder
  /\ Entries \subseteq Strings \X Int \X Int \X (0 .. 255)
  /\ Components \subseteq Strings \X Strings \X Strings \X Strings
  /\ SelFiles \subseteq Seq(Seq([text : Strings, kind : {"text", "date", "int"}, v : Int]))
  /\ Queries \subseteq Strings \X Int \X Int \X (0 .. 255)
  /\ \A q \in Queries : Open(q[2]) \/ Open(q[3]) \/ q[2] <= q[3]

NoHit == [query |-> <<>>, sel |-> <<>>, win |-> <<>>]
NoFile == [lines |-> <<>>, ret |-> 0]

Windows == FoldLeft(LAMBDA n, s : n + Len(s.windows), 0, sels)

SelInit == sels = <<>> /\ added = {} /\ comps = {} /\ file = NoFile /\ hit = NoHit

-----------------------------------------------------------------------------
(* Adding.                                                                 *)

(* A pattern and a code are cut to their buffers, which end with a null    *)
(* byte.  The prefix of an identifier is one symbol for its four letters.  *)
PatternSize == 100
CodeSize == 20
CutPattern(pattern) == Trunc(pattern, IF pattern # <<>> /\ pattern[1] = "FDSN" THEN PatternSize - 4 ELSE PatternSize - 1)
Kept(e) == <<CutPattern(e[1]), e[2], e[3], e[4]>>

(* The window goes to the first selection with the same pattern, as it is  *)
(* given, and version, or to a new one at the head, with the pattern cut.  *)
BadAddSelect(list, e) ==
  LET i == SelectInSeq(list, LAMBDA s : s.pattern = e[1])
  IN  IF i # 0 THEN [list EXCEPT ![i].windows = <<<<e[2], e[3]>>>> \o @]
      ELSE <<[pattern |-> CutPattern(e[1]), pub |-> e[4], windows |-> <<<<e[2], e[3]>>>>]>> \o list
AddSelect(list, e) ==
  LET i == SelectInSeq(list, LAMBDA s : s.pattern = e[1] /\ s.pub = e[4])
  IN  IF i # 0 THEN [list EXCEPT ![i].windows = <<<<e[2], e[3]>>>> \o @]
      ELSE <<[pattern |-> CutPattern(e[1]), pub |-> e[4], windows |-> <<<<e[2], e[3]>>>>]>> \o list

ms3_addselect(e) ==
  /\ Windows < MaxAdded
  /\ sels' = AddSelect(sels, e)
  /\ added' = added \cup {e}
  /\ UNCHANGED <<comps, file>>
  /\ hit' = NoHit

(* The pattern of codes: "--" is the empty location, and a channel of      *)
(* three letters, digits or wildcards has three parts.                     *)
ClassChars ==
  {"?", "*", "0", "1", "2", "3", "4", "5", "6", "7", "8", "9"}
  \cup {"a", "b", "c", "d", "e", "f", "g", "h", "i", "j", "k", "l", "m", "n", "o", "p", "q", "r", "s", "t", "u", "v", "w", "x", "y", "z"}
  \cup {"A", "B", "C", "D", "E", "F", "G", "H", "I", "J", "K", "L", "M", "N", "O", "P", "Q", "R", "S", "T", "U", "V", "W", "X", "Y", "Z"}
CodesPattern(c) ==
  LET cut(code) == Trunc(code, CodeSize - 1)
      loc == IF c[3] = <<"-", "-">> THEN <<>> ELSE cut(c[3])
      x == IF Len(c[4]) = 3 /\ Range(c[4]) \subseteq ClassChars THEN ms_seedchan2xchan(c[4]) ELSE cut(c[4])
  IN  ms_nslc2sid(PatternSize, cut(c[1]), cut(c[2]), loc, x).sid

ms3_addselect_comp(c) ==
  LET e == <<CodesPattern(c), NstUnset, NstUnset, 0>>
  IN  /\ Windows < MaxAdded
      /\ sels' = AddSelect(sels, e)
      /\ added' = added \cup {e}
      /\ comps' = comps \cup {c}
      /\ UNCHANGED file
      /\ hit' = NoHit

-----------------------------------------------------------------------------
(* Files.  A field has its text, whether it looks like a date or an        *)
(* integer, and its value as one of these.                                 *)

Field(line, i) == IF i <= Len(line) THEN line[i] ELSE [text |-> <<>>, kind |-> "none", v |-> 0]
IsDate(line, i) == Field(line, i).kind = "date"
IsInt(line, i) == Field(line, i).kind = "int"

(* A line: empty if it is blank or a comment, else the entry of one of the *)
(* two formats, nothing if it is neither, or an error.                     *)
LineEntry(line) ==
  LET n == Len(line)
      isstart2 == IsDate(line, 2)
      isend3 == IsDate(line, 3)
      start == IF isstart2 THEN line[2].v ELSE IF IsDate(line, 6) THEN line[6].v ELSE NstUnset
      end == IF isend3 THEN line[3].v ELSE IF IsDate(line, 7) THEN line[7].v ELSE NstUnset
      bypattern == \/ n = 1 \/ (n = 2 /\ isstart2) \/ (n = 3 /\ isstart2 /\ isend3)
                   \/ (n = 4 /\ isstart2 /\ isend3 /\ IsInt(line, 4))
      bycodes == \/ n \in {4, 5} \/ (n = 6 /\ IsDate(line, 6))
                 \/ (n = 7 /\ IsDate(line, 6) /\ IsDate(line, 7))
      pub == IF bypattern THEN (IF n = 4 THEN line[4].v ELSE 0)
             ELSE IF IsInt(line, 5) THEN line[5].v ELSE 0
      codes == <<Field(line, 1).text, Field(line, 2).text, Field(line, 3).text, Field(line, 4).text>>
      unset == \/ start = NstUnset /\ (isstart2 \/ IsDate(line, 6))
               \/ end = NstUnset /\ (isend3 \/ IsDate(line, 7))
  IN  IF unset THEN [kind |-> "error", e |-> <<>>]
      ELSE IF (bypattern \/ bycodes) /\ pub \notin 0 .. 255 THEN [kind |-> "error", e |-> <<>>]
      ELSE IF bypattern THEN [kind |-> "entry", e |-> <<line[1].text, start, end, pub>>]
      ELSE IF bycodes THEN [kind |-> "entry", e |-> <<CodesPattern(codes), start, end, pub>>]
      ELSE [kind |-> "skip", e |-> <<>>]

(* Lines are added one by one; an error ends it, what was added stays.     *)
ReadLine(acc, line) ==
  LET l == LineEntry(line)
  IN  IF acc.ret = -1 \/ line = <<>> THEN acc
      ELSE IF l.kind = "error" THEN [acc EXCEPT !.ret = -1]
      ELSE IF l.kind = "skip" THEN [acc EXCEPT !.ret = @ + 1]
      ELSE [ret |-> acc.ret + 1, list |-> AddSelect(acc.list, l.e), new |-> acc.new \cup {l.e}]

ms3_readselectionsfile(lines) ==
  LET r == FoldLeft(ReadLine, [ret |-> 0, list |-> sels, new |-> {}], lines)
  IN  /\ Windows < MaxAdded
      /\ sels' = r.list
      /\ added' = added \cup r.new
      /\ file' = [lines |-> lines, ret |-> r.ret]
      /\ UNCHANGED comps
      /\ hit' = NoHit

ms3_freeselections == sels # <<>> /\ sels' = <<>> /\ added' = {} /\ comps' = {} /\ file' = NoFile /\ hit' = NoHit

-----------------------------------------------------------------------------
(* Matching.                                                               *)

(* A window is passed over if the data end before it or start after it.    *)
PassedOver(q, w) ==
  \/ /\ ~Open(q[2]) /\ ~Open(w[1])
     /\ q[2] < w[1] /\ ~(q[2] <= w[1] /\ q[3] >= w[1])
  \/ /\ ~Open(q[3]) /\ ~Open(w[2])
     /\ q[3] > w[2] /\ ~(q[2] <= w[2] /\ q[3] >= w[2])

Matches(q, s) ==
  /\ ms_globmatch(q[1], s.pattern)
  /\ s.pub > 0 => s.pub = q[4]
  /\ \E i \in 1 .. Len(s.windows) : ~PassedOver(q, s.windows[i])

(* The first selection with a window, and its first window.                *)
ms3_matchselect(q) ==
  LET i == SelectInSeq(sels, LAMBDA s : Matches(q, s))
      w == SelectInSeq(sels[i].windows, LAMBDA x : ~PassedOver(q, x))
  IN  /\ hit = NoHit
      /\ hit' = IF i = 0 THEN [query |-> q, sel |-> <<>>, win |-> <<>>]
                ELSE [query |-> q, sel |-> <<sels[i]>>, win |-> <<sels[i].windows[w]>>]
      /\ UNCHANGED <<sels, added, comps, file>>

SelNext ==
  \/ \E e \in Entries : ms3_addselect(e)
  \/ \E c \in Components : ms3_addselect_comp(c)
  \/ \E f \in SelFiles : ms3_readselectionsfile(f)
  \/ \E q \in Queries : ms3_matchselect(q)
  \/ ms3_freeselections

SelSpec == SelInit /\ [][SelNext]_selVars

-----------------------------------------------------------------------------
(* Properties.                                                             *)

(* The data and the window have a time in common; an open end has all.     *)
Overlap(q, w) ==
  /\ Open(w[1]) \/ Open(q[3]) \/ q[3] >= w[1]
  /\ Open(w[2]) \/ Open(q[2]) \/ q[2] <= w[2]

KeptEntries == {Kept(e) : e \in added}

(* ms3_matchselect(): data are selected exactly when some entry that was   *)
(* added, in whatever order and with whichever others, covers them with    *)
(* what is kept of its pattern.  Data without an end are left out: they    *)
(* are taken to end before all windows.                                    *)
SelectionIsUnion ==
  (hit.query # <<>> /\ ~Open(hit.query[2]) /\ ~Open(hit.query[3])) =>
    /\ (hit.sel # <<>>) = \E e \in KeptEntries : /\ Means(hit.query[1], e[1])
                                                 /\ e[4] \in {0, hit.query[4]}
                                                 /\ Overlap(hit.query, <<e[2], e[3]>>)
    /\ hit.sel # <<>> => <<hit.sel[1].pattern, hit.win[1][1], hit.win[1][2], hit.sel[1].pub>> \in KeptEntries

(* The codes of an identifier, and the form in which it has a channel of   *)
(* three characters.                                                       *)
SidCodes(sid) == ms_sid2nslc_n(sid, <<9, 9, 9, 9>>).codes
Parts(chan) == IF Len(chan) = 3 THEN <<chan[1], "_", chan[2], "_", chan[3]>> ELSE chan

(* Codes match when each of them does, a channel of three characters by    *)
(* each of its parts and any other as the identifier has it.               *)
CodesMatch(codes, c) ==
  /\ Means(codes[1], c[1])
  /\ Means(codes[2], c[2])
  /\ IF c[3] = <<"-", "-">> THEN codes[3] = <<>> ELSE Means(codes[3], c[3])
  /\ IF Len(c[4]) = 3 THEN Len(codes[4]) = 3 /\ \A i \in 1 .. 3 : Means(<<codes[4][i]>>, <<c[4][i]>>)
     ELSE Means(Parts(codes[4]), c[4])

(* ms3_addselect_comp(): a selection by codes selects every source whose   *)
(* codes match, although it is kept as one pattern of all of them.         *)
CodesSelected ==
  (hit.query # <<>> /\ hit.sel = <<>>) => \A c \in comps : ~CodesMatch(SidCodes(hit.query[1]), c)

(* What that takes: identifiers made of their codes, and codes that are    *)
(* not cut and have no blank, no class and no backslash, which could take  *)
(* in the separator behind them.                                           *)
PlainCodes ==
  /\ MinSidLen <= PatternSize
  /\ \A c \in Components : \A i \in 1 .. 4 : Range(c[i]) \cap {" ", "[", "\\"} = {} /\ Len(c[i]) < CodeSize
  /\ \A q \in Queries :
       LET codes == SidCodes(q[1])
       IN  /\ codes \in Strings \X Strings \X Strings \X Strings
           /\ q[1] = Prefix \o codes[1] \o Sep \o codes[2] \o Sep \o codes[3] \o Sep \o Parts(codes[4])

(* A record is selected exactly if one of the selections added asks for    *)
(* it, by pattern or by codes.                                             *)
SelectsAsAsked == SelectionIsUnion /\ CodesSelected
=============================================================================
