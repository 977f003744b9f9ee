------------------------------ MODULE SkipList ------------------------------
(***************************************************************************)
(* The trace IDs of a trace list as they are linked (tracelist.c): a skip  *)
(* list in the order of source identifier and version, with every ID in    *)
(* the lowest level and in as many more as its random height says.         *)
(***************************************************************************)
EXTENDS Integers, FiniteSets

CONSTANTS
  SkipSids,       \* source identifiers, as numbers in the order of strcmp()
  SkipVersions,   \* publication versions, 0 for a record that has none
  MaxHeight,      \* MSTRACEID_SKIPLIST_HEIGHT
  MaxIds          \* bound: IDs at a time

ASSUME SkipAssumption ==
  SkipSids \subseteq Nat /\ SkipVersions \subseteq Nat /\ MaxHeight \in Nat \ {0} /\ MaxIds \in Nat

VARIABLE
  skip   \* split       - the list is kept with splitversion
         \* ids         - the list head and the MS3TraceIDs: allocated, sid,
         \*               pubversion, height and the next of each level
         \* numtraceids - their number

(* Definitions named Bad... are faulty variants of the one that follows:   *)
(* mistakes the properties are known to notice.                            *)

NoID == -1
ListHead == 0
Levels == 1 .. MaxHeight

(* The list head, and an ID that is not allocated: no ID is behind it.     *)
Alone(live, height) == [live |-> live, sid |-> 0, ver |-> 0, height |-> height, next |-> [level \in Levels |-> NoID]]
HeadNode == Alone(TRUE, MaxHeight)
Unlinked == Alone(FALSE, 0)

SkipInit ==
  \E split \in BOOLEAN :
    skip = [split |-> split, numtraceids |-> 0,
            ids |-> [i \in 0 .. MaxIds |-> IF i = ListHead THEN HeadNode ELSE Unlinked]]

NextOf(id, level) == skip.ids[id].next[level]

-----------------------------------------------------------------------------
(* mstl3_findID(): the ID, and the one before its place in every level     *)
(* that was searched.  Version 0 is any version.                           *)
Compare(id, sid, ver) ==
  LET i == skip.ids[id]
  IN  IF i.sid # sid THEN i.sid - sid ELSE IF ver = 0 THEN 0 ELSE i.ver - ver

mstl3_findID(sid, ver) ==
  LET Search[at \in (0 .. MaxIds) \X (0 .. MaxHeight)] ==
        LET id == at[1]
            level == at[2]
            next == NextOf(id, level)
        IN  IF level = 0 THEN [id |-> NoID, prev |-> [l \in Levels |-> NoID]]
            ELSE IF next = NoID \/ Compare(next, sid, ver) > 0
                 THEN [Search[<<id, level - 1>>] EXCEPT !.prev[level] = id]
                 ELSE IF Compare(next, sid, ver) < 0 THEN Search[<<next, level>>]
                 ELSE [id |-> next, prev |-> [l \in Levels |-> IF l = level THEN id ELSE NoID]]
  IN  Search[<<ListHead, MaxHeight>>]

-----------------------------------------------------------------------------
(* mstl3_addID() links an ID behind the ones that were found before its    *)
(* place, which there are in all levels if it was not found itself.        *)
Free == {i \in 1 .. MaxIds : ~skip.ids[i].live}

NextAt(level, prev) == NextOf(prev[level], level)

Linked(new, sid, ver, height, prev) ==
  LET id == [live |-> TRUE, sid |-> sid, ver |-> ver, height |-> height,
             next |-> [level \in Levels |-> IF level <= height THEN NextAt(level, prev) ELSE NoID]]
  IN  [skip EXCEPT !.numtraceids = @ + 1,
                   !.ids = [i \in DOMAIN skip.ids |->
                              IF i = new THEN id
                              ELSE [skip.ids[i] EXCEPT !.next = [level \in Levels |->
                                      IF level <= height /\ prev[level] = i THEN new ELSE NextOf(i, level)]]]]

AddID(sid, ver, prev) ==
  \E height \in Levels : skip' = Linked(CHOOSE i \in Free : TRUE, sid, ver, height, prev)

(* _mstl3_addmsr_impl() finds the ID of a record or adds it, and keeps the *)
(* largest version of the records.                                         *)
AddRecordOf(sid, ver) ==
  LET found == mstl3_findID(sid, IF skip.split THEN ver ELSE 0)
  IN  \/ /\ found.id = NoID /\ Free # {}
         /\ AddID(sid, ver, found.prev)
      \/ /\ found.id # NoID
         /\ skip' = [skip EXCEPT !.ids[found.id].ver = IF ver > @ THEN ver ELSE @]

(* The application calls mstl3_addID() and leaves it to look for the       *)
(* place.  It does so without the version and so does not find it behind   *)
(* an ID of the same identifier: the application adds other ones only.     *)
AddOwnID(sid, ver) ==
  /\ Free # {} /\ mstl3_findID(sid, 0).id = NoID
  /\ AddID(sid, ver, mstl3_findID(sid, 0).prev)

-----------------------------------------------------------------------------
(* lm_remove_segment() for the last segment of an ID: in each of its       *)
(* levels the one before is looked for from the head on.                   *)
BadLevelsOf(id) == {1}
LevelsOf(id) == 1 .. skip.ids[id].height

RemoveID(id) ==
  /\ id # ListHead /\ skip.ids[id].live
  /\ skip' = [skip EXCEPT !.numtraceids = @ - 1,
                          !.ids = [i \in DOMAIN skip.ids |->
                                     IF i = id THEN Unlinked
                                     ELSE [skip.ids[i] EXCEPT !.next = [level \in Levels |->
                                             IF level \in LevelsOf(id) /\ NextOf(i, level) = id THEN NextOf(id, level) ELSE NextOf(i, level)]]]]

SkipNext ==
  \/ \E sid \in SkipSids, ver \in SkipVersions : AddRecordOf(sid, ver) \/ AddOwnID(sid, ver)
  \/ \E id \in 1 .. MaxIds : RemoveID(id)

SkipSpec == SkipInit /\ [][SkipNext]_skip

-----------------------------------------------------------------------------
(* Properties.                                                             *)

(* The skip list stays one: each level leads through exactly the IDs high  *)
(* enough for it, in ascending order and to the end, none of them freed.   *)
LevelsAgree ==
  /\ \A level \in Levels :
       LET members == {i \in 0 .. MaxIds : skip.ids[i].live /\ skip.ids[i].height >= level}
           Before(i, j) ==
             /\ j # ListHead
             /\ \/ i = ListHead
                \/ skip.ids[i].sid < skip.ids[j].sid
                \/ skip.ids[i].sid = skip.ids[j].sid /\ skip.ids[i].ver < skip.ids[j].ver
       IN  \A i \in members :
             LET after == {j \in members : Before(i, j)}
             IN  IF after = {} THEN NextOf(i, level) = NoID
                 ELSE NextOf(i, level) \in after /\ \A j \in after \ {NextOf(i, level)} : Before(NextOf(i, level), j)
  /\ skip.numtraceids = Cardinality({i \in 1 .. MaxIds : skip.ids[i].live})

(* The levels are a shortcut and nothing else: looking for an identifier,  *)
(* with a version or without, finds one exactly if it is in the list.      *)
FindsWhatIsListed ==
  \A sid \in SkipSids, ver \in SkipVersions :
    LET found == mstl3_findID(sid, ver).id
        there == {i \in 1 .. MaxIds : skip.ids[i].live /\ skip.ids[i].sid = sid /\ (ver = 0 \/ skip.ids[i].ver = ver)}
    IN  IF there = {} THEN found = NoID ELSE found \in there

(* Every level of the list links its IDs in order, so a search finds what  *)
(* is listed and nothing else.                                             *)
SkipListSound == LevelsAgree /\ FindsWhatIsListed
=============================================================================
