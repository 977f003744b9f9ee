----------------------------- MODULE LogRegistry ----------------------------
(***************************************************************************)
(* Log messages and their registry (logging.c).  Warnings and errors are   *)
(* kept, newest first, in a list of at most maxmessages entries when that  *)
(* is more than zero, and printed at once otherwise.  The functions that   *)
(* print belong to the application and may use the registry themselves, in *)
(* the middle of ms_rlog_emit().  Messages are numbered as they are logged.*)
(***************************************************************************)
EXTENDS Integers, Sequences, SequencesExt, FiniteSets

CONSTANTS MaxMessages,   \* the values of maxmessages that callers set
          MaxLogged      \* bound on the number of messages logged

ASSUME LogAssumption == MaxMessages \subseteq Nat /\ MaxLogged \in Nat

VARIABLES
  reg,      \* MSLogRegistry: maxmessages, messagecnt, messages
  emit,     \* the calls of ms_rlog_emit() that have not returned, outermost first
  logged,   \* history: the number of messages logged
  gone      \* history: messages printed, popped, cleared and discarded

logVars == <<reg, emit, logged, gone>>

(* A call has its own list of entries to print, and counts those that it   *)
(* has printed: done is the set of them.                                   *)
Called(todo) == [todo |-> todo, done |-> {}]

LogInit ==
  /\ reg = [max |-> 0, cnt |-> 0, msgs |-> <<>>]
  /\ emit = <<>>
  /\ logged = 0
  /\ gone = [printed |-> {}, taken |-> {}, discarded |-> {}]

(* The application runs, or the print function does, called by the latest  *)
(* call of ms_rlog_emit() with the entry that it has printed last.         *)
Running == emit # <<>> => Last(emit).done # {}

-----------------------------------------------------------------------------
(* ms_rloginit(): a negative value leaves the limit alone; a lower limit   *)
(* does not shorten the list.                                              *)
rloginit_int(max) ==
  /\ Running
  /\ reg' = [reg EXCEPT !.max = max]
  /\ UNCHANGED <<emit, logged, gone>>

(* add_message_int(): the new message comes first; if the count is above   *)
(* the limit, all entries beyond it are removed.                           *)
BadAdded(r, id) ==
  LET list == <<id>> \o r.msgs
      keep == IF r.cnt + 1 > r.max /\ Len(list) > r.max THEN r.max ELSE Len(list)
  IN  [r EXCEPT !.msgs = SubSeq(list, 1, keep), !.cnt = r.cnt + 1]
Added(r, id) ==
  LET list == <<id>> \o r.msgs
      keep == IF r.cnt + 1 > r.max /\ Len(list) > r.max THEN r.max ELSE Len(list)
  IN  [r EXCEPT !.msgs = SubSeq(list, 1, keep), !.cnt = r.cnt + 1 - (Len(list) - keep)]

(* rlog_int(): level 0 is always printed, the other levels are kept if     *)
(* there is a registry.                                                    *)
rlog_int(level) ==
  LET id == logged + 1
      kept == level >= 1 /\ reg.max > 0
      new == Added(reg, id)
  IN  /\ Running /\ logged < MaxLogged
      /\ logged' = id
      /\ IF kept
         THEN /\ reg' = new
              /\ gone' = [gone EXCEPT !.discarded = @ \cup (({id} \cup Range(reg.msgs)) \ Range(new.msgs))]
         ELSE /\ gone' = [gone EXCEPT !.printed = @ \cup {id}]
              /\ UNCHANGED reg
      /\ UNCHANGED emit

-----------------------------------------------------------------------------
(* ms_rlog_emit(): the first count messages, or all, move to a list of     *)
(* their own, which turns them round; then each is printed and freed, and  *)
(* the count is corrected at the end.  The print function may call it too; *)
(* without a message it changes nothing.                                   *)
EmitStart(count) ==
  LET n == IF count > 0 /\ count < Len(reg.msgs) THEN count ELSE Len(reg.msgs)
  IN  /\ Running /\ reg.msgs # <<>>
      /\ reg' = [reg EXCEPT !.msgs = SubSeq(@, n + 1, Len(@))]
      /\ emit' = Append(emit, Called(Reverse(SubSeq(reg.msgs, 1, n))))
      /\ UNCHANGED <<logged, gone>>

EmitPrint ==
  LET todo == Last(emit).todo
  IN  /\ emit # <<>> /\ todo # <<>>
      /\ gone' = [gone EXCEPT !.printed = @ \cup {Head(todo)}]
      /\ emit' = [emit EXCEPT ![Len(emit)] = [todo |-> Tail(todo), done |-> @.done \cup {Head(todo)}]]
      /\ UNCHANGED <<reg, logged>>

BadEmitEnd ==
  /\ emit # <<>> /\ Last(emit).todo = <<>> /\ reg.msgs = <<>>
  /\ reg' = [reg EXCEPT !.cnt = @ - Cardinality(Last(emit).done)]
  /\ emit' = Front(emit)
  /\ UNCHANGED <<logged, gone>>
EmitEnd ==
  /\ emit # <<>> /\ Last(emit).todo = <<>>
  /\ reg' = [reg EXCEPT !.cnt = @ - Cardinality(Last(emit).done)]
  /\ emit' = Front(emit)
  /\ UNCHANGED <<logged, gone>>

(* ms_rlog_pop(): the newest message, if there is one.                     *)
ms_rlog_pop ==
  /\ Running /\ reg.msgs # <<>>
  /\ gone' = [gone EXCEPT !.taken = @ \cup {Head(reg.msgs)}]
  /\ reg' = [reg EXCEPT !.msgs = Tail(@), !.cnt = @ - 1]
  /\ UNCHANGED <<emit, logged>>

(* ms_rlog_free(): the list is cleared, and the count set to zero.  A      *)
(* print function that does this during ms_rlog_emit() would leave the     *)
(* count negative: the application alone does.                             *)
ms_rlog_free ==
  /\ emit = <<>>
  /\ gone' = [gone EXCEPT !.taken = @ \cup Range(reg.msgs)]
  /\ reg' = [reg EXCEPT !.msgs = <<>>, !.cnt = 0]
  /\ UNCHANGED <<emit, logged>>

LogNext ==
  \/ \E max \in MaxMessages : rloginit_int(max)
  \/ \E level \in 0 .. 2 : rlog_int(level)
  \/ \E count \in 0 .. 2 : EmitStart(count)
  \/ EmitPrint \/ EmitEnd
  \/ ms_rlog_pop
  \/ ms_rlog_free

(* ms_rlog_emit() goes on when the print function returns.                 *)
LogFairness == WF_logVars(EmitPrint) /\ WF_logVars(EmitEnd)

LogSpec == LogInit /\ [][LogNext]_logVars /\ LogFairness

-----------------------------------------------------------------------------
(* Properties.                                                             *)

(* The messages that calls of ms_rlog_emit() have still to print, and all  *)
(* that they have taken from the registry.                                 *)
Waiting(calls) == UNION {Range(calls[i].todo) : i \in DOMAIN calls}
Carried(calls) == UNION {Range(calls[i].todo) \cup calls[i].done : i \in DOMAIN calls}

(* The count of the registry is the length of its list and, until the      *)
(* calls of ms_rlog_emit() return, the messages that they have taken from  *)
(* it, whatever the print function logs, takes or emits in the meantime.   *)
CountExact == reg.cnt = Len(reg.msgs) + Cardinality(Carried(emit))

(* Every message logged is in exactly one place: in the registry, about to *)
(* be printed, printed, taken or cleared by the application, or discarded  *)
(* because of the limit.                                                   *)
EachMessageOnce ==
  LET places == <<Range(reg.msgs), Waiting(emit), gone.printed, gone.taken, gone.discarded>>
  IN  /\ UNION Range(places) = 1 .. logged
      /\ \A i, j \in 1 .. 5 : i < j => places[i] \cap places[j] = {}

(* The registry is ordered by age, and the limit costs the oldest messages *)
(* only: what was discarded is older than everything still kept.           *)
NewestKept ==
  /\ \A i, j \in 1 .. Len(reg.msgs) : i < j => reg.msgs[i] > reg.msgs[j]
  /\ \A d \in gone.discarded, i \in 1 .. Len(reg.msgs) : d < reg.msgs[i]

(* All calls of ms_rlog_emit() return, even if the print function logs a   *)
(* message for each message that it is given, or emits in its turn: what a *)
(* call emits is fixed at its start.  Only one that goes on to do both for *)
(* ever would not let them, for which MaxLogged leaves no messages.        *)
EmitReturns == emit # <<>> ~> emit = <<>>

(* Every message logged is accounted for: counted, in one place, and only  *)
(* the oldest discarded.                                                   *)
MessagesKept ==
  /\ CountExact
  /\ EachMessageOnce
  /\ NewestKept
=============================================================================
