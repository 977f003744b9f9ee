------------------------ MODULE CallerState_proofs -------------------------
(***************************************************************************)
(* Proofs about what the library keeps for a caller between its calls.     *)
(*                                                                         *)
(* LogRegistry, for every limit that callers set, any number of messages,  *)
(* and whatever the print function does in the middle of ms_rlog_emit():   *)
(* the count is exact, every message is in one place, and only the oldest  *)
(* are discarded.                                                          *)
(*                                                                         *)
(* ExtraHeaders: the two documents of a parse state and the text of the    *)
(* record stay in step with what the caller was told is set.               *)
(*                                                                         *)
(* GlobPattern: the loop that goes back to the last star only decides what *)
(* a pattern means, for all strings and patterns.                          *)
(*                                                                         *)
(* Selection: what is matched with a list is what the entries that were    *)
(* added select, however the list was built.                               *)
(***************************************************************************)
EXTENDS LogRegistry, ExtraHeaders, GlobCalls, Selection, TLAPS, SequenceTheorems, FiniteSetTheorems, WellFoundedInduction

-----------------------------------------------------------------------------
(* Sequences and the sets of their elements.                               *)

(* No element occurs twice. *)
Distinct(s) == \A i, j \in 1 .. Len(s) : i # j => s[i] # s[j]

(* The elements descend, so that none occurs twice. *)
Descends(s) == \A i, j \in 1 .. Len(s) : i < j => s[i] > s[j]

LEMMA RangeIs ==
  ASSUME NEW S, NEW s \in Seq(S)
  PROVE  Range(s) = {s[i] : i \in 1 .. Len(s)} /\ Range(s) \subseteq S
BY RangeEquality, RangeOfSeq

(* A list without its first element. *)
LEMMA TailSplits ==
  ASSUME NEW S, NEW s \in Seq(S), s # <<>>, Distinct(s)
  PROVE  /\ Tail(s) \in Seq(S) /\ Len(Tail(s)) = Len(s) - 1 /\ Len(s) \in Nat
         /\ \A i \in 1 .. Len(Tail(s)) : Tail(s)[i] = s[i + 1]
         /\ Distinct(Tail(s))
         /\ Head(s) = s[1] /\ Head(s) \in Range(s) /\ Head(s) \in S
         /\ Range(Tail(s)) = Range(s) \ {Head(s)}
<1>1. /\ Tail(s) \in Seq(S) /\ Len(Tail(s)) = Len(s) - 1
      /\ \A i \in 1 .. Len(Tail(s)) : Tail(s)[i] = s[i + 1]
  BY HeadTailProperties
<1>2. Len(s) \in Nat \ {0} /\ Head(s) = s[1] /\ Head(s) \in S
  BY EmptySeq, HeadTailProperties
<1>3. Range(s) = {s[i] : i \in 1 .. Len(s)} /\ Range(Tail(s)) = {Tail(s)[i] : i \in 1 .. Len(s) - 1}
  BY <1>1, RangeIs
<1>4. Distinct(Tail(s))
  BY <1>1, <1>2 DEF Distinct
<1>5. Head(s) \in Range(s)
  BY <1>2, <1>3
<1>6. ASSUME NEW x PROVE x \in Range(Tail(s)) <=> x \in Range(s) /\ x # Head(s)
  <2>1. ASSUME x \in Range(Tail(s)) PROVE x \in Range(s) /\ x # Head(s)
    <3>1. PICK i \in 1 .. Len(s) - 1 : x = s[i + 1]
      BY <1>1, <1>3, <2>1
    <3>2. i + 1 \in 1 .. Len(s) /\ i + 1 # 1 /\ 1 \in 1 .. Len(s)
      BY <1>2
    <3> QED BY <1>2, <1>3, <3>1, <3>2 DEF Distinct
  <2>2. ASSUME x \in Range(s), x # Head(s) PROVE x \in Range(Tail(s))
    <3>1. PICK i \in 1 .. Len(s) : x = s[i]
      BY <1>3, <2>2
    <3>2. i - 1 \in 1 .. Len(s) - 1 /\ (i - 1) + 1 = i
      BY <1>2, <2>2, <3>1
    <3> QED BY <1>1, <1>3, <3>1, <3>2
  <2> QED BY <2>1, <2>2
<1> QED BY <1>1, <1>2, <1>4, <1>5, <1>6

(* A list cut in two. *)
LEMMA CutSplits ==
  ASSUME NEW S, NEW s \in Seq(S), NEW n \in 0 .. Len(s), Distinct(s)
  PROVE  /\ SubSeq(s, 1, n) \in Seq(S) /\ Len(SubSeq(s, 1, n)) = n
         /\ \A i \in 1 .. n : SubSeq(s, 1, n)[i] = s[i]
         /\ SubSeq(s, n + 1, Len(s)) \in Seq(S) /\ Len(SubSeq(s, n + 1, Len(s))) = Len(s) - n
         /\ \A i \in 1 .. Len(s) - n : SubSeq(s, n + 1, Len(s))[i] = s[n + i]
         /\ Range(SubSeq(s, 1, n)) \cup Range(SubSeq(s, n + 1, Len(s))) = Range(s)
         /\ Range(SubSeq(s, 1, n)) \cap Range(SubSeq(s, n + 1, Len(s))) = {}
<1> DEFINE a == SubSeq(s, 1, n)
           b == SubSeq(s, n + 1, Len(s))
<1>0. Len(s) \in Nat /\ n \in Int /\ n + 1 \in Int /\ \A i \in 1 .. Len(s) : s[i] \in S
  BY LenProperties, ElementOfSeq
<1>1. a \in Seq(S) /\ Len(a) = n /\ \A i \in 1 .. n : a[i] = s[i]
  <2>1. \A i \in 1 .. n : s[i] \in S
    BY <1>0
  <2>2. /\ a \in Seq(S) /\ Len(a) = (IF 1 <= n THEN n - 1 + 1 ELSE 0)
        /\ \A i \in 1 .. n - 1 + 1 : a[i] = s[1 + i - 1]
    BY <1>0, <2>1, SubSeqProperties
  <2> HIDE DEF a
  <2> QED BY <1>0, <2>2
<1>2. b \in Seq(S) /\ Len(b) = Len(s) - n /\ \A i \in 1 .. Len(s) - n : b[i] = s[n + i]
  <2>1. \A i \in n + 1 .. Len(s) : s[i] \in S
    BY <1>0
  <2>2. /\ b \in Seq(S) /\ Len(b) = (IF n + 1 <= Len(s) THEN Len(s) - (n + 1) + 1 ELSE 0)
        /\ \A i \in 1 .. Len(s) - (n + 1) + 1 : b[i] = s[(n + 1) + i - 1]
    BY <1>0, <2>1, SubSeqProperties
  <2> HIDE DEF b
  <2>3. \A i \in 1 .. Len(s) - n : i \in 1 .. Len(s) - (n + 1) + 1 /\ (n + 1) + i - 1 = n + i
    BY <1>0
  <2> QED BY <1>0, <2>2, <2>3
<1> HIDE DEF a, b
<1>3. /\ Range(s) = {s[i] : i \in 1 .. Len(s)}
      /\ Range(a) = {a[i] : i \in 1 .. n}
      /\ Range(b) = {b[i] : i \in 1 .. Len(s) - n}
  BY <1>1, <1>2, RangeIs
<1>4. Range(a) \cup Range(b) = Range(s)
  <2>1. ASSUME NEW x \in Range(a) \cup Range(b) PROVE x \in Range(s)
    <3>1. CASE x \in Range(a)
      BY <1>0, <1>1, <1>3, <3>1
    <3>2. CASE x \in Range(b)
      <4>1. PICK i \in 1 .. Len(s) - n : x = s[n + i]
        BY <1>2, <1>3, <3>2
      <4>2. n + i \in 1 .. Len(s)
        BY <1>0
      <4> QED BY <1>3, <4>1, <4>2
    <3> QED BY <2>1, <3>1, <3>2
  <2>2. ASSUME NEW x \in Range(s) PROVE x \in Range(a) \cup Range(b)
    <3>1. PICK i \in 1 .. Len(s) : x = s[i]
      BY <1>3
    <3>2. CASE i <= n
      BY <1>0, <1>1, <1>3, <3>1, <3>2
    <3>3. CASE i > n
      <4>1. i - n \in 1 .. Len(s) - n /\ n + (i - n) = i
        BY <1>0, <3>3
      <4> QED BY <1>2, <1>3, <3>1, <4>1
    <3> QED BY <1>0, <3>2, <3>3
  <2> QED BY <2>1, <2>2
<1>5. Range(a) \cap Range(b) = {}
  <2>1. ASSUME NEW x \in Range(a), x \in Range(b) PROVE FALSE
    <3>1. PICK i \in 1 .. n : x = s[i]
      BY <1>1, <1>3
    <3>2. PICK j \in 1 .. Len(s) - n : x = s[n + j]
      BY <1>2, <1>3, <2>1, ZenonT(30)
    <3>3. i \in 1 .. Len(s) /\ n + j \in 1 .. Len(s) /\ i # n + j
      BY <1>0
    <3> QED BY <3>1, <3>2, <3>3 DEF Distinct
  <2> QED BY <2>1
<1> QED BY <1>1, <1>2, <1>4, <1>5 DEF a, b

(* A new first element. *)
LEMMA PushProperties ==
  ASSUME NEW S, NEW s \in Seq(S), NEW e \in S
  PROVE  /\ <<e>> \o s \in Seq(S) /\ Len(<<e>> \o s) = Len(s) + 1
         /\ (<<e>> \o s)[1] = e
         /\ \A i \in 2 .. Len(s) + 1 : (<<e>> \o s)[i] = s[i - 1]
         /\ Range(<<e>> \o s) = {e} \cup Range(s)
<1>1. <<e>> \in Seq(S) /\ Len(<<e>>) = 1 /\ <<e>>[1] = e /\ Len(s) \in Nat
  OBVIOUS
<1>2. /\ <<e>> \o s \in Seq(S)
      /\ Len(<<e>> \o s) = Len(<<e>>) + Len(s)
      /\ \A i \in 1 .. Len(<<e>>) + Len(s) :
           (<<e>> \o s)[i] = IF i <= Len(<<e>>) THEN <<e>>[i] ELSE s[i - Len(<<e>>)]
  BY <1>1, ConcatProperties
<1>3. Range(<<e>> \o s) = Range(<<e>>) \cup Range(s)
  BY <1>1, RangeConcatenation, ZenonT(30)
<1>4. Range(<<e>>) = {e}
  <2>1. Range(<<e>>) = {<<e>>[i] : i \in 1 .. 1}
    BY <1>1, RangeIs
  <2>2. \A i \in 1 .. 1 : i = 1
    OBVIOUS
  <2> QED BY <1>1, <2>1, <2>2
<1> QED BY <1>1, <1>2, <1>3, <1>4

(* The same list from its other end. *)
LEMMA ReverseProperties ==
  ASSUME NEW S, NEW s \in Seq(S), Distinct(s)
  PROVE  /\ Reverse(s) \in Seq(S) /\ Len(Reverse(s)) = Len(s)
         /\ Distinct(Reverse(s)) /\ Range(Reverse(s)) = Range(s)
<1> DEFINE n == Len(s)
           r == Reverse(s)
<1>1. n \in Nat /\ \A i \in 1 .. n : s[i] \in S /\ n - i + 1 \in 1 .. n
  BY LenProperties, ElementOfSeq
<1>2. r = [i \in 1 .. n |-> s[(n - i) + 1]]
  BY DEF Reverse
<1>3. r \in Seq(S) /\ Len(r) = n
  BY <1>1, <1>2
<1> HIDE DEF r, n
<1>4. \A i \in 1 .. n : r[i] = s[(n - i) + 1]
  BY <1>2
<1>5. ASSUME NEW i \in 1 .. n, NEW j \in 1 .. n, i # j PROVE r[i] # r[j]
  <2>1. (n - i) + 1 \in 1 .. n /\ (n - j) + 1 \in 1 .. n /\ (n - i) + 1 # (n - j) + 1
    BY <1>1, <1>5
  <2> QED BY <1>4, <2>1 DEF Distinct, n
<1>6. Range(s) = {s[i] : i \in 1 .. n} /\ Range(r) = {r[i] : i \in 1 .. n}
  BY <1>3, RangeIs DEF n
<1>7. ASSUME NEW x PROVE x \in Range(r) <=> x \in Range(s)
  <2>1. ASSUME x \in Range(r) PROVE x \in Range(s)
    BY <1>1, <1>4, <1>6, <2>1
  <2>2. ASSUME x \in Range(s) PROVE x \in Range(r)
    <3>1. PICK i \in 1 .. n : x = s[i]
      BY <1>6, <2>2
    <3>2. (n - i) + 1 \in 1 .. n /\ (n - ((n - i) + 1)) + 1 = i
      BY <1>1
    <3> QED BY <1>4, <1>6, <3>1, <3>2
  <2> QED BY <2>1, <2>2
<1> QED BY <1>3, <1>5, <1>7 DEF Distinct, r, n

-----------------------------------------------------------------------------
(* The calls of ms_rlog_emit(), latest last.                               *)

Frames == [todo : Seq(Nat), done : SUBSET Nat]

(* What a call has taken from the registry.                                *)
CallMessages(f) == Range(f.todo) \cup f.done

(* No message is to be printed twice, by one call or by two, and what a    *)
(* call has done is printed.                                               *)
CallsSound(e, printed) ==
  /\ \A i \in 1 .. Len(e) : Distinct(e[i].todo) /\ e[i].done \subseteq printed
  /\ \A i, j \in 1 .. Len(e) : i # j => CallMessages(e[i]) \cap CallMessages(e[j]) = {}

(* A call more: what it brings, and what it must not share with others.    *)
LEMMA CallAdded ==
  ASSUME NEW e \in Seq(Frames), NEW f \in Frames
  PROVE  /\ Append(e, f) \in Seq(Frames) /\ Append(e, f) # <<>>
         /\ Waiting(Append(e, f)) = Waiting(e) \cup Range(f.todo)
         /\ Carried(Append(e, f)) = Carried(e) \cup CallMessages(f)
         /\ \A P : CallsSound(Append(e, f), P) <=>
               /\ CallsSound(e, P) /\ Distinct(f.todo) /\ f.done \subseteq P
               /\ CallMessages(f) \cap Carried(e) = {}
<1> DEFINE n == Len(e)
           a == Append(e, f)
<1>1. /\ a \in Seq(Frames) /\ a # <<>> /\ Len(a) = n + 1 /\ n \in Nat
      /\ \A i \in 1 .. n : a[i] = e[i]
      /\ a[n + 1] = f
  BY AppendProperties, LenProperties
<1>2. /\ DOMAIN a = 1 .. n + 1 /\ DOMAIN e = 1 .. n /\ 1 .. n + 1 = (1 .. n) \cup {n + 1}
      /\ n + 1 \notin 1 .. n
  BY <1>1, LenProperties
<1> HIDE DEF a, n
<1>3. Waiting(a) = Waiting(e) \cup Range(f.todo)
  <2>1. ASSUME NEW x PROVE x \in Waiting(a) <=> x \in Waiting(e) \/ x \in Range(f.todo)
    <3>1. x \in Waiting(a) <=> \E i \in 1 .. n + 1 : x \in Range(a[i].todo)
      BY <1>2 DEF Waiting
    <3>2. x \in Waiting(e) <=> \E i \in 1 .. n : x \in Range(e[i].todo)
      BY <1>2 DEF Waiting
    <3> QED BY <1>1, <1>2, <3>1, <3>2
  <2> QED BY <2>1
<1>4. \A x : x \in Carried(e) <=> \E i \in 1 .. n : x \in CallMessages(e[i])
  BY <1>2 DEF Carried, CallMessages
<1>5. Carried(a) = Carried(e) \cup CallMessages(f)
  <2>1. ASSUME NEW x PROVE x \in Carried(a) <=> x \in Carried(e) \/ x \in CallMessages(f)
    <3>1. x \in Carried(a) <=> \E i \in 1 .. n + 1 : x \in CallMessages(a[i])
      BY <1>2 DEF Carried, CallMessages
    <3> QED BY <1>1, <1>2, <1>4, <3>1
  <2> QED BY <2>1
<1>6. ASSUME NEW P
      PROVE  CallsSound(a, P) <=> /\ CallsSound(e, P) /\ Distinct(f.todo) /\ f.done \subseteq P
                                  /\ CallMessages(f) \cap Carried(e) = {}
  <2> DEFINE Good(x) == Distinct(x.todo) /\ x.done \subseteq P
             Apart(x, y) == CallMessages(x) \cap CallMessages(y) = {}
  <2>1. CallsSound(a, P) <=> /\ \A i \in 1 .. n + 1 : Good(a[i])
                             /\ \A i, j \in 1 .. n + 1 : i # j => Apart(a[i], a[j])
    BY <1>1 DEF CallsSound
  <2>2. CallsSound(e, P) <=> /\ \A i \in 1 .. n : Good(e[i])
                             /\ \A i, j \in 1 .. n : i # j => Apart(e[i], e[j])
    BY DEF CallsSound, n
  <2>3. CallMessages(f) \cap Carried(e) = {} <=> \A i \in 1 .. n : Apart(e[i], f)
    BY <1>4
  <2>4. \A x, y : Apart(x, y) <=> Apart(y, x)
    OBVIOUS
  <2>5. Good(f) <=> Distinct(f.todo) /\ f.done \subseteq P
    OBVIOUS
  <2> HIDE DEF Good, Apart
  <2>6. (\A i \in 1 .. n + 1 : Good(a[i])) <=> (\A i \in 1 .. n : Good(e[i])) /\ Good(f)
    BY <1>1, <1>2
  <2>7. (\A i, j \in 1 .. n + 1 : i # j => Apart(a[i], a[j])) <=>
          /\ \A i, j \in 1 .. n : i # j => Apart(e[i], e[j])
          /\ \A i \in 1 .. n : Apart(e[i], f)
    <3>1. ASSUME \A i, j \in 1 .. n + 1 : i # j => Apart(a[i], a[j])
          PROVE  /\ \A i, j \in 1 .. n : i # j => Apart(e[i], e[j])
                 /\ \A i \in 1 .. n : Apart(e[i], f)
      BY <1>1, <1>2, <3>1
    <3>2. ASSUME /\ \A i, j \in 1 .. n : i # j => Apart(e[i], e[j])
                 /\ \A i \in 1 .. n : Apart(e[i], f),
                 NEW i \in 1 .. n + 1, NEW j \in 1 .. n + 1, i # j
          PROVE  Apart(a[i], a[j])
      BY <1>1, <1>2, <2>4, <3>2
    <3> QED BY <3>1, <3>2
  <2> QED BY <2>1, <2>2, <2>3, <2>5, <2>6, <2>7
<1> QED BY <1>1, <1>3, <1>5, <1>6 DEF a

(* The latest call on top of the others.                                   *)
LEMMA LatestCall ==
  ASSUME NEW e \in Seq(Frames), e # <<>>
  PROVE  /\ Front(e) \in Seq(Frames) /\ Last(e) \in Frames /\ e = Append(Front(e), Last(e))
         /\ \A f \in Frames : [e EXCEPT ![Len(e)] = f] = Append(Front(e), f)
<1>1. Len(e) \in Nat \ {0} /\ Front(e) = SubSeq(e, 1, Len(e) - 1) /\ Last(e) = e[Len(e)]
  BY EmptySeq, LenProperties DEF Front, Last
<1>2. Front(e) \in Seq(Frames) /\ Len(Front(e)) = Len(e) - 1
      /\ \A i \in 1 .. Len(e) - 1 : Front(e)[i] = e[i]
  <2> DEFINE m == Len(e) - 1
  <2>1. 1 \in 1 .. m + 1 /\ m \in 0 .. Len(e) /\ m \in Nat /\ m - 1 + 1 = m
    BY <1>1
  <2>2. Front(e) = SubSeq(e, 1, m) /\ \A i \in 1 .. m : i \in 1 .. Len(e)
    BY <1>1
  <2> HIDE DEF m
  <2>3. SubSeq(e, 1, m) \in Seq(Frames) /\ Len(SubSeq(e, 1, m)) = m
        /\ \A i \in 1 .. m : SubSeq(e, 1, m)[i] = e[i]
    BY <1>1, <2>1, <2>2
  <2> QED BY <2>2, <2>3 DEF m
<1>3. Last(e) \in Frames
  BY <1>1, ElementOfSeq
<1>4. ASSUME NEW f \in Frames PROVE [e EXCEPT ![Len(e)] = f] = Append(Front(e), f)
  <2>1. [e EXCEPT ![Len(e)] = f] \in Seq(Frames) /\ Len([e EXCEPT ![Len(e)] = f]) = Len(e)
    BY <1>1, ExceptSeq
  <2>2. Append(Front(e), f) \in Seq(Frames) /\ Len(Append(Front(e), f)) = Len(e)
    BY <1>1, <1>2, AppendProperties
  <2>3. ASSUME NEW i \in 1 .. Len(e) PROVE [e EXCEPT ![Len(e)] = f][i] = Append(Front(e), f)[i]
    BY <1>1, <1>2, <2>3, AppendProperties, LenProperties
  <2> QED BY <2>1, <2>2, <2>3, SeqEqual
<1>5. e = [e EXCEPT ![Len(e)] = Last(e)]
  BY <1>1, LenProperties
<1> QED BY <1>2, <1>3, <1>4, <1>5

-----------------------------------------------------------------------------
(* The invariant.                                                          *)

LogTypes ==
  /\ reg \in [max : Nat, cnt : Int, msgs : Seq(Nat)]
  /\ emit \in Seq(Frames)
  /\ logged \in Nat
  /\ gone \in [printed : SUBSET Nat, taken : SUBSET Nat, discarded : SUBSET Nat]

(* The messages 1 to n, each in one of the five places. *)
OnePlace(kept, todo, printed, taken, discarded, n) ==
  /\ kept \cup todo \cup printed \cup taken \cup discarded = 1 .. n
  /\ kept \cap todo = {} /\ kept \cap printed = {} /\ kept \cap taken = {} /\ kept \cap discarded = {}
  /\ todo \cap printed = {} /\ todo \cap taken = {} /\ todo \cap discarded = {}
  /\ printed \cap taken = {} /\ printed \cap discarded = {} /\ taken \cap discarded = {}

Placed == OnePlace(Range(reg.msgs), Waiting(emit), gone.printed, gone.taken, gone.discarded, logged)

(* What is kept is newer than what was discarded. *)
Newer == \A d \in gone.discarded, i \in 1 .. Len(reg.msgs) : d < reg.msgs[i]

(* The three parts of MessagesKept, and what makes them inductive: the     *)
(* calls of ms_rlog_emit() share no message, and none prints one twice.    *)
LogInv ==
  /\ LogTypes
  /\ CountExact
  /\ Placed
  /\ Descends(reg.msgs) /\ Newer
  /\ CallsSound(emit, gone.printed)

LEMMA DescendsDistinct ==
  ASSUME NEW s \in Seq(Nat), Descends(s)
  PROVE  Distinct(s)
<1> SUFFICES ASSUME NEW i \in 1 .. Len(s), NEW j \in 1 .. Len(s), i # j PROVE s[i] # s[j]
  BY DEF Distinct
<1>1. s[i] \in Nat /\ s[j] \in Nat /\ i \in Int /\ j \in Int
  BY ElementOfSeq
<1>2. (i < j => s[i] > s[j]) /\ (j < i => s[j] > s[i])
  BY DEF Descends
<1> QED BY <1>1, <1>2

(* The five places as MessagesKept has them. *)
LEMMA PlacesAreOnce == Placed <=> EachMessageOnce
<1> DEFINE p == <<Range(reg.msgs), Waiting(emit), gone.printed, gone.taken, gone.discarded>>
<1>1. UNION Range(p) = Range(reg.msgs) \cup Waiting(emit) \cup gone.printed \cup gone.taken \cup gone.discarded
  <2>1. DOMAIN p = {1, 2, 3, 4, 5}
    OBVIOUS
  <2>2. Range(p) = {p[i] : i \in {1, 2, 3, 4, 5}}
    BY <2>1 DEF Range
  <2>3. /\ p[1] = Range(reg.msgs) /\ p[2] = Waiting(emit)
        /\ p[3] = gone.printed /\ p[4] = gone.taken /\ p[5] = gone.discarded
    OBVIOUS
  <2> HIDE DEF p
  <2>4. Range(p) = {p[1], p[2], p[3], p[4], p[5]}
    BY <2>2
  <2>5. UNION Range(p) = p[1] \cup p[2] \cup p[3] \cup p[4] \cup p[5]
    BY <2>4, Zenon
  <2> QED BY <2>3, <2>5
<1>2. (\A i, j \in 1 .. 5 : i < j => p[i] \cap p[j] = {}) <=>
        /\ p[1] \cap p[2] = {} /\ p[1] \cap p[3] = {} /\ p[1] \cap p[4] = {} /\ p[1] \cap p[5] = {}
        /\ p[2] \cap p[3] = {} /\ p[2] \cap p[4] = {} /\ p[2] \cap p[5] = {}
        /\ p[3] \cap p[4] = {} /\ p[3] \cap p[5] = {} /\ p[4] \cap p[5] = {}
  <2> HIDE DEF p
  <2> DEFINE D(i, j) == p[i] \cap p[j] = {}
  <2> HIDE DEF D
  <2>1. (\A i, j \in 1 .. 5 : i < j => D(i, j)) <=>
        /\ D(1, 2) /\ D(1, 3) /\ D(1, 4) /\ D(1, 5) /\ D(2, 3) /\ D(2, 4) /\ D(2, 5)
        /\ D(3, 4) /\ D(3, 5) /\ D(4, 5)
    OBVIOUS
  <2> QED BY <2>1 DEF D
<1> QED BY <1>1, <1>2 DEF EachMessageOnce, Placed, OnePlace

(* The parts of the invariant make up the property. *)
LEMMA LogInvKeeps == LogInv => MessagesKept
BY PlacesAreOnce DEF LogInv, MessagesKept, NewestKept, Newer, Descends


(* What calls carry is still to be printed or is printed, and so is finite *)
(* and nothing of it is in the registry.                                   *)
LEMMA CarriedPlaced ==
  ASSUME LogInv
  PROVE  /\ IsFiniteSet(Carried(emit)) /\ Cardinality(Carried(emit)) \in Nat
         /\ Carried(emit) \subseteq Waiting(emit) \cup gone.printed
         /\ Carried(emit) \cap Range(reg.msgs) = {}
<1>1. emit \in Seq(Frames) /\ DOMAIN emit = 1 .. Len(emit)
  BY LenProperties DEF LogInv, LogTypes
<1>2. Carried(emit) \subseteq Waiting(emit) \cup gone.printed
  <2> SUFFICES ASSUME NEW x \in Carried(emit) PROVE x \in Waiting(emit) \cup gone.printed
    OBVIOUS
  <2>1. PICK i \in DOMAIN emit : x \in Range(emit[i].todo) \/ x \in emit[i].done
    BY DEF Carried
  <2>2. x \in Range(emit[i].todo) => x \in Waiting(emit)
    BY DEF Waiting
  <2>3. emit[i].done \subseteq gone.printed
    BY <1>1 DEF LogInv, CallsSound
  <2> QED BY <2>1, <2>2, <2>3
<1>3. OnePlace(Range(reg.msgs), Waiting(emit), gone.printed, gone.taken, gone.discarded, logged)
  BY DEF LogInv, Placed
<1>4. Waiting(emit) \cup gone.printed \subseteq 1 .. logged
  BY <1>3 DEF OnePlace
<1>5. Carried(emit) \subseteq 1 .. logged
  BY <1>2, <1>4
<1>6. IsFiniteSet(1 .. logged)
  BY FS_Interval DEF LogInv, LogTypes
<1>7. IsFiniteSet(Carried(emit)) /\ Cardinality(Carried(emit)) \in Nat
  BY <1>5, <1>6, FS_Subset, FS_CardinalityType
<1> QED BY <1>2, <1>3, <1>7 DEF OnePlace

(* What was printed stays printed.                                         *)
LEMMA StillSound ==
  ASSUME NEW e, NEW P, NEW Q, CallsSound(e, P), P \subseteq Q
  PROVE  CallsSound(e, Q)
BY DEF CallsSound

-----------------------------------------------------------------------------
(* The steps.                                                              *)

(* What add_message_int() keeps: the new message and the newest of the     *)
(* others.  What it removes is older.                                      *)
LEMMA AddedProperties ==
  ASSUME NEW r \in [max : Nat, cnt : Int, msgs : Seq(Nat)], Descends(r.msgs),
         NEW id \in Nat, \A i \in 1 .. Len(r.msgs) : r.msgs[i] < id
  PROVE  LET new == Added(r, id)
         IN  /\ new \in [max : Nat, cnt : Int, msgs : Seq(Nat)]
             /\ new.cnt = r.cnt + Len(new.msgs) - Len(r.msgs)
             /\ Descends(new.msgs)
             /\ Range(new.msgs) \subseteq {id} \cup Range(r.msgs)
             /\ \A i \in 1 .. Len(new.msgs) :
                  /\ new.msgs[i] \in {id} \cup Range(r.msgs)
                  /\ \A d \in ({id} \cup Range(r.msgs)) \ Range(new.msgs) : d < new.msgs[i]
<1> DEFINE list == <<id>> \o r.msgs
           n == Len(list)
           keep == IF r.cnt + 1 > r.max /\ Len(list) > r.max THEN r.max ELSE Len(list)
           a == SubSeq(list, 1, keep)
           b == SubSeq(list, keep + 1, Len(list))
           new == Added(r, id)
           len == Len(r.msgs)
<1>1. r.msgs \in Seq(Nat) /\ r.max \in Nat /\ r.cnt \in Int /\ len \in Nat
  BY LenProperties
<1>2. /\ list \in Seq(Nat) /\ n = len + 1 /\ list[1] = id
      /\ \A i \in 2 .. len + 1 : list[i] = r.msgs[i - 1]
      /\ Range(list) = {id} \cup Range(r.msgs)
  BY <1>1, PushProperties
<1>3. \A i \in 1 .. len : r.msgs[i] < id
  OBVIOUS
<1>4. keep \in 0 .. n
  BY <1>1, <1>2
<1>5. new = [r EXCEPT !.msgs = a, !.cnt = r.cnt + 1 - (n - keep)]
  BY DEF Added
<1> HIDE DEF keep
<1>6. ASSUME NEW i \in 1 .. n, NEW j \in 1 .. n, i < j PROVE list[i] > list[j]
  <2>1. j \in 2 .. len + 1 /\ j - 1 \in 1 .. len
    BY <1>1, <1>2, <1>6
  <2>2. list[j] = r.msgs[j - 1] /\ list[j] \in Nat
    BY <1>1, <1>2, <2>1, ElementOfSeq
  <2>3. CASE i = 1
    BY <1>2, <1>3, <2>1, <2>2, <2>3
  <2>4. CASE i # 1
    <3>1. i \in 2 .. len + 1 /\ i - 1 \in 1 .. len /\ i - 1 < j - 1
      BY <1>1, <1>2, <1>6, <2>4
    <3>2. r.msgs[i - 1] > r.msgs[j - 1]
      BY <2>1, <3>1 DEF Descends
    <3> QED BY <1>2, <2>2, <3>1, <3>2
  <2> QED BY <2>3, <2>4
<1>7. Descends(list)
  BY <1>6 DEF Descends
<1>8. Distinct(list)
  BY <1>2, <1>7, DescendsDistinct
<1> HIDE DEF list
<1>9. /\ a \in Seq(Nat) /\ Len(a) = keep /\ \A i \in 1 .. keep : a[i] = list[i]
      /\ b \in Seq(Nat) /\ Len(b) = n - keep /\ \A i \in 1 .. n - keep : b[i] = list[keep + i]
      /\ Range(a) \cup Range(b) = Range(list)
  <2>1. list \in Seq(Nat) /\ keep \in 0 .. Len(list)
    BY <1>2, <1>4
  <2>2. SubSeq(list, 1, keep) \in Seq(Nat) /\ Len(SubSeq(list, 1, keep)) = keep
    BY <1>8, <2>1, CutSplits
  <2>3. \A i \in 1 .. keep : SubSeq(list, 1, keep)[i] = list[i]
    BY <1>8, <2>1, CutSplits
  <2>4. b \in Seq(Nat) /\ Len(b) = n - keep
    BY <1>8, <2>1, CutSplits
  <2>5. \A i \in 1 .. n - keep : SubSeq(list, keep + 1, Len(list))[i] = list[keep + i]
    BY <1>8, <2>1, CutSplits
  <2>6. Range(a) \cup Range(b) = Range(list)
    BY <1>8, <2>1, CutSplits
  <2> QED BY <2>2, <2>3, <2>4, <2>5, <2>6, Zenon
<1> HIDE DEF n, a, b
<1>10. new.msgs = a /\ new.cnt = r.cnt + 1 - (n - keep) /\ new.max = r.max
       /\ new \in [max : Nat, cnt : Int, msgs : Seq(Nat)]
  <2>1. r.cnt + 1 - (n - keep) \in Int
    BY <1>1, <1>2, <1>4
  <2> QED BY <1>1, <1>5, <1>9, <2>1
<1>11. n \in Nat /\ keep \in Nat /\ \A i \in 1 .. keep : i \in 1 .. n
  BY <1>1, <1>2, <1>4
<1>12. Descends(a)
  BY <1>6, <1>9, <1>11 DEF Descends
<1>13. new.cnt = r.cnt + Len(a) - len
  BY <1>1, <1>2, <1>9, <1>10, <1>11
<1>14. ASSUME NEW i \in 1 .. keep, NEW d \in Range(list) \ Range(a) PROVE d < a[i]
  <2>1. d \in Range(b) /\ Range(b) = {b[j] : j \in 1 .. Len(b)}
    BY <1>9, RangeIs
  <2>2. PICK j \in 1 .. n - keep : d = list[keep + j]
    <3>1. PICK j \in 1 .. Len(b) : d = b[j]
      BY <2>1
    <3> QED BY <1>9, <3>1
  <2>3. keep + j \in 1 .. n /\ i \in 1 .. n /\ i < keep + j
    BY <1>11
  <2>4. list[i] > list[keep + j] /\ list[i] \in Nat /\ list[keep + j] \in Nat
    BY <1>2, <1>6, <2>3, ElementOfSeq DEF n
  <2> QED BY <1>9, <2>2, <2>4
<1>15. ASSUME NEW i \in 1 .. keep PROVE a[i] \in Range(list)
  <2>1. Range(a) = {a[j] : j \in 1 .. Len(a)}
    BY <1>9, RangeIs
  <2> QED BY <1>9, <2>1
<1> HIDE DEF new
<1> QED BY <1>2, <1>9, <1>10, <1>12, <1>13, <1>14, <1>15 DEF new

(* Logging keeps the invariant. *)
LEMMA RlogKeeps ==
  ASSUME LogInv, NEW level \in 0 .. 2, rlog_int(level)
  PROVE  LogInv'
<1> DEFINE id == logged + 1
           new == Added(reg, id)
           K == Range(reg.msgs)
           T == Waiting(emit)
           P == gone.printed
           X == gone.taken
           D == gone.discarded
<1>1. /\ reg \in [max : Nat, cnt : Int, msgs : Seq(Nat)] /\ logged \in Nat /\ id \in Nat
      /\ gone \in [printed : SUBSET Nat, taken : SUBSET Nat, discarded : SUBSET Nat]
      /\ P \in SUBSET Nat /\ D \in SUBSET Nat /\ X \in SUBSET Nat
  BY DEF LogInv, LogTypes
<1>2. reg.msgs \in Seq(Nat) /\ reg.cnt \in Int
  BY <1>1
<1>3. OnePlace(K, T, P, X, D, logged)
  BY DEF LogInv, Placed
<1>4. \A x \in K \cup T \cup P \cup X \cup D : x \in 1 .. logged
  BY <1>3 DEF OnePlace
<1>5. 1 .. id = (1 .. logged) \cup {id} /\ id \notin 1 .. logged
  BY <1>1
<1>6. \A i \in 1 .. Len(reg.msgs) : reg.msgs[i] \in K /\ reg.msgs[i] < id
  <2>1. \A i \in 1 .. Len(reg.msgs) : reg.msgs[i] \in K
    BY <1>2, RangeIs
  <2>2. \A x \in K : x < id
    BY <1>1, <1>4
  <2> QED BY <2>1, <2>2
<1>7. CASE level >= 1 /\ reg.max > 0
  <2> DEFINE G == ({id} \cup K) \ Range(new.msgs)
             N == Range(new.msgs)
  <2>1. reg' = new /\ gone' = [gone EXCEPT !.discarded = @ \cup G] /\ logged' = id /\ emit' = emit
    BY <1>7 DEF rlog_int
  <2>2. /\ new \in [max : Nat, cnt : Int, msgs : Seq(Nat)]
        /\ new.cnt = reg.cnt + Len(new.msgs) - Len(reg.msgs)
        /\ Descends(new.msgs)
        /\ N \subseteq {id} \cup K
        /\ \A i \in 1 .. Len(new.msgs) :
             new.msgs[i] \in {id} \cup K /\ \A d \in G : d < new.msgs[i]
    BY <1>1, <1>6, AddedProperties DEF LogInv
  <2> HIDE DEF new
  <2>3. gone'.printed = P /\ gone'.taken = X /\ gone'.discarded = D \cup G
    BY <1>1, <2>1
  <2>4. G \in SUBSET Nat
    <3>1. K \in SUBSET Nat
      BY <1>2, RangeIs
    <3> QED BY <1>1, <3>1
  <2>5. LogTypes'
    <3>1. gone' \in [printed : SUBSET Nat, taken : SUBSET Nat, discarded : SUBSET Nat]
      BY <1>1, <2>1, <2>4
    <3> QED BY <1>1, <2>1, <2>2, <3>1 DEF LogInv, LogTypes
  <2>6. CountExact'
    <3>1. reg'.cnt = new.cnt /\ reg'.msgs = new.msgs /\ emit' = emit
      BY <2>1
    <3>2. Len(new.msgs) \in Nat /\ Len(reg.msgs) \in Nat /\ Cardinality(Carried(emit)) \in Nat
      BY <1>2, <2>2, LenProperties, CarriedPlaced
    <3>3. reg.cnt = Len(reg.msgs) + Cardinality(Carried(emit))
      BY DEF LogInv, CountExact
    <3>4. new.cnt = Len(new.msgs) + Cardinality(Carried(emit))
      <4> DEFINE c == new.cnt
                 l == Len(new.msgs)
                 m == Len(reg.msgs)
                 o == reg.cnt
                 t == Cardinality(Carried(emit))
      <4>1. c = o + l - m /\ o \in Int /\ o = m + t
        BY <1>2, <2>2, <3>3
      <4>2. l \in Nat /\ m \in Nat /\ t \in Nat
        BY <3>2
      <4> HIDE DEF c, l, m, o, t
      <4>3. c = l + t
        BY <4>1, <4>2
      <4> QED BY <4>3 DEF c, l, t
    <3> QED BY <3>1, <3>4 DEF CountExact
  <2>7. Placed'
    <3> HIDE DEF K, T, P, X, D
    <3>1. id \notin K \cup T \cup P \cup X \cup D
      BY <1>4, <1>5
    <3>2. OnePlace(N, T, P, X, D \cup G, id)
      <4>1. N \cup T \cup P \cup X \cup (D \cup G) = {id} \cup (K \cup T \cup P \cup X \cup D)
        BY <2>2
      <4>2. N \cup T \cup P \cup X \cup (D \cup G) = 1 .. id
        BY <1>3, <1>5, <4>1 DEF OnePlace
      <4> QED BY <1>3, <2>2, <3>1, <4>2 DEF OnePlace
    <3> QED BY <2>1, <2>3, <3>2 DEF Placed, P, T, X, D
  <2>8. Newer'
    <3>1. ASSUME NEW d \in D \cup G, NEW i \in 1 .. Len(new.msgs) PROVE d < new.msgs[i]
      <4>1. CASE d \in G
        BY <2>2, <4>1
      <4>2. CASE d \in D
        <5>1. CASE new.msgs[i] = id
          BY <1>1, <1>4, <4>2, <5>1
        <5>2. CASE new.msgs[i] \in K
          <6>1. K = {reg.msgs[j] : j \in 1 .. Len(reg.msgs)}
            BY <1>2, RangeIs
          <6>2. PICK j \in 1 .. Len(reg.msgs) : new.msgs[i] = reg.msgs[j]
            BY <5>2, <6>1
          <6> QED BY <4>2, <6>2 DEF LogInv, Newer
        <5> QED BY <2>2, <5>1, <5>2
      <4> QED BY <4>1, <4>2
    <3> QED BY <2>1, <2>3, <3>1 DEF Newer
  <2>9. CallsSound(emit, gone.printed)'
    BY <2>1, <2>3 DEF LogInv
  <2> QED BY <2>1, <2>2, <2>5, <2>6, <2>7, <2>8, <2>9 DEF LogInv
<1>8. CASE ~(level >= 1 /\ reg.max > 0)
  <2>1. reg' = reg /\ gone' = [gone EXCEPT !.printed = @ \cup {id}] /\ logged' = id /\ emit' = emit
    BY <1>8 DEF rlog_int
  <2>2. /\ gone'.printed = P \cup {id} /\ gone'.taken = X /\ gone'.discarded = D
        /\ gone' \in [printed : SUBSET Nat, taken : SUBSET Nat, discarded : SUBSET Nat]
    BY <1>1, <2>1
  <2>3. Placed'
    <3> HIDE DEF K, T, P, X, D
    <3>1. id \notin K \cup T \cup P \cup X \cup D
      BY <1>4, <1>5
    <3>2. K \cup T \cup (P \cup {id}) \cup X \cup D = 1 .. id
      BY <1>3, <1>5 DEF OnePlace
    <3>3. OnePlace(K, T, P \cup {id}, X, D, id)
      BY <1>3, <3>1, <3>2 DEF OnePlace
    <3> QED BY <2>1, <2>2, <3>3 DEF Placed, P, T, X, D, K
  <2>4. LogTypes' /\ CountExact' /\ Newer'
    BY <1>1, <2>1, <2>2 DEF LogInv, LogTypes, CountExact, Newer
  <2>5. CallsSound(emit, gone.printed)'
    BY <2>1, <2>2, StillSound DEF LogInv
  <2> QED BY <2>1, <2>3, <2>4, <2>5 DEF LogInv
<1> QED BY <1>7, <1>8
(* Lists without repetition, and sets apart, are counted.                  *)
LEMMA ElementsCounted ==
  ASSUME NEW s \in Seq(Nat), Distinct(s)
  PROVE  IsFiniteSet(Range(s)) /\ Cardinality(Range(s)) = Len(s)
<1>1. Range(s) = {s[i] : i \in 1 .. Len(s)} /\ Len(s) \in Nat /\ DOMAIN s = 1 .. Len(s)
  BY RangeIs, LenProperties
<1>2. s \in [1 .. Len(s) -> Range(s)]
  BY <1>1, LenProperties
<1>3. s \in Bijection(1 .. Len(s), Range(s))
  BY <1>1, <1>2 DEF Bijection, Injection, Surjection, IsInjective, Distinct
<1>4. ExistsBijection(1 .. Len(s), Range(s))
  BY <1>3 DEF ExistsBijection
<1> QED BY <1>1, <1>4, FS_CountingElements, FS_NatBijection

LEMMA DisjointCounted ==
  ASSUME NEW S, IsFiniteSet(S), NEW T, IsFiniteSet(T), S \cap T = {}
  PROVE  Cardinality(S \cup T) = Cardinality(S) + Cardinality(T)
<1>1. Cardinality(S \cup T) = Cardinality(S) + Cardinality(T) - Cardinality(S \cap T)
  BY FS_Union
<1>2. Cardinality(S \cap T) = 0 /\ Cardinality(S) \in Nat /\ Cardinality(T) \in Nat
  BY FS_EmptySet, FS_CardinalityType
<1> QED BY <1>1, <1>2

(* What moves to the list of ms_rlog_emit() is still in one place. *)
LEMMA EmitStartKeeps ==
  ASSUME LogInv, NEW count \in 0 .. 2, EmitStart(count)
  PROVE  LogInv'
<1> DEFINE s == reg.msgs
           n == IF count > 0 /\ count < Len(reg.msgs) THEN count ELSE Len(reg.msgs)
           a == SubSeq(s, 1, n)
           b == SubSeq(s, n + 1, Len(s))
           r == Reverse(a)
<1>1. /\ reg \in [max : Nat, cnt : Int, msgs : Seq(Nat)] /\ s \in Seq(Nat) /\ Len(s) \in Nat
      /\ Descends(s) /\ Distinct(s) /\ reg.cnt \in Int
  BY DescendsDistinct, LenProperties DEF LogInv, LogTypes
<1>2. emit \in Seq(Frames)
  BY DEF LogInv, LogTypes
<1>3. /\ reg' = [reg EXCEPT !.msgs = b] /\ emit' = Append(emit, [todo |-> r, done |-> {}])
      /\ UNCHANGED <<logged, gone>>
  BY DEF EmitStart, Called
<1>4. n \in 0 .. Len(s)
  BY <1>1
<1> HIDE DEF n
<1>5. a \in Seq(Nat) /\ Len(a) = n
  BY <1>1, <1>4, CutSplits
<1>6. \A i \in 1 .. n : a[i] = s[i]
  BY <1>1, <1>4, CutSplits
<1>7. b \in Seq(Nat) /\ Len(b) = Len(s) - n
  BY <1>1, <1>4, CutSplits
<1>8. \A i \in 1 .. Len(s) - n : b[i] = s[n + i]
  BY <1>1, <1>4, CutSplits
<1>9. Range(a) \cup Range(b) = Range(s) /\ Range(a) \cap Range(b) = {}
  BY <1>1, <1>4, CutSplits
<1> HIDE DEF a, b, s
<1>10. Distinct(a)
  <2>1. \A i \in 1 .. Len(a) : i \in 1 .. Len(s) /\ a[i] = s[i]
    BY <1>1, <1>4, <1>5, <1>6
  <2> QED BY <1>1, <2>1 DEF Distinct
<1>11. r \in Seq(Nat) /\ Len(r) = n /\ Distinct(r) /\ Range(r) = Range(a)
  BY <1>5, <1>10, ReverseProperties
<1> HIDE DEF r
<1>12. \A i \in 1 .. Len(b) : n + i \in 1 .. Len(s) /\ b[i] = s[n + i]
  BY <1>1, <1>4, <1>7, <1>8
<1>13. Descends(b)
  <2> SUFFICES ASSUME NEW i \in 1 .. Len(b), NEW j \in 1 .. Len(b), i < j PROVE b[i] > b[j]
    BY DEF Descends
  <2>1. n + i < n + j
    BY <1>4
  <2> QED BY <1>1, <1>12, <2>1 DEF Descends
<1>14. reg'.msgs = b /\ reg'.cnt = reg.cnt /\ reg' \in [max : Nat, cnt : Int, msgs : Seq(Nat)]
  BY <1>1, <1>3, <1>7
<1> DEFINE f == [todo |-> r, done |-> {}]
<1>15. f \in Frames /\ f.todo = r /\ f.done = {} /\ CallMessages(f) = Range(a)
  BY <1>11 DEF Frames, CallMessages
<1>16. OnePlace(Range(s), Waiting(emit), gone.printed, gone.taken, gone.discarded, logged)
  BY DEF LogInv, Placed, s
<1>17. CallMessages(f) \cap Carried(emit) = {}
  <2>1. Carried(emit) \cap Range(s) = {}
    BY CarriedPlaced DEF s
  <2> QED BY <1>9, <1>15, <2>1
<1> HIDE DEF f
<1>18. emit' \in Seq(Frames) /\ CallsSound(emit', gone.printed)
       /\ Waiting(emit') = Waiting(emit) \cup Range(a) /\ Carried(emit') = Carried(emit) \cup Range(a)
  <2>1. emit' = Append(emit, f)
    BY <1>3 DEF f
  <2>2. CallsSound(emit, gone.printed) /\ Distinct(f.todo) /\ f.done \subseteq gone.printed
    BY <1>11, <1>15 DEF LogInv
  <2>3. CallsSound(Append(emit, f), gone.printed)
    BY <1>2, <1>15, <1>17, <2>2, CallAdded
  <2>4. /\ Append(emit, f) \in Seq(Frames)
        /\ Waiting(Append(emit, f)) = Waiting(emit) \cup Range(f.todo)
        /\ Carried(Append(emit, f)) = Carried(emit) \cup CallMessages(f)
    BY <1>2, <1>15, CallAdded
  <2> QED BY <1>11, <1>15, <2>1, <2>3, <2>4
<1>19. LogTypes'
  BY <1>3, <1>14, <1>18 DEF LogInv, LogTypes
<1>20. CountExact'
  <2>1. IsFiniteSet(Range(a)) /\ Cardinality(Range(a)) = n
    BY <1>4, <1>5, <1>10, ElementsCounted
  <2>2. Range(a) \cap Carried(emit) = {}
    BY <1>15, <1>17
  <2>3. IsFiniteSet(Carried(emit)) /\ Cardinality(Carried(emit)) \in Nat
    BY CarriedPlaced
  <2>4. Cardinality(Carried(emit) \cup Range(a)) = Cardinality(Carried(emit)) + n
    BY <1>4, <2>1, <2>2, <2>3, DisjointCounted
  <2>5. reg.cnt = Len(s) + Cardinality(Carried(emit))
    BY DEF LogInv, CountExact, s
  <2>6. reg.cnt = Len(b) + (Cardinality(Carried(emit)) + n)
    BY <1>1, <1>4, <1>7, <2>3, <2>5
  <2> QED BY <1>14, <1>18, <2>4, <2>6 DEF CountExact
<1>21. Placed'
  <2> DEFINE T == Waiting(emit)
  <2>1. Range(b) \cup (T \cup Range(a)) \cup gone.printed \cup gone.taken \cup gone.discarded = 1 .. logged
    BY <1>9, <1>16 DEF OnePlace
  <2>2. OnePlace(Range(b), T \cup Range(a), gone.printed, gone.taken, gone.discarded, logged)
    BY <1>9, <1>16, <2>1 DEF OnePlace
  <2> QED BY <1>3, <1>14, <1>18, <2>2 DEF Placed
<1>22. Newer'
  <2>1. \A d \in gone.discarded, i \in 1 .. Len(s) : d < s[i]
    BY DEF LogInv, Newer, s
  <2> QED BY <1>3, <1>12, <1>14, <2>1 DEF Newer
<1> QED BY <1>3, <1>13, <1>14, <1>18, <1>19, <1>20, <1>21, <1>22 DEF LogInv

(* Printing moves the first of the list of the latest call. *)
LEMMA EmitPrintKeeps ==
  ASSUME LogInv, EmitPrint
  PROVE  LogInv'
<1> DEFINE b == Front(emit)
           t == Last(emit).todo
           d == Last(emit).done
           h == Head(t)
           f == [todo |-> Tail(t), done |-> d \cup {h}]
<1>1. /\ emit \in Seq(Frames) /\ emit # <<>> /\ t # <<>>
      /\ gone \in [printed : SUBSET Nat, taken : SUBSET Nat, discarded : SUBSET Nat]
  BY DEF LogInv, LogTypes, EmitPrint
<1>2. b \in Seq(Frames) /\ Last(emit) \in Frames /\ emit = Append(b, Last(emit))
  BY <1>1, LatestCall
<1>3. t \in Seq(Nat) /\ d \in SUBSET Nat
  BY <1>2 DEF Frames
<1>4. /\ CallsSound(b, gone.printed) /\ Distinct(t) /\ d \subseteq gone.printed
      /\ CallMessages(Last(emit)) \cap Carried(b) = {}
      /\ Waiting(emit) = Waiting(b) \cup Range(t) /\ Carried(emit) = Carried(b) \cup CallMessages(Last(emit))
  <2>1. CallsSound(Append(b, Last(emit)), gone.printed)
    BY <1>2 DEF LogInv
  <2>2. \A P : CallsSound(Append(b, Last(emit)), P) <=>
               /\ CallsSound(b, P) /\ Distinct(t) /\ d \subseteq P
               /\ CallMessages(Last(emit)) \cap Carried(b) = {}
    BY <1>2, CallAdded
  <2>3. /\ Waiting(Append(b, Last(emit))) = Waiting(b) \cup Range(t)
        /\ Carried(Append(b, Last(emit))) = Carried(b) \cup CallMessages(Last(emit))
    BY <1>2, CallAdded
  <2> QED BY <1>2, <2>1, <2>2, <2>3
<1>5. /\ Tail(t) \in Seq(Nat) /\ Distinct(Tail(t))
      /\ h \in Range(t) /\ h \in Nat /\ Range(Tail(t)) = Range(t) \ {h}
  BY <1>1, <1>3, <1>4, TailSplits
<1>6. f \in Frames /\ f.todo = Tail(t) /\ f.done = d \cup {h}
  BY <1>3, <1>5 DEF Frames
<1>7. /\ gone' = [gone EXCEPT !.printed = @ \cup {h}]
      /\ emit' = Append(b, f)
      /\ UNCHANGED <<reg, logged>>
  <2>1. emit' = [emit EXCEPT ![Len(emit)] = [todo |-> Tail(t), done |-> emit[Len(emit)].done \cup {h}]]
    BY DEF EmitPrint
  <2>2. emit[Len(emit)] = Last(emit)
    BY DEF Last
  <2>3. emit' = [emit EXCEPT ![Len(emit)] = f]
    BY <2>1, <2>2
  <2> HIDE DEF f, b
  <2>4. emit' = Append(Front(emit), f)
    BY <1>1, <1>6, <2>3, LatestCall
  <2> QED BY <2>4 DEF EmitPrint, b
<1>8. /\ gone'.printed = gone.printed \cup {h} /\ gone'.taken = gone.taken
      /\ gone'.discarded = gone.discarded
      /\ gone' \in [printed : SUBSET Nat, taken : SUBSET Nat, discarded : SUBSET Nat]
  BY <1>1, <1>5, <1>7
<1>9. CallMessages(f) = CallMessages(Last(emit))
  BY <1>5, <1>6 DEF CallMessages
<1> HIDE DEF f
<1>10. /\ emit' \in Seq(Frames) /\ Waiting(emit') = Waiting(b) \cup Range(Tail(t))
       /\ Carried(emit') = Carried(emit)
  <2>1. /\ Append(b, f) \in Seq(Frames)
        /\ Waiting(Append(b, f)) = Waiting(b) \cup Range(f.todo)
        /\ Carried(Append(b, f)) = Carried(b) \cup CallMessages(f)
    BY <1>2, <1>6, CallAdded
  <2> QED BY <1>4, <1>6, <1>7, <1>9, <2>1
<1>11. CallsSound(emit', gone'.printed)
  <2>1. CallsSound(b, gone'.printed)
    BY <1>4, <1>8, StillSound
  <2>2. f.done \subseteq gone'.printed /\ Distinct(f.todo) /\ CallMessages(f) \cap Carried(b) = {}
    BY <1>4, <1>5, <1>6, <1>8, <1>9
  <2>3. CallsSound(Append(b, f), gone'.printed)
    BY <1>2, <1>6, <2>1, <2>2, CallAdded
  <2> QED BY <1>7, <2>3
<1>12. LogTypes'
  BY <1>7, <1>8, <1>10 DEF LogInv, LogTypes
<1>13. CountExact'
  BY <1>7, <1>10 DEF LogInv, CountExact
<1>14. Placed'
  <2> DEFINE T == Waiting(emit)
             K == Range(reg.msgs)
             P == gone.printed
             X == gone.taken
             D == gone.discarded
  <2>1. h \notin Waiting(b)
    <3>1. Waiting(b) \subseteq Carried(b)
      BY DEF Waiting, Carried
    <3>2. h \in CallMessages(Last(emit))
      BY <1>5 DEF CallMessages
    <3> QED BY <1>4, <3>1, <3>2
  <2>2. Waiting(emit') = T \ {h} /\ h \in T
    BY <1>4, <1>5, <1>10, <2>1
  <2>3. OnePlace(K, T, P, X, D, logged)
    BY DEF LogInv, Placed
  <2> HIDE DEF T, K, P, X, D, h
  <2>4. K \cup (T \ {h}) \cup (P \cup {h}) \cup X \cup D = 1 .. logged
    BY <2>2, <2>3 DEF OnePlace
  <2>5. OnePlace(K, T \ {h}, P \cup {h}, X, D, logged)
    BY <2>2, <2>3, <2>4 DEF OnePlace
  <2> QED BY <1>7, <1>8, <2>2, <2>5 DEF Placed, K, P, X, D, T
<1>15. Newer' /\ Descends(reg.msgs)'
  BY <1>7, <1>8 DEF LogInv, Newer, Descends
<1> QED BY <1>11, <1>12, <1>13, <1>14, <1>15 DEF LogInv

(* When all that a call has taken is printed the count is corrected. *)
LEMMA EmitEndKeeps ==
  ASSUME LogInv, EmitEnd
  PROVE  LogInv'
<1> DEFINE b == Front(emit)
           d == Last(emit).done
<1>1. /\ reg \in [max : Nat, cnt : Int, msgs : Seq(Nat)] /\ reg.msgs \in Seq(Nat) /\ reg.cnt \in Int
      /\ Len(reg.msgs) \in Nat
      /\ emit \in Seq(Frames) /\ emit # <<>> /\ Last(emit).todo = <<>>
  BY LenProperties DEF LogInv, LogTypes, EmitEnd
<1>2. /\ reg' = [reg EXCEPT !.cnt = @ - Cardinality(d)] /\ emit' = b
      /\ UNCHANGED <<logged, gone>>
  BY DEF EmitEnd
<1>3. b \in Seq(Frames) /\ Last(emit) \in Frames /\ emit = Append(b, Last(emit))
  BY <1>1, LatestCall
<1>4. Range(Last(emit).todo) = {} /\ CallMessages(Last(emit)) = d
  <2>1. Range(<<>>) = {}
    BY DEF Range
  <2> QED BY <1>1, <2>1 DEF CallMessages
<1>5. /\ CallsSound(b, gone.printed) /\ d \cap Carried(b) = {}
      /\ Waiting(emit) = Waiting(b) /\ Carried(emit) = Carried(b) \cup d
  <2>1. CallsSound(Append(b, Last(emit)), gone.printed)
    BY <1>3 DEF LogInv
  <2>2. \A P : CallsSound(Append(b, Last(emit)), P) <=>
               /\ CallsSound(b, P) /\ Distinct(Last(emit).todo) /\ d \subseteq P
               /\ CallMessages(Last(emit)) \cap Carried(b) = {}
    BY <1>3, CallAdded
  <2>3. /\ Waiting(Append(b, Last(emit))) = Waiting(b) \cup Range(Last(emit).todo)
        /\ Carried(Append(b, Last(emit))) = Carried(b) \cup CallMessages(Last(emit))
    BY <1>3, CallAdded
  <2> QED BY <1>3, <1>4, <2>1, <2>2, <2>3
<1>6. /\ IsFiniteSet(d) /\ IsFiniteSet(Carried(b))
      /\ Cardinality(d) \in Nat /\ Cardinality(Carried(b)) \in Nat
      /\ Cardinality(Carried(emit)) = Cardinality(Carried(b)) + Cardinality(d)
  <2>1. IsFiniteSet(Carried(emit))
    BY CarriedPlaced
  <2>2. IsFiniteSet(d) /\ IsFiniteSet(Carried(b))
    BY <1>5, <2>1, FS_Subset
  <2> HIDE DEF b, d
  <2>3. Cardinality(Carried(b) \cup d) = Cardinality(Carried(b)) + Cardinality(d)
    BY <1>5, <2>2, DisjointCounted
  <2> QED BY <1>5, <2>2, <2>3, FS_CardinalityType
<1>7. /\ reg'.msgs = reg.msgs /\ reg'.cnt = reg.cnt - Cardinality(d)
      /\ reg' \in [max : Nat, cnt : Int, msgs : Seq(Nat)]
  <2> DEFINE c == Cardinality(d)
  <2>1. c \in Nat /\ reg' = [reg EXCEPT !.cnt = @ - c]
    BY <1>2, <1>6
  <2> HIDE DEF c
  <2>2. reg.cnt - c \in Int
    BY <1>1, <2>1
  <2>3. reg'.msgs = reg.msgs /\ reg'.cnt = reg.cnt - c /\ reg' \in [max : Nat, cnt : Int, msgs : Seq(Nat)]
    BY <1>1, <2>1, <2>2
  <2> QED BY <2>3 DEF c
<1>8. CountExact'
  <2> DEFINE k == Len(reg.msgs)
             x == Cardinality(d)
             y == Cardinality(Carried(b))
             c == reg.cnt
  <2>1. c = k + (y + x) /\ k \in Nat /\ x \in Nat /\ y \in Nat
    BY <1>1, <1>6 DEF LogInv, CountExact
  <2> HIDE DEF k, x, y, c
  <2>2. c - x = k + y
    BY <2>1
  <2> QED BY <1>2, <1>7, <2>2 DEF CountExact, k, x, y, c
<1>9. LogTypes'
  BY <1>2, <1>3, <1>7 DEF LogInv, LogTypes
<1>10. Placed' /\ Newer' /\ Descends(reg.msgs)'
  BY <1>2, <1>5, <1>7 DEF LogInv, Placed, Newer, Descends
<1> QED BY <1>2, <1>5, <1>8, <1>9, <1>10 DEF LogInv

(* Taking the newest message. *)
LEMMA PopKeeps ==
  ASSUME LogInv, ms_rlog_pop
  PROVE  LogInv'
<1> DEFINE s == reg.msgs
           h == Head(s)
<1>1. /\ reg \in [max : Nat, cnt : Int, msgs : Seq(Nat)] /\ s \in Seq(Nat) /\ reg.cnt \in Int
      /\ gone \in [printed : SUBSET Nat, taken : SUBSET Nat, discarded : SUBSET Nat]
      /\ Descends(s) /\ Distinct(s) /\ s # <<>>
      /\ Cardinality(Carried(emit)) \in Nat
  BY DescendsDistinct, CarriedPlaced DEF LogInv, LogTypes, ms_rlog_pop
<1>2. /\ Tail(s) \in Seq(Nat) /\ Len(Tail(s)) = Len(s) - 1 /\ Len(s) \in Nat
      /\ \A i \in 1 .. Len(Tail(s)) : Tail(s)[i] = s[i + 1]
      /\ h \in Range(s) /\ h \in Nat /\ Range(Tail(s)) = Range(s) \ {h}
  BY <1>1, TailSplits
<1>3. /\ gone' = [gone EXCEPT !.taken = @ \cup {h}]
      /\ reg' = [reg EXCEPT !.msgs = Tail(@), !.cnt = @ - 1]
      /\ UNCHANGED <<emit, logged>>
  BY DEF ms_rlog_pop
<1>4. /\ reg'.msgs = Tail(s) /\ reg'.cnt = reg.cnt - 1
      /\ reg' \in [max : Nat, cnt : Int, msgs : Seq(Nat)]
  <2>1. reg.cnt - 1 \in Int /\ Tail(s) \in Seq(Nat)
    BY <1>1, <1>2
  <2> HIDE DEF h
  <2> QED BY <1>1, <1>3, <2>1, Zenon
<1>5. /\ gone'.printed = gone.printed /\ gone'.taken = gone.taken \cup {h}
      /\ gone'.discarded = gone.discarded
      /\ gone' \in [printed : SUBSET Nat, taken : SUBSET Nat, discarded : SUBSET Nat]
  BY <1>1, <1>2, <1>3
<1>6. LogTypes'
  BY <1>3, <1>4, <1>5 DEF LogInv, LogTypes
<1>7. CountExact'
  <2>1. reg.cnt = Len(s) + Cardinality(Carried(emit))
    BY DEF LogInv, CountExact
  <2>2. reg.cnt - 1 = Len(Tail(s)) + Cardinality(Carried(emit))
    BY <1>1, <1>2, <2>1
  <2> QED BY <1>3, <1>4, <2>2 DEF CountExact
<1>8. Placed'
  <2> DEFINE T == Waiting(emit)
             K == Range(s)
             P == gone.printed
             X == gone.taken
             D == gone.discarded
  <2>1. OnePlace(K, T, P, X, D, logged) /\ h \in K
    BY <1>2 DEF LogInv, Placed
  <2> HIDE DEF T, K, P, X, D, h
  <2>2. (K \ {h}) \cup T \cup P \cup (X \cup {h}) \cup D = 1 .. logged
    BY <2>1 DEF OnePlace
  <2>3. OnePlace(K \ {h}, T, P, X \cup {h}, D, logged)
    BY <2>1, <2>2 DEF OnePlace
  <2> QED BY <1>2, <1>3, <1>4, <1>5, <2>3 DEF Placed, K, P, X, D, T
<1> HIDE DEF s
<1>9. \A i \in 1 .. Len(Tail(s)) : i + 1 \in 1 .. Len(s) /\ Tail(s)[i] = s[i + 1]
  BY <1>2
<1>10. Descends(Tail(s))
  <2> SUFFICES ASSUME NEW i \in 1 .. Len(Tail(s)), NEW j \in 1 .. Len(Tail(s)), i < j
               PROVE  Tail(s)[i] > Tail(s)[j]
    BY DEF Descends
  <2>1. i + 1 < j + 1
    OBVIOUS
  <2> QED BY <1>1, <1>9, <2>1 DEF Descends
<1>11. Newer'
  <2>1. \A d \in gone.discarded, i \in 1 .. Len(s) : d < s[i]
    BY DEF LogInv, Newer, s
  <2> QED BY <1>4, <1>5, <1>9, <2>1 DEF Newer
<1>12. CallsSound(emit, gone.printed)'
  BY <1>3, <1>5 DEF LogInv
<1> QED BY <1>3, <1>4, <1>6, <1>7, <1>8, <1>10, <1>11, <1>12 DEF LogInv

(* No call is on its way. *)
LEMMA NoCalls == Waiting(<<>>) = {} /\ Carried(<<>>) = {} /\ Cardinality(Carried(<<>>)) = 0 /\ CallsSound(<<>>, {})
<1>1. Waiting(<<>>) = {} /\ Carried(<<>>) = {} /\ CallsSound(<<>>, {})
  BY DEF Waiting, Carried, CallsSound
<1> QED BY <1>1, FS_EmptySet

(* Clearing the list. *)
LEMMA FreeLogKeeps ==
  ASSUME LogInv, ms_rlog_free
  PROVE  LogInv'
<1> DEFINE s == reg.msgs
<1>1. /\ reg \in [max : Nat, cnt : Int, msgs : Seq(Nat)] /\ s \in Seq(Nat)
      /\ gone \in [printed : SUBSET Nat, taken : SUBSET Nat, discarded : SUBSET Nat]
      /\ Range(s) \in SUBSET Nat
      /\ emit = <<>>
  BY RangeIs DEF LogInv, LogTypes, ms_rlog_free
<1>2. /\ gone' = [gone EXCEPT !.taken = @ \cup Range(s)]
      /\ reg' = [reg EXCEPT !.msgs = <<>>, !.cnt = 0]
      /\ UNCHANGED <<emit, logged>>
  BY DEF ms_rlog_free
<1>3. /\ reg'.msgs = <<>> /\ reg'.cnt = 0
      /\ reg' \in [max : Nat, cnt : Int, msgs : Seq(Nat)]
  <2>1. <<>> \in Seq(Nat) /\ 0 \in Int
    OBVIOUS
  <2> QED BY <1>1, <1>2, <2>1, Zenon
<1>4. /\ gone'.printed = gone.printed /\ gone'.taken = gone.taken \cup Range(s)
      /\ gone'.discarded = gone.discarded
      /\ gone' \in [printed : SUBSET Nat, taken : SUBSET Nat, discarded : SUBSET Nat]
  BY <1>1, <1>2
<1>5. LogTypes' /\ CountExact'
  <2>1. LogTypes'
    BY <1>2, <1>3, <1>4, Zenon DEF LogInv, LogTypes
  <2>2. emit' = <<>> /\ Cardinality(Carried(<<>>)) = 0 /\ Len(<<>>) = 0
    BY <1>1, <1>2, NoCalls
  <2>3. reg'.cnt = Len(reg'.msgs) + Cardinality(Carried(emit'))
    BY <1>3, <2>2
  <2>4. CountExact'
    BY <2>3 DEF CountExact
  <2> QED BY <2>1, <2>4
<1>6. Range(<<>>) = {}
  BY DEF Range
<1>7. Placed'
  <2> DEFINE T == Waiting(emit)
             K == Range(s)
             P == gone.printed
             X == gone.taken
             D == gone.discarded
  <2>1. OnePlace(K, T, P, X, D, logged)
    BY DEF LogInv, Placed
  <2> HIDE DEF T, K, P, X, D
  <2>2. {} \cup T \cup P \cup (X \cup K) \cup D = 1 .. logged
    BY <2>1 DEF OnePlace
  <2>3. OnePlace({}, T, P, X \cup K, D, logged)
    BY <2>1, <2>2 DEF OnePlace
  <2> QED BY <1>2, <1>3, <1>4, <1>6, <2>3 DEF Placed, K, P, X, D, T
<1>8. Newer' /\ Descends(reg.msgs)'
  BY <1>3 DEF Newer, Descends
<1>9. CallsSound(emit, gone.printed)'
  BY <1>2, <1>4 DEF LogInv
<1> QED BY <1>2, <1>5, <1>7, <1>8, <1>9 DEF LogInv

-----------------------------------------------------------------------------
(* The theorem.                                                            *)

(* Whatever is logged, emitted, popped and cleared, in whatever order and  *)
(* also by the print function while calls of ms_rlog_emit() are on their   *)
(* way, the count of the registry is exact, every message is in one place, *)
(* and the limit costs the oldest messages only.                           *)
THEOREM MessagesAreKept == LogSpec => []MessagesKept
<1>1. LogInit => LogInv
  <2> SUFFICES ASSUME LogInit PROVE LogInv
    OBVIOUS
  <2>1. Range(<<>>) = {} /\ 1 .. 0 = {}
    BY DEF Range
  <2>2. emit = <<>> /\ gone.printed = {}
    BY DEF LogInit
  <2>3. Placed
    BY <2>1, <2>2, NoCalls DEF LogInit, Placed, OnePlace
  <2>4. LogTypes
    BY DEF LogInit, LogTypes
  <2>5. CountExact
    BY <2>2, NoCalls DEF LogInit, CountExact
  <2> QED BY <2>2, <2>3, <2>4, <2>5, NoCalls DEF LogInit, LogInv, Descends, Newer
<1>2. LogInv /\ [LogNext]_logVars => LogInv'
  <2> SUFFICES ASSUME LogInv, [LogNext]_logVars PROVE LogInv'
    OBVIOUS
  <2>1. CASE \E max \in MaxMessages : rloginit_int(max)
    <3>1. PICK max \in MaxMessages : rloginit_int(max)
      BY <2>1
    <3>2. reg \in [max : Nat, cnt : Int, msgs : Seq(Nat)] /\ max \in Nat
      BY LogAssumption DEF LogInv, LogTypes
    <3>3. reg' = [reg EXCEPT !.max = max] /\ UNCHANGED <<emit, logged, gone>>
      BY <3>1 DEF rloginit_int
    <3>4. reg'.msgs = reg.msgs /\ reg'.cnt = reg.cnt /\ reg' \in [max : Nat, cnt : Int, msgs : Seq(Nat)]
      BY <3>2, <3>3
    <3> QED BY <3>3, <3>4 DEF LogInv, LogTypes, CountExact, Placed, Descends, Newer
  <2>2. CASE \E level \in 0 .. 2 : rlog_int(level)
    BY <2>2, RlogKeeps
  <2>3. CASE \E count \in 0 .. 2 : EmitStart(count)
    BY <2>3, EmitStartKeeps
  <2>4. CASE UNCHANGED logVars
    BY <2>4 DEF logVars, LogInv, LogTypes, CountExact, Placed, Descends, Newer
  <2> QED BY <2>1, <2>2, <2>3, <2>4, EmitPrintKeeps, EmitEndKeeps, PopKeeps, FreeLogKeeps DEF LogNext
<1> QED BY <1>1, <1>2, LogInvKeeps, PTL DEF LogSpec

-----------------------------------------------------------------------------
(* Extra headers (ExtraHeaders).                                           *)

(* Documents that are written alike: the same paths, and the same values   *)
(* in the precision of the text.                                           *)
Same(d, e) ==
  /\ DOMAIN d.at = DOMAIN e.at
  /\ \A p \in DOMAIN d.at : WrittenValue(d.at[p]) = WrittenValue(e.at[p])

Document(d) ==
  /\ d = [there |-> d.there, root |-> d.root, at |-> d.at]
  /\ d.there \in BOOLEAN /\ d.root \in BOOLEAN
  /\ Tree(d.at)

(* What the text of a record says. *)
Stands(e) == IF e.kind = "json" THEN e.doc ELSE NewDoc

(* The copies of the headers that are there agree with what was said; the  *)
(* parse state has one of them at least, and no parse state is ever made   *)
(* of a text that does not parse.                                          *)
ExtraTypes ==
  /\ extra = [kind |-> extra.kind, doc |-> extra.doc]
  /\ state = [live |-> state.live, doc |-> state.doc, mut |-> state.mut]
  /\ extra.kind \in {"none", "json", "bad"} /\ state.live \in BOOLEAN
  /\ Document(extra.doc) /\ Document(state.doc) /\ Document(state.mut) /\ Document(said)

TextAgrees ==
  /\ extra.kind = "json" => extra.doc.there /\ Fits(extra.doc)
  /\ ~state.live => state = NoState /\ Same(said, Stands(extra))

Copies(s, d) ==
  /\ s.doc.there \/ s.mut.there
  /\ s.doc.there => Same(d, s.doc)
  /\ s.mut.there => Same(d, s.mut)
  /\ s.doc.there /\ s.mut.there => s.doc.at = s.mut.at

CopiesAgree == state.live => extra.kind # "bad" /\ Copies(state, said)

ExtraInv == ExtraTypes /\ TextAgrees /\ CopiesAgree

-----------------------------------------------------------------------------
(* Values and what is written of them.                                     *)

(* Writing keeps the entries of an array, tells objects and arrays from    *)
(* the rest, and writing what was read changes nothing more.               *)
LEMMA WrittenFacts ==
  ASSUME NEW v \in Value
  PROVE  /\ WrittenValue(v) \in Value
         /\ WrittenValue(v).list = v.list
         /\ WrittenValue(WrittenValue(v)) = WrittenValue(v)
         /\ WrittenValue(v) = Empty <=> v = Empty
         /\ WrittenValue(v).t = "a" <=> v.t = "a"
         /\ v.t = "a" => WrittenValue(v) = v
<1> DEFINE w == WrittenValue(v)
<1>1. CASE v.t = "n"
  <2> DEFINE k == v.n \div 2
  <2>1. v.n \in Int /\ k \in Int
    BY DEF Value
  <2>2. w = [v EXCEPT !.n = 2 * k]
    BY <1>1 DEF WrittenValue
  <2>3. w \in Value /\ w.t = "n" /\ w.n = 2 * k /\ w.list = v.list
    BY <1>1, <2>1, <2>2 DEF Value
  <2>4. 2 * (w.n \div 2) = w.n
    BY <2>1, <2>3
  <2>5. WrittenValue(w) = [w EXCEPT !.n = w.n]
    BY <2>3, <2>4 DEF WrittenValue
  <2>6. WrittenValue(w) = w
    BY <2>3, <2>5 DEF Value
  <2>7. w # Empty /\ v # Empty
    BY <1>1, <2>3 DEF Empty, Scalar
  <2> QED BY <1>1, <2>3, <2>6, <2>7
<1>2. CASE v.t = "i" /\ v.n >= 0
  <2>1. w = [v EXCEPT !.t = "u"]
    BY <1>2 DEF WrittenValue
  <2>2. w \in Value /\ w.t = "u" /\ w.list = v.list
    BY <2>1 DEF Value
  <2>3. WrittenValue(w) = w
    BY <2>2 DEF WrittenValue
  <2>4. w # Empty /\ v # Empty
    BY <1>2, <2>2 DEF Empty, Scalar
  <2> QED BY <1>2, <2>2, <2>3, <2>4
<1>3. CASE v.t # "n" /\ ~(v.t = "i" /\ v.n >= 0)
  <2>1. w = v
    BY <1>3 DEF WrittenValue
  <2> QED BY <2>1
<1> QED BY <1>1, <1>2, <1>3

LEMMA AlikeFacts ==
  ASSUME NEW u \in Value, NEW v \in Value, WrittenValue(u) = WrittenValue(v)
  PROVE  /\ u.list = v.list
         /\ u = Empty <=> v = Empty
         /\ u.t = "a" <=> v.t = "a"
         /\ u.t = "a" => u = v
BY WrittenFacts

LEMMA PlainValues == Null \in Value /\ Empty \in Value /\ WrittenValue(Null) = Null
BY EmptySeq DEF Null, Empty, Scalar, Value, WrittenValue

-----------------------------------------------------------------------------
(* Documents.                                                              *)

LEMMA SameIsEquivalence ==
  /\ \A d : Same(d, d)
  /\ \A d, e : Same(d, e) => Same(e, d)
  /\ \A c, d, e : Same(c, d) /\ Same(d, e) => Same(c, e)
BY DEF Same

LEMMA DocumentsMade ==
  ASSUME NEW at, Tree(at)
  PROVE  Document(Doc(at)) /\ Doc(at).there /\ Doc(at).root /\ Doc(at).at = at
BY DEF Document, Doc

LEMMA NewDocuments ==
  /\ Document(NullDoc) /\ ~NullDoc.there /\ ~NullDoc.root
  /\ Document(NewDoc) /\ NewDoc.there /\ ~NewDoc.root
  /\ DOMAIN NullDoc.at = {} /\ DOMAIN NewDoc.at = {}
<1>1. DOMAIN <<>> = {} /\ Tree(<<>>)
  BY DEF Tree
<1>2. NullDoc = [there |-> FALSE, root |-> FALSE, at |-> <<>>]
  BY DEF NullDoc
<1>3. NewDoc = [there |-> TRUE, root |-> FALSE, at |-> <<>>]
  BY DEF NewDoc
<1>4. Document(NullDoc)
  BY <1>1, <1>2 DEF Document
<1>5. Document(NewDoc)
  BY <1>1, <1>3 DEF Document
<1> QED BY <1>1, <1>2, <1>3, <1>4, <1>5

(* Writing a document and reading it again. *)
LEMMA WrittenDocument ==
  ASSUME NEW d, Document(d)
  PROVE  /\ Document(Written(d)) /\ Written(d).there
         /\ Same(d, Written(d))
         /\ Fits(Written(d)) <=> Fits(d)
<1> DEFINE w == [p \in DOMAIN d.at |-> WrittenValue(d.at[p])]
<1>1. \A p \in DOMAIN d.at : d.at[p] \in Value /\ p \in Path
  BY DEF Document, Tree
<1>2. /\ DOMAIN w = DOMAIN d.at
      /\ \A p \in DOMAIN d.at : w[p] \in Value /\ w[p].list = d.at[p].list /\ WrittenValue(w[p]) = w[p] /\ w[p] = WrittenValue(d.at[p])
  BY <1>1, WrittenFacts
<1>3. Tree(w)
  BY <1>1, <1>2 DEF Tree
<1>4. Written(d) = Doc(w)
  BY DEF Written
<1>5. Document(Written(d)) /\ Written(d).there /\ Written(d).at = w
  BY <1>3, <1>4, DocumentsMade
<1>6. Same(d, Written(d))
  BY <1>2, <1>5 DEF Same
<1>7. [p \in DOMAIN w |-> 1 + Len(w[p].list)] = [p \in DOMAIN d.at |-> 1 + Len(d.at[p].list)]
  BY <1>2
<1>8. TextLength(Written(d)) = TextLength(d)
  BY <1>5, <1>7 DEF TextLength
<1> QED BY <1>5, <1>6, <1>8 DEF Fits

LEMMA SameWritten ==
  ASSUME NEW d, NEW e, Same(d, e)
  PROVE  Written(d) = Written(e)
<1>1. [p \in DOMAIN d.at |-> WrittenValue(d.at[p])] = [p \in DOMAIN e.at |-> WrittenValue(e.at[p])]
  BY DEF Same
<1> QED BY <1>1 DEF Written

-----------------------------------------------------------------------------
(* Changes: documents that are written alike are changed alike.            *)

(* What a change of d makes of it. *)
Outcome(r, d) ==
  /\ r.ok \in BOOLEAN /\ Document(r.d)
  /\ r.ok => r.d.there
  /\ ~r.ok => r.d = d

Agree(r, s) == r.ok = s.ok /\ Same(r.d, s.d)

LEMMA OutcomeRefused ==
  ASSUME NEW d, NEW e, Document(d), Same(d, e)
  PROVE  Outcome([ok |-> FALSE, d |-> d], d) /\ Agree([ok |-> FALSE, d |-> d], [ok |-> FALSE, d |-> e])
BY DEF Outcome, Agree

LEMMA OutcomeMade ==
  ASSUME NEW d, NEW a, NEW b, Tree(a), DOMAIN a = DOMAIN b,
         \A p \in DOMAIN a : WrittenValue(a[p]) = WrittenValue(b[p])
  PROVE  Outcome([ok |-> TRUE, d |-> Doc(a)], d) /\ Agree([ok |-> TRUE, d |-> Doc(a)], [ok |-> TRUE, d |-> Doc(b)])
<1>1. Doc(a).at = a /\ Doc(b).at = b
  BY DEF Doc
<1>2. Same(Doc(a), Doc(b))
  BY <1>1 DEF Same
<1>3. Document(Doc(a)) /\ Doc(a).there
  BY DocumentsMade
<1> QED BY <1>2, <1>3 DEF Outcome, Agree

LEMMA DocumentValues ==
  ASSUME NEW d, NEW e, Document(d), Document(e), Same(d, e)
  PROVE  /\ DOMAIN d.at = DOMAIN e.at
         /\ \A p \in DOMAIN d.at :
              /\ p \in Path /\ d.at[p] \in Value /\ e.at[p] \in Value
              /\ WrittenValue(d.at[p]) = WrittenValue(e.at[p])
              /\ d.at[p] = Empty <=> e.at[p] = Empty
              /\ d.at[p].t = "a" <=> e.at[p].t = "a"
              /\ d.at[p].t = "a" => d.at[p] = e.at[p]
<1>1. DOMAIN d.at = DOMAIN e.at
  BY DEF Same
<1>2. \A p \in DOMAIN d.at : /\ p \in Path /\ d.at[p] \in Value /\ e.at[p] \in Value
                           /\ WrittenValue(d.at[p]) = WrittenValue(e.at[p])
  BY DEF Document, Tree, Same
<1> QED BY <1>1, <1>2, AlikeFacts

(* What the type of a value tells is told of both. *)
LEMMA SameType ==
  ASSUME NEW d, NEW e, Document(d), Document(e), Same(d, e), NEW ptr
  PROVE  /\ PtrType(d, ptr) = "none" <=> PtrType(e, ptr) = "none"
         /\ PtrType(d, ptr) = "a" <=> PtrType(e, ptr) = "a"
         /\ PtrType(d, ptr) = "none" => ptr \notin DOMAIN d.at
         /\ PtrType(d, ptr) = "a" => ptr \in DOMAIN d.at /\ d.at[ptr].t = "a"
<1>1. CASE ptr \in DOMAIN d.at
  <2>1. PtrType(d, ptr) = d.at[ptr].t /\ PtrType(e, ptr) = e.at[ptr].t
    BY <1>1, DocumentValues DEF PtrType
  <2>2. d.at[ptr].t # "none" /\ e.at[ptr].t # "none"
    BY <1>1, DocumentValues DEF Value
  <2> QED BY <1>1, <2>1, <2>2, DocumentValues
<1>2. CASE ptr \notin DOMAIN d.at /\ \E p \in DOMAIN d.at : Below(ptr, p)
  BY <1>2, DocumentValues DEF PtrType
<1>3. CASE ptr \notin DOMAIN d.at /\ ~\E p \in DOMAIN d.at : Below(ptr, p)
  BY <1>3, DocumentValues DEF PtrType
<1> QED BY <1>1, <1>2, <1>3

LEMMA SetAlike ==
  ASSUME NEW d, NEW e, Document(d), Document(e), Same(d, e), NEW ptr \in Path, NEW v \in Value
  PROVE  Outcome(PtrSet(d, ptr, v), d) /\ Agree(PtrSet(d, ptr, v), PtrSet(e, ptr, v))
<1> DEFINE kept(x) == {p \in DOMAIN x.at : ~IsPrefix(ptr, p) /\ ~IsPrefix(p, ptr)}
           blocked(x) == \E p \in DOMAIN x.at : Below(p, ptr) /\ x.at[p] # Empty
           tree(x) == [p \in kept(x) \cup {ptr} |-> IF p = ptr THEN v ELSE x.at[p]]
<1>1. /\ PtrSet(d, ptr, v) = IF blocked(d) THEN [ok |-> FALSE, d |-> d] ELSE [ok |-> TRUE, d |-> Doc(tree(d))]
      /\ PtrSet(e, ptr, v) = IF blocked(e) THEN [ok |-> FALSE, d |-> e] ELSE [ok |-> TRUE, d |-> Doc(tree(e))]
  BY DEF PtrSet
<1>2. kept(d) = kept(e) /\ (blocked(d) <=> blocked(e)) /\ kept(d) \subseteq DOMAIN d.at
  BY DocumentValues
<1>3. DOMAIN tree(d) = DOMAIN tree(e)
  BY <1>2
<1>4. Tree(tree(d))
  BY <1>2, DocumentValues DEF Tree
<1>5. \A p \in DOMAIN tree(d) : WrittenValue(tree(d)[p]) = WrittenValue(tree(e)[p])
  BY <1>2, DocumentValues
<1> HIDE DEF tree, kept, blocked
<1> QED BY <1>1, <1>2, <1>3, <1>4, <1>5, OutcomeRefused, OutcomeMade

LEMMA AppendAlike ==
  ASSUME NEW d, NEW e, Document(d), Document(e), Same(d, e), NEW ptr \in Path, NEW entry \in Entry
  PROVE  Outcome(PtrAppend(d, ptr, entry), d) /\ Agree(PtrAppend(d, ptr, entry), PtrAppend(e, ptr, entry))
<1> DEFINE one == ArrayOf(<<entry>>)
           l == Append(d.at[ptr].list, entry)
           new == [d.at[ptr] EXCEPT !.list = l]
           tree(x) == [x.at EXCEPT ![ptr].list = Append(x.at[ptr].list, entry)]
<1>1. CASE PtrType(d, ptr) = "none"
  <2>1. one \in Value
    BY DEF ArrayOf, Value
  <2>2. PtrAppend(d, ptr, entry) = PtrSet(d, ptr, one) /\ PtrAppend(e, ptr, entry) = PtrSet(e, ptr, one)
    BY <1>1, SameType DEF PtrAppend
  <2> HIDE DEF one
  <2> QED BY <2>1, <2>2, SetAlike
<1>2. CASE PtrType(d, ptr) = "a"
  <2>1. /\ PtrAppend(d, ptr, entry) = [ok |-> TRUE, d |-> Doc(tree(d))]
        /\ PtrAppend(e, ptr, entry) = [ok |-> TRUE, d |-> Doc(tree(e))]
    BY <1>2, SameType DEF PtrAppend
  <2>2. ptr \in DOMAIN d.at /\ d.at[ptr] = e.at[ptr] /\ d.at[ptr] \in Value
    BY <1>2, SameType, DocumentValues
  <2>3. l \in Seq(Entry)
    BY <2>2 DEF Value
  <2>4. tree(d) = [d.at EXCEPT ![ptr] = new] /\ tree(e) = [e.at EXCEPT ![ptr] = new]
    BY <2>2
  <2> HIDE DEF l, tree
  <2>5. new \in Value
    BY <2>2, <2>3 DEF Value
  <2> HIDE DEF new
  <2>6. /\ DOMAIN tree(d) = DOMAIN d.at /\ DOMAIN tree(e) = DOMAIN d.at
        /\ \A p \in DOMAIN d.at :
             /\ tree(d)[p] = IF p = ptr THEN new ELSE d.at[p]
             /\ tree(e)[p] = IF p = ptr THEN new ELSE e.at[p]
        /\ tree(d) = [p \in DOMAIN tree(d) |-> tree(d)[p]]
    BY <2>2, <2>4, DocumentValues
  <2>7. Tree(tree(d))
    BY <2>5, <2>6, DocumentValues DEF Tree
  <2>8. \A p \in DOMAIN tree(d) : WrittenValue(tree(d)[p]) = WrittenValue(tree(e)[p])
    BY <2>6, DocumentValues
  <2> QED BY <2>1, <2>6, <2>7, <2>8, OutcomeMade
<1>3. CASE PtrType(d, ptr) \notin {"none", "a"}
  <2>1. PtrType(e, ptr) \notin {"none", "a"}
    BY <1>3, SameType
  <2>2. PtrAppend(d, ptr, entry) = [ok |-> FALSE, d |-> d] /\ PtrAppend(e, ptr, entry) = [ok |-> FALSE, d |-> e]
    BY <1>3, <2>1 DEF PtrAppend
  <2> QED BY <2>2, OutcomeRefused
<1> QED BY <1>1, <1>2, <1>3

(* A path below a pointer is found again behind it. *)
LEMMA BehindPointer ==
  ASSUME NEW ptr \in Path, NEW q \in Path
  PROVE  ptr \o q \in Path /\ SubSeq(ptr \o q, Len(ptr) + 1, Len(ptr \o q)) = q
<1> DEFINE c == ptr \o q
           b == SubSeq(c, Len(ptr) + 1, Len(c))
<1>1. c \in Seq(STRING) /\ Len(c) = Len(ptr) + Len(q) /\ \A i \in 1 .. Len(q) : c[Len(ptr) + i] = q[i]
  BY ConcatProperties DEF Path
<1> HIDE DEF c
<1>2. Len(ptr) \in Nat /\ Len(q) \in Nat
  BY DEF Path
<1>3. b \in Seq(STRING) /\ Len(b) = Len(q) /\ \A i \in 1 .. Len(q) : b[i] = c[Len(ptr) + i]
  BY <1>1, <1>2, SubSeqProperties
<1> HIDE DEF b
<1>4. b = q
  BY <1>1, <1>3, SeqEqual DEF Path
<1> QED BY <1>1, <1>4 DEF b, c, Path

LEMMA MergeAlike ==
  ASSUME NEW d, NEW e, Document(d), Document(e), Same(d, e), NEW ptr \in Path, NEW patch, MergeTree(patch)
  PROVE  Outcome(PtrMerge(d, ptr, patch), d) /\ Agree(PtrMerge(d, ptr, patch), PtrMerge(e, ptr, patch))
<1> DEFINE set == {ptr \o q : q \in {r \in DOMAIN patch : patch[r] # Null}}
           objects == {ptr \o SubSeq(q, 1, n) : q \in DOMAIN patch, n \in 0..1} \ ({ptr \o q : q \in DOMAIN patch} \cup {<<>>})
           kept(x) == {p \in DOMAIN x.at : ~\E q \in DOMAIN patch : IsPrefix(ptr \o q, p) \/ IsPrefix(p, ptr \o q)}
           empty(x) == {p \in objects : ~\E q \in set \cup kept(x) : Below(p, q)}
           value(x, p) == CASE p \in set -> patch[SubSeq(p, Len(ptr) + 1, Len(p))] [] p \in kept(x) \ set -> x.at[p] [] OTHER -> Empty
           tree(x) == [p \in set \cup empty(x) \cup kept(x) |-> value(x, p)]
           lost(x) == ptr # <<>> /\ PtrType(x, ptr) = "none"
<1>1. /\ PtrMerge(d, ptr, patch) = IF lost(d) THEN [ok |-> FALSE, d |-> d] ELSE [ok |-> TRUE, d |-> Doc(tree(d))]
      /\ PtrMerge(e, ptr, patch) = IF lost(e) THEN [ok |-> FALSE, d |-> e] ELSE [ok |-> TRUE, d |-> Doc(tree(e))]
  BY DEF PtrMerge
<1>2. lost(d) <=> lost(e)
  BY SameType
<1>3. kept(d) = kept(e) /\ kept(d) \subseteq DOMAIN d.at
  BY DocumentValues
<1>4. \A q \in DOMAIN patch : q \in Path /\ Len(q) >= 1 /\ patch[q] \in Value
  BY DEF MergeTree, Tree
<1>5. ASSUME NEW p \in objects PROVE p \in Path
  <2>1. PICK q \in DOMAIN patch, n \in 0 .. 1 : p = ptr \o SubSeq(q, 1, n)
    OBVIOUS
  <2>2. SubSeq(q, 1, n) \in Path
    <3>1. q \in Seq(STRING) /\ Len(q) >= 1
      BY <1>4 DEF Path
    <3>2. \A i \in 1 .. n : q[i] \in STRING
      BY <3>1
    <3> QED BY <3>2, SubSeqProperties DEF Path
  <2> QED BY <2>1, <2>2, BehindPointer
<1>6. ASSUME NEW p \in set PROVE p \in Path /\ patch[SubSeq(p, Len(ptr) + 1, Len(p))] \in Value
  <2>1. PICK q \in DOMAIN patch : p = ptr \o q
    OBVIOUS
  <2> QED BY <2>1, <1>4, BehindPointer
<1> HIDE DEF set, objects, kept
<1>7. empty(d) = empty(e) /\ empty(d) \subseteq objects
  BY <1>3
<1> HIDE DEF empty
<1>8. DOMAIN tree(d) = DOMAIN tree(e) /\ tree(d) = [p \in DOMAIN tree(d) |-> tree(d)[p]]
  BY <1>3, <1>7
<1>9. ASSUME NEW p \in DOMAIN tree(d)
      PROVE  p \in Path /\ tree(d)[p] \in Value /\ WrittenValue(tree(d)[p]) = WrittenValue(tree(e)[p])
  <2>1. tree(d)[p] = value(d, p) /\ tree(e)[p] = value(e, p)
    BY <1>3, <1>7
  <2>2. CASE p \in set
    BY <2>1, <2>2, <1>6
  <2>3. CASE p \in kept(d) \ set
    <3>1. tree(d)[p] = d.at[p] /\ tree(e)[p] = e.at[p]
      BY <2>1, <2>3, <1>3
    <3> HIDE DEF tree
    <3> QED BY <3>1, <2>3, <1>3, DocumentValues
  <2>4. CASE p \notin set \cup kept(d)
    <3>1. tree(d)[p] = Empty /\ tree(e)[p] = Empty /\ p \in empty(d)
      BY <2>1, <2>4, <1>3
    <3> HIDE DEF tree
    <3> QED BY <3>1, <1>5, <1>7, PlainValues
  <2> QED BY <2>2, <2>3, <2>4
<1> HIDE DEF tree, lost
<1>10. Tree(tree(d))
  BY <1>8, <1>9 DEF Tree
<1> QED BY <1>1, <1>2, <1>8, <1>9, <1>10, OutcomeRefused, OutcomeMade

(* The changes that calls ask for. *)
Asked(change) ==
  \/ change.op = "set" /\ change.ptr \in Path /\ change.v \in Value
  \/ change.op = "add" /\ change.ptr \in Path /\ change.v \in Entry
  \/ change.op = "merge" /\ change.ptr \in Path /\ MergeTree(change.v)
  \/ change.op = "invalid"

LEMMA ChangedAlike ==
  ASSUME NEW d, NEW e, Document(d), Document(e), Same(d, e), NEW change, Asked(change)
  PROVE  Outcome(Applied(d, change), d) /\ Agree(Applied(d, change), Applied(e, change))
<1>1. CASE change.op = "set" /\ change.ptr \in Path /\ change.v \in Value
  BY <1>1, SetAlike DEF Applied
<1>2. CASE change.op = "add" /\ change.ptr \in Path /\ change.v \in Entry
  BY <1>2, AppendAlike DEF Applied
<1>3. CASE change.op = "merge" /\ change.ptr \in Path /\ MergeTree(change.v)
  BY <1>3, MergeAlike DEF Applied
<1>4. CASE change.op = "invalid"
  BY <1>4, OutcomeRefused DEF Applied
<1> QED BY <1>1, <1>2, <1>3, <1>4 DEF Asked

-----------------------------------------------------------------------------
(* The parse state that a call works with.                                 *)

(* A parse state in step with what was said; one without documents stands  *)
(* for no headers.                                                         *)
Working(s, d) ==
  /\ s = [live |-> s.live, doc |-> s.doc, mut |-> s.mut] /\ s.live = TRUE
  /\ Document(s.doc) /\ Document(s.mut)
  /\ s.doc.there => Same(d, s.doc)
  /\ s.mut.there => Same(d, s.mut)
  /\ s.doc.there /\ s.mut.there => s.doc.at = s.mut.at
  /\ ~s.doc.there /\ ~s.mut.there => Same(d, NewDoc)

(* The caller's, or one made for the call. *)
Taken(via) == IF via /\ state.live THEN state ELSE parse_json(extra)

LEMMA TakenWorks ==
  ASSUME ExtraInv, NEW via \in BOOLEAN, via \/ ~state.live
  PROVE  /\ Taken(via).live \in BOOLEAN
         /\ Taken(via).live => extra.kind # "bad" /\ Working(Taken(via), said)
         /\ Taken(via).live /\ extra.kind = "json" => Taken(via).doc.there \/ Taken(via).mut.there
<1> DEFINE s == Taken(via)
<1>1. CASE state.live
  <2>1. s = state
    BY <1>1 DEF Taken
  <2> QED BY <1>1, <2>1 DEF ExtraInv, ExtraTypes, CopiesAgree, Copies, Working
<1>2. CASE ~state.live
  <2>1. s = [live |-> extra.kind # "bad", doc |-> IF extra.kind = "json" THEN extra.doc ELSE NullDoc, mut |-> NullDoc]
    BY <1>2 DEF Taken, parse_json
  <2>2. s.live = (extra.kind # "bad") /\ s.mut = NullDoc /\ s = [live |-> s.live, doc |-> s.doc, mut |-> s.mut]
    BY <2>1
  <2>3. s.doc = IF extra.kind = "json" THEN extra.doc ELSE NullDoc
    BY <2>1
  <2>4. Document(s.mut) /\ ~s.mut.there
    BY <2>2, NewDocuments
  <2>5. CASE extra.kind = "json"
    <3>1. s.doc = extra.doc /\ s.doc.there /\ Document(s.doc) /\ Same(said, s.doc)
      BY <1>2, <2>3, <2>5 DEF ExtraInv, ExtraTypes, TextAgrees, Stands
    <3> QED BY <2>2, <2>4, <2>5, <3>1 DEF Working
  <2>6. CASE extra.kind # "json"
    <3>1. s.doc = NullDoc /\ Document(s.doc) /\ ~s.doc.there
      BY <2>3, <2>6, NewDocuments
    <3>2. Same(said, NewDoc)
      BY <1>2, <2>6 DEF ExtraInv, TextAgrees, Stands
    <3> QED BY <2>2, <2>4, <2>6, <3>1, <3>2 DEF Working
  <2> QED BY <2>5, <2>6
<1> QED BY <1>1, <1>2 DEF ExtraInv, ExtraTypes

(* The document to change is what was said. *)
LEMMA ChangeableCopies ==
  ASSUME NEW s, NEW d, Working(s, d)
  PROVE  LET c == Changeable(s)
         IN  /\ c = [live |-> TRUE, doc |-> s.doc, mut |-> c.mut]
             /\ Document(c.mut) /\ c.mut.there /\ Same(d, c.mut)
             /\ s.doc.there => s.doc.at = c.mut.at
<1>1. CASE s.mut.there
  <2>1. Changeable(s) = s
    BY <1>1 DEF Changeable
  <2> QED BY <1>1, <2>1 DEF Working
<1>2. CASE ~s.mut.there /\ s.doc.there
  <2>1. Changeable(s) = [live |-> TRUE, doc |-> s.doc, mut |-> s.doc]
    BY <1>2 DEF Changeable, Working
  <2> QED BY <1>2, <2>1 DEF Working
<1>3. CASE ~s.mut.there /\ ~s.doc.there
  <2>1. Changeable(s) = [live |-> TRUE, doc |-> s.doc, mut |-> NewDoc]
    BY <1>3 DEF Changeable, Working
  <2> QED BY <1>3, <2>1, NewDocuments DEF Working
<1> QED BY <1>1, <1>2, <1>3

(* So is the document to read. *)
LEMMA CurrentCopies ==
  ASSUME NEW s, NEW d, Working(s, d)
  PROVE  LET c == Current(s)
         IN  /\ c = [live |-> TRUE, doc |-> c.doc, mut |-> s.mut]
             /\ Document(c.doc)
             /\ c.doc.there => Same(d, c.doc)
             /\ c.doc.there /\ s.mut.there => c.doc.at = s.mut.at
<1>1. CASE s.mut.there /\ ~s.doc.there /\ s.mut.root
  <2>1. Current(s) = [live |-> TRUE, doc |-> s.mut, mut |-> s.mut]
    BY <1>1 DEF Current, Working
  <2> QED BY <1>1, <2>1 DEF Working
<1>2. CASE s.mut.there /\ ~s.doc.there /\ ~s.mut.root
  <2>1. Current(s) = [live |-> TRUE, doc |-> NullDoc, mut |-> s.mut]
    BY <1>2 DEF Current, Working
  <2> QED BY <1>2, <2>1, NewDocuments
<1>3. CASE ~(s.mut.there /\ ~s.doc.there)
  <2>1. Current(s) = s
    BY <1>3 DEF Current
  <2> QED BY <1>3, <2>1 DEF Working
<1> QED BY <1>1, <1>2, <1>3

-----------------------------------------------------------------------------
(* The actions.                                                            *)

(* What the last call told. *)
ToldTrue ==
  /\ last.op = "get" /\ last.ret \in {0, 2} =>
       WrittenValue(last.val) = (IF last.ptr \in DOMAIN said.at THEN WrittenValue(said.at[last.ptr]) ELSE Null)
  /\ last.op = "get" /\ last.ret = 1 /\ extra.kind # "none" => PtrType(said, last.ptr) = "none"
  /\ last.op = "serialize" /\ last.ret = 0 /\ state.live /\ state.mut.there => extra.doc = Written(said)

HeadersInv == ExtraInv /\ ToldTrue

LEMMA InvariantKeeps == HeadersInv => HeadersKept
<1> SUFFICES ASSUME HeadersInv PROVE HeadersKept
  OBVIOUS
<1>1. state.doc.there /\ state.mut.there => state.doc.at = state.mut.at
  <2>1. ~state.live => ~state.doc.there
    BY NewDocuments DEF HeadersInv, ExtraInv, TextAgrees, NoState
  <2> QED BY <2>1 DEF HeadersInv, ExtraInv, CopiesAgree, Copies
<1>2. ReadsSeeWrites
  BY <1>1 DEF HeadersInv, ToldTrue, ReadsSeeWrites
<1>3. extra.kind = "json" /\ ~state.live => Written(said) = Written(extra.doc)
  BY SameWritten DEF HeadersInv, ExtraInv, TextAgrees, Stands
<1>4. PublishedAsSaid
  BY <1>3 DEF HeadersInv, ExtraInv, TextAgrees, ToldTrue, PublishedAsSaid
<1> QED BY <1>2, <1>4 DEF HeadersKept

LEMMA ExtraInitially == ExtraInit => HeadersInv
<1> SUFFICES ASSUME ExtraInit PROVE HeadersInv
  OBVIOUS
<1>1. state = [live |-> FALSE, doc |-> NullDoc, mut |-> NullDoc] /\ said = Stands(extra) /\ last.op = "none"
  BY DEF ExtraInit, NoState, Stands, Told
<1>2. \/ extra \in Originals /\ Fits(extra.doc)
      \/ extra = [kind |-> "none", doc |-> NullDoc] \/ extra = [kind |-> "bad", doc |-> NullDoc]
  BY DEF ExtraInit, NoExtra, InvalidExtra
<1>3. /\ extra = [kind |-> extra.kind, doc |-> extra.doc] /\ extra.kind \in {"none", "json", "bad"} /\ Document(extra.doc)
      /\ extra.kind = "json" => extra.doc.there /\ Fits(extra.doc)
  <2>1. CASE extra \in Originals /\ Fits(extra.doc)
    BY <2>1, ExtraAssumption, DocumentsMade
  <2>2. CASE extra = [kind |-> "none", doc |-> NullDoc] \/ extra = [kind |-> "bad", doc |-> NullDoc]
    BY <2>2, NewDocuments
  <2> QED BY <1>2, <2>1, <2>2
<1>4. Document(said) /\ Same(said, Stands(extra))
  BY <1>1, <1>3, NewDocuments, SameIsEquivalence DEF Stands
<1>5. ExtraTypes
  BY <1>1, <1>3, <1>4, NewDocuments DEF ExtraTypes
<1>6. TextAgrees /\ CopiesAgree
  BY <1>1, <1>3, <1>4 DEF TextAgrees, CopiesAgree, NoState
<1> QED BY <1>1, <1>5, <1>6 DEF HeadersInv, ExtraInv, ToldTrue

LEMMA ReadKeeps ==
  ASSUME HeadersInv, NEW ptr, NEW type, NEW via \in BOOLEAN, via \/ ~state.live, mseh_get_ptr_r(ptr, type, via)
  PROVE  HeadersInv'
<1> DEFINE s == Current(Taken(via))
           v == IF ptr \in DOMAIN s.doc.at THEN s.doc.at[ptr] ELSE Null
           found == PtrType(s.doc, ptr)
           ret == CASE found = "none" -> 1 [] found # "none" /\ ~Readable(v, type) -> 2 [] OTHER -> 0
<1>1. extra' = extra /\ said' = said
  BY DEF mseh_get_ptr_r
<1>2. \/ /\ last' = [op |-> "get", ret |-> 1, ptr |-> ptr, val |-> Null] /\ extra.kind = "none" /\ state' = state
      \/ /\ last' = [op |-> "get", ret |-> -1, ptr |-> ptr, val |-> Null] /\ state' = state
      \/ /\ extra.kind # "none" /\ s.live /\ s.doc.there
         /\ last' = [op |-> "get", ret |-> ret, ptr |-> ptr, val |-> v]
         /\ state' = IF via THEN s ELSE state
  BY DEF mseh_get_ptr_r, GetCall, Taken
<1>3. CASE last' = [op |-> "get", ret |-> 1, ptr |-> ptr, val |-> Null] /\ extra.kind = "none" /\ state' = state
  BY <1>1, <1>3 DEF HeadersInv, ExtraInv, ExtraTypes, TextAgrees, CopiesAgree, ToldTrue
<1>4. CASE last' = [op |-> "get", ret |-> -1, ptr |-> ptr, val |-> Null] /\ state' = state
  BY <1>1, <1>4 DEF HeadersInv, ExtraInv, ExtraTypes, TextAgrees, CopiesAgree, ToldTrue
<1>5. CASE /\ extra.kind # "none" /\ s.live /\ s.doc.there
           /\ last' = [op |-> "get", ret |-> ret, ptr |-> ptr, val |-> v]
           /\ state' = IF via THEN s ELSE state
  <2>1. Taken(via).live
    <3>1. Taken(via).live = s.live
      BY DEF Current
    <3> QED BY <3>1, <1>5
  <2>2. extra.kind # "bad" /\ Working(Taken(via), said)
    BY <2>1, TakenWorks DEF HeadersInv
  <2>3. /\ s = [live |-> TRUE, doc |-> s.doc, mut |-> Taken(via).mut]
        /\ Document(s.doc) /\ Same(said, s.doc) /\ Document(s.mut)
        /\ s.mut.there => Same(said, s.mut)
        /\ s.mut.there => s.doc.at = s.mut.at
    <3> DEFINE t == Taken(via)
    <3>1. /\ s = [live |-> TRUE, doc |-> s.doc, mut |-> t.mut]
          /\ Document(s.doc)
          /\ s.doc.there => Same(said, s.doc)
          /\ s.doc.there /\ t.mut.there => s.doc.at = t.mut.at
      BY <2>2, CurrentCopies
    <3>2. Document(t.mut) /\ (t.mut.there => Same(said, t.mut))
      BY <2>2 DEF Working
    <3> HIDE DEF s, t
    <3>3. s.mut = t.mut
      BY <3>1
    <3> QED BY <1>5, <3>1, <3>2, <3>3 DEF t
  <2> HIDE DEF s
  <2>4. Document(said)
    BY DEF HeadersInv, ExtraInv, ExtraTypes
  <2>5. WrittenValue(v) = IF ptr \in DOMAIN said.at THEN WrittenValue(said.at[ptr]) ELSE Null
    BY <2>3, PlainValues DEF Same
  <2>6. found = "none" => PtrType(said, ptr) = "none"
    BY <2>3, <2>4, SameType
  <2>7. ret = 1 => found = "none"
    OBVIOUS
  <2> HIDE DEF v, found, ret
  <2>8. ToldTrue'
    BY <1>1, <1>5, <2>5, <2>6, <2>7 DEF ToldTrue
  <2>9. CASE ~via
    <3>1. state' = state
      BY <1>5, <2>9
    <3> QED BY <1>1, <2>8, <3>1 DEF HeadersInv, ExtraInv, ExtraTypes, TextAgrees, CopiesAgree
  <2>10. CASE via
    <3>1. state' = s
      BY <1>5, <2>10
    <3>2. ExtraTypes'
      <4>1. state' = [live |-> state'.live, doc |-> state'.doc, mut |-> state'.mut] /\ state'.live \in BOOLEAN
        <5>1. s.live = TRUE /\ s.mut = Taken(via).mut
          BY <2>3
        <5>2. s = [live |-> s.live, doc |-> s.doc, mut |-> s.mut]
          BY <2>3, <5>1
        <5> QED BY <3>1, <5>1, <5>2
      <4> QED BY <1>1, <2>3, <3>1, <4>1 DEF HeadersInv, ExtraInv, ExtraTypes
    <3>3. TextAgrees' /\ CopiesAgree'
      BY <1>1, <1>5, <2>2, <2>3, <3>1 DEF HeadersInv, ExtraInv, TextAgrees, CopiesAgree, Copies
    <3> QED BY <2>8, <3>2, <3>3 DEF HeadersInv, ExtraInv
  <2> QED BY <2>9, <2>10
<1> HIDE DEF s, v, found, ret
<1> QED BY <1>2, <1>3, <1>4, <1>5

LEMMA ChangeKeeps ==
  ASSUME HeadersInv, NEW change, Asked(change), change.op \notin {"get", "serialize"},
         NEW via \in BOOLEAN, via \/ ~state.live, Change(change, via)
  PROVE  HeadersInv'
<1> DEFINE old == Taken(via)
           c == Changeable(old)
           r == Applied(c.mut, change)
           text == mseh_serialize(extra, AfterSet(c, r))
           a == Applied(said, change)
<1>1. \/ /\ ~old.live /\ last' = Told(change.op, -1)
         /\ extra' = extra /\ state' = state /\ said' = said
      \/ /\ old.live
         /\ last' = Told(change.op, IF r.ok THEN 0 ELSE -1)
         /\ extra' = IF via THEN extra ELSE text.extra
         /\ state' = IF via THEN AfterSet(c, r) ELSE state
         /\ said' = IF r.ok /\ (via \/ text.ok) THEN a.d ELSE said
  BY DEF Change, Taken
<1>2. last'.op = change.op
  <2>1. \A x, y : Told(x, y).op = x
    BY DEF Told
  <2> QED BY <1>1, <2>1
<1>3. ToldTrue'
  BY <1>2 DEF ToldTrue
<1>4. CASE ~old.live
  <2>1. extra' = extra /\ state' = state /\ said' = said
    BY <1>1, <1>4
  <2> QED BY <1>3, <2>1 DEF HeadersInv, ExtraInv, ExtraTypes, TextAgrees, CopiesAgree
<1>5. CASE old.live
  <2>1. extra.kind # "bad" /\ Working(old, said)
    BY <1>5, TakenWorks DEF HeadersInv
  <2>2. /\ c = [live |-> TRUE, doc |-> old.doc, mut |-> c.mut]
        /\ Document(c.mut) /\ c.mut.there /\ Same(said, c.mut)
        /\ old.doc.there => old.doc.at = c.mut.at
    BY <2>1, ChangeableCopies
  <2>3. Document(old.doc) /\ (old.doc.there => Same(said, old.doc))
    BY <2>1 DEF Working
  <2>4. Document(said)
    BY DEF HeadersInv, ExtraInv, ExtraTypes
  <2>6. Same(c.mut, said)
    BY <2>2, SameIsEquivalence
  <2> HIDE DEF c, old
  <2>7. Outcome(r, c.mut) /\ Outcome(a, said) /\ Agree(a, r)
    BY <2>2, <2>4, <2>6, ChangedAlike
  <2> HIDE DEF r, a
  <2>8. /\ r.ok \in BOOLEAN /\ Document(r.d) /\ Document(a.d) /\ Same(a.d, r.d) /\ r.d.there
        /\ ~r.ok => r.d = c.mut
    BY <2>2, <2>7 DEF Outcome, Agree
  <2>9. Document(said')
    BY <1>1, <1>5, <2>4, <2>8
  <2>10. CASE via
    <3>1. extra' = extra /\ state' = AfterSet(c, r) /\ said' = IF r.ok THEN a.d ELSE said
      BY <1>1, <1>5, <2>10
    <3>2. state' = [live |-> TRUE, doc |-> IF r.ok THEN NullDoc ELSE old.doc, mut |-> r.d]
      <4>1. c.live = TRUE /\ c.doc = old.doc
        BY <2>2
      <4> QED BY <3>1, <4>1 DEF AfterSet
    <3>3. Document(state'.doc) /\ Document(state'.mut)
      BY <2>3, <2>8, <3>2, NewDocuments
    <3>4. ExtraTypes'
      BY <2>9, <3>1, <3>2, <3>3 DEF HeadersInv, ExtraInv, ExtraTypes
    <3>5. Same(said', state'.mut) /\ state'.mut.there
      BY <2>2, <2>8, <3>1, <3>2
    <3>6. state'.doc.there => ~r.ok /\ state'.doc = old.doc
      BY <3>2, NewDocuments
    <3>7. state'.doc.there => Same(said', state'.doc) /\ state'.doc.at = state'.mut.at
      BY <2>2, <2>3, <2>8, <3>1, <3>2, <3>6
    <3>8. state'.live = TRUE
      BY <3>2
    <3>9. CopiesAgree' /\ TextAgrees'
      BY <2>1, <3>1, <3>5, <3>7, <3>8 DEF HeadersInv, ExtraInv, CopiesAgree, Copies, TextAgrees
    <3> QED BY <1>3, <3>4, <3>9 DEF HeadersInv, ExtraInv
  <2>11. CASE ~via
    <3> DEFINE s == AfterSet(c, r)
    <3>1. ~state.live /\ state' = state /\ extra' = text.extra /\ said' = IF r.ok /\ text.ok THEN a.d ELSE said
      BY <1>1, <1>5, <2>11
    <3>2. s.live = TRUE /\ s.mut = r.d
      BY <2>2 DEF AfterSet
    <3>3. text = IF r.d.root /\ Fits(r.d) THEN [ok |-> TRUE, extra |-> [kind |-> "json", doc |-> Written(r.d)]]
                 ELSE [ok |-> FALSE, extra |-> extra]
      <4> HIDE DEF s
      <4>2. mseh_serialize(extra, s) = IF r.d.root /\ Fits(r.d) THEN [ok |-> TRUE, extra |-> [kind |-> "json", doc |-> Written(r.d)]]
                 ELSE [ok |-> FALSE, extra |-> extra]
        BY <2>8, <3>2 DEF mseh_serialize
      <4> QED BY <4>2 DEF s
    <3> HIDE DEF text
    <3>4. CASE r.d.root /\ Fits(r.d)
      <4>1. extra' = [kind |-> "json", doc |-> Written(r.d)] /\ said' = IF r.ok THEN a.d ELSE said
        BY <3>1, <3>3, <3>4
      <4>2. Same(said', r.d)
        BY <2>2, <2>8, <4>1
      <4>3. extra'.kind = "json" /\ extra'.doc = Written(r.d) /\ extra' = [kind |-> extra'.kind, doc |-> extra'.doc]
        BY <4>1
      <4>4. Document(extra'.doc) /\ extra'.doc.there /\ Same(said', extra'.doc) /\ Fits(extra'.doc)
        BY <2>8, <3>4, <4>2, <4>3, WrittenDocument, SameIsEquivalence
      <4>5. ExtraTypes'
        BY <2>9, <3>1, <4>3, <4>4 DEF HeadersInv, ExtraInv, ExtraTypes
      <4>6. TextAgrees' /\ CopiesAgree'
        BY <3>1, <4>3, <4>4 DEF HeadersInv, ExtraInv, TextAgrees, CopiesAgree, Stands
      <4> QED BY <1>3, <4>5, <4>6 DEF HeadersInv, ExtraInv
    <3>5. CASE ~(r.d.root /\ Fits(r.d))
      <4>1. extra' = extra /\ said' = said
        BY <3>1, <3>3, <3>5
      <4> QED BY <1>3, <3>1, <4>1 DEF HeadersInv, ExtraInv, ExtraTypes, TextAgrees, CopiesAgree
    <3> QED BY <3>4, <3>5
  <2> QED BY <2>10, <2>11
<1> QED BY <1>4, <1>5

LEMMA SerializeKeeps ==
  ASSUME HeadersInv, Serialize
  PROVE  HeadersInv'
<1> DEFINE text == mseh_serialize(extra, state)
<1>1. /\ extra' = text.extra /\ state' = state /\ said' = said
      /\ last'.op = "serialize" /\ last'.ret = IF text.ok THEN 0 ELSE -1
  BY DEF Serialize, Told
<1>2. Document(said)
  BY DEF HeadersInv, ExtraInv, ExtraTypes
<1>3. CASE state.live /\ state.mut.there /\ state.mut.root /\ Fits(state.mut)
  <2>1. text = [ok |-> TRUE, extra |-> [kind |-> "json", doc |-> Written(state.mut)]]
    BY <1>3 DEF mseh_serialize
  <2>2. extra' = [kind |-> "json", doc |-> Written(state.mut)]
    BY <1>1, <2>1
  <2> HIDE DEF text
  <2>3. Same(said, state.mut) /\ Document(state.mut)
    BY <1>3 DEF HeadersInv, ExtraInv, ExtraTypes, CopiesAgree, Copies
  <2>4. extra'.kind = "json" /\ extra'.doc = Written(state.mut) /\ extra' = [kind |-> extra'.kind, doc |-> extra'.doc]
    BY <2>2
  <2>5. Document(extra'.doc) /\ extra'.doc.there /\ Fits(extra'.doc) /\ extra'.doc = Written(said)
    BY <1>3, <2>3, <2>4, WrittenDocument, SameWritten
  <2>6. ExtraTypes'
    BY <1>1, <2>4, <2>5 DEF HeadersInv, ExtraInv, ExtraTypes
  <2>7. TextAgrees' /\ CopiesAgree'
    BY <1>1, <1>3, <2>4, <2>5 DEF HeadersInv, ExtraInv, TextAgrees, CopiesAgree
  <2>8. ToldTrue'
    BY <1>1, <2>5 DEF ToldTrue
  <2> QED BY <2>6, <2>7, <2>8 DEF HeadersInv, ExtraInv
<1>4. CASE ~(state.live /\ state.mut.there /\ state.mut.root /\ Fits(state.mut))
  <2>1. text.extra = extra /\ (state.live /\ state.mut.there => ~text.ok)
    BY <1>4 DEF mseh_serialize
  <2> HIDE DEF text
  <2>2. extra' = extra
    BY <1>1, <2>1
  <2>3. ToldTrue'
    BY <1>1, <2>1 DEF ToldTrue
  <2> QED BY <1>1, <2>2, <2>3 DEF HeadersInv, ExtraInv, ExtraTypes, TextAgrees, CopiesAgree
<1> QED BY <1>3, <1>4

(* No parse state, and what was said is what the text has: after it is     *)
(* freed, and after the text is replaced.                                  *)
LEMMA NoStateKeeps ==
  ASSUME HeadersInv, state' = NoState, said' = Stands(extra'), last'.op \notin {"get", "serialize"},
         extra' = [kind |-> extra'.kind, doc |-> extra'.doc], extra'.kind \in {"none", "json", "bad"},
         Document(extra'.doc), extra'.kind = "json" => extra'.doc.there /\ Fits(extra'.doc)
  PROVE  HeadersInv'
<1>1. Document(said')
  BY NewDocuments DEF Stands
<1>2. Same(said', Stands(extra'))
  BY SameIsEquivalence
<1>3. state' = [live |-> FALSE, doc |-> NullDoc, mut |-> NullDoc]
  BY DEF NoState
<1>4. state'.live = FALSE /\ state'.doc = NullDoc /\ state'.mut = NullDoc /\ state' = [live |-> state'.live, doc |-> state'.doc, mut |-> state'.mut]
  BY <1>3
<1>5. ExtraTypes'
  BY <1>1, <1>4, NewDocuments DEF ExtraTypes
<1>6. TextAgrees' /\ CopiesAgree'
  BY <1>2, <1>4 DEF TextAgrees, CopiesAgree, Stands
<1>7. ToldTrue'
  BY DEF ToldTrue
<1> QED BY <1>5, <1>6, <1>7 DEF HeadersInv, ExtraInv

LEMMA FreeStateKeeps ==
  ASSUME HeadersInv, mseh_free_parsestate
  PROVE  HeadersInv'
<1>1. extra' = extra /\ state' = NoState /\ said' = Stands(extra) /\ last'.op = "free"
  BY DEF mseh_free_parsestate, Stands, Told
<1>2. said' = Stands(extra')
  BY <1>1
<1> QED BY <1>1, <1>2, NoStateKeeps DEF HeadersInv, ExtraInv, ExtraTypes, TextAgrees

LEMMA ReplaceKeeps ==
  ASSUME HeadersInv, NEW e \in Originals \cup {NoExtra, InvalidExtra}, mseh_replace(e)
  PROVE  HeadersInv'
<1> DEFINE refused == e.kind = "bad" \/ (e.kind = "json" /\ ~Fits(e.doc))
<1>1. /\ ~state.live /\ state' = state /\ last'.op = "replace"
      /\ extra' = IF refused THEN extra ELSE e
      /\ said' = IF refused THEN said ELSE Stands(e)
  BY DEF mseh_replace, Stands, Told
<1>2. state' = NoState
  BY <1>1 DEF HeadersInv, ExtraInv, TextAgrees
<1>3. CASE refused
  <2>1. ToldTrue'
    BY <1>1 DEF ToldTrue
  <2> QED BY <1>1, <1>3, <2>1 DEF HeadersInv, ExtraInv, ExtraTypes, TextAgrees, CopiesAgree
<1>4. CASE ~refused
  <2>1. e = [kind |-> e.kind, doc |-> e.doc] /\ e.kind \in {"none", "json"} /\ Document(e.doc) /\ (e.kind = "json" => e.doc.there /\ Fits(e.doc))
    <3>1. CASE e \in Originals
      BY <1>4, <3>1, ExtraAssumption, DocumentsMade
    <3>2. CASE e = NoExtra
      BY <3>2, NewDocuments DEF NoExtra
    <3>3. CASE e = InvalidExtra
      BY <1>4, <3>3 DEF InvalidExtra
    <3> QED BY <3>1, <3>2, <3>3
  <2> QED BY <1>1, <1>2, <1>4, <2>1, NoStateKeeps
<1> QED BY <1>3, <1>4

LEMMA ChangesAsked ==
  ASSUME HeadersInv, NEW via \in BOOLEAN, via \/ ~state.live
  PROVE  /\ \A ptr \in Pointers, v \in Scalars : SetValue(ptr, Scalar(v[1], v[2]), via) => HeadersInv'
         /\ \A p \in Patches : MergePatch(p[1], p[2], via) => HeadersInv'
         /\ InvalidPatch(via) => HeadersInv'
<1>1. ASSUME NEW ptr \in Pointers, NEW v \in Scalars, SetValue(ptr, Scalar(v[1], v[2]), via) PROVE HeadersInv'
  <2> DEFINE change == [op |-> "set", ptr |-> ptr, v |-> Scalar(v[1], v[2])]
  <2>1. Asked(change) /\ change.op \notin {"get", "serialize"}
    BY ExtraAssumption DEF Asked
  <2>2. Change(change, via)
    BY <1>1 DEF SetValue
  <2> HIDE DEF change
  <2> QED BY <2>1, <2>2, ChangeKeeps
<1>2. ASSUME NEW p \in Patches, MergePatch(p[1], p[2], via) PROVE HeadersInv'
  <2> DEFINE change == [op |-> "merge", ptr |-> p[1], v |-> p[2]]
  <2>1. Asked(change) /\ change.op \notin {"get", "serialize"}
    BY ExtraAssumption DEF Asked
  <2>2. Change(change, via)
    BY <1>2 DEF MergePatch
  <2> HIDE DEF change
  <2> QED BY <2>1, <2>2, ChangeKeeps
<1>3. ASSUME InvalidPatch(via) PROVE HeadersInv'
  <2> DEFINE change == [op |-> "invalid"]
  <2>1. Asked(change) /\ change.op \notin {"get", "serialize"}
    BY DEF Asked
  <2>2. Change(change, via)
    BY <1>3 DEF InvalidPatch
  <2> HIDE DEF change
  <2> QED BY <2>1, <2>2, ChangeKeeps
<1> QED BY <1>1, <1>2, <1>3

LEMMA AddKeeps ==
  ASSUME HeadersInv, NEW via \in BOOLEAN, via \/ ~state.live, NEW ptr \in Pointers, NEW s \in Structs,
         AddEntry(s[1], s[2], ptr, via)
  PROVE  HeadersInv'
<1> DEFINE change == [op |-> "add", ptr |-> ptr, v |-> Members(EntryFields[s[1]], s[2])]
<1>1. \/ last' = Told("add", -1) /\ extra' = extra /\ state' = state /\ said' = said
      \/ Change(change, via)
  BY DEF AddEntry
<1>2. CASE last' = Told("add", -1) /\ extra' = extra /\ state' = state /\ said' = said
  <2>1. last'.op = "add"
    BY <1>2 DEF Told
  <2>2. ToldTrue'
    BY <2>1 DEF ToldTrue
  <2> QED BY <1>2, <2>2 DEF HeadersInv, ExtraInv, ExtraTypes, TextAgrees, CopiesAgree
<1>3. CASE Change(change, via)
  <2>1. Asked(change) /\ change.op \notin {"get", "serialize"}
    BY ExtraAssumption DEF Asked
  <2> HIDE DEF change
  <2> QED BY <1>3, <2>1, ChangeKeeps
<1> QED BY <1>1, <1>2, <1>3

LEMMA ExtraStep == HeadersInv /\ [ExtraNext]_extraVars => HeadersInv'
<1> SUFFICES ASSUME HeadersInv, [ExtraNext]_extraVars PROVE HeadersInv'
  OBVIOUS
<1>1. ASSUME NEW via \in BOOLEAN, NEW ptr \in Pointers, via \/ ~state.live,
             NEW type \in {"u", "i", "n", "s", "b"}, mseh_get_ptr_r(ptr, type, via)
      PROVE  HeadersInv'
  BY <1>1, ReadKeeps
<1>2. ASSUME NEW via \in BOOLEAN, NEW ptr \in Pointers, via \/ ~state.live,
             NEW v \in Scalars, SetValue(ptr, Scalar(v[1], v[2]), via)
      PROVE  HeadersInv'
  BY <1>2, ChangesAsked
<1>3. ASSUME NEW via \in BOOLEAN, NEW ptr \in Pointers, via \/ ~state.live,
             NEW s \in Structs, AddEntry(s[1], s[2], ptr, via)
      PROVE  HeadersInv'
  BY <1>3, AddKeeps
<1>4. ASSUME NEW via \in BOOLEAN, via \/ ~state.live,
             (\E p \in Patches : MergePatch(p[1], p[2], via)) \/ InvalidPatch(via)
      PROVE  HeadersInv'
  BY <1>4, ChangesAsked
<1>5. CASE Serialize
  BY <1>5, SerializeKeeps
<1>6. CASE mseh_free_parsestate
  BY <1>6, FreeStateKeeps
<1>7. ASSUME NEW e \in Originals \cup {NoExtra, InvalidExtra}, mseh_replace(e)
      PROVE  HeadersInv'
  BY <1>7, ReplaceKeeps
<1>8. CASE UNCHANGED extraVars
  BY <1>8 DEF extraVars, HeadersInv, ExtraInv, ExtraTypes, TextAgrees, CopiesAgree, ToldTrue
<1> QED BY <1>1, <1>2, <1>3, <1>4, <1>5, <1>6, <1>7, <1>8 DEF ExtraNext

(* mseh_get_ptr_r() and mseh_serialize(), for all headers, values, patches *)
(* and limits: whatever sequence of calls a caller makes, what it reads    *)
(* through a parse state is what it set, and what stands in the record     *)
(* once the parse state is serialized or gone is what it was told.         *)
THEOREM HeadersStayKept == ExtraSpec => []HeadersKept
<1>1. ExtraSpec => []HeadersInv
  BY ExtraInitially, ExtraStep, PTL DEF ExtraSpec
<1> QED BY <1>1, InvariantKeeps, PTL

-----------------------------------------------------------------------------
(* Functions that are defined by recursion.                                *)

(* A set of natural numbers that is not empty has a least element. *)
LEMMA LeastNumber ==
  ASSUME NEW S \in SUBSET Nat, S # {}
  PROVE  \E m \in S : \A n \in S : m <= n
<1>1. PICK x \in S : \A y \in S : ~(<<y, x>> \in OpToRel(<, Nat))
  BY NatLessThanWellFounded, WFMin, Zenon
<1>2. \A y \in S : ~(y < x)
  BY <1>1 DEF OpToRel
<1> QED BY <1>2

(* Induction, for a set of numbers. *)
LEMMA AllNumbers ==
  ASSUME NEW A, 0 \in A, \A n \in Nat : n \in A => n + 1 \in A
  PROVE  \A n \in Nat : n \in A
<1> SUFFICES ASSUME Nat \ A # {} PROVE FALSE
  OBVIOUS
<1>1. PICK n \in Nat \ A : \A m \in Nat \ A : n <= m
  BY LeastNumber
<1>2. n # 0 /\ n - 1 \in Nat
  BY <1>1
<1>3. n - 1 \in A
  BY <1>1, <1>2
<1>4. (n - 1) + 1 = n
  BY <1>1
<1> QED BY <1>1, <1>2, <1>3, <1>4

(* The value of f for x is computed from that for nx[x], which has a lower *)
(* rank, or given if x is in B.                                            *)
Ranked(S, V, N, r, B, b, nx, F) ==
  /\ N \in Nat /\ r \in [S -> 0 .. N] /\ B \in SUBSET S /\ b \in [S -> V]
  /\ nx \in [S -> S] /\ F \in [S -> [V -> V]] /\ \A x \in S \ B : r[nx[x]] < r[x]
Solves(f, S, V, B, b, nx, F) ==
  f \in [S -> V] /\ \A x \in S : f[x] = IF x \in B THEN b[x] ELSE F[x][f[nx[x]]]

(* There is such a function. *)
LEMMA Recursion ==
  ASSUME NEW S, NEW V, NEW N, NEW r, NEW B, NEW b, NEW nx, NEW F, Ranked(S, V, N, r, B, b, nx, F)
  PROVE  \E f : Solves(f, S, V, B, b, nx, F)
<1>0. /\ N \in Nat /\ r \in [S -> 0 .. N] /\ B \in SUBSET S /\ b \in [S -> V]
      /\ nx \in [S -> S] /\ F \in [S -> [V -> V]] /\ \A x \in S \ B : r[nx[x]] < r[x]
  BY DEF Ranked
<1> DEFINE Level(n) == {x \in S : r[x] < n}
           Good(f, n) == \A x \in Level(n) : f[x] = IF x \in B THEN b[x] ELSE F[x][f[nx[x]]]
           A == {n \in Nat : \E f \in [Level(n) -> V] : Good(f, n)}
<1>1. \A x \in S : r[x] \in Nat /\ r[x] <= N
  BY <1>0
<1>2. 0 \in A
  <2>1. Level(0) = {}
    BY <1>1
  <2>2. [x \in {} |-> b[x]] \in [Level(0) -> V] /\ Good([x \in {} |-> b[x]], 0)
    BY <2>1
  <2> QED BY <2>2
<1>3. ASSUME NEW n \in Nat, n \in A PROVE n + 1 \in A
  <2>1. PICK f \in [Level(n) -> V] : Good(f, n)
    BY <1>3
  <2> DEFINE h == [x \in Level(n + 1) |-> IF x \in B THEN b[x] ELSE F[x][f[nx[x]]]]
  <2>2. ASSUME NEW x \in Level(n + 1), x \notin B PROVE nx[x] \in Level(n)
    <3>1. nx[x] \in S /\ r[nx[x]] < r[x] /\ r[x] < n + 1
      BY <1>0, <2>2
    <3> QED BY <1>1, <3>1
  <2>3. \A x \in Level(n) : x \in Level(n + 1)
    BY <1>1
  <2>4. h \in [Level(n + 1) -> V]
    <3> SUFFICES ASSUME NEW x \in Level(n + 1) PROVE h[x] \in V
      OBVIOUS
    <3>1. CASE x \in B
      BY <1>0, <3>1
    <3>2. CASE x \notin B
      <4>1. x \in S /\ f[nx[x]] \in V
        BY <2>2, <3>2
      <4>2. F[x] \in [V -> V]
        BY <1>0, <4>1
      <4> QED BY <3>2, <4>1, <4>2
    <3> QED BY <3>1, <3>2
  <2>5. \A x \in Level(n) : h[x] = f[x]
    BY <2>1, <2>3
  <2>6. Good(h, n + 1)
    <3> SUFFICES ASSUME NEW x \in Level(n + 1)
                 PROVE  h[x] = IF x \in B THEN b[x] ELSE F[x][h[nx[x]]]
      OBVIOUS
    <3>1. CASE x \in B
      BY <3>1
    <3>2. CASE x \notin B
      <4>1. h[nx[x]] = f[nx[x]]
        BY <2>2, <2>5, <3>2
      <4> QED BY <3>2, <4>1
    <3> QED BY <3>1, <3>2
  <2> HIDE DEF h, Level, Good
  <2> QED BY <2>4, <2>6
<1>4. N + 1 \in A
  <2> HIDE DEF A
  <2> QED BY <1>0, <1>2, <1>3, AllNumbers
<1>5. Level(N + 1) = S
  BY <1>0, <1>1
<1>6. PICK f \in [Level(N + 1) -> V] : Good(f, N + 1)
  BY <1>4
<1> HIDE DEF Level
<1> QED BY <1>5, <1>6 DEF Solves

-----------------------------------------------------------------------------
(* Positions in strings and patterns.                                      *)

LEMMA MinIs ==
  ASSUME NEW S \in SUBSET Nat, S # {}
  PROVE  Min(S) \in S /\ \A n \in S : Min(S) <= n
<1>1. \E m \in S : \A n \in S : m <= n
  BY LeastNumber
<1> QED BY <1>1 DEF Min

(* A string ends at the first position without a character. *)
LEMMA StringEnds ==
  ASSUME NEW s \in Strings
  PROVE  /\ Len(s) \in Nat
         /\ \A i \in 1 .. Len(s) : s[i] # Nul /\ At(s, i) = s[i]
         /\ \A i \in 1 .. Len(s) + 1 : At(s, i) = Nul <=> i = Len(s) + 1
<1>1. Len(s) \in Nat /\ \A i \in 1 .. Len(s) : s[i] \in DOMAIN CharOrder
  BY DEF Strings
<1>2. \A i \in 1 .. Len(s) : s[i] # Nul /\ At(s, i) = s[i]
  BY <1>1, CharOrderAssumption DEF At
<1>3. \A i \in 1 .. Len(s) + 1 : i \notin 1 .. Len(s) => i = Len(s) + 1
  BY <1>1
<1>4. At(s, Len(s) + 1) = Nul
  BY <1>1 DEF At
<1> QED BY <1>1, <1>2, <1>3, <1>4

LEMMA SkipToIs ==
  ASSUME NEW s \in Strings, NEW k \in 1 .. Len(s) + 1, NEW cs
  PROVE  /\ SkipTo(s, k, cs) \in k .. Len(s) + 1
         /\ At(s, SkipTo(s, k, cs)) \in {Nul} \cup cs
         /\ \A j \in k .. Len(s) + 1 : At(s, j) \in {Nul} \cup cs => SkipTo(s, k, cs) <= j
<1> DEFINE S == {j \in k .. Len(s) + 1 : At(s, j) \in {Nul} \cup cs}
<1>1. Len(s) \in Nat /\ k \in Nat
  BY StringEnds
<1>2. S \in SUBSET Nat
  BY <1>1
<1>3. Len(s) + 1 \in S
  BY <1>1, StringEnds
<1>4. Min(S) \in S /\ \A n \in S : Min(S) <= n
  BY <1>2, <1>3, MinIs
<1> QED BY <1>4 DEF SkipTo

LEMMA SkipStarsIs ==
  ASSUME NEW p \in Strings, NEW i \in 1 .. Len(p) + 1
  PROVE  /\ SkipStars(p, i) \in i .. Len(p) + 1
         /\ At(p, SkipStars(p, i)) # "*"
         /\ \A j \in i .. Len(p) + 1 : j < SkipStars(p, i) => j <= Len(p) /\ p[j] = "*"
<1> DEFINE S == {j \in i .. Len(p) + 1 : At(p, j) # "*"}
<1>1. Len(p) \in Nat /\ i \in Nat
  BY StringEnds
<1>2. S \in SUBSET Nat
  BY <1>1
<1>3. Len(p) + 1 \in S
  <2>1. At(p, Len(p) + 1) # "*"
    BY <1>1, StringEnds DEF Nul
  <2> QED BY <1>1, <2>1
<1>4. Min(S) \in S /\ \A n \in S : Min(S) <= n
  BY <1>2, <1>3, MinIs
<1>5. ASSUME NEW j \in i .. Len(p) + 1, j < Min(S) PROVE j <= Len(p) /\ p[j] = "*"
  <2>1. At(p, j) = "*"
    <3>1. j \notin S
      BY <1>1, <1>2, <1>4, <1>5
    <3> QED BY <3>1
  <2>2. j # Len(p) + 1
    BY <1>3, <2>1
  <2>3. j \in 1 .. Len(p)
    BY <1>1, <2>2
  <2> QED BY <2>1, <2>3, StringEnds
<1> QED BY <1>4, <1>5 DEF SkipStars

(* A class ends in the pattern. *)
LEMMA ClassIn ==
  ASSUME NEW p \in Strings, NEW i \in 1 .. Len(p) + 1
  PROVE  AfterClass(p, i) \in i .. Len(p) + 1
<1> DEFINE n == Len(p)
           a == ClassStart(p, i)
           b == ClassItems(p, i)
           e == ClassEnd(p, i)
<1>1. n \in Nat /\ \A j \in 1 .. n + 1 : At(p, j) = Nul <=> j = n + 1
  BY StringEnds
<1>2. ASSUME NEW j \in i .. n + 1, At(p, j) # Nul PROVE j + 1 \in i .. n + 1
  <2>1. j \in 1 .. n + 1
    BY <1>1
  <2>2. j # n + 1
    BY <1>1, <1>2, <2>1
  <2> QED BY <1>1, <2>1, <2>2
<1>3. a \in i .. n + 1
  <2>1. i \in i .. n + 1
    BY <1>1
  <2>2. Negates(p, i) => At(p, i) # Nul
    BY DEF Negates, Nul
  <2> QED BY <1>2, <2>1, <2>2 DEF ClassStart
<1>4. b \in i .. n + 1
  <2> DEFINE j == IF At(p, a) = "]" THEN a + 1 ELSE a
  <2> HIDE DEF a
  <2>1. j \in i .. n + 1
    BY <1>2, <1>3 DEF Nul
  <2> HIDE DEF j
  <2>2. (IF At(p, j) = "-" THEN j + 1 ELSE j) \in i .. n + 1
    BY <1>2, <2>1 DEF Nul
  <2> QED BY <2>2 DEF ClassItems, j, a
<1>5. e \in b .. n + 1
  <2>1. b \in 1 .. n + 1
    BY <1>1, <1>4
  <2> QED BY <2>1, SkipToIs DEF ClassEnd
<1>6. e \in i .. n + 1
  <2> HIDE DEF b, e
  <2> QED BY <1>1, <1>4, <1>5
<1>7. At(p, e) = "]" => e + 1 \in i .. n + 1
  BY <1>2, <1>6 DEF Nul
<1> QED BY <1>6, <1>7 DEF AfterClass

(* What follows a part of a pattern. *)
LEMMA LiteralIn ==
  ASSUME NEW p \in Strings, NEW i \in 1 .. Len(p)
  PROVE  /\ AfterLiteral(p, i) \in i + 1 .. Len(p) + 1
         /\ Literal(p, i) # Nul
<1>1. Len(p) \in Nat
  BY StringEnds
<1>2. CASE Escapes(p, i)
  <2>1. At(p, i + 1) # Nul /\ i + 1 \in 1 .. Len(p) + 1
    BY <1>1, <1>2 DEF Escapes
  <2>2. i + 1 \in 1 .. Len(p)
    <3>1. i + 1 # Len(p) + 1
      BY <2>1, StringEnds
    <3> QED BY <1>1, <3>1
  <2>3. p[i + 1] # Nul
    BY <2>2, StringEnds
  <2> QED BY <1>1, <1>2, <2>2, <2>3 DEF AfterLiteral, Literal
<1>3. CASE ~Escapes(p, i)
  <2>1. At(p, i) # Nul
    BY StringEnds
  <2> QED BY <1>1, <1>3, <2>1 DEF AfterLiteral, Literal
<1> QED BY <1>2, <1>3

LEMMA FollowingIn ==
  ASSUME NEW p \in Strings, NEW i \in 1 .. Len(p)
  PROVE  Following(p, i) \in i + 1 .. Len(p) + 1
<1>1. Len(p) \in Nat
  BY StringEnds
<1>2. i + 1 \in 1 .. Len(p) + 1 /\ i + 1 \in i + 1 .. Len(p) + 1
  BY <1>1
<1>3. AfterClass(p, i + 1) \in i + 1 .. Len(p) + 1
  BY <1>2, ClassIn
<1>4. AfterLiteral(p, i) \in i + 1 .. Len(p) + 1
  BY LiteralIn
<1> QED BY <1>2, <1>3, <1>4 DEF Following

-----------------------------------------------------------------------------
(* What a pattern means.                                                   *)

(* The positions where s matches p from i on, if rest are those for what   *)
(* follows.                                                                *)
Row(s, p, i, rest) ==
  IF p[i] = "*" THEN {k \in 1 .. Len(s) + 1 : \E j \in rest : k <= j}
  ELSE {k \in 1 .. Len(s) : Accepts(p, i, s[k]) /\ k + 1 \in rest}

(* The rows of the reference are defined. *)
LEMMA MatchingIs ==
  ASSUME NEW s \in Strings, NEW p \in Strings
  PROVE  /\ MatchingFrom(s, p) \in [1 .. Len(p) + 1 -> SUBSET (1 .. Len(s) + 1)]
         /\ MatchingFrom(s, p)[Len(p) + 1] = {Len(s) + 1}
         /\ \A i \in 1 .. Len(p) : MatchingFrom(s, p)[i] = Row(s, p, i, MatchingFrom(s, p)[Following(p, i)])
<1> DEFINE n == Len(p)
           S == 1 .. n + 1
           V == SUBSET (1 .. Len(s) + 1)
           r == [i \in S |-> n + 1 - i]
           b == [i \in S |-> {Len(s) + 1}]
           nx == [i \in S |-> IF i = n + 1 THEN i ELSE Following(p, i)]
           F == [i \in S |-> [rest \in V |-> Row(s, p, i, rest)]]
           Body(f, i) == IF i > n THEN {Len(s) + 1} ELSE Row(s, p, i, f[Following(p, i)])
           G == MatchingFrom(s, p)
<1>1. n \in Nat /\ Len(s) \in Nat
  BY StringEnds
<1>2. \A i \in S : i # n + 1 => i \in 1 .. n /\ Following(p, i) \in i + 1 .. n + 1 /\ Following(p, i) \in S
  <2> SUFFICES ASSUME NEW i \in S, i # n + 1
               PROVE  i \in 1 .. n /\ Following(p, i) \in i + 1 .. n + 1 /\ Following(p, i) \in S
    OBVIOUS
  <2>1. i \in 1 .. n
    BY <1>1
  <2>2. Following(p, i) \in i + 1 .. n + 1
    BY <2>1, FollowingIn
  <2> QED BY <1>1, <2>1, <2>2
<1>3. r \in [S -> 0 .. n] /\ b \in [S -> V] /\ nx \in [S -> S]
  <2>1. \A i \in S : n + 1 - i \in 0 .. n
    BY <1>1
  <2>2. {Len(s) + 1} \in V
    BY <1>1
  <2> QED BY <1>2, <2>1, <2>2
<1>4. F \in [S -> [V -> V]]
  <2> SUFFICES ASSUME NEW i \in S, NEW rest \in V PROVE Row(s, p, i, rest) \in V
    OBVIOUS
  <2> QED BY <1>1 DEF Row
<1>5. \A i \in S \ {n + 1} : r[nx[i]] < r[i]
  BY <1>1, <1>2
<1>6. {n + 1} \in SUBSET S
  BY <1>1
<1>7. Ranked(S, V, n, r, {n + 1}, b, nx, F)
  <2> HIDE DEF S, V, r, b, nx, F
  <2> QED BY <1>1, <1>3, <1>4, <1>5, <1>6 DEF Ranked
<1>8. PICK f : f \in [S -> V] /\ \A i \in S : f[i] = IF i \in {n + 1} THEN b[i] ELSE F[i][f[nx[i]]]
  <2> HIDE DEF n, S, V, r, b, nx, F
  <2>1. \E f : Solves(f, S, V, {n + 1}, b, nx, F)
    BY <1>7, Recursion
  <2> QED BY <2>1 DEF Solves
<1>9. f = [i \in S |-> Body(f, i)]
  <2> SUFFICES ASSUME NEW i \in S PROVE f[i] = Body(f, i)
    BY <1>8
  <2>1. CASE i = n + 1
    <3>1. f[i] = b[i] /\ b[i] = {Len(s) + 1}
      BY <1>8, <2>1
    <3>2. i > n
      BY <1>1, <2>1
    <3> QED BY <3>1, <3>2
  <2>2. CASE i # n + 1
    <3>1. i \in 1 .. n /\ Following(p, i) \in S /\ ~(i > n)
      BY <1>1, <1>2, <2>2
    <3>2. f[Following(p, i)] \in V
      BY <1>8, <3>1
    <3>3. f[i] = F[i][f[Following(p, i)]]
      BY <1>8, <2>2
    <3> QED BY <3>1, <3>2, <3>3
  <2> QED BY <2>1, <2>2
<1>10. G = CHOOSE g : g = [i \in S |-> Body(g, i)]
  BY DEF MatchingFrom, Row
<1>11. G = [i \in S |-> Body(G, i)]
  <2> HIDE DEF G, Body, S
  <2> QED BY <1>9, <1>10
<1>12. G[n + 1] = {Len(s) + 1} /\ n + 1 \in S
  <2>1. n + 1 \in S /\ n + 1 > n
    BY <1>1
  <2> HIDE DEF G, S
  <2> QED BY <1>11, <2>1
<1>13. ASSUME NEW i \in 1 .. n PROVE G[i] = Row(s, p, i, G[Following(p, i)])
  <2>1. i \in S /\ ~(i > n)
    BY <1>1
  <2> HIDE DEF G, S
  <2> QED BY <1>11, <2>1
<1>14. ASSUME NEW i \in S PROVE G[i] \in V
  <2>1. CASE i = n + 1
    BY <1>1, <1>12, <2>1
  <2>2. CASE i # n + 1
    <3>1. G[i] = Row(s, p, i, G[Following(p, i)])
      BY <1>2, <1>13, <2>2
    <3>2. \A rest : Row(s, p, i, rest) \in V
      BY <1>1 DEF Row
    <3> HIDE DEF G
    <3> QED BY <3>1, <3>2
  <2> QED BY <2>1, <2>2
<1>15. G \in [S -> V]
  <2> HIDE DEF G, S, V, Body
  <2> QED BY <1>11, <1>14
<1> QED BY <1>12, <1>13, <1>15

(* The rest matches from k on if p begins with a star: somewhere from k on *)
(* what is behind all stars matches.                                       *)
LEMMA StarsMean ==
  ASSUME NEW s \in Strings, NEW p \in Strings, NEW i \in 1 .. Len(p), p[i] = "*", NEW k \in 1 .. Len(s) + 1
  PROVE  k \in MatchingFrom(s, p)[i] <=> \E a \in MatchingFrom(s, p)[SkipStars(p, i)] : k <= a
<1> DEFINE G == MatchingFrom(s, p)
           j == SkipStars(p, i)
           Means0(q, x) == x \in G[q] <=> \E a \in G[j] : x <= a
           Bad == {d \in Nat : \E q \in i .. j - 1, x \in 1 .. Len(s) + 1 : d = j - q /\ ~Means0(q, x)}
<1>1. Len(p) \in Nat /\ Len(s) \in Nat
  BY StringEnds
<1>2. /\ j \in i .. Len(p) + 1 /\ At(p, j) # "*"
      /\ \A q \in i .. Len(p) + 1 : q < j => q <= Len(p) /\ p[q] = "*"
  <2>1. i \in 1 .. Len(p) + 1
    BY <1>1
  <2> QED BY <2>1, SkipStarsIs
<1>3. i < j
  <2>1. At(p, i) = "*"
    BY StringEnds
  <2> QED BY <1>1, <1>2, <2>1
<1> HIDE DEF j
<1>4. \A q \in i .. j - 1 : q \in 1 .. Len(p) /\ p[q] = "*" /\ q + 1 \in 1 .. Len(p) + 1 /\ Following(p, q) = q + 1
  <2> SUFFICES ASSUME NEW q \in i .. j - 1
               PROVE  q \in 1 .. Len(p) /\ p[q] = "*" /\ q + 1 \in 1 .. Len(p) + 1 /\ Following(p, q) = q + 1
    OBVIOUS
  <2>1. q \in i .. Len(p) + 1 /\ q < j
    BY <1>1, <1>2
  <2>2. q <= Len(p) /\ p[q] = "*"
    BY <1>2, <2>1
  <2>3. Following(p, q) = q + 1
    BY <2>2 DEF Following
  <2>4. q \in 1 .. Len(p) /\ q + 1 \in 1 .. Len(p) + 1
    BY <1>1, <2>1, <2>2
  <2> QED BY <2>2, <2>3, <2>4
<1>5. \A q \in 1 .. Len(p) + 1 : G[q] \subseteq 1 .. Len(s) + 1
  BY MatchingIs
<1>6. \A q \in i .. j - 1, x \in 1 .. Len(s) + 1 : x \in G[q] <=> \E a \in G[q + 1] : x <= a
  <2> SUFFICES ASSUME NEW q \in i .. j - 1, NEW x \in 1 .. Len(s) + 1
               PROVE  x \in G[q] <=> \E a \in G[q + 1] : x <= a
    OBVIOUS
  <2>1. G[q] = Row(s, p, q, G[q + 1])
    BY <1>4, MatchingIs
  <2> HIDE DEF G
  <2> QED BY <1>4, <2>1 DEF Row
<1> HIDE DEF G
<1>7. Bad = {}
  <2> SUFFICES ASSUME Bad # {} PROVE FALSE
    OBVIOUS
  <2>1. PICK d \in Bad : \A e \in Bad : d <= e
    BY LeastNumber
  <2>2. PICK q \in i .. j - 1, x \in 1 .. Len(s) + 1 : d = j - q /\ ~Means0(q, x)
    BY <2>1
  <2>3. CASE q = j - 1
    <3>1. q + 1 = j
      BY <1>1, <1>2, <2>3
    <3> QED BY <1>6, <2>2, <3>1
  <2>4. CASE q # j - 1
    <3>0. d \in Nat
      BY <2>1
    <3>1. q + 1 \in i .. j - 1 /\ j - (q + 1) \in Nat /\ j - (q + 1) < d
      BY <1>1, <1>2, <2>2, <2>4
    <3>2. ASSUME NEW y \in 1 .. Len(s) + 1 PROVE Means0(q + 1, y)
      <4>1. j - (q + 1) \notin Bad
        <5> HIDE DEF Bad
        <5> QED BY <2>1, <3>1, <3>0
      <4> QED BY <3>1, <4>1
    <3>3. G[q + 1] \subseteq 1 .. Len(s) + 1 /\ G[j] \subseteq 1 .. Len(s) + 1
      <4>1. q + 1 \in 1 .. Len(p) + 1 /\ j \in 1 .. Len(p) + 1
        BY <1>1, <1>2, <1>4
      <4> QED BY <1>5, <4>1
    <3>4. ASSUME x \in G[q] PROVE \E a \in G[j] : x <= a
      <4>1. PICK y \in G[q + 1] : x <= y
        BY <1>6, <3>4
      <4>2. PICK a \in G[j] : y <= a
        <5>1. y \in 1 .. Len(s) + 1
          BY <3>3, <4>1
        <5>2. y \in G[q + 1] <=> \E a \in G[j] : y <= a
          BY <3>2, <5>1
        <5> QED BY <4>1, <5>2
      <4>3. a \in Int /\ y \in Int /\ x \in Int
        <5>1. a \in 1 .. Len(s) + 1 /\ y \in 1 .. Len(s) + 1 /\ x \in 1 .. Len(s) + 1
          BY <3>3
        <5> QED BY <5>1
      <4>4. x <= a
        BY <4>1, <4>2, <4>3
      <4> QED BY <4>2, <4>4
    <3>5. ASSUME NEW a \in G[j], x <= a PROVE x \in G[q]
      <4>1. a \in 1 .. Len(s) + 1 /\ a <= a
        BY <1>1, <3>3
      <4>2. x \in G[q + 1]
        BY <3>2, <3>5
      <4>3. x <= x
        BY <1>1
      <4> QED BY <1>6, <4>2, <4>3
    <3> QED BY <2>2, <3>4, <3>5
  <2> QED BY <2>3, <2>4
<1>8. i \in i .. j - 1 /\ j - i \in Nat
  BY <1>1, <1>2, <1>3
<1>9. j - i \notin Bad
  BY <1>7
<1>10. Means0(i, k)
  BY <1>8, <1>9
<1> QED BY <1>10 DEF G, j

(* The literal behind a star is not passed over. *)
LEMMA StarAtSafe ==
  ASSUME NEW s \in Strings, NEW p \in Strings, NEW j \in 1 .. Len(p), p[j] # "*", NEW k \in 1 .. Len(s) + 1
  PROVE  /\ StarAt(s, p, j, k) \in k .. Len(s) + 1
         /\ \A a \in MatchingFrom(s, p)[j] : k <= a => StarAt(s, p, j, k) <= a
<1> DEFINE c == Literal(p, j)
           t == SkipTo(s, k, {c})
<1>1. Len(p) \in Nat /\ Len(s) \in Nat /\ k \in Nat /\ k \in k .. Len(s) + 1
  BY StringEnds
<1>2. MatchingFrom(s, p)[j] = Row(s, p, j, MatchingFrom(s, p)[Following(p, j)])
  BY MatchingIs
<1>3. CASE c \in {"?", "[", "*"}
  BY <1>1, <1>3, <1>2 DEF StarAt
<1>4. CASE c \notin {"?", "[", "*"}
  <2>1. t = StarAt(s, p, j, k)
    BY <1>4 DEF StarAt
  <2>2. /\ t \in k .. Len(s) + 1
        /\ \A a \in k .. Len(s) + 1 : At(s, a) \in {Nul} \cup {c} => t <= a
    BY SkipToIs
  <2>3. p[j] \notin {"?", "["}
    <3>1. At(p, j) = p[j]
      BY StringEnds
    <3>2. Escapes(p, j) => p[j] = "\\"
      BY <3>1 DEF Escapes
    <3>3. ~Escapes(p, j) => p[j] = c
      BY <3>1 DEF Literal
    <3> QED BY <1>4, <3>2, <3>3
  <2>4. ASSUME NEW a \in MatchingFrom(s, p)[j], k <= a PROVE t <= a
    <3>1. a \in 1 .. Len(s) /\ Accepts(p, j, s[a])
      BY <1>2, <2>4 DEF Row
    <3>2. s[a] = c
      BY <2>3, <3>1 DEF Accepts
    <3>3. At(s, a) = c /\ a \in k .. Len(s) + 1
      BY <1>1, <2>4, <3>1, <3>2, StringEnds
    <3> HIDE DEF t, c
    <3> QED BY <2>2, <3>3
  <2> HIDE DEF t
  <2> QED BY <2>1, <2>2, <2>4
<1> QED BY <1>3, <1>4

-----------------------------------------------------------------------------
(* A turn of the loop.                                                     *)

(* What a position between turns is made of. *)
LEMMA StateIs ==
  ASSUME NEW s \in Strings, NEW p \in Strings, NEW x \in GlobStates(s, p)
  PROVE  /\ Len(s) \in Nat /\ Len(p) \in Nat
         /\ x \in [k : 1 .. Len(s) + 1, i : 1 .. Len(p) + 1, star : 0 .. Len(p) + 1, at : 0 .. Len(s) + 1,
                   ret : {"none", "match", "nomatch"}]
         /\ x.k \in 1 .. Len(s) + 1 /\ x.i \in 1 .. Len(p) + 1 /\ x.star \in 0 .. Len(p) + 1
         /\ x.at \in 0 .. Len(s) + 1 /\ x.star <= x.i /\ x.at <= x.k
         /\ x.ret \in {"none", "match", "nomatch"}
<1>1. Len(s) \in Nat /\ Len(p) \in Nat
  BY StringEnds
<1> QED BY <1>1 DEF GlobStates

(* The position after a turn, by what the turn does. *)
Returned(x, ret) == [x EXCEPT !.ret = ret]
Consumed(p, x) == [x EXCEPT !.k = x.k + 1, !.i = Following(p, x.i)]
Starred(s, p, x) ==
  LET j == SkipStars(p, x.i)
      k == StarAt(s, p, j, x.k)
  IN  [x EXCEPT !.k = k, !.i = j, !.star = j, !.at = k]

LEMMA TurnIs ==
  ASSUME NEW s \in Strings, NEW p \in Strings, NEW x \in GlobStates(s, p)
  PROVE  LET y == GlobTurn(s, p, x)
         IN  \/ x.i = Len(p) + 1 /\ x.k = Len(s) + 1 /\ y = Returned(x, "match")
             \/ x.i = Len(p) + 1 /\ x.k \in 1 .. Len(s) /\ y = Backtrack(s, x)
             \/ /\ x.i \in 1 .. Len(p) /\ p[x.i] = "*" /\ SkipStars(p, x.i) = Len(p) + 1
                /\ y = Returned(x, "match")
             \/ /\ x.i \in 1 .. Len(p) /\ p[x.i] = "*" /\ SkipStars(p, x.i) \in 1 .. Len(p)
                /\ y = Starred(s, p, x)
             \/ /\ x.i \in 1 .. Len(p) /\ p[x.i] # "*" /\ x.k \in 1 .. Len(s) /\ Accepts(p, x.i, s[x.k])
                /\ y = Consumed(p, x)
             \/ /\ x.i \in 1 .. Len(p) /\ p[x.i] # "*"
                /\ x.k = Len(s) + 1 \/ ~Accepts(p, x.i, s[x.k])
                /\ y = Backtrack(s, x)
<1> DEFINE y == GlobTurn(s, p, x)
           i == x.i
           k == x.k
           c == At(p, i)
           d == At(s, k)
<1>1. /\ Len(s) \in Nat /\ Len(p) \in Nat /\ k \in 1 .. Len(s) + 1 /\ i \in 1 .. Len(p) + 1
  BY StateIs
<1>2. CASE i = Len(p) + 1
  <2>1. c = Nul
    BY <1>1, <1>2, StringEnds
  <2>2. d = Nul <=> k = Len(s) + 1
    BY <1>1, StringEnds
  <2>3. y = IF d = Nul THEN Returned(x, "match") ELSE Backtrack(s, x)
    BY <2>1 DEF GlobTurn, Returned, Nul
  <2>4. k # Len(s) + 1 => k \in 1 .. Len(s)
    BY <1>1
  <2> HIDE DEF y, d
  <2> QED BY <1>2, <2>2, <2>3, <2>4 DEF y
<1>3. CASE i # Len(p) + 1
  <2>1. i \in 1 .. Len(p) /\ i + 1 \in 1 .. Len(p) + 1
    BY <1>1, <1>3
  <2>2. c # Nul /\ c = p[i]
    BY <2>1, StringEnds
  <2>3. /\ d = Nul <=> k = Len(s) + 1
        /\ k # Len(s) + 1 => k \in 1 .. Len(s) /\ d = s[k]
    <3>1. k # Len(s) + 1 => k \in 1 .. Len(s)
      BY <1>1
    <3> QED BY <1>1, <3>1, StringEnds
  <2>4. CASE c = "?"
    <3>1. y = IF d = Nul THEN Backtrack(s, x) ELSE Consumed(p, x)
      BY <2>2, <2>4 DEF GlobTurn, Consumed, Following, Nul
    <3>2. Accepts(p, i, s[k]) /\ p[i] # "*"
      BY <2>2, <2>4 DEF Accepts
    <3> HIDE DEF y, d, c, i, k
    <3> QED BY <2>1, <2>3, <3>1, <3>2 DEF y, i, k
  <2>5. CASE c = "*"
    <3> DEFINE j == SkipStars(p, i)
    <3>1. y = IF At(p, j) = Nul THEN Returned(x, "match") ELSE Starred(s, p, x)
      BY <2>2, <2>5 DEF GlobTurn, Starred, Returned, Nul
    <3>2. j \in i .. Len(p) + 1
      BY <1>1, SkipStarsIs
    <3>3. j \in 1 .. Len(p) + 1
      BY <1>1, <3>2
    <3>4. At(p, j) = Nul <=> j = Len(p) + 1
      BY <3>3, StringEnds
    <3>5. j # Len(p) + 1 => j \in 1 .. Len(p)
      BY <1>1, <3>3
    <3> HIDE DEF y, d, c, j
    <3> QED BY <2>1, <2>2, <2>5, <3>1, <3>4, <3>5 DEF y, j
  <2>6. CASE c = "["
    <3>1. y = IF d = Nul \/ ~match_charclass(p, i + 1, d) THEN Backtrack(s, x) ELSE Consumed(p, x)
      BY <2>2, <2>6 DEF GlobTurn, Consumed, Following, Nul
    <3>2. (Accepts(p, i, s[k]) <=> match_charclass(p, i + 1, s[k])) /\ p[i] # "*"
      BY <2>2, <2>6 DEF Accepts
    <3> HIDE DEF y, d, c, i, k
    <3> QED BY <2>1, <2>3, <3>1, <3>2 DEF y, i, k
  <2>7. CASE c \notin {"?", "*", "["}
    <3>1. y = IF d # Literal(p, i) THEN Backtrack(s, x) ELSE Consumed(p, x)
      BY <2>2, <2>7 DEF GlobTurn, Consumed, Following
    <3>2. (Accepts(p, i, s[k]) <=> s[k] = Literal(p, i)) /\ p[i] # "*"
      BY <2>2, <2>7 DEF Accepts
    <3>3. Literal(p, i) # Nul
      BY <2>1, LiteralIn
    <3> HIDE DEF y, d, c, i, k
    <3> QED BY <2>1, <2>3, <3>1, <3>2, <3>3 DEF y, i, k
  <2> QED BY <2>4, <2>5, <2>6, <2>7
<1> QED BY <1>2, <1>3

(* A turn returns, or goes on: behind a later star, with more for the last *)
(* one, or further on in the string.                                       *)
Later(x, y) ==
  \/ y.ret # "none"
  \/ y.star > x.star
  \/ y.star = x.star /\ y.at > x.at
  \/ y.star = x.star /\ y.at = x.at /\ y.k > x.k

LEMMA BacktrackGoesOn ==
  ASSUME NEW s \in Strings, NEW p \in Strings, NEW x \in GlobStates(s, p)
  PROVE  Backtrack(s, x) \in GlobStates(s, p) /\ Later(x, Backtrack(s, x))
<1>1. /\ Len(s) \in Nat /\ Len(p) \in Nat
      /\ x \in [k : 1 .. Len(s) + 1, i : 1 .. Len(p) + 1, star : 0 .. Len(p) + 1, at : 0 .. Len(s) + 1,
                ret : {"none", "match", "nomatch"}]
      /\ x.star <= x.i /\ x.at <= x.k /\ x.star \in 0 .. Len(p) + 1 /\ x.at \in 0 .. Len(s) + 1
  BY StateIs
<1>2. CASE x.star = 0 \/ At(s, x.at) = Nul
  BY <1>1, <1>2 DEF Backtrack, GlobStates, Later
<1>3. CASE ~(x.star = 0 \/ At(s, x.at) = Nul)
  <2>1. x.at # Len(s) + 1
    BY <1>1, <1>3, StringEnds
  <2>2. x.at + 1 \in 1 .. Len(s) + 1 /\ x.star \in 1 .. Len(p) + 1 /\ x.at + 1 > x.at
    BY <1>1, <1>3, <2>1
  <2> DEFINE z == [x EXCEPT !.k = x.at + 1, !.i = x.star, !.at = x.at + 1]
  <2>3. Backtrack(s, x) = z
    BY <1>3 DEF Backtrack
  <2>4. /\ z \in [k : 1 .. Len(s) + 1, i : 1 .. Len(p) + 1, star : 0 .. Len(p) + 1, at : 0 .. Len(s) + 1,
                   ret : {"none", "match", "nomatch"}]
    <3>1. x.at + 1 \in 0 .. Len(s) + 1
      BY <2>2
    <3> QED BY <1>1, <2>2, <3>1
  <2>5. z.star = x.star /\ z.i = x.star /\ z.at = x.at + 1 /\ z.k = x.at + 1
    BY <1>1
  <2> HIDE DEF z
  <2>6. z.star <= z.i /\ z.at <= z.k /\ z.star = x.star /\ z.at > x.at
    BY <1>1, <2>2, <2>5
  <2>7. z \in GlobStates(s, p)
    BY <2>4, <2>6 DEF GlobStates
  <2> QED BY <2>3, <2>6, <2>7 DEF Later
<1> QED BY <1>2, <1>3

LEMMA TurnGoesOn ==
  ASSUME NEW s \in Strings, NEW p \in Strings, NEW x \in GlobStates(s, p)
  PROVE  GlobTurn(s, p, x) \in GlobStates(s, p) /\ Later(x, GlobTurn(s, p, x))
<1> DEFINE y == GlobTurn(s, p, x)
<1>1. /\ Len(s) \in Nat /\ Len(p) \in Nat
      /\ x \in [k : 1 .. Len(s) + 1, i : 1 .. Len(p) + 1, star : 0 .. Len(p) + 1, at : 0 .. Len(s) + 1,
                ret : {"none", "match", "nomatch"}]
      /\ x.star <= x.i /\ x.at <= x.k /\ x.star \in 0 .. Len(p) + 1 /\ x.at \in 0 .. Len(s) + 1
      /\ x.k \in 1 .. Len(s) + 1 /\ x.i \in 1 .. Len(p) + 1
  BY StateIs
<1>2. CASE y = Returned(x, "match")
  BY <1>1, <1>2 DEF Returned, GlobStates, Later
<1>3. CASE y = Backtrack(s, x)
  BY <1>3, BacktrackGoesOn
<1>4. CASE /\ x.i \in 1 .. Len(p) /\ p[x.i] = "*" /\ SkipStars(p, x.i) \in 1 .. Len(p)
           /\ y = Starred(s, p, x)
  <2> DEFINE j == SkipStars(p, x.i)
             k == StarAt(s, p, j, x.k)
  <2>1. /\ j \in x.i .. Len(p) + 1 /\ At(p, j) # "*"
    BY <1>1, SkipStarsIs
  <2>2. j > x.i /\ p[j] # "*"
    <3>1. At(p, x.i) = "*" /\ At(p, j) = p[j]
      BY <1>4, StringEnds
    <3> QED BY <1>1, <2>1, <3>1
  <2>3. k \in x.k .. Len(s) + 1
    BY <1>1, <1>4, <2>2, StarAtSafe
  <2>4. j \in 1 .. Len(p) /\ j > x.star /\ k \in 1 .. Len(s) + 1 /\ j \in 1 .. Len(p) + 1
    BY <1>1, <1>4, <2>2, <2>3
  <2> DEFINE z == [x EXCEPT !.k = k, !.i = j, !.star = j, !.at = k]
  <2>5. y = z
    BY <1>4 DEF Starred
  <2> HIDE DEF j, k, y
  <2>6. /\ z \in [k : 1 .. Len(s) + 1, i : 1 .. Len(p) + 1, star : 0 .. Len(p) + 1, at : 0 .. Len(s) + 1,
                   ret : {"none", "match", "nomatch"}]
    <3>1. k \in 0 .. Len(s) + 1 /\ j \in 0 .. Len(p) + 1
      BY <2>4
    <3> QED BY <1>1, <2>4, <3>1
  <2>7. z.star = j /\ z.i = j /\ z.at = k /\ z.k = k
    BY <1>1
  <2> HIDE DEF z
  <2>8. z.star <= z.i /\ z.at <= z.k /\ z.star > x.star
    BY <1>1, <2>4, <2>7
  <2>9. z \in GlobStates(s, p)
    BY <2>6, <2>8 DEF GlobStates
  <2> QED BY <2>5, <2>8, <2>9 DEF Later, y
<1>5. CASE x.i \in 1 .. Len(p) /\ x.k \in 1 .. Len(s) /\ y = Consumed(p, x)
  <2>1. Following(p, x.i) \in x.i + 1 .. Len(p) + 1
    BY <1>5, FollowingIn
  <2> DEFINE i == Following(p, x.i)
  <2>2. i \in 1 .. Len(p) + 1 /\ x.star <= i /\ x.k + 1 \in 1 .. Len(s) + 1 /\ x.at <= x.k + 1
    BY <1>1, <1>5, <2>1
  <2> DEFINE z == [x EXCEPT !.k = x.k + 1, !.i = i]
  <2>3. y = z
    BY <1>5 DEF Consumed
  <2> HIDE DEF i, y
  <2>4. /\ z \in [k : 1 .. Len(s) + 1, i : 1 .. Len(p) + 1, star : 0 .. Len(p) + 1, at : 0 .. Len(s) + 1,
                   ret : {"none", "match", "nomatch"}]
    BY <1>1, <2>2
  <2>5. z.star = x.star /\ z.i = i /\ z.at = x.at /\ z.k = x.k + 1
    BY <1>1
  <2> HIDE DEF z
  <2>6. z.star <= z.i /\ z.at <= z.k /\ z.k > x.k
    BY <1>1, <2>2, <2>5
  <2>7. z \in GlobStates(s, p)
    BY <2>4, <2>6 DEF GlobStates
  <2> QED BY <2>3, <2>5, <2>6, <2>7 DEF Later, y
<1> HIDE DEF y
<1> QED BY <1>2, <1>3, <1>4, <1>5, TurnIs DEF y

-----------------------------------------------------------------------------
(* What a turn keeps.                                                      *)

(* The rest matches: here, or if the last star takes more.                 *)
CanMatch(s, p, x) ==
  LET G == MatchingFrom(s, p)
  IN  \/ x.k \in G[x.i]
      \/ x.star # 0 /\ \E a \in G[x.star] : x.at < a

(* The pattern between the last star and here has taken as many characters *)
(* as it takes anywhere.                                                   *)
Aligned(s, p, x) ==
  LET G == MatchingFrom(s, p)
  IN  x.star # 0 => x.at > 0 /\ \A a \in G[x.star] : x.at <= a => a + (x.k - x.at) \in G[x.i]

(* A turn returns what matching means, or leaves it as it was. *)
Decides(s, p, x, y) ==
  /\ y.ret = "match" => CanMatch(s, p, x)
  /\ y.ret = "nomatch" => ~CanMatch(s, p, x)
  /\ y.ret = "none" => Aligned(s, p, y) /\ (CanMatch(s, p, y) <=> CanMatch(s, p, x))

LEMMA BacktrackDecides ==
  ASSUME NEW s \in Strings, NEW p \in Strings, NEW x \in GlobStates(s, p), x.ret = "none",
         Aligned(s, p, x), x.k \notin MatchingFrom(s, p)[x.i]
  PROVE  Decides(s, p, x, Backtrack(s, x))
<1> DEFINE G == MatchingFrom(s, p)
           y == Backtrack(s, x)
<1>1. /\ Len(s) \in Nat /\ Len(p) \in Nat
      /\ x \in [k : 1 .. Len(s) + 1, i : 1 .. Len(p) + 1, star : 0 .. Len(p) + 1, at : 0 .. Len(s) + 1,
                ret : {"none", "match", "nomatch"}]
      /\ x.star \in 0 .. Len(p) + 1 /\ x.at \in 0 .. Len(s) + 1
  BY StateIs
<1>2. x.star # 0 => G[x.star] \subseteq 1 .. Len(s) + 1
  <2>1. x.star # 0 => x.star \in 1 .. Len(p) + 1
    BY <1>1
  <2> QED BY <2>1, MatchingIs
<1>3. x.star # 0 => x.at > 0
  BY DEF Aligned
<1> HIDE DEF G
<1>4. CASE x.star = 0 \/ At(s, x.at) = Nul
  <2>1. y.ret = "nomatch"
    BY <1>1, <1>4 DEF Backtrack
  <2>2. ASSUME x.star # 0, NEW a \in G[x.star], x.at < a PROVE FALSE
    <3>1. x.at \in 1 .. Len(s) + 1 /\ At(s, x.at) = Nul
      BY <1>1, <1>3, <1>4, <2>2
    <3>2. x.at = Len(s) + 1
      BY <3>1, StringEnds
    <3> QED BY <1>1, <1>2, <2>2, <3>2
  <2>3. ~CanMatch(s, p, x)
    BY <2>2 DEF CanMatch, G
  <2> QED BY <2>1, <2>3 DEF Decides
<1>5. CASE ~(x.star = 0 \/ At(s, x.at) = Nul)
  <2>1. y.ret = "none" /\ y.k = x.at + 1 /\ y.i = x.star /\ y.star = x.star /\ y.at = x.at + 1
    BY <1>1, <1>5 DEF Backtrack
  <2> HIDE DEF y
  <2>2. G[x.star] \subseteq Int /\ x.at \in Nat /\ x.star # 0
    BY <1>1, <1>2, <1>5
  <2>3. Aligned(s, p, y)
    <3>1. \A a \in G[x.star] : a + (y.k - y.at) = a
      BY <2>1, <2>2
    <3>2. y.at > 0
      BY <2>1, <2>2
    <3> QED BY <2>1, <3>1, <3>2 DEF Aligned, G
  <2>4. CanMatch(s, p, y) <=> \E a \in G[x.star] : x.at < a
    <3>1. \A a \in G[x.star] : x.at < a <=> a = x.at + 1 \/ x.at + 1 < a
      BY <2>2
    <3> QED BY <2>1, <2>2, <3>1 DEF CanMatch, G
  <2>5. CanMatch(s, p, x) <=> \E a \in G[x.star] : x.at < a
    BY <2>2 DEF CanMatch, G
  <2> QED BY <2>1, <2>3, <2>4, <2>5 DEF Decides, y
<1> QED BY <1>4, <1>5

LEMMA TurnDecides ==
  ASSUME NEW s \in Strings, NEW p \in Strings, NEW x \in GlobStates(s, p), x.ret = "none", Aligned(s, p, x)
  PROVE  Decides(s, p, x, GlobTurn(s, p, x))
<1> DEFINE G == MatchingFrom(s, p)
           y == GlobTurn(s, p, x)
<1>1. /\ Len(s) \in Nat /\ Len(p) \in Nat
      /\ x \in [k : 1 .. Len(s) + 1, i : 1 .. Len(p) + 1, star : 0 .. Len(p) + 1, at : 0 .. Len(s) + 1,
                ret : {"none", "match", "nomatch"}]
      /\ x.star \in 0 .. Len(p) + 1 /\ x.at \in 0 .. Len(s) + 1 /\ x.at <= x.k
      /\ x.k \in 1 .. Len(s) + 1 /\ x.i \in 1 .. Len(p) + 1
  BY StateIs
<1>2. \A i \in 1 .. Len(p) + 1 : G[i] \subseteq 1 .. Len(s) + 1
  BY MatchingIs
<1>3. G[Len(p) + 1] = {Len(s) + 1} /\ \A i \in 1 .. Len(p) : G[i] = Row(s, p, i, G[Following(p, i)])
  BY MatchingIs
<1>4. CASE /\ x.i \in 1 .. Len(p) /\ p[x.i] = "*"
  <2> DEFINE j == SkipStars(p, x.i)
             k == StarAt(s, p, j, x.k)
  <2>1. \A b \in 1 .. Len(s) + 1 : b \in G[x.i] <=> \E a \in G[j] : b <= a
    BY <1>4, StarsMean
  <2>2. CASE j = Len(p) + 1 /\ y = Returned(x, "match")
    <3>1. Len(s) + 1 \in G[j] /\ x.k <= Len(s) + 1
      BY <1>1, <1>3, <2>2
    <3>2. x.k \in G[x.i]
      BY <1>1, <2>1, <3>1
    <3>3. y.ret = "match"
      BY <1>1, <2>2 DEF Returned
    <3> HIDE DEF y, G
    <3> QED BY <3>2, <3>3 DEF Decides, CanMatch, y, G
  <2>3. CASE j \in 1 .. Len(p) /\ y = Starred(s, p, x)
    <3>1. p[j] # "*"
      <4>1. At(p, j) # "*"
        BY <1>1, SkipStarsIs
      <4> QED BY <2>3, <4>1, StringEnds
    <3>2. k \in x.k .. Len(s) + 1 /\ \A a \in G[j] : x.k <= a => k <= a
      BY <1>1, <2>3, <3>1, StarAtSafe
    <3>3. y = [x EXCEPT !.k = k, !.i = j, !.star = j, !.at = k]
      BY <2>3 DEF Starred
    <3> HIDE DEF j, k, y
    <3>4. y.ret = "none" /\ y.k = k /\ y.i = j /\ y.star = j /\ y.at = k
      BY <1>1, <3>3
    <3>5. G[j] \subseteq 1 .. Len(s) + 1 /\ j # 0 /\ k \in Nat /\ k > 0 /\ x.k \in Nat /\ x.k <= k
      BY <1>1, <1>2, <2>3, <3>2
    <3> HIDE DEF G
    <3>6. Aligned(s, p, y)
      <4>1. \A a \in G[j] : a + (k - k) = a
        BY <3>5
      <4> QED BY <3>4, <3>5, <4>1 DEF Aligned, G
    <3>7. CanMatch(s, p, y) <=> \E a \in G[j] : x.k <= a
      <4>1. \A a \in G[j] : x.k <= a <=> a = k \/ k < a
        BY <3>2, <3>5
      <4> QED BY <3>4, <3>5, <4>1 DEF CanMatch, G
    <3>8. ASSUME x.star # 0, NEW a \in G[x.star], x.at < a PROVE x.k \in G[x.i]
      <4> DEFINE b == a + (x.k - x.at)
      <4>1. G[x.star] \subseteq 1 .. Len(s) + 1 /\ G[x.i] \subseteq 1 .. Len(s) + 1
        <5>1. x.star \in 1 .. Len(p) + 1
          BY <1>1, <3>8
        <5> QED BY <1>1, <1>2, <5>1
      <4>2. a \in Nat /\ x.at \in Nat /\ x.at <= a
        BY <1>1, <3>8, <4>1
      <4>3. b \in G[x.i]
        BY <3>8, <4>2 DEF Aligned, G
      <4>4. x.k <= b /\ b \in 1 .. Len(s) + 1
        BY <3>5, <3>8, <4>1, <4>2, <4>3
      <4> HIDE DEF b
      <4>5. PICK e \in G[j] : b <= e
        BY <2>1, <4>3, <4>4
      <4>6. x.k <= e
        BY <3>5, <4>4, <4>5
      <4> QED BY <1>1, <2>1, <4>5, <4>6
    <3>9. CanMatch(s, p, x) <=> x.k \in G[x.i]
      BY <3>8 DEF CanMatch, G
    <3>10. x.k \in G[x.i] <=> \E a \in G[j] : x.k <= a
      BY <1>1, <2>1
    <3> QED BY <3>4, <3>6, <3>7, <3>9, <3>10 DEF Decides, y
  <2>4. (j = Len(p) + 1 /\ y = Returned(x, "match")) \/ (j \in 1 .. Len(p) /\ y = Starred(s, p, x))
    <3> HIDE DEF y
    <3> QED BY <1>1, <1>4, TurnIs DEF y
  <2> QED BY <2>2, <2>3, <2>4
<1>5. CASE x.i \in 1 .. Len(p) /\ p[x.i] # "*"
  <2> DEFINE f == Following(p, x.i)
  <2>1. \A b : b \in G[x.i] <=> b \in 1 .. Len(s) /\ Accepts(p, x.i, s[b]) /\ b + 1 \in G[f]
    <3>1. G[x.i] = Row(s, p, x.i, G[f])
      BY <1>3, <1>5
    <3> HIDE DEF G, f
    <3> QED BY <1>5, <3>1 DEF Row
  <2>2. CASE x.k \in 1 .. Len(s) /\ Accepts(p, x.i, s[x.k]) /\ y = Consumed(p, x)
    <3>1. y = [x EXCEPT !.k = x.k + 1, !.i = f]
      BY <2>2 DEF Consumed
    <3> HIDE DEF y, f
    <3>2. y.ret = "none" /\ y.k = x.k + 1 /\ y.i = f /\ y.star = x.star /\ y.at = x.at
      BY <1>1, <3>1
    <3> HIDE DEF G
    <3>3. x.k \in G[x.i] <=> y.k \in G[y.i]
      BY <2>1, <2>2, <3>2
    <3>4. CanMatch(s, p, y) <=> CanMatch(s, p, x)
      BY <3>2, <3>3 DEF CanMatch, G
    <3>5. Aligned(s, p, y)
      <4>1. ASSUME x.star # 0, NEW a \in G[x.star], x.at <= a
            PROVE  a + ((x.k + 1) - x.at) \in G[f]
        <5>1. a + (x.k - x.at) \in G[x.i]
          BY <4>1 DEF Aligned, G
        <5>2. (a + (x.k - x.at)) + 1 \in G[f]
          BY <2>1, <5>1
        <5>3. a \in Int
          <6>1. x.star \in 1 .. Len(p) + 1
            BY <1>1, <4>1
          <6>2. G[x.star] \subseteq 1 .. Len(s) + 1
            BY <1>2, <6>1
          <6> QED BY <1>1, <4>1, <6>2
        <5>4. (a + (x.k - x.at)) + 1 = a + ((x.k + 1) - x.at)
          BY <1>1, <5>3
        <5> QED BY <5>2, <5>4
      <4>2. x.star # 0 => x.at > 0
        BY DEF Aligned
      <4>3. ASSUME y.star # 0 PROVE \A a \in G[y.star] : y.at <= a => a + (y.k - y.at) \in G[y.i]
        <5> SUFFICES ASSUME NEW a \in G[y.star], y.at <= a PROVE a + (y.k - y.at) \in G[y.i]
          OBVIOUS
        <5> QED BY <3>2, <4>1, <4>3
      <4>4. y.star # 0 => y.at > 0
        BY <3>2, <4>2
      <4> QED BY <4>3, <4>4 DEF Aligned, G
    <3> QED BY <3>2, <3>4, <3>5 DEF Decides, y
  <2>3. CASE (x.k = Len(s) + 1 \/ ~Accepts(p, x.i, s[x.k])) /\ y = Backtrack(s, x)
    <3>1. x.k \notin G[x.i]
      BY <1>1, <2>1, <2>3
    <3> QED BY <2>3, <3>1, BacktrackDecides
  <2>4. \/ x.k \in 1 .. Len(s) /\ Accepts(p, x.i, s[x.k]) /\ y = Consumed(p, x)
        \/ (x.k = Len(s) + 1 \/ ~Accepts(p, x.i, s[x.k])) /\ y = Backtrack(s, x)
    <3> HIDE DEF y
    <3> QED BY <1>1, <1>5, TurnIs DEF y
  <2> QED BY <2>2, <2>3, <2>4
<1>6. CASE x.i = Len(p) + 1
  <2>1. CASE x.k = Len(s) + 1 /\ y = Returned(x, "match")
    <3>1. y.ret = "match" /\ x.k \in G[x.i]
      BY <1>1, <1>3, <1>6, <2>1 DEF Returned
    <3> HIDE DEF y, G
    <3> QED BY <3>1 DEF Decides, CanMatch, y, G
  <2>2. CASE x.k \in 1 .. Len(s) /\ y = Backtrack(s, x)
    <3>1. x.k \notin G[x.i]
      BY <1>1, <1>3, <1>6, <2>2
    <3> QED BY <2>2, <3>1, BacktrackDecides
  <2> HIDE DEF y
  <2> QED BY <1>1, <1>6, <2>1, <2>2, TurnIs DEF y
<1>7. x.i \in 1 .. Len(p) \/ x.i = Len(p) + 1
  BY <1>1
<1> QED BY <1>4, <1>5, <1>6, <1>7

-----------------------------------------------------------------------------
(* The loop ends.                                                          *)

(* Numbers of two digits are in the order of their first digits. *)
LEMMA DigitLess ==
  ASSUME NEW M \in Nat, NEW a \in Nat, NEW b \in Nat, NEW c \in Nat, NEW d \in Nat, a < c, b < M
  PROVE  a * M + b \in Nat /\ a * M + b < c * M + d
<1>1. PICK e \in Nat : c = a + 1 + e
  <2>1. c - a - 1 \in Nat /\ c = a + 1 + (c - a - 1)
    OBVIOUS
  <2> QED BY <2>1
<1>2. c * M = a * M + M + e * M
  BY <1>1
<1>3. e * M \in Nat /\ a * M \in Nat
  OBVIOUS
<1> DEFINE u == a * M
           v == e * M
           w == c * M
<1>4. w = u + M + v /\ u \in Nat /\ v \in Nat
  BY <1>2, <1>3
<1> HIDE DEF u, v, w
<1>5. u + b \in Nat /\ u + b < w + d
  BY <1>4
<1> QED BY <1>5 DEF u, w

(* The turns that are left at most. *)
Number(m, a, b, c) == (a * (m + 2) + b) * (m + 2) + c
Rank(s, p, x) ==
  IF x.ret # "none" THEN 0
  ELSE 1 + Number(Len(s), Len(p) + 1 - x.star, Len(s) + 1 - x.at, Len(s) + 1 - x.k)
MaxRank(s, p) == Number(Len(s), Len(p) + 2, 0, 0)

LEMMA NumberLess ==
  ASSUME NEW m \in Nat, NEW a \in Nat, NEW b \in 0 .. m + 1, NEW c \in 0 .. m + 1,
         NEW a1 \in Nat, NEW b1 \in 0 .. m + 1, NEW c1 \in 0 .. m + 1,
         a1 < a \/ (a1 = a /\ b1 < b) \/ (a1 = a /\ b1 = b /\ c1 < c)
  PROVE  Number(m, a1, b1, c1) \in Nat /\ Number(m, a1, b1, c1) < Number(m, a, b, c)
<1> DEFINE M == m + 2
           u == a * M + b
           u1 == a1 * M + b1
<1>1. M \in Nat /\ b \in Nat /\ c \in Nat /\ b1 \in Nat /\ c1 \in Nat /\ b1 < M /\ c1 < M
  OBVIOUS
<1> HIDE DEF M
<1>2. a * M \in Nat /\ a1 * M \in Nat
  BY <1>1
<1>3. u \in Nat /\ u1 \in Nat
  BY <1>1, <1>2
<1>4. u1 < u \/ (u1 = u /\ c1 < c)
  <2>1. CASE a1 < a
    BY <1>1, <2>1, DigitLess
  <2>2. CASE a1 = a
    <3> DEFINE q == a * M
    <3>1. q \in Nat /\ u = q + b /\ u1 = q + b1
      BY <1>2, <2>2
    <3> HIDE DEF q, u, u1
    <3> QED BY <1>1, <2>2, <3>1
  <2> QED BY <2>1, <2>2
<1> HIDE DEF u, u1
<1>5. u1 * M \in Nat
  BY <1>1, <1>3
<1>6. CASE u1 < u
  <2>1. u1 * M + c1 \in Nat /\ u1 * M + c1 < u * M + c
    BY <1>1, <1>3, <1>6, DigitLess
  <2> QED BY <2>1 DEF Number, u, u1, M
<1>7. CASE u1 = u /\ c1 < c
  <2> DEFINE q == u * M
  <2>1. q \in Nat
    BY <1>5, <1>7
  <2> HIDE DEF q
  <2>2. q + c1 \in Nat /\ q + c1 < q + c
    BY <1>1, <1>7, <2>1
  <2> QED BY <1>7, <2>2 DEF Number, u, u1, M, q
<1> QED BY <1>4, <1>6, <1>7

LEMMA PartsIn ==
  ASSUME NEW s \in Strings, NEW p \in Strings, NEW x \in GlobStates(s, p)
  PROVE  /\ Len(s) \in Nat /\ Len(p) \in Nat /\ x.star \in Nat /\ x.at \in Nat /\ x.k \in Nat
         /\ Len(p) + 1 - x.star \in Nat
         /\ Len(s) + 1 - x.at \in 0 .. Len(s) + 1 /\ Len(s) + 1 - x.k \in 0 .. Len(s) + 1
<1> DEFINE star == x.star
           at == x.at
           k == x.k
<1>1. Len(s) \in Nat /\ Len(p) \in Nat /\ star \in 0 .. Len(p) + 1 /\ at \in 0 .. Len(s) + 1 /\ k \in 1 .. Len(s) + 1
  BY StateIs
<1> HIDE DEF star, at, k
<1>2. /\ star \in Nat /\ at \in Nat /\ k \in Nat /\ Len(p) + 1 - star \in Nat
      /\ Len(s) + 1 - at \in 0 .. Len(s) + 1 /\ Len(s) + 1 - k \in 0 .. Len(s) + 1
  BY <1>1
<1> QED BY <1>1, <1>2 DEF star, at, k

LEMMA RankIs ==
  ASSUME NEW s \in Strings, NEW p \in Strings, NEW x \in GlobStates(s, p)
  PROVE  Rank(s, p, x) \in 0 .. MaxRank(s, p) /\ MaxRank(s, p) \in Nat
<1> DEFINE m == Len(s)
           a == Len(p) + 1 - x.star
           b == m + 1 - x.at
           c == m + 1 - x.k
           N == Number(m, a, b, c)
<1>1. /\ m \in Nat /\ Len(p) \in Nat /\ a \in Nat /\ b \in 0 .. m + 1 /\ c \in 0 .. m + 1
      /\ Len(p) + 2 \in Nat /\ a < Len(p) + 2 /\ 0 \in 0 .. m + 1
  <2>1. /\ m \in Nat /\ Len(p) \in Nat /\ x.star \in Nat /\ a \in Nat /\ b \in 0 .. m + 1 /\ c \in 0 .. m + 1
    BY PartsIn
  <2> DEFINE n == Len(p)
             star == x.star
  <2>2. n + 1 - star < n + 2 /\ n + 2 \in Nat /\ 0 \in 0 .. m + 1
    <3>1. n \in Nat /\ star \in Nat /\ m \in Nat
      BY <2>1
    <3> HIDE DEF n, star, m
    <3> QED BY <3>1
  <2> QED BY <2>1, <2>2
<1> HIDE DEF m, a, b, c
<1>2. N \in Nat /\ N < Number(m, Len(p) + 2, 0, 0)
  BY <1>1, NumberLess
<1>3. Number(m, Len(p) + 2, 0, 0) \in Nat
  <2> DEFINE n == Len(p) + 2
             M == m + 2
             q == n * M
  <2>1. n \in Nat /\ M \in Nat
    BY <1>1
  <2> HIDE DEF n, M
  <2>2. q \in Nat
    BY <2>1
  <2> HIDE DEF q
  <2>3. (q + 0) * M + 0 \in Nat
    <3>1. q * M \in Nat
      BY <2>1, <2>2
    <3>2. q + 0 = q
      BY <2>2
    <3> DEFINE t == q * M
    <3>3. t + 0 = t
      BY <3>1
    <3> QED BY <3>1, <3>2, <3>3
  <2> QED BY <2>3 DEF Number, q, n, M
<1> HIDE DEF N
<1>4. MaxRank(s, p) = Number(m, Len(p) + 2, 0, 0)
  BY DEF MaxRank, m
<1>5. Rank(s, p, x) = IF x.ret # "none" THEN 0 ELSE 1 + N
  BY DEF Rank, N, m, a, b, c
<1> QED BY <1>2, <1>3, <1>4, <1>5

LEMMA LaterIsLess ==
  ASSUME NEW s \in Strings, NEW p \in Strings, NEW x \in GlobStates(s, p), NEW y \in GlobStates(s, p),
         x.ret = "none", Later(x, y)
  PROVE  Rank(s, p, y) < Rank(s, p, x)
<1> DEFINE m == Len(s)
           a == Len(p) + 1 - x.star
           b == m + 1 - x.at
           c == m + 1 - x.k
           a1 == Len(p) + 1 - y.star
           b1 == m + 1 - y.at
           c1 == m + 1 - y.k
           N == Number(m, a, b, c)
           N1 == Number(m, a1, b1, c1)
<1>1. m \in Nat /\ a \in Nat /\ b \in 0 .. m + 1 /\ c \in 0 .. m + 1
  BY PartsIn
<1>2. a1 \in Nat /\ b1 \in 0 .. m + 1 /\ c1 \in 0 .. m + 1
  BY PartsIn
<1>3. \/ y.ret # "none"
      \/ a1 < a
      \/ a1 = a /\ b1 < b
      \/ a1 = a /\ b1 = b /\ c1 < c
  <2> DEFINE u == x.star
             v == x.at
             w == x.k
             u1 == y.star
             v1 == y.at
             w1 == y.k
             n == Len(p)
  <2>1. m \in Nat /\ n \in Nat /\ u \in Nat /\ v \in Nat /\ w \in Nat
    BY PartsIn
  <2>2. u1 \in Nat /\ v1 \in Nat /\ w1 \in Nat
    BY PartsIn
  <2>3. \/ y.ret # "none"
        \/ u1 > u
        \/ u1 = u /\ v1 > v
        \/ u1 = u /\ v1 = v /\ w1 > w
    BY DEF Later
  <2> HIDE DEF m, n, u, v, w, u1, v1, w1
  <2>4. \/ y.ret # "none"
        \/ n + 1 - u1 < n + 1 - u
        \/ n + 1 - u1 = n + 1 - u /\ m + 1 - v1 < m + 1 - v
        \/ n + 1 - u1 = n + 1 - u /\ m + 1 - v1 = m + 1 - v /\ m + 1 - w1 < m + 1 - w
    BY <2>1, <2>2, <2>3
  <2> QED BY <2>4 DEF n, u, v, w, u1, v1, w1
<1>4. Rank(s, p, x) = 1 + N
  BY DEF Rank
<1>5. Rank(s, p, y) = IF y.ret # "none" THEN 0 ELSE 1 + N1
  BY DEF Rank
<1> HIDE DEF m, a, b, c, a1, b1, c1, N, N1
<1>6. N \in Nat
  <2>1. a + 1 \in Nat /\ a < a + 1
    BY <1>1
  <2> QED BY <1>1, <2>1, NumberLess DEF N
<1>7. y.ret = "none" => N1 \in Nat /\ N1 < N
  <2> SUFFICES ASSUME a1 < a \/ (a1 = a /\ b1 < b) \/ (a1 = a /\ b1 = b /\ c1 < c)
               PROVE  N1 \in Nat /\ N1 < N
    BY <1>3
  <2> QED BY <1>1, <1>2, NumberLess DEF N, N1
<1>8. CASE y.ret # "none"
  BY <1>4, <1>5, <1>6, <1>8
<1>9. CASE y.ret = "none"
  BY <1>4, <1>5, <1>6, <1>7, <1>9
<1> QED BY <1>8, <1>9

LEMMA RankFalls ==
  ASSUME NEW s \in Strings, NEW p \in Strings, NEW x \in GlobStates(s, p), x.ret = "none"
  PROVE  Rank(s, p, GlobTurn(s, p, x)) < Rank(s, p, x)
<1>1. GlobTurn(s, p, x) \in GlobStates(s, p) /\ Later(x, GlobTurn(s, p, x))
  BY TurnGoesOn
<1> QED BY <1>1, LaterIsLess

-----------------------------------------------------------------------------
(* The loop.                                                               *)

(* The loop is defined: from a turn on it returns what it returns after.   *)
LEMMA LoopIs ==
  ASSUME NEW s \in Strings, NEW p \in Strings
  PROVE  \A x \in GlobStates(s, p) :
           /\ x.ret = "none" => GlobLoop(s, p)[x] = GlobLoop(s, p)[GlobTurn(s, p, x)]
           /\ x.ret # "none" => GlobLoop(s, p)[x] = (x.ret = "match")
<1> DEFINE S == GlobStates(s, p)
           B == {x \in S : x.ret # "none"}
           N == MaxRank(s, p)
           r == [x \in S |-> Rank(s, p, x)]
           b == [x \in S |-> x.ret = "match"]
           nx == [x \in S |-> IF x.ret = "none" THEN GlobTurn(s, p, x) ELSE x]
           F == [x \in S |-> [v \in BOOLEAN |-> v]]
           Body(f, x) == IF x.ret = "none" THEN f[GlobTurn(s, p, x)] ELSE x.ret = "match"
           L == GlobLoop(s, p)
<1>1. \A x \in S : GlobTurn(s, p, x) \in S
  BY TurnGoesOn
<1>2. N \in Nat /\ r \in [S -> 0 .. N]
  <2>1. \A x \in S : Rank(s, p, x) \in 0 .. N
    BY RankIs
  <2>2. N \in Nat
    <3>1. [k |-> 1, i |-> 1, star |-> 0, at |-> 0, ret |-> "none"] \in S
      BY StringEnds DEF GlobStates
    <3> QED BY <3>1, RankIs
  <2> HIDE DEF S, N
  <2> QED BY <2>1, <2>2
<1>3. \A x \in S \ B : r[nx[x]] < r[x]
  <2> SUFFICES ASSUME NEW x \in S \ B PROVE r[nx[x]] < r[x]
    OBVIOUS
  <2>1. x.ret = "none" /\ x \in S
    OBVIOUS
  <2>2. nx[x] = GlobTurn(s, p, x) /\ nx[x] \in S
    BY <1>1, <2>1
  <2>3. r[nx[x]] = Rank(s, p, GlobTurn(s, p, x)) /\ r[x] = Rank(s, p, x)
    BY <2>1, <2>2
  <2> HIDE DEF r, nx, B
  <2> QED BY <2>1, <2>3, RankFalls
<1>4. B \in SUBSET S /\ b \in [S -> BOOLEAN] /\ nx \in [S -> S] /\ F \in [S -> [BOOLEAN -> BOOLEAN]]
  <2> HIDE DEF S
  <2> QED BY <1>1
<1>5. Ranked(S, BOOLEAN, N, r, B, b, nx, F)
  <2> HIDE DEF S, N, r, B, b, nx, F
  <2> QED BY <1>2, <1>3, <1>4 DEF Ranked
<1>6. PICK f : f \in [S -> BOOLEAN] /\ \A x \in S : f[x] = IF x \in B THEN b[x] ELSE F[x][f[nx[x]]]
  <2> HIDE DEF S, N, r, B, b, nx, F
  <2>1. \E f : Solves(f, S, BOOLEAN, B, b, nx, F)
    BY <1>5, Recursion
  <2> QED BY <2>1 DEF Solves
<1>7. f = [x \in S |-> Body(f, x)]
  <2> SUFFICES ASSUME NEW x \in S PROVE f[x] = Body(f, x)
    BY <1>6
  <2>1. CASE x.ret = "none"
    <3>1. x \notin B /\ nx[x] = GlobTurn(s, p, x) /\ GlobTurn(s, p, x) \in S
      BY <1>1, <2>1
    <3>2. f[x] = F[x][f[nx[x]]] /\ f[GlobTurn(s, p, x)] \in BOOLEAN
      BY <1>6, <3>1
    <3> HIDE DEF S
    <3>3. F[x][f[GlobTurn(s, p, x)]] = f[GlobTurn(s, p, x)]
      BY <3>2
    <3> QED BY <2>1, <3>1, <3>2, <3>3
  <2>2. CASE x.ret # "none"
    <3>1. f[x] = b[x] /\ b[x] = (x.ret = "match")
      BY <1>6, <2>2
    <3> QED BY <2>2, <3>1
  <2> QED BY <2>1, <2>2
<1>8. L = CHOOSE g : g = [x \in S |-> Body(g, x)]
  BY DEF GlobLoop
<1>9. L = [x \in S |-> Body(L, x)]
  <2> HIDE DEF L, Body, S
  <2> QED BY <1>7, <1>8
<1> HIDE DEF S, L
<1>10. \A x \in S : (x.ret = "none" => L[x] = L[GlobTurn(s, p, x)]) /\ (x.ret # "none" => L[x] = (x.ret = "match"))
  BY <1>9
<1> QED BY <1>10 DEF S, L

(* It returns whether the string matches. *)
LEMMA LoopDecides ==
  ASSUME NEW s \in Strings, NEW p \in Strings, NEW x0 \in GlobStates(s, p), x0.ret = "none", Aligned(s, p, x0)
  PROVE  GlobLoop(s, p)[x0] = CanMatch(s, p, x0)
<1> DEFINE S == GlobStates(s, p)
           L == GlobLoop(s, p)
           Wrong(x) == x.ret = "none" /\ Aligned(s, p, x) /\ L[x] # CanMatch(s, p, x)
           Bad == {n \in Nat : \E x \in S : n = Rank(s, p, x) /\ Wrong(x)}
<1>1. \A x \in S : Rank(s, p, x) \in Nat
  <2> SUFFICES ASSUME NEW x \in S PROVE Rank(s, p, x) \in Nat
    OBVIOUS
  <2> HIDE DEF S
  <2>1. Rank(s, p, x) \in 0 .. MaxRank(s, p) /\ MaxRank(s, p) \in Nat
    BY RankIs DEF S
  <2> QED BY <2>1
<1>2. Bad = {}
  <2> SUFFICES ASSUME Bad # {} PROVE FALSE
    OBVIOUS
  <2>1. PICK n \in Bad : \A m \in Bad : n <= m
    BY LeastNumber
  <2>2. PICK x \in S : n = Rank(s, p, x) /\ Wrong(x)
    BY <2>1
  <2> DEFINE y == GlobTurn(s, p, x)
  <2>3. y \in S /\ Rank(s, p, y) < Rank(s, p, x)
    BY <2>2, TurnGoesOn, RankFalls
  <2>4. Decides(s, p, x, y)
    BY <2>2, TurnDecides
  <2>5. L[x] = L[y] /\ (y.ret # "none" => L[y] = (y.ret = "match"))
    BY <2>2, <2>3, LoopIs
  <2>6. ~Wrong(y)
    <3>1. Rank(s, p, y) \in Nat /\ ~(n <= Rank(s, p, y)) /\ n \in Nat
      BY <1>1, <2>1, <2>2, <2>3
    <3> HIDE DEF Wrong, S, y
    <3>2. Wrong(y) => Rank(s, p, y) \in Bad
      BY <2>3, <3>1
    <3> HIDE DEF Bad
    <3> QED BY <2>1, <3>1, <3>2
  <2>7. y.ret \in {"none", "match", "nomatch"}
    BY <2>3, StateIs
  <2> HIDE DEF L, y
  <2>8. CanMatch(s, p, x) \in BOOLEAN /\ CanMatch(s, p, y) \in BOOLEAN
    BY DEF CanMatch
  <2>9. CASE y.ret = "none"
    BY <2>2, <2>4, <2>5, <2>6, <2>8, <2>9 DEF Decides
  <2>10. CASE y.ret # "none"
    BY <2>2, <2>4, <2>5, <2>7, <2>8, <2>10 DEF Decides
  <2> QED BY <2>9, <2>10
<1>3. ~Wrong(x0)
  <2> HIDE DEF Wrong, S
  <2>1. x0 \in S
    BY DEF S
  <2> QED BY <1>1, <1>2, <2>1
<1> QED BY <1>3

LEMMA GlobIs ==
  ASSUME NEW s \in Strings, NEW p \in Strings
  PROVE  ms_globmatch(s, p) = Means(s, p)
<1> DEFINE x == [k |-> 1, i |-> 1, star |-> 0, at |-> 0, ret |-> "none"]
<1>1. x \in GlobStates(s, p)
  BY StringEnds DEF GlobStates
<1>2. Aligned(s, p, x)
  BY DEF Aligned
<1>3. CanMatch(s, p, x) = Means(s, p)
  <2>1. x.k = 1 /\ x.i = 1 /\ ~(x.star # 0)
    OBVIOUS
  <2> HIDE DEF x
  <2>2. CanMatch(s, p, x) <=> Means(s, p)
    BY <2>1 DEF CanMatch, Means
  <2>3. CanMatch(s, p, x) \in BOOLEAN /\ Means(s, p) \in BOOLEAN
    BY DEF CanMatch, Means
  <2> QED BY <2>2, <2>3
<1>4. ms_globmatch(s, p) = GlobLoop(s, p)[x]
  BY DEF ms_globmatch
<1>5. x.ret = "none"
  OBVIOUS
<1> HIDE DEF x
<1> QED BY <1>1, <1>2, <1>3, <1>4, <1>5, LoopDecides

(* The call just made, if it was one to match. *)
MatchCall ==
  call.op = "globmatch" =>
    \E s \in GlobStrings, p \in GlobPatterns : call.arg = <<s, p>> /\ call.val = ms_globmatch(s, p)

(* ms_globmatch(), for every string and every pattern: it decides as       *)
(* trying every way to match does, though it goes back to the last star    *)
(* only and skips ahead to the literal after it.                           *)
THEOREM PatternsAreMatched == GlobSpec => []GlobMatchesMeaning
<1>1. CallInit => MatchCall
  BY DEF CallInit, Idle, MatchCall
<1>2. MatchCall /\ [GlobNext \/ Done]_call => MatchCall'
  <2>1. ASSUME NEW s \in GlobStrings, NEW p \in GlobPatterns, MatchPattern(s, p) PROVE MatchCall'
    BY <2>1 DEF MatchPattern, Call, MatchCall
  <2>2. ASSUME Done PROVE MatchCall'
    BY <2>2 DEF Done, Idle, MatchCall
  <2>3. ASSUME MatchCall, UNCHANGED call PROVE MatchCall'
    BY <2>3 DEF MatchCall
  <2> QED BY <2>1, <2>2, <2>3 DEF GlobNext
<1>3. MatchCall => GlobMatchesMeaning
  BY GlobAssumption, GlobIs DEF MatchCall, GlobMatchesMeaning
<1> QED BY <1>1, <1>2, <1>3, PTL DEF GlobSpec

-----------------------------------------------------------------------------
(* Selections.                                                             *)

(* The first element of a sequence that passes a test. *)
LEMMA FirstIs ==
  ASSUME NEW n \in Nat, NEW I \in SUBSET (1 .. n), NEW i, i = IF I # {} THEN Min(I) ELSE 0
  PROVE  /\ i \in 0 .. n
         /\ i = 0 => I = {}
         /\ i # 0 => i \in I /\ i \in 1 .. n
<1>1. CASE I = {}
  BY <1>1
<1>2. CASE I # {}
  <2>1. I \subseteq Nat
    OBVIOUS
  <2>2. i \in I
    BY <1>2, <2>1, MinIs
  <2> QED BY <1>2, <2>2
<1> QED BY <1>1, <1>2

(* Strings that fit into the buffer of a pattern. *)
Patterns == {p \in Strings : CutPattern(p) = p}
SelRecords == [pattern : Patterns, pub : 0 .. 255, windows : Seq(Int \X Int)]
EntrySet == Strings \X Int \X Int \X (0 .. 255)

(* The entry is in the list, with the window as one of its selection's. *)
EntryAt(list, i, j) == <<list[i].pattern, list[i].windows[j][1], list[i].windows[j][2], list[i].pub>>
Held(list, e) == \E i \in 1 .. Len(list), j \in Nat : j \in 1 .. Len(list[i].windows) /\ e = EntryAt(list, i, j)

(* The beginning of a string. *)
LEMMA TruncIs ==
  ASSUME NEW T, NEW s \in Seq(T), NEW n \in Nat
  PROVE  /\ Trunc(s, n) \in Seq(T) /\ Len(Trunc(s, n)) = (IF Len(s) < n THEN Len(s) ELSE n)
         /\ \A i \in 1 .. Len(Trunc(s, n)) : Trunc(s, n)[i] = s[i]
         /\ Len(s) <= n => Trunc(s, n) = s
<1> DEFINE k == IF Len(s) < n THEN Len(s) ELSE n
<1>1. k \in 0 .. Len(s) /\ Len(s) \in Nat
  OBVIOUS
<1>2. Trunc(s, n) = SubSeq(s, 1, k)
  BY DEF Trunc
<1>3. Len(s) <= n => k = Len(s)
  OBVIOUS
<1> HIDE DEF k
<1>4. /\ SubSeq(s, 1, k) \in Seq(T) /\ Len(SubSeq(s, 1, k)) = k
      /\ \A i \in 1 .. k : SubSeq(s, 1, k)[i] = s[i]
  BY <1>1
<1>5. k = Len(s) => SubSeq(s, 1, k) = s
  BY <1>1
<1> QED BY <1>2, <1>3, <1>4, <1>5 DEF k

(* A pattern that is cut is not cut again. *)
LEMMA CutPatternIs ==
  ASSUME NEW p \in Strings
  PROVE  CutPattern(p) \in Patterns /\ (Len(p) <= PatternSize - 4 => CutPattern(p) = p)
<1> DEFINE D == DOMAIN CharOrder
           Room(q) == IF q # <<>> /\ q[1] = "FDSN" THEN PatternSize - 4 ELSE PatternSize - 1
           n == Room(p)
           q == Trunc(p, n)
<1>1. \A x : CutPattern(x) = Trunc(x, Room(x))
  BY DEF CutPattern
<1>2. n \in {96, 99}
  BY DEF PatternSize
<1>3. p \in Seq(D) /\ Len(p) \in Nat
  BY DEF Strings
<1> HIDE DEF D, n
<1>4. /\ q \in Seq(D) /\ Len(q) = (IF Len(p) < n THEN Len(p) ELSE n)
      /\ \A i \in 1 .. Len(q) : q[i] = p[i]
      /\ Len(p) <= n => q = p
  BY <1>2, <1>3, TruncIs
<1> HIDE DEF q
<1>5. Room(q) = n
  <2>1. p # <<>> <=> Len(p) > 0
    BY <1>3
  <2>2. q # <<>> <=> Len(q) > 0
    BY <1>4
  <2>3. Len(p) > 0 => Len(q) > 0 /\ q[1] = p[1]
    BY <1>2, <1>3, <1>4
  <2>4. Len(q) > 0 => Len(p) > 0
    BY <1>2, <1>3, <1>4
  <2> QED BY <2>1, <2>2, <2>3, <2>4 DEF n
<1>6. CutPattern(q) = q
  <2>1. Len(q) <= n /\ n \in Nat
    BY <1>2, <1>3, <1>4
  <2>2. Trunc(q, n) = q
    BY <1>4, <2>1, TruncIs
  <2> QED BY <1>1, <1>5, <2>2
<1>7. CutPattern(p) = q
  BY <1>1 DEF q, n
<1>8. Len(p) <= PatternSize - 4 => Len(p) <= n
  BY <1>2, <1>3 DEF PatternSize
<1> QED BY <1>4, <1>6, <1>7, <1>8 DEF Patterns, Strings, D

LEMMA ConsIs ==
  ASSUME NEW T, NEW q \in Seq(T), NEW x \in T
  PROVE  /\ <<x>> \o q \in Seq(T) /\ Len(q) \in Nat /\ Len(<<x>> \o q) = Len(q) + 1
         /\ (<<x>> \o q)[1] = x /\ \A i \in 1 .. Len(q) : (<<x>> \o q)[i + 1] = q[i]
<1>1. <<x>> \in Seq(T) /\ Len(<<x>>) = 1 /\ <<x>>[1] = x
  OBVIOUS
<1> DEFINE h == <<x>>
<1> HIDE DEF h
<1>2. h \in Seq(T) /\ Len(h) = 1 /\ h[1] = x
  BY <1>1 DEF h
<1>3. h \o q \in Seq(T) /\ Len(h \o q) = Len(h) + Len(q)
  BY <1>2, ConcatProperties
<1>4. \A i \in 1 .. Len(h) + Len(q) : (h \o q)[i] = IF i <= Len(h) THEN h[i] ELSE q[i - Len(h)]
  BY <1>2, ConcatProperties
<1>5. Len(q) \in Nat
  OBVIOUS
<1>6. (h \o q)[1] = x
  BY <1>2, <1>4, <1>5
<1>7. ASSUME NEW i \in 1 .. Len(q) PROVE (h \o q)[i + 1] = q[i]
  <2>1. i + 1 \in 1 .. Len(h) + Len(q) /\ ~(i + 1 <= Len(h)) /\ (i + 1) - Len(h) = i
    BY <1>2, <1>5
  <2> QED BY <1>4, <2>1
<1> QED BY <1>2, <1>3, <1>5, <1>6, <1>7 DEF h

(* What is added is in the list, and nothing else is changed. *)
LEMMA AddSelectAdds ==
  ASSUME NEW list \in Seq(SelRecords), NEW e \in EntrySet
  PROVE  /\ AddSelect(list, e) \in Seq(SelRecords)
         /\ \A f : Held(AddSelect(list, e), f) <=> Held(list, f) \/ f = Kept(e)
<1> DEFINE I == {i \in 1 .. Len(list) : list[i].pattern = e[1] /\ list[i].pub = e[4]}
           i0 == IF I # {} THEN Min(I) ELSE 0
           w == <<e[2], e[3]>>
           new == [pattern |-> CutPattern(e[1]), pub |-> e[4], windows |-> <<w>>]
           more == <<w>> \o list[i0].windows
           moved == [list EXCEPT ![i0] = [list[i0] EXCEPT !.windows = more]]
           L == AddSelect(list, e)
<1>1. L = IF i0 # 0 THEN moved ELSE <<new>> \o list
  BY DEF AddSelect, SelectInSeq
<1>2. /\ Len(list) \in Nat
      /\ CutPattern(e[1]) \in Patterns /\ e[2] \in Int /\ e[3] \in Int /\ e[4] \in 0 .. 255
      /\ Kept(e) = <<CutPattern(e[1]), e[2], e[3], e[4]>>
  BY CutPatternIs DEF EntrySet, Kept
<1>3. i0 \in 0 .. Len(list) /\ (i0 # 0 => i0 \in I /\ i0 \in 1 .. Len(list))
  <2>1. I \in SUBSET (1 .. Len(list))
    OBVIOUS
  <2> HIDE DEF I
  <2> QED BY <1>2, <2>1, FirstIs
<1>4. \A i \in 1 .. Len(list) :
        list[i] \in SelRecords /\ list[i].pattern \in Patterns /\ list[i].windows \in Seq(Int \X Int)
  <2> SUFFICES ASSUME NEW i \in 1 .. Len(list)
               PROVE  list[i] \in SelRecords /\ list[i].pattern \in Patterns /\ list[i].windows \in Seq(Int \X Int)
    OBVIOUS
  <2>1. list[i] \in SelRecords
    BY ElementOfSeq
  <2> QED BY <2>1 DEF SelRecords
<1> HIDE DEF L, i0
<1>5. CASE i0 = 0
  <2>1. new \in SelRecords
    <3>1. w \in Int \X Int
      BY <1>2
    <3>2. <<w>> \in Seq(Int \X Int)
      BY <3>1
    <3> QED BY <1>2, <3>2 DEF SelRecords
  <2>2. new.windows = <<w>> /\ new.pattern = CutPattern(e[1]) /\ new.pub = e[4] /\ w[1] = e[2] /\ w[2] = e[3]
    OBVIOUS
  <2> HIDE DEF new, w
  <2> DEFINE v == new.windows
  <2>8. Len(v) = 1 /\ v[1] = w /\ 1 \in Nat
    BY <2>2
  <2> HIDE DEF v
  <2>3. L = <<new>> \o list
    BY <1>1, <1>5
  <2>4. /\ L \in Seq(SelRecords) /\ Len(L) = Len(list) + 1 /\ L[1] = new
        /\ \A i \in 1 .. Len(list) : L[i + 1] = list[i]
    BY <2>1, <2>3, ConsIs
  <2>5. ASSUME NEW f, Held(L, f) PROVE Held(list, f) \/ f = Kept(e)
    <3>1. PICK i \in 1 .. Len(L), j \in Nat : j \in 1 .. Len(L[i].windows) /\ f = EntryAt(L, i, j)
      BY <2>5 DEF Held
    <3>2. CASE i = 1
      <4>1. L[i].windows = v
        BY <2>4, <3>2 DEF v
      <4> DEFINE n == Len(L[i].windows)
      <4>2. n = 1 /\ j \in 1 .. n
        BY <2>8, <3>1, <4>1
      <4> HIDE DEF n
      <4>3. j = 1
        BY <4>2
      <4> QED BY <1>2, <2>2, <2>4, <2>8, <3>1, <3>2, <4>1, <4>3 DEF EntryAt
    <3>3. CASE i # 1
      <4>1. i - 1 \in 1 .. Len(list) /\ (i - 1) + 1 = i
        BY <1>2, <2>4, <3>3
      <4>2. L[i] = list[i - 1]
        BY <2>4, <4>1
      <4> QED BY <3>1, <4>1, <4>2 DEF Held, EntryAt
    <3> QED BY <3>2, <3>3
  <2>6. ASSUME NEW f, Held(list, f) PROVE Held(L, f)
    <3>1. PICK i \in 1 .. Len(list), j \in Nat : j \in 1 .. Len(list[i].windows) /\ f = EntryAt(list, i, j)
      BY <2>6 DEF Held
    <3>2. i + 1 \in 1 .. Len(L) /\ L[i + 1] = list[i]
      BY <1>2, <2>4
    <3> QED BY <3>1, <3>2 DEF Held, EntryAt
  <2>7. Held(L, Kept(e))
    <3>1. L[1].windows = v /\ 1 \in 1 .. Len(L)
      BY <1>2, <2>4 DEF v
    <3>2. 1 \in 1 .. Len(L[1].windows)
      <4> DEFINE n == Len(L[1].windows)
      <4>1. n = 1
        BY <2>8, <3>1
      <4> HIDE DEF n
      <4>2. 1 \in 1 .. n
        BY <4>1
      <4> QED BY <4>2 DEF n
    <3>3. Kept(e) = EntryAt(L, 1, 1)
      BY <1>2, <2>2, <2>4, <2>8, <3>1 DEF EntryAt
    <3> QED BY <2>8, <3>1, <3>2, <3>3 DEF Held
  <2> QED BY <2>4, <2>5, <2>6, <2>7 DEF L
<1>6. CASE i0 # 0
  <2>1. i0 \in 1 .. Len(list) /\ list[i0].pattern = CutPattern(e[1]) /\ list[i0].pub = e[4]
    BY <1>3, <1>4, <1>6 DEF Patterns
  <2> DEFINE ws == list[i0].windows
  <2>2. ws \in Seq(Int \X Int) /\ w \in Int \X Int /\ w[1] = e[2] /\ w[2] = e[3]
    BY <1>2, <1>4, <2>1
  <2> HIDE DEF w, ws
  <2>3. /\ more = <<w>> \o ws /\ more \in Seq(Int \X Int) /\ Len(ws) \in Nat /\ Len(more) = Len(ws) + 1
        /\ more[1] = w /\ \A j \in 1 .. Len(ws) : more[j + 1] = ws[j]
    BY <2>2, ConsIs DEF ws
  <2> HIDE DEF more
  <2>4. L = moved
    BY <1>1, <1>6
  <2>5. [list[i0] EXCEPT !.windows = more] \in SelRecords
    <3> DEFINE T == Seq(Int \X Int)
               x == list[i0]
    <3>1. x \in [pattern : Patterns, pub : 0 .. 255, windows : T] /\ more \in T
      BY <1>4, <2>1, <2>3 DEF SelRecords
    <3> HIDE DEF T, x
    <3>2. [x EXCEPT !.windows = more] \in [pattern : Patterns, pub : 0 .. 255, windows : T]
      BY <3>1
    <3> QED BY <3>2 DEF SelRecords, T, x
  <2>6. L \in Seq(SelRecords) /\ Len(L) = Len(list)
    BY <2>1, <2>4, <2>5
  <2>7. /\ \A i \in 1 .. Len(list) : i # i0 => L[i] = list[i]
        /\ L[i0] = [list[i0] EXCEPT !.windows = more]
    BY <2>1, <2>4
  <2>8. L[i0].windows = more /\ L[i0].pattern = CutPattern(e[1]) /\ L[i0].pub = e[4]
    BY <1>4, <2>1, <2>7 DEF SelRecords
  <2>9. ASSUME NEW f, Held(L, f) PROVE Held(list, f) \/ f = Kept(e)
    <3>1. PICK i \in 1 .. Len(L), j \in Nat : j \in 1 .. Len(L[i].windows) /\ f = EntryAt(L, i, j)
      BY <2>6, <2>9 DEF Held
    <3>2. CASE i # i0
      <4>1. i \in 1 .. Len(list) /\ L[i] = list[i]
        BY <2>6, <2>7, <3>2
      <4>2. j \in 1 .. Len(list[i].windows) /\ f = EntryAt(list, i, j)
        BY <3>1, <4>1 DEF EntryAt
      <4> QED BY <4>1, <4>2 DEF Held
    <3>3. CASE i = i0 /\ j = 1
      BY <1>2, <2>2, <2>3, <2>8, <3>1, <3>3 DEF EntryAt
    <3>4. CASE i = i0 /\ j # 1
      <4>1. j - 1 \in 1 .. Len(ws) /\ (j - 1) + 1 = j
        BY <2>3, <2>8, <3>1, <3>4
      <4>2. more[j] = ws[j - 1]
        BY <2>3, <4>1
      <4>3. f = EntryAt(list, i0, j - 1)
        BY <2>1, <2>8, <3>1, <3>4, <4>2 DEF EntryAt, ws
      <4> QED BY <2>1, <4>1, <4>3 DEF Held, ws
    <3> QED BY <3>2, <3>3, <3>4
  <2>10. ASSUME NEW f, Held(list, f) PROVE Held(L, f)
    <3>1. PICK i \in 1 .. Len(list), j \in Nat : j \in 1 .. Len(list[i].windows) /\ f = EntryAt(list, i, j)
      BY <2>10 DEF Held
    <3>2. CASE i # i0
      <4>1. i \in 1 .. Len(L) /\ L[i] = list[i]
        BY <2>6, <2>7, <3>2
      <4>2. j \in 1 .. Len(L[i].windows) /\ f = EntryAt(L, i, j)
        BY <3>1, <4>1 DEF EntryAt
      <4> QED BY <4>1, <4>2 DEF Held
    <3>3. CASE i = i0
      <4>1. j \in 1 .. Len(ws) /\ j + 1 \in 1 .. Len(L[i0].windows) /\ more[j + 1] = ws[j]
        <5>1. j \in 1 .. Len(ws)
          BY <3>1, <3>3 DEF ws
        <5>2. j + 1 \in 1 .. Len(more)
          BY <2>3, <5>1
        <5> QED BY <2>3, <2>8, <5>1, <5>2
      <4>2. f = EntryAt(L, i0, j + 1)
        BY <2>1, <2>8, <3>1, <3>3, <4>1 DEF EntryAt, ws
      <4>3. j + 1 \in Nat
        BY <3>1
      <4> QED BY <2>1, <2>6, <4>1, <4>2, <4>3 DEF Held
    <3> QED BY <3>2, <3>3
  <2>11. Held(L, Kept(e))
    <3>1. 1 \in 1 .. Len(L[i0].windows)
      BY <2>3, <2>8
    <3>2. Kept(e) = EntryAt(L, i0, 1)
      BY <1>2, <2>2, <2>3, <2>8 DEF EntryAt
    <3> QED BY <2>1, <2>6, <3>1, <3>2 DEF Held
  <2> QED BY <2>6, <2>9, <2>10, <2>11 DEF L
<1> QED BY <1>5, <1>6

(* What holds for the values that are given holds for all. *)
Closes(g, S, V, N, r, B, nx) ==
  /\ N \in Nat /\ r \in [S -> 0 .. N] /\ nx \in [S -> S] /\ \A x \in S \ B : r[nx[x]] < r[x]
  /\ \A x \in S : (x \in B \/ g[nx[x]] \in V) => g[x] \in V

LEMMA AllClosed ==
  ASSUME NEW g, NEW S, NEW V, NEW N, NEW r, NEW B, NEW nx, Closes(g, S, V, N, r, B, nx)
  PROVE  \A x \in S : g[x] \in V
<1> DEFINE Bad == {n \in Nat : \E x \in S : n = r[x] /\ g[x] \notin V}
<1>1. /\ N \in Nat /\ r \in [S -> 0 .. N] /\ nx \in [S -> S] /\ \A x \in S \ B : r[nx[x]] < r[x]
      /\ \A x \in S : (x \in B \/ g[nx[x]] \in V) => g[x] \in V
  BY DEF Closes
<1>2. \A x \in S : r[x] \in Nat
  BY <1>1
<1>3. Bad = {}
  <2> SUFFICES ASSUME Bad # {} PROVE FALSE
    OBVIOUS
  <2>1. PICK n \in Bad : \A m \in Bad : n <= m
    BY LeastNumber
  <2>2. PICK x \in S : n = r[x] /\ g[x] \notin V
    BY <2>1
  <2>3. x \notin B /\ g[nx[x]] \notin V /\ nx[x] \in S /\ r[nx[x]] < r[x]
    BY <1>1, <2>2
  <2>4. r[nx[x]] \in Bad
    BY <1>2, <2>3
  <2>5. n <= r[nx[x]] /\ n \in Nat /\ r[nx[x]] \in Nat
    BY <1>2, <2>1, <2>3, <2>4
  <2> QED BY <2>2, <2>3, <2>5
<1> QED BY <1>2, <1>3

(* Blanks are left out, nothing is added. *)
LEMMA NoBlanksIs ==
  ASSUME NEW T, NEW s \in Seq(T)
  PROVE  NoBlanks(s) \in Seq(T)
<1> DEFINE n == Len(s)
           S == 0 .. n
           V == Seq(T)
           r == [i \in S |-> i]
           b == [i \in S |-> <<>>]
           nx == [i \in S |-> IF i = 0 THEN 0 ELSE i - 1]
           F == [i \in S |-> [t \in V |-> IF i = 0 \/ s[i] = " " THEN t ELSE Append(t, s[i])]]
           Body(f, i) == IF i = 0 THEN <<>> ELSE IF s[i] = " " THEN f[i - 1] ELSE Append(f[i - 1], s[i])
           G == CHOOSE g : g = [i \in S |-> Body(g, i)]
<1>1. n \in Nat /\ \A i \in 1 .. n : s[i] \in T
  BY ElementOfSeq
<1>2. \A i \in S : i # 0 => i \in 1 .. n /\ i - 1 \in S
  BY <1>1
<1>3. r \in [S -> 0 .. n] /\ b \in [S -> V] /\ nx \in [S -> S] /\ {0} \in SUBSET S
  <2>1. <<>> \in V /\ 0 \in S
    BY <1>1
  <2> QED BY <1>2, <2>1
<1>4. F \in [S -> [V -> V]]
  <2> SUFFICES ASSUME NEW i \in S, NEW t \in V, ~(i = 0 \/ s[i] = " ") PROVE Append(t, s[i]) \in V
    OBVIOUS
  <2> QED BY <1>1, <1>2, AppendProperties
<1>5. \A i \in S \ {0} : r[nx[i]] < r[i]
  BY <1>1, <1>2
<1>6. Ranked(S, V, n, r, {0}, b, nx, F)
  <2> HIDE DEF S, V, r, b, nx, F, n
  <2> QED BY <1>1, <1>3, <1>4, <1>5 DEF Ranked
<1>7. PICK f : f \in [S -> V] /\ \A i \in S : f[i] = IF i \in {0} THEN b[i] ELSE F[i][f[nx[i]]]
  <2> HIDE DEF n, S, V, r, b, nx, F
  <2>1. \E f : Solves(f, S, V, {0}, b, nx, F)
    BY <1>6, Recursion
  <2> QED BY <2>1 DEF Solves
<1>8. f = [i \in S |-> Body(f, i)]
  <2> SUFFICES ASSUME NEW i \in S PROVE f[i] = Body(f, i)
    BY <1>7
  <2>1. CASE i = 0
    BY <1>7, <2>1
  <2>2. CASE i # 0
    <3>1. i - 1 \in S /\ nx[i] = i - 1
      BY <1>2, <2>2
    <3>2. f[i - 1] \in V
      BY <1>7, <3>1
    <3>3. f[i] = F[i][f[i - 1]]
      BY <1>7, <2>2, <3>1
    <3> HIDE DEF V, S
    <3>4. F[i][f[i - 1]] = IF i = 0 \/ s[i] = " " THEN f[i - 1] ELSE Append(f[i - 1], s[i])
      BY <3>2
    <3> QED BY <2>2, <3>3, <3>4
  <2> QED BY <2>1, <2>2
<1>9. G = [i \in S |-> Body(G, i)]
  <2> HIDE DEF Body, S
  <2> QED BY <1>8
<1> HIDE DEF G
<1>10. Closes(G, S, V, n, r, {0}, nx)
  <2>1. ASSUME NEW i \in S, i \in {0} \/ G[nx[i]] \in V PROVE G[i] \in V
    <3>1. CASE i = 0
      <4>1. G[i] = <<>>
        BY <1>9, <3>1
      <4> QED BY <4>1
    <3>2. CASE i # 0
      <4>1. nx[i] = i - 1 /\ G[i - 1] \in V /\ s[i] \in T
        BY <1>1, <1>2, <2>1, <3>2
      <4>2. G[i] = IF s[i] = " " THEN G[i - 1] ELSE Append(G[i - 1], s[i])
        BY <1>9, <3>2
      <4> DEFINE t == G[i - 1]
                 c == s[i]
      <4>3. t \in Seq(T) /\ c \in T
        BY <4>1
      <4> HIDE DEF t, c
      <4>4. Append(t, c) \in Seq(T)
        BY <4>3, AppendProperties
      <4> QED BY <4>2, <4>3, <4>4 DEF t, c
    <3> QED BY <3>1, <3>2
  <2> HIDE DEF S, V, r, nx, n
  <2> QED BY <1>1, <1>3, <1>5, <2>1 DEF Closes
<1>11. G[n] \in V
  <2>1. \A i \in S : G[i] \in V
    <3> HIDE DEF S, V, r, nx, n
    <3> QED BY <1>10, AllClosed
  <2> QED BY <1>1, <2>1
<1>12. NoBlanks(s) = G[n]
  BY DEF NoBlanks, G
<1> QED BY <1>11, <1>12

LEMMA NoneIn ==
  ASSUME NEW T
  PROVE  <<>> \in Seq(T)
OBVIOUS

LEMMA TuplesIn ==
  ASSUME NEW T, NEW a \in T, NEW b \in T, NEW c \in T, NEW d \in T, NEW e \in T
  PROVE  <<a>> \in Seq(T) /\ <<a, b>> \in Seq(T) /\ <<a, b, c, d, e>> \in Seq(T)
OBVIOUS

(* The pattern of codes is a string. *)
LEMMA CodesPatternIs ==
  ASSUME NEW c \in Strings \X Strings \X Strings \X Strings
  PROVE  CodesPattern(c) \in Strings
<1> DEFINE D == DOMAIN CharOrder
<1>1. Strings = Seq(D) /\ "FDSN" \in D /\ ":" \in D /\ "_" \in D
  BY SelectionAssumption DEF Strings
<1> HIDE DEF D
<1>2. c[1] \in Seq(D) /\ c[2] \in Seq(D) /\ c[3] \in Seq(D) /\ c[4] \in Seq(D)
  BY <1>1
<1>3. \A x \in Seq(D) : ms_seedchan2xchan(x) \in Seq(D)
  <2> SUFFICES ASSUME NEW x \in Seq(D), Len(x) = 3
               PROVE  NoBlanks(<<x[1], "_", x[2], "_", x[3]>>) \in Seq(D)
    <3>1. <<>> \in Seq(D)
      BY NoneIn
    <3> QED BY <3>1 DEF ms_seedchan2xchan
  <2>1. x[1] \in D /\ x[2] \in D /\ x[3] \in D
    <3>1. 1 \in 1 .. Len(x) /\ 2 \in 1 .. Len(x) /\ 3 \in 1 .. Len(x)
      OBVIOUS
    <3> QED BY <3>1, ElementOfSeq
  <2>2. <<x[1], "_", x[2], "_", x[3]>> \in Seq(D)
    BY <1>1, <2>1, TuplesIn
  <2> QED BY <2>2, NoBlanksIs
<1>4. ASSUME NEW net \in Seq(D), NEW sta \in Seq(D), NEW loc \in Seq(D), NEW chan \in Seq(D)
      PROVE  ms_nslc2sid(PatternSize, net, sta, loc, chan).sid \in Seq(D)
  <2> DEFINE x == ms_seedchan2xchan(chan)
             y == IF x # <<>> THEN x ELSE chan
             sid == Prefix \o net \o Sep \o sta \o Sep \o loc \o Sep \o y
  <2>1. y \in Seq(D)
    BY <1>3
  <2>2. Prefix \in Seq(D) /\ Sep \in Seq(D)
    BY <1>1, TuplesIn DEF Prefix, Sep
  <2> HIDE DEF y
  <2>3. sid \in Seq(D)
    BY <2>1, <2>2, ConcatProperties
  <2>4. NoBlanks(sid) \in Seq(D)
    <3> HIDE DEF sid
    <3> QED BY <2>3, NoBlanksIs
  <2>5. ms_nslc2sid(PatternSize, net, sta, loc, chan).sid \in {<<>>, NoBlanks(sid)}
    BY DEF ms_nslc2sid, y
  <2>6. <<>> \in Seq(D)
    OBVIOUS
  <2> HIDE DEF sid
  <2> QED BY <2>4, <2>5, <2>6
<1> DEFINE cut(code) == Trunc(code, CodeSize - 1)
           loc == IF c[3] = <<"-", "-">> THEN <<>> ELSE cut(c[3])
           x == IF Len(c[4]) = 3 /\ Range(c[4]) \subseteq ClassChars THEN ms_seedchan2xchan(c[4]) ELSE cut(c[4])
<1>5. \A s \in Seq(D) : cut(s) \in Seq(D)
  <2>1. CodeSize - 1 \in Nat
    BY DEF CodeSize
  <2> QED BY <2>1, TruncIs
<1>6. loc \in Seq(D) /\ x \in Seq(D) /\ cut(c[1]) \in Seq(D) /\ cut(c[2]) \in Seq(D)
  <2>1. /\ <<>> \in Seq(D) /\ ms_seedchan2xchan(c[4]) \in Seq(D)
        /\ cut(c[1]) \in Seq(D) /\ cut(c[2]) \in Seq(D) /\ cut(c[3]) \in Seq(D) /\ cut(c[4]) \in Seq(D)
    BY <1>2, <1>3, <1>5, NoneIn
  <2> HIDE DEF cut
  <2>2. loc \in {<<>>, cut(c[3])} /\ x \in {ms_seedchan2xchan(c[4]), cut(c[4])}
    OBVIOUS
  <2> HIDE DEF loc, x
  <2> QED BY <2>1, <2>2
<1>7. CodesPattern(c) = ms_nslc2sid(PatternSize, cut(c[1]), cut(c[2]), loc, x).sid
  BY DEF CodesPattern
<1> DEFINE net == cut(c[1])
           sta == cut(c[2])
<1>8. net \in Seq(D) /\ sta \in Seq(D)
  BY <1>6
<1>9. CodesPattern(c) = ms_nslc2sid(PatternSize, net, sta, loc, x).sid
  BY <1>7
<1> HIDE DEF cut, loc, x, net, sta
<1>10. ms_nslc2sid(PatternSize, net, sta, loc, x).sid \in Seq(D)
  BY <1>4, <1>6, <1>8
<1> QED BY <1>1, <1>9, <1>10

-----------------------------------------------------------------------------
(* Selection files.                                                        *)

Fields == [text : Strings, kind : {"text", "date", "int"}, v : Int]

(* A line that has an entry has one that can be added. *)
LEMMA EntryIs ==
  ASSUME NEW line \in Seq(Fields), LineEntry(line).kind \notin {"error", "skip"}
  PROVE  LineEntry(line).e \in EntrySet
<1> DEFINE n == Len(line)
           start == IF IsDate(line, 2) THEN line[2].v ELSE IF IsDate(line, 6) THEN line[6].v ELSE NstUnset
           end == IF IsDate(line, 3) THEN line[3].v ELSE IF IsDate(line, 7) THEN line[7].v ELSE NstUnset
           bypattern == \/ n = 1 \/ (n = 2 /\ IsDate(line, 2)) \/ (n = 3 /\ IsDate(line, 2) /\ IsDate(line, 3))
                        \/ (n = 4 /\ IsDate(line, 2) /\ IsDate(line, 3) /\ IsInt(line, 4))
           bycodes == \/ n \in {4, 5} \/ (n = 6 /\ IsDate(line, 6))
                      \/ (n = 7 /\ IsDate(line, 6) /\ IsDate(line, 7))
           pub == IF bypattern THEN (IF n = 4 THEN line[4].v ELSE 0)
                  ELSE IF IsInt(line, 5) THEN line[5].v ELSE 0
           codes == <<Field(line, 1).text, Field(line, 2).text, Field(line, 3).text, Field(line, 4).text>>
           unset == \/ start = NstUnset /\ (IsDate(line, 2) \/ IsDate(line, 6))
                    \/ end = NstUnset /\ (IsDate(line, 3) \/ IsDate(line, 7))
           error == [kind |-> "error", e |-> <<>>]
           skip0 == [kind |-> "skip", e |-> <<>>]
           p == [kind |-> "entry", e |-> <<line[1].text, start, end, pub>>]
           c == [kind |-> "entry", e |-> <<CodesPattern(codes), start, end, pub>>]
           l == LineEntry(line)
<1>1. l = IF unset THEN error
          ELSE IF (bypattern \/ bycodes) /\ pub \notin 0 .. 255 THEN error
          ELSE IF bypattern THEN p
          ELSE IF bycodes THEN c ELSE skip0
  BY DEF LineEntry
<1>2. n \in Nat /\ \A i \in 1 .. n : line[i].text \in Strings /\ line[i].v \in Int
  <2>1. ASSUME NEW i \in 1 .. n PROVE line[i].text \in Strings /\ line[i].v \in Int
    <3>1. line[i] \in Fields
      BY ElementOfSeq
    <3> QED BY <3>1 DEF Fields
  <2> QED BY <2>1
<1>3. \A i \in Nat \ {0} : IsDate(line, i) => line[i].v \in Int
  <2> SUFFICES ASSUME NEW i \in Nat \ {0}, IsDate(line, i) PROVE line[i].v \in Int
    OBVIOUS
  <2>1. i <= n
    BY DEF IsDate, Field
  <2> QED BY <1>2, <2>1
<1>4. start \in Int /\ end \in Int
  BY <1>3 DEF NstUnset
<1>5. error.kind = "error" /\ skip0.kind = "skip"
  OBVIOUS
<1>6. p.e = <<line[1].text, start, end, pub>> /\ c.e = <<CodesPattern(codes), start, end, pub>>
  OBVIOUS
<1>7. bypattern => line[1].text \in Strings
  <2>1. bypattern => n \in {1, 2, 3, 4}
    OBVIOUS
  <2> HIDE DEF bypattern
  <2>2. bypattern => 1 \in 1 .. n
    BY <2>1
  <2> QED BY <1>2, <2>2
<1>8. CodesPattern(codes) \in Strings
  <2>1. \A i \in 1 .. 4 : Field(line, i).text \in Strings
    <3> SUFFICES ASSUME NEW i \in 1 .. 4 PROVE Field(line, i).text \in Strings
      OBVIOUS
    <3>1. CASE i <= n
      BY <1>2, <3>1 DEF Field
    <3>2. CASE ~(i <= n)
      <4>1. Field(line, i).text = <<>>
        BY <3>2 DEF Field
      <4> QED BY <4>1, NoneIn DEF Strings
    <3> QED BY <3>1, <3>2
  <2>2. codes \in Strings \X Strings \X Strings \X Strings
    BY <2>1
  <2> HIDE DEF codes
  <2> QED BY <2>2, CodesPatternIs
<1> HIDE DEF start, end, bypattern, bycodes, pub, codes, unset, error, skip0, p, c, l
<1>9. \/ l = p /\ bypattern /\ pub \in 0 .. 255
      \/ l = c /\ pub \in 0 .. 255
  BY <1>1, <1>5 DEF l
<1>10. CASE l = p /\ bypattern /\ pub \in 0 .. 255
  <2>1. <<line[1].text, start, end, pub>> \in EntrySet
    BY <1>4, <1>7, <1>10 DEF EntrySet
  <2>2. l.e = <<line[1].text, start, end, pub>>
    BY <1>6, <1>10
  <2> QED BY <2>1, <2>2 DEF l
<1>11. CASE l = c /\ pub \in 0 .. 255
  <2>1. <<CodesPattern(codes), start, end, pub>> \in EntrySet
    BY <1>4, <1>8, <1>11 DEF EntrySet
  <2>2. l.e = <<CodesPattern(codes), start, end, pub>>
    BY <1>6, <1>11
  <2> QED BY <2>1, <2>2 DEF l
<1> QED BY <1>9, <1>10, <1>11

(* While a file is read the list has what was in it and what was added. *)
Reading(list0) ==
  {acc \in [ret : Int, list : Seq(SelRecords), new : SUBSET EntrySet] :
     \A e : Held(acc.list, e) <=> Held(list0, e) \/ e \in {Kept(x) : x \in acc.new}}

LEMMA ReadLineIs ==
  ASSUME NEW list0, NEW acc \in Reading(list0), NEW line \in Seq(Fields)
  PROVE  ReadLine(acc, line) \in Reading(list0)
<1> DEFINE l == LineEntry(line)
           V == [ret : Int, list : Seq(SelRecords), new : SUBSET EntrySet]
           more == [ret |-> acc.ret + 1, list |-> AddSelect(acc.list, l.e), new |-> acc.new \cup {l.e}]
           stop == [acc EXCEPT !.ret = -1]
           skip0 == [acc EXCEPT !.ret = acc.ret + 1]
<1>1. /\ acc \in V /\ acc.ret \in Int /\ acc.list \in Seq(SelRecords) /\ acc.new \in SUBSET EntrySet
      /\ \A e : Held(acc.list, e) <=> Held(list0, e) \/ e \in {Kept(x) : x \in acc.new}
  BY DEF Reading
<1>2. stop \in V /\ stop.list = acc.list /\ stop.new = acc.new
  BY <1>1
<1>3. skip0 \in V /\ skip0.list = acc.list /\ skip0.new = acc.new
  BY <1>1
<1>4. ASSUME l.kind \notin {"error", "skip"} PROVE more \in Reading(list0)
  <2> DEFINE list == AddSelect(acc.list, l.e)
  <2>1. l.e \in EntrySet
    BY <1>4, EntryIs
  <2> HIDE DEF l
  <2>2. /\ list \in Seq(SelRecords)
        /\ \A f : Held(list, f) <=> Held(acc.list, f) \/ f = Kept(l.e)
    BY <1>1, <2>1, AddSelectAdds
  <2> HIDE DEF list
  <2>3. more = [ret |-> acc.ret + 1, list |-> list, new |-> acc.new \cup {l.e}]
    BY DEF list
  <2> HIDE DEF more
  <2>4. more \in V /\ more.list = list /\ more.new = acc.new \cup {l.e}
    BY <1>1, <2>1, <2>2, <2>3
  <2>5. \A e : Held(more.list, e) <=> Held(list0, e) \/ e \in {Kept(x) : x \in more.new}
    BY <1>1, <2>2, <2>4
  <2> QED BY <2>4, <2>5 DEF Reading
<1>5. stop \in Reading(list0) /\ skip0 \in Reading(list0)
  <2> HIDE DEF stop, skip0
  <2> QED BY <1>1, <1>2, <1>3 DEF Reading
<1>6. ReadLine(acc, line) = IF acc.ret = -1 \/ line = <<>> THEN acc
                            ELSE IF l.kind = "error" THEN stop
                            ELSE IF l.kind = "skip" THEN skip0 ELSE more
  BY DEF ReadLine
<1> HIDE DEF l, stop, skip0, more
<1> QED BY <1>4, <1>5, <1>6

LEMMA MaxIs ==
  ASSUME NEW n \in Nat, NEW S \in SUBSET (1 .. n), S # {}
  PROVE  Max(S) \in S
<1> DEFINE D == {d \in Nat : n - d \in S}
<1>1. D # {}
  <2>1. PICK x \in S : TRUE
    OBVIOUS
  <2>2. n - x \in Nat /\ n - (n - x) = x
    BY <2>1
  <2> QED BY <2>1, <2>2
<1>2. PICK d \in D : \A m \in D : d <= m
  <2>1. D \in SUBSET Nat
    OBVIOUS
  <2> HIDE DEF D
  <2> QED BY <1>1, <2>1, LeastNumber
<1>3. \A y \in S : n - d >= y
  <2> SUFFICES ASSUME NEW y \in S PROVE n - d >= y
    OBVIOUS
  <2>1. n - y \in Nat /\ n - (n - y) = y /\ y \in Nat
    OBVIOUS
  <2>2. d <= n - y
    BY <1>2, <2>1
  <2> QED BY <2>1, <2>2
<1>4. n - d \in S
  BY <1>2
<1> QED BY <1>3, <1>4 DEF Max

(* A file that is read line by line. *)
LEMMA FileAdds ==
  ASSUME NEW list0 \in Seq(SelRecords), NEW lines \in Seq(Seq(Fields))
  PROVE  FoldLeft(ReadLine, [ret |-> 0, list |-> list0, new |-> {}], lines) \in Reading(list0)
<1> DEFINE n == Len(lines)
           base == [ret |-> 0, list |-> list0, new |-> {}]
           S == SUBSET (1 .. n)
           B == {{}}
           V == Reading(list0)
           r == [s \in S |-> Cardinality(s)]
           b == [s \in S |-> base]
           nx == [s \in S |-> IF s = {} THEN s ELSE s \ {Max(s)}]
           F == [s \in S |-> [acc \in V |-> IF s = {} THEN acc ELSE ReadLine(acc, lines[Max(s)])]]
           Body(f, s) == IF s = {} THEN base ELSE ReadLine(f[s \ {Max(s)}], lines[Max(s)])
           G == CHOOSE g : g = [s \in S |-> Body(g, s)]
<1>1. n \in Nat /\ DOMAIN lines = 1 .. n /\ \A i \in 1 .. n : lines[i] \in Seq(Fields)
  BY ElementOfSeq
<1>2. \A s \in S : s # {} => /\ Max(s) \in s /\ lines[Max(s)] \in Seq(Fields)
                             /\ s \ {Max(s)} \in S /\ nx[s] = s \ {Max(s)}
  <2> SUFFICES ASSUME NEW s \in S, s # {}
               PROVE  /\ Max(s) \in s /\ lines[Max(s)] \in Seq(Fields)
                      /\ s \ {Max(s)} \in S /\ nx[s] = s \ {Max(s)}
    OBVIOUS
  <2>1. Max(s) \in s
    BY <1>1, MaxIs
  <2> QED BY <1>1, <2>1
<1>3. \A s \in S : IsFiniteSet(s) /\ Cardinality(s) \in 0 .. n
  <2> SUFFICES ASSUME NEW s \in S PROVE IsFiniteSet(s) /\ Cardinality(s) \in 0 .. n
    OBVIOUS
  <2>1. IsFiniteSet(1 .. n) /\ Cardinality(1 .. n) = n
    <3>1. IsFiniteSet(1 .. n) /\ Cardinality(1 .. n) = IF 1 > n THEN 0 ELSE n - 1 + 1
      <4>1. n \in Int /\ 1 \in Int
        BY <1>1
      <4> HIDE DEF n
      <4> QED BY <4>1, FS_Interval
    <3> QED BY <1>1, <3>1
  <2>2. IsFiniteSet(s) /\ Cardinality(s) <= Cardinality(1 .. n)
    BY <2>1, FS_Subset
  <2>3. Cardinality(s) \in Nat
    BY <2>2, FS_CardinalityType
  <2> QED BY <1>1, <2>1, <2>2, <2>3
<1>4. base \in V
  <2>1. base \in [ret : Int, list : Seq(SelRecords), new : SUBSET EntrySet]
    OBVIOUS
  <2>2. base.list = list0 /\ base.new = {}
    OBVIOUS
  <2> HIDE DEF base
  <2> QED BY <2>1, <2>2 DEF Reading
<1>5. r \in [S -> 0 .. n] /\ b \in [S -> V] /\ nx \in [S -> S] /\ B \in SUBSET S
  <2> HIDE DEF V, base
  <2> QED BY <1>2, <1>3, <1>4
<1>6. F \in [S -> [V -> V]]
  <2> SUFFICES ASSUME NEW s \in S, NEW acc \in V, s # {} PROVE ReadLine(acc, lines[Max(s)]) \in V
    OBVIOUS
  <2>1. lines[Max(s)] \in Seq(Fields)
    BY <1>2
  <2> QED BY <2>1, ReadLineIs
<1>7. \A s \in S \ B : r[nx[s]] < r[s]
  <2> SUFFICES ASSUME NEW s \in S \ B PROVE r[nx[s]] < r[s]
    OBVIOUS
  <2>1. Max(s) \in s /\ nx[s] = s \ {Max(s)} /\ nx[s] \in S
    BY <1>2
  <2>2. IsFiniteSet(s) /\ Cardinality(s) \in Nat
    BY <1>3
  <2>3. Cardinality(s \ {Max(s)}) = Cardinality(s) - 1
    BY <2>1, <2>2, FS_RemoveElement
  <2>4. r[nx[s]] = Cardinality(s) - 1 /\ r[s] = Cardinality(s)
    BY <2>1, <2>3
  <2> QED BY <2>2, <2>4
<1>8. Ranked(S, V, n, r, B, b, nx, F)
  <2> HIDE DEF S, B, V, r, b, nx, F, n
  <2> QED BY <1>1, <1>5, <1>6, <1>7 DEF Ranked
<1>9. PICK f : f \in [S -> V] /\ \A s \in S : f[s] = IF s \in B THEN b[s] ELSE F[s][f[nx[s]]]
  <2> HIDE DEF n, S, B, V, r, b, nx, F
  <2>1. \E f : Solves(f, S, V, B, b, nx, F)
    BY <1>8, Recursion
  <2> QED BY <2>1 DEF Solves
<1>10. f = [s \in S |-> Body(f, s)]
  <2> SUFFICES ASSUME NEW s \in S PROVE f[s] = Body(f, s)
    BY <1>9
  <2>1. CASE s = {}
    BY <1>9, <2>1
  <2>2. CASE s # {}
    <3>1. s \ {Max(s)} \in S /\ nx[s] = s \ {Max(s)}
      BY <1>2, <2>2
    <3> DEFINE q == s \ {Max(s)}
    <3>2. f[q] \in V
      BY <1>9, <3>1
    <3>3. f[s] = F[s][f[q]]
      BY <1>9, <2>2, <3>1
    <3> HIDE DEF V, q
    <3>4. F[s][f[q]] = ReadLine(f[q], lines[Max(s)])
      BY <2>2, <3>2
    <3> QED BY <2>2, <3>3, <3>4 DEF q
  <2> QED BY <2>1, <2>2
<1>11. G = [s \in S |-> Body(G, s)]
  <2> HIDE DEF Body, S
  <2> QED BY <1>10
<1> HIDE DEF G
<1>12. Closes(G, S, V, n, r, B, nx)
  <2>1. ASSUME NEW s \in S, s \in B \/ G[nx[s]] \in V PROVE G[s] \in V
    <3>1. CASE s = {}
      <4>1. G[s] = base
        BY <1>11, <3>1
      <4> HIDE DEF base, V
      <4> QED BY <1>4, <4>1
    <3>2. CASE s # {}
      <4> DEFINE acc == G[s \ {Max(s)}]
                 line == lines[Max(s)]
      <4>1. acc \in V /\ line \in Seq(Fields)
        BY <1>2, <2>1, <3>2
      <4>2. G[s] = ReadLine(acc, line)
        BY <1>11, <3>2
      <4> HIDE DEF acc, line
      <4> QED BY <4>1, <4>2, ReadLineIs
    <3> QED BY <3>1, <3>2
  <2> HIDE DEF S, B, V, r, nx, n
  <2> QED BY <1>1, <1>5, <1>7, <2>1 DEF Closes
<1>13. G[1 .. n] \in V
  <2>1. \A s \in S : G[s] \in V
    <3> HIDE DEF S, B, V, r, nx, n
    <3> QED BY <1>12, AllClosed
  <2> QED BY <2>1
<1>14. FoldLeft(ReadLine, base, lines) = G[1 .. n]
  BY <1>1 DEF FoldLeft, MapThenFoldSet, G
<1> QED BY <1>13, <1>14

-----------------------------------------------------------------------------
(* Matching.                                                               *)

(* A window is passed over exactly if the data have no time in it. *)
LEMMA OverlapIs ==
  ASSUME NEW q2 \in Int, NEW q3 \in Int, q2 <= q3, ~Open(q2), ~Open(q3), NEW q, q[2] = q2, q[3] = q3,
         NEW w, w[1] \in Int, w[2] \in Int
  PROVE  ~PassedOver(q, w) <=> Overlap(q, w)
<1> DEFINE w1 == w[1]
           w2 == w[2]
<1>1. w1 \in Int /\ w2 \in Int
  OBVIOUS
<1>2. PassedOver(q, w) <=> (~Open(w1) /\ q3 < w1) \/ (~Open(w2) /\ q2 > w2)
  <2>1. PassedOver(q, w) <=> \/ ~Open(q2) /\ ~Open(w1) /\ q2 < w1 /\ ~(q2 <= w1 /\ q3 >= w1)
                             \/ ~Open(q3) /\ ~Open(w2) /\ q3 > w2 /\ ~(q2 <= w2 /\ q3 >= w2)
    BY DEF PassedOver
  <2> HIDE DEF w1, w2
  <2> QED BY <1>1, <2>1
<1>3. Overlap(q, w) <=> (Open(w1) \/ q3 >= w1) /\ (Open(w2) \/ q2 <= w2)
  BY DEF Overlap
<1> HIDE DEF w1, w2
<1> QED BY <1>1, <1>2, <1>3

(* What the last query has found is in the list, and there is none before. *)
HitIs ==
  \E q \in Queries :
    /\ hit.query = q
    /\ \/ hit.sel = <<>> /\ \A i \in 1 .. Len(sels) : ~Matches(q, sels[i])
       \/ \E i \in 1 .. Len(sels), j \in Nat :
            /\ j \in 1 .. Len(sels[i].windows) /\ ~PassedOver(q, sels[i].windows[j]) /\ Matches(q, sels[i])
            /\ hit.sel = <<sels[i]>> /\ hit.win = <<sels[i].windows[j]>>
SelectionInv ==
  /\ sels \in Seq(SelRecords)
  /\ \A e : e \in KeptEntries <=> Held(sels, e)
  /\ hit.query # <<>> => HitIs

LEMMA MatchFinds ==
  ASSUME SelectionInv, NEW q \in Queries, ms3_matchselect(q)
  PROVE  SelectionInv'
<1> DEFINE I == {i \in 1 .. Len(sels) : Matches(q, sels[i])}
           i0 == IF I # {} THEN Min(I) ELSE 0
           J == {j \in 1 .. Len(sels[i0].windows) : ~PassedOver(q, sels[i0].windows[j])}
           j0 == IF J # {} THEN Min(J) ELSE 0
<1>1. UNCHANGED <<sels, added>> /\ sels \in Seq(SelRecords) /\ Len(sels) \in Nat
  BY DEF ms3_matchselect, SelectionInv
<1>2. hit' = IF i0 = 0 THEN [query |-> q, sel |-> <<>>, win |-> <<>>]
             ELSE [query |-> q, sel |-> <<sels[i0]>>, win |-> <<sels[i0].windows[j0]>>]
  BY DEF ms3_matchselect, SelectInSeq
<1>3. /\ i0 \in 0 .. Len(sels)
      /\ i0 = 0 => I = {}
      /\ i0 # 0 => i0 \in I /\ i0 \in 1 .. Len(sels)
  <2>1. I \in SUBSET (1 .. Len(sels))
    OBVIOUS
  <2> HIDE DEF I
  <2> QED BY <1>1, <2>1, FirstIs
<1> HIDE DEF i0
<1>4. ASSUME i0 # 0
      PROVE  j0 \in 1 .. Len(sels[i0].windows) /\ ~PassedOver(q, sels[i0].windows[j0])
  <2> DEFINE n == Len(sels[i0].windows)
  <2>1. n \in Nat
    <3>1. sels[i0] \in SelRecords
      BY <1>1, <1>3, <1>4, ElementOfSeq
    <3>2. sels[i0].windows \in Seq(Int \X Int)
      BY <3>1 DEF SelRecords
    <3> QED BY <3>2
  <2>2. J # {}
    BY <1>3, <1>4 DEF Matches
  <2>3. J \in SUBSET (1 .. n)
    OBVIOUS
  <2>4. j0 \in J
    <3>1. J \in SUBSET Nat
      BY <2>1, <2>3
    <3> HIDE DEF J
    <3> QED BY <2>2, <3>1, MinIs
  <2> HIDE DEF j0
  <2> QED BY <2>4
<1>5. HitIs'
  <2> HIDE DEF j0
  <2>1. CASE i0 = 0
    <3>1. hit'.query = q /\ hit'.sel = <<>>
      BY <1>2, <2>1
    <3>2. \A i \in 1 .. Len(sels) : ~Matches(q, sels[i])
      BY <1>3, <2>1
    <3> QED BY <1>1, <3>1, <3>2 DEF HitIs
  <2>2. CASE i0 # 0
    <3>1. hit'.query = q /\ hit'.sel = <<sels[i0]>> /\ hit'.win = <<sels[i0].windows[j0]>>
      BY <1>2, <2>2
    <3>2. i0 \in 1 .. Len(sels) /\ Matches(q, sels[i0])
      BY <1>3, <2>2
    <3>3. j0 \in Nat /\ j0 \in 1 .. Len(sels[i0].windows) /\ ~PassedOver(q, sels[i0].windows[j0])
      BY <1>4, <2>2
    <3> QED BY <1>1, <3>1, <3>2, <3>3 DEF HitIs
  <2> QED BY <2>1, <2>2
<1>6. sels' = sels /\ KeptEntries' = KeptEntries
  BY <1>1 DEF KeptEntries
<1>7. (\A e : e \in KeptEntries <=> Held(sels, e))'
  BY <1>6 DEF SelectionInv, Held, EntryAt
<1> QED BY <1>1, <1>5, <1>6, <1>7 DEF SelectionInv

LEMMA CallsKeepSelections == SelectionInv /\ [SelNext]_selVars => SelectionInv'
<1> SUFFICES ASSUME SelectionInv, [SelNext]_selVars PROVE SelectionInv'
  OBVIOUS
<1>1. sels \in Seq(SelRecords) /\ \A e : e \in KeptEntries <=> Held(sels, e)
  BY DEF SelectionInv
<1>2. NoHit.query = <<>>
  BY DEF NoHit
<1>3. ASSUME NEW e \in EntrySet, sels' = AddSelect(sels, e), added' = added \cup {e}, hit' = NoHit
      PROVE  SelectionInv'
  <2>1. sels' \in Seq(SelRecords) /\ \A f : Held(sels', f) <=> Held(sels, f) \/ f = Kept(e)
    BY <1>1, <1>3, AddSelectAdds
  <2>4. KeptEntries' = KeptEntries \cup {Kept(e)}
    BY <1>3 DEF KeptEntries
  <2>2. \A f : f \in KeptEntries' <=> Held(sels', f)
    BY <1>1, <2>1, <2>4
  <2>3. (hit.query # <<>> => HitIs)'
    BY <1>2, <1>3
  <2> QED BY <2>1, <2>2, <2>3 DEF SelectionInv, Held, EntryAt
<1>4. ASSUME NEW e \in Entries, ms3_addselect(e) PROVE SelectionInv'
  <2>1. e \in EntrySet
    BY SelectionAssumption DEF EntrySet
  <2> QED BY <1>3, <1>4, <2>1 DEF ms3_addselect
<1>5. ASSUME NEW c \in Components, ms3_addselect_comp(c) PROVE SelectionInv'
  <2> DEFINE e == <<CodesPattern(c), NstUnset, NstUnset, 0>>
  <2>1. CodesPattern(c) \in Strings
    BY SelectionAssumption, CodesPatternIs
  <2>2. e \in EntrySet
    BY <2>1 DEF EntrySet, NstUnset
  <2>3. sels' = AddSelect(sels, e) /\ added' = added \cup {e} /\ hit' = NoHit
    BY <1>5 DEF ms3_addselect_comp
  <2> HIDE DEF e
  <2> QED BY <1>3, <2>2, <2>3
<1>6. ASSUME NEW lines \in SelFiles, ms3_readselectionsfile(lines) PROVE SelectionInv'
  <2> DEFINE r == FoldLeft(ReadLine, [ret |-> 0, list |-> sels, new |-> {}], lines)
  <2>1. lines \in Seq(Seq(Fields))
    BY SelectionAssumption DEF Fields
  <2>2. r \in Reading(sels)
    BY <1>1, <2>1, FileAdds
  <2>3. sels' = r.list /\ added' = added \cup r.new /\ hit' = NoHit
    BY <1>6 DEF ms3_readselectionsfile
  <2> HIDE DEF r
  <2>4. r.list \in Seq(SelRecords) /\ \A e : Held(r.list, e) <=> Held(sels, e) \/ e \in {Kept(x) : x \in r.new}
    BY <2>2 DEF Reading
  <2>7. KeptEntries' = KeptEntries \cup {Kept(x) : x \in r.new}
    BY <2>3 DEF KeptEntries
  <2>5. \A f : f \in KeptEntries' <=> Held(sels', f)
    BY <1>1, <2>3, <2>4, <2>7
  <2>6. (hit.query # <<>> => HitIs)'
    BY <1>2, <2>3
  <2> QED BY <2>3, <2>4, <2>5, <2>6 DEF SelectionInv, Held, EntryAt
<1>7. ASSUME NEW q \in Queries, ms3_matchselect(q) PROVE SelectionInv'
  BY <1>7, MatchFinds
<1>8. ASSUME ms3_freeselections PROVE SelectionInv'
  <2>1. sels' = <<>> /\ added' = {} /\ hit' = NoHit
    BY <1>8 DEF ms3_freeselections
  <2>2. sels' \in Seq(SelRecords) /\ KeptEntries' = {} /\ \A e : ~Held(sels', e)
    BY <2>1 DEF Held, KeptEntries
  <2>3. (hit.query # <<>> => HitIs)'
    BY <1>2, <2>1
  <2> QED BY <2>1, <2>2, <2>3 DEF SelectionInv, Held, EntryAt
<1>9. ASSUME UNCHANGED selVars PROVE SelectionInv'
  <2>1. sels' = sels /\ added' = added /\ hit' = hit
    BY <1>9 DEF selVars
  <2>2. HitIs' <=> HitIs
    BY <2>1 DEF HitIs
  <2>3. \A e : Held(sels, e)' <=> Held(sels, e)
    BY <2>1 DEF Held, EntryAt
  <2>4. (sels \in Seq(SelRecords))' /\ (\A e : e \in KeptEntries <=> Held(sels, e))'
    BY <1>1, <2>1, <2>3 DEF KeptEntries
  <2>5. (hit.query # <<>> => HitIs)'
    BY <2>1, <2>2 DEF SelectionInv
  <2> QED BY <2>4, <2>5 DEF SelectionInv
<1> QED BY <1>4, <1>5, <1>6, <1>7, <1>8, <1>9 DEF SelNext

LEMMA NothingSelected == SelInit => SelectionInv
<1> SUFFICES ASSUME SelInit PROVE SelectionInv
  OBVIOUS
<1>1. sels = <<>> /\ added = {} /\ hit.query = <<>>
  BY DEF SelInit, NoHit
<1>2. sels \in Seq(SelRecords) /\ KeptEntries = {} /\ \A e : ~Held(sels, e)
  BY <1>1 DEF Held, KeptEntries
<1> QED BY <1>1, <1>2 DEF SelectionInv

LEMMA SelectedIs == SelectionInv => SelectionIsUnion
<1> SUFFICES ASSUME SelectionInv, hit.query # <<>>, ~Open(hit.query[2]), ~Open(hit.query[3])
             PROVE  /\ (hit.sel # <<>>) = \E e \in KeptEntries : /\ Means(hit.query[1], e[1])
                                                                 /\ e[4] \in {0, hit.query[4]}
                                                                 /\ Overlap(hit.query, <<e[2], e[3]>>)
                    /\ hit.sel # <<>> =>
                         <<hit.sel[1].pattern, hit.win[1][1], hit.win[1][2], hit.sel[1].pub>> \in KeptEntries
  BY DEF SelectionIsUnion
<1> DEFINE AskedFor(q, e) == /\ Means(q[1], e[1])
                             /\ e[4] \in {0, q[4]}
                             /\ Overlap(q, <<e[2], e[3]>>)
<1>1. sels \in Seq(SelRecords) /\ \A e : e \in KeptEntries <=> Held(sels, e)
  BY DEF SelectionInv
<1>2. PICK q \in Queries :
        /\ hit.query = q
        /\ \/ hit.sel = <<>> /\ \A i \in 1 .. Len(sels) : ~Matches(q, sels[i])
           \/ \E i \in 1 .. Len(sels), j \in Nat :
                /\ j \in 1 .. Len(sels[i].windows) /\ ~PassedOver(q, sels[i].windows[j]) /\ Matches(q, sels[i])
                /\ hit.sel = <<sels[i]>> /\ hit.win = <<sels[i].windows[j]>>
  BY DEF SelectionInv, HitIs
<1>3. q[1] \in Strings /\ q[2] \in Int /\ q[3] \in Int /\ q[4] \in 0 .. 255 /\ q[2] <= q[3]
  BY <1>2, SelectionAssumption
<1>4. ASSUME NEW i \in 1 .. Len(sels), NEW j \in Nat, j \in 1 .. Len(sels[i].windows)
      PROVE  LET e == EntryAt(sels, i, j)
             IN  /\ AskedFor(q, e) => Matches(q, sels[i])
                 /\ Matches(q, sels[i]) /\ ~PassedOver(q, sels[i].windows[j]) => AskedFor(q, e)
  <2> DEFINE x == sels[i]
             w == x.windows[j]
             e == EntryAt(sels, i, j)
  <2>1. x.pattern \in Strings /\ x.pub \in 0 .. 255 /\ x.windows \in Seq(Int \X Int)
    <3>1. x \in SelRecords
      BY <1>1, ElementOfSeq
    <3> QED BY <3>1 DEF SelRecords, Patterns
  <2>2. w \in Int \X Int
    BY <1>4, <2>1, ElementOfSeq
  <2>3. e[1] = x.pattern /\ e[2] = w[1] /\ e[3] = w[2] /\ e[4] = x.pub
    BY DEF EntryAt
  <2>4. ms_globmatch(q[1], x.pattern) = Means(q[1], x.pattern)
    BY <1>3, <2>1, GlobIs
  <2>5. w[1] \in Int /\ w[2] \in Int /\ <<w[1], w[2]>> = w
    BY <2>2
  <2>6. ~PassedOver(q, w) <=> Overlap(q, w)
    BY <1>2, <1>3, <2>5, OverlapIs
  <2>7. x.pub \in {0, q[4]} <=> (x.pub > 0 => x.pub = q[4])
    <3> DEFINE pub == x.pub
    <3>1. pub \in 0 .. 255
      BY <2>1
    <3> HIDE DEF pub
    <3>2. pub \in {0, q[4]} <=> (pub > 0 => pub = q[4])
      BY <3>1
    <3> QED BY <3>2 DEF pub
  <2>8. Matches(q, x) <=> /\ ms_globmatch(q[1], x.pattern)
                          /\ x.pub > 0 => x.pub = q[4]
                          /\ \E k \in 1 .. Len(x.windows) : ~PassedOver(q, x.windows[k])
    BY DEF Matches
  <2> HIDE DEF x, w, e
  <2>9. AskedFor(q, e) <=> Means(q[1], x.pattern) /\ x.pub \in {0, q[4]} /\ Overlap(q, w)
    BY <2>3, <2>5
  <2>10. ~PassedOver(q, w) => \E k \in 1 .. Len(x.windows) : ~PassedOver(q, x.windows[k])
    BY <1>4 DEF x, w
  <2> HIDE DEF AskedFor
  <2>11. AskedFor(q, e) => Matches(q, x)
    BY <2>4, <2>6, <2>7, <2>8, <2>9, <2>10
  <2>12. Matches(q, x) /\ ~PassedOver(q, w) => AskedFor(q, e)
    BY <2>4, <2>6, <2>7, <2>8, <2>9
  <2> QED BY <2>11, <2>12 DEF x, w, e
<1> HIDE DEF AskedFor
<1>5. CASE hit.sel = <<>> /\ \A i \in 1 .. Len(sels) : ~Matches(q, sels[i])
  <2>1. ASSUME NEW e \in KeptEntries, AskedFor(q, e) PROVE FALSE
    <3>1. PICK i \in 1 .. Len(sels), j \in Nat : j \in 1 .. Len(sels[i].windows) /\ e = EntryAt(sels, i, j)
      BY <1>1 DEF Held
    <3> QED BY <1>4, <1>5, <2>1, <3>1
  <2> QED BY <1>2, <1>5, <2>1 DEF AskedFor
<1>6. ASSUME NEW i \in 1 .. Len(sels), NEW j \in Nat,
             /\ j \in 1 .. Len(sels[i].windows) /\ ~PassedOver(q, sels[i].windows[j]) /\ Matches(q, sels[i])
             /\ hit.sel = <<sels[i]>> /\ hit.win = <<sels[i].windows[j]>>
      PROVE  /\ hit.sel # <<>> /\ \E e \in KeptEntries : AskedFor(q, e)
             /\ <<hit.sel[1].pattern, hit.win[1][1], hit.win[1][2], hit.sel[1].pub>> \in KeptEntries
  <2> DEFINE e == EntryAt(sels, i, j)
  <2>1. AskedFor(q, e)
    BY <1>4, <1>6
  <2>2. e \in KeptEntries
    BY <1>1, <1>6 DEF Held
  <2>3. hit.sel # <<>> /\ hit.sel[1] = sels[i] /\ hit.win[1] = sels[i].windows[j]
    BY <1>6
  <2>4. e = <<hit.sel[1].pattern, hit.win[1][1], hit.win[1][2], hit.sel[1].pub>>
    BY <2>3 DEF EntryAt
  <2> HIDE DEF e
  <2> QED BY <2>1, <2>2, <2>3, <2>4
<1>7. (\E e \in KeptEntries : AskedFor(q, e)) \in BOOLEAN
  OBVIOUS
<1> QED BY <1>2, <1>5, <1>6, <1>7 DEF AskedFor

(* ms3_matchselect(), whatever the selections, however they were added and *)
(* whatever was asked before: data are selected exactly if an entry that   *)
(* was added covers them, and the entry returned is one of those.          *)
THEOREM SelectionsAreUnions == SelSpec => []SelectionIsUnion
BY NothingSelected, CallsKeepSelections, SelectedIs, PTL DEF SelSpec

-----------------------------------------------------------------------------
(* Patterns that are joined.                                               *)

(* Each character of the pattern matches by itself. *)
Plain(p) == \A i \in 1 .. Len(p) : p[i] \notin {"[", "\\"}
Takes(a, c) == a = "?" \/ a = c

LEMMA PlainMatching ==
  ASSUME NEW s \in Strings, NEW p \in Strings, Plain(p)
  PROVE  /\ Len(s) \in Nat /\ Len(p) \in Nat
         /\ MatchingFrom(s, p)[Len(p) + 1] = {Len(s) + 1}
         /\ \A i \in 1 .. Len(p) :
              LET rest == MatchingFrom(s, p)[i + 1]
              IN  MatchingFrom(s, p)[i] =
                    IF p[i] = "*" THEN {k \in 1 .. Len(s) + 1 : \E j \in rest : k <= j}
                    ELSE {k \in 1 .. Len(s) : Takes(p[i], s[k]) /\ k + 1 \in rest}
<1>1. Len(s) \in Nat /\ Len(p) \in Nat /\ \A i \in 1 .. Len(p) : At(p, i) = p[i]
  BY StringEnds
<1>2. MatchingFrom(s, p)[Len(p) + 1] = {Len(s) + 1}
  BY MatchingIs
<1>3. ASSUME NEW i \in 1 .. Len(p)
      PROVE  /\ Following(p, i) = i + 1
             /\ \A c : p[i] # "*" => (Accepts(p, i, c) <=> Takes(p[i], c))
  <2>1. p[i] # "[" /\ ~Escapes(p, i) /\ At(p, i) = p[i]
    BY <1>1 DEF Plain, Escapes
  <2>2. AfterLiteral(p, i) = i + 1 /\ Literal(p, i) = p[i]
    BY <2>1 DEF AfterLiteral, Literal
  <2>3. Following(p, i) = i + 1
    BY <2>1, <2>2 DEF Following
  <2>4. \A c : Accepts(p, i, c) <=> Takes(p[i], c)
    BY <2>1, <2>2 DEF Accepts, Takes
  <2> QED BY <2>3, <2>4
<1>4. ASSUME NEW i \in 1 .. Len(p)
      PROVE  MatchingFrom(s, p)[i] =
               IF p[i] = "*" THEN {k \in 1 .. Len(s) + 1 : \E j \in MatchingFrom(s, p)[i + 1] : k <= j}
               ELSE {k \in 1 .. Len(s) : Takes(p[i], s[k]) /\ k + 1 \in MatchingFrom(s, p)[i + 1]}
  <2> DEFINE rest == MatchingFrom(s, p)[i + 1]
  <2>1. MatchingFrom(s, p)[i] = Row(s, p, i, rest)
    BY <1>3, MatchingIs
  <2> HIDE DEF rest
  <2>2. Row(s, p, i, rest) =
               IF p[i] = "*" THEN {k \in 1 .. Len(s) + 1 : \E j \in rest : k <= j}
               ELSE {k \in 1 .. Len(s) : Takes(p[i], s[k]) /\ k + 1 \in rest}
    BY <1>3 DEF Row
  <2> QED BY <2>1, <2>2 DEF rest
<1> QED BY <1>1, <1>2, <1>4

(* A string that matches a pattern, with one behind it that matches        *)
(* another, matches the two patterns joined.                               *)
LEMMA JoinMeans ==
  ASSUME NEW s \in Strings, NEW p \in Strings, NEW t \in Strings, NEW q \in Strings,
         Plain(p), Plain(q), Means(s, p), Means(t, q)
  PROVE  Means(s \o t, p \o q) /\ Plain(p \o q) /\ s \o t \in Strings /\ p \o q \in Strings
<1> DEFINE st == s \o t
           pq == p \o q
           m == Len(p)
           n == Len(s)
           F == MatchingFrom(st, pq)
           G == MatchingFrom(s, p)
           H == MatchingFrom(t, q)
<1>1. st \in Strings /\ pq \in Strings
  BY ConcatProperties DEF Strings
<1>2. /\ m \in Nat /\ n \in Nat /\ Len(q) \in Nat /\ Len(t) \in Nat
      /\ Len(st) = n + Len(t) /\ Len(pq) = m + Len(q)
      /\ \A i \in 1 .. m : pq[i] = p[i]
      /\ \A i \in 1 .. Len(q) : pq[i + m] = q[i]
      /\ \A k \in 1 .. n : st[k] = s[k]
      /\ \A k \in 1 .. Len(t) : st[k + n] = t[k]
  <2>1. Len(st) = n + Len(t) /\ Len(pq) = m + Len(q)
    BY DEF Strings
  <2>2. \A i \in 1 .. m + Len(q) : pq[i] = IF i <= m THEN p[i] ELSE q[i - m]
    BY DEF Strings
  <2>3. \A i \in 1 .. n + Len(t) : st[i] = IF i <= n THEN s[i] ELSE t[i - n]
    BY DEF Strings
  <2>4. m \in Nat /\ n \in Nat /\ Len(q) \in Nat /\ Len(t) \in Nat
    BY StringEnds
  <2> HIDE DEF st, pq, m, n
  <2>5. \A i \in 1 .. Len(q) : pq[i + m] = q[i]
    <3> SUFFICES ASSUME NEW i \in 1 .. Len(q) PROVE pq[i + m] = q[i]
      OBVIOUS
    <3>1. i + m \in 1 .. m + Len(q) /\ ~(i + m <= m) /\ (i + m) - m = i
      BY <2>4
    <3> QED BY <2>2, <3>1
  <2>6. \A k \in 1 .. Len(t) : st[k + n] = t[k]
    <3> SUFFICES ASSUME NEW k \in 1 .. Len(t) PROVE st[k + n] = t[k]
      OBVIOUS
    <3>1. k + n \in 1 .. n + Len(t) /\ ~(k + n <= n) /\ (k + n) - n = k
      BY <2>4
    <3> QED BY <2>3, <3>1
  <2>7. \A i \in 1 .. m : pq[i] = p[i]
    BY <2>2, <2>4
  <2>8. \A k \in 1 .. n : st[k] = s[k]
    BY <2>3, <2>4
  <2> QED BY <2>1, <2>4, <2>5, <2>6, <2>7, <2>8
<1> HIDE DEF st, pq
<1>3. Plain(pq)
  <2> SUFFICES ASSUME NEW i \in 1 .. m + Len(q) PROVE pq[i] \notin {"[", "\\"}
    BY <1>2 DEF Plain
  <2>1. CASE i <= m
    BY <1>2, <2>1 DEF Plain
  <2>2. CASE ~(i <= m)
    <3>1. i - m \in 1 .. Len(q) /\ (i - m) + m = i
      BY <1>2, <2>2
    <3> QED BY <1>2, <3>1 DEF Plain
  <2> QED BY <2>1, <2>2
<1>4. /\ F[Len(pq) + 1] = {Len(st) + 1}
      /\ \A i \in 1 .. Len(pq) :
           F[i] = IF pq[i] = "*" THEN {k \in 1 .. Len(st) + 1 : \E j \in F[i + 1] : k <= j}
                  ELSE {k \in 1 .. Len(st) : Takes(pq[i], st[k]) /\ k + 1 \in F[i + 1]}
  BY <1>1, <1>3, PlainMatching
<1>5. /\ G[m + 1] = {n + 1}
      /\ \A i \in 1 .. m :
           G[i] = IF p[i] = "*" THEN {k \in 1 .. n + 1 : \E j \in G[i + 1] : k <= j}
                  ELSE {k \in 1 .. n : Takes(p[i], s[k]) /\ k + 1 \in G[i + 1]}
  BY PlainMatching
<1>6. /\ H[Len(q) + 1] = {Len(t) + 1}
      /\ \A i \in 1 .. Len(q) :
           H[i] = IF q[i] = "*" THEN {k \in 1 .. Len(t) + 1 : \E j \in H[i + 1] : k <= j}
                  ELSE {k \in 1 .. Len(t) : Takes(q[i], t[k]) /\ k + 1 \in H[i + 1]}
  BY PlainMatching
<1>7. /\ 1 \in G[1] /\ 1 \in H[1]
      /\ \A i \in 1 .. m + 1 : G[i] \in SUBSET (1 .. n + 1)
      /\ \A i \in 1 .. Len(q) + 1 : H[i] \in SUBSET (1 .. Len(t) + 1)
  <2>1. G \in [1 .. m + 1 -> SUBSET (1 .. n + 1)] /\ H \in [1 .. Len(q) + 1 -> SUBSET (1 .. Len(t) + 1)]
    BY MatchingIs
  <2>2. 1 \in G[1] /\ 1 \in H[1]
    BY DEF Means
  <2> HIDE DEF G, H, m, n
  <2> QED BY <2>1, <2>2
<1> HIDE DEF F, G, H, m, n
(* What the rest of q matches, it matches in the strings joined. *)
<1>8. \A d \in 0 .. Len(q) : \A k \in H[Len(q) + 1 - d] : k + n \in F[m + (Len(q) + 1 - d)]
  <2> DEFINE A == {d \in Nat : d <= Len(q) => \A k \in H[Len(q) + 1 - d] : k + n \in F[m + (Len(q) + 1 - d)]}
  <2>1. 0 \in A
    <3>1. Len(q) + 1 - 0 = Len(q) + 1 /\ m + (Len(q) + 1) = Len(pq) + 1 /\ (Len(t) + 1) + n = Len(st) + 1
      BY <1>2
    <3> QED BY <1>4, <1>6, <3>1
  <2>2. ASSUME NEW d \in Nat, d \in A PROVE d + 1 \in A
    <3> SUFFICES ASSUME d + 1 <= Len(q), NEW k \in H[Len(q) + 1 - (d + 1)]
                 PROVE  k + n \in F[m + (Len(q) + 1 - (d + 1))]
      OBVIOUS
    <3> DEFINE i == Len(q) - d
    <3>1. /\ i \in 1 .. Len(q) /\ Len(q) + 1 - (d + 1) = i /\ Len(q) + 1 - d = i + 1 /\ d <= Len(q)
          /\ i + m \in 1 .. Len(pq) /\ m + i = i + m /\ m + (i + 1) = (i + m) + 1
      BY <1>2
    <3> HIDE DEF i
    <3>2. \A j \in H[i + 1] : j + n \in F[(i + m) + 1]
      BY <2>2, <3>1
    <3>3. k \in H[i] /\ pq[i + m] = q[i]
      BY <1>2, <3>1
    <3>4. i + 1 \in 1 .. Len(q) + 1
      BY <1>2, <3>1
    <3>5. k + n \in F[i + m]
      <4>1. CASE q[i] = "*"
        <5>1. PICK j \in H[i + 1] : k <= j /\ k \in 1 .. Len(t) + 1
          BY <1>6, <3>1, <3>3, <4>1
        <5>2. j \in Nat
          BY <1>2, <1>7, <3>4, <5>1
        <5>3. k + n \in 1 .. Len(st) + 1 /\ k + n <= j + n /\ j + n \in F[(i + m) + 1]
          BY <1>2, <3>2, <5>1, <5>2
        <5> QED BY <1>4, <3>1, <3>3, <4>1, <5>3
      <4>2. CASE q[i] # "*"
        <5>1. k \in 1 .. Len(t) /\ Takes(q[i], t[k]) /\ k + 1 \in H[i + 1]
          BY <1>6, <3>1, <3>3, <4>2
        <5>2. k + n \in 1 .. Len(st) /\ (k + n) + 1 = (k + 1) + n
          <6>1. n \in Nat /\ Len(t) \in Nat /\ Len(st) = n + Len(t) /\ k \in 1 .. Len(t)
            BY <1>2, <5>1
          <6> QED BY <6>1
        <5>3. st[k + n] = t[k]
          BY <1>2, <5>1
        <5>4. (k + n) + 1 \in F[(i + m) + 1]
          BY <3>2, <5>1, <5>2
        <5> QED BY <1>4, <3>1, <3>3, <4>2, <5>1, <5>2, <5>3, <5>4
      <4> QED BY <4>1, <4>2
    <3> QED BY <3>1, <3>5
  <2> HIDE DEF A
  <2>3. \A d \in Nat : d \in A
    BY <2>1, <2>2, AllNumbers
  <2> QED BY <2>3, <1>2 DEF A
(* And what the rest of p matches is followed by what q matches. *)
<1>9. \A d \in 0 .. m : \A k \in G[m + 1 - d] : k \in F[m + 1 - d]
  <2> DEFINE A == {d \in Nat : d <= m => \A k \in G[m + 1 - d] : k \in F[m + 1 - d]}
  <2>1. 0 \in A
    <3>1. /\ Len(q) \in 0 .. Len(q) /\ Len(q) + 1 - Len(q) = 1 /\ m + 1 - 0 = m + 1 /\ 1 + n = n + 1
      BY <1>2
    <3>2. 1 + n \in F[m + 1]
      BY <1>7, <1>8, <3>1
    <3> QED BY <1>5, <3>1, <3>2
  <2>2. ASSUME NEW d \in Nat, d \in A PROVE d + 1 \in A
    <3> SUFFICES ASSUME d + 1 <= m, NEW k \in G[m + 1 - (d + 1)]
                 PROVE  k \in F[m + 1 - (d + 1)]
      OBVIOUS
    <3> DEFINE i == m - d
    <3>1. /\ i \in 1 .. m /\ m + 1 - (d + 1) = i /\ m + 1 - d = i + 1 /\ d <= m /\ i \in 1 .. Len(pq)
      BY <1>2
    <3> HIDE DEF i
    <3>2. \A j \in G[i + 1] : j \in F[i + 1]
      BY <2>2, <3>1
    <3>3. k \in G[i] /\ pq[i] = p[i]
      BY <1>2, <3>1
    <3>4. k \in F[i]
      <4>1. CASE p[i] = "*"
        <5>1. PICK j \in G[i + 1] : k <= j /\ k \in 1 .. n + 1
          BY <1>5, <3>1, <3>3, <4>1
        <5>2. k \in 1 .. Len(st) + 1 /\ j \in F[i + 1]
          BY <1>2, <3>2, <5>1
        <5> QED BY <1>4, <3>1, <3>3, <4>1, <5>1, <5>2
      <4>2. CASE p[i] # "*"
        <5>1. k \in 1 .. n /\ Takes(p[i], s[k]) /\ k + 1 \in G[i + 1]
          BY <1>5, <3>1, <3>3, <4>2
        <5>2. k \in 1 .. Len(st) /\ st[k] = s[k] /\ k + 1 \in F[i + 1]
          BY <1>2, <3>2, <5>1
        <5> QED BY <1>4, <3>1, <3>3, <4>2, <5>1, <5>2
      <4> QED BY <4>1, <4>2
    <3> QED BY <3>1, <3>4
  <2> HIDE DEF A
  <2>3. \A d \in Nat : d \in A
    BY <2>1, <2>2, AllNumbers
  <2> QED BY <2>3, <1>2 DEF A
<1>10. 1 \in F[1]
  <2>1. m \in 0 .. m /\ m + 1 - m = 1
    BY <1>2
  <2> QED BY <1>7, <1>9, <2>1
<1> QED BY <1>1, <1>3, <1>10 DEF Means, F, st, pq

(* A character matches itself. *)
LEMMA SameMeans ==
  ASSUME NEW a \in DOMAIN CharOrder, a \notin {"[", "\\"}
  PROVE  Means(<<a>>, <<a>>) /\ Plain(<<a>>) /\ <<a>> \in Strings
<1> DEFINE s == <<a>>
           F == MatchingFrom(s, s)
<1>1. s \in Strings /\ Len(s) = 1 /\ s[1] = a /\ Plain(s)
  BY TuplesIn DEF Strings, Plain
<1> HIDE DEF s
<1>2. /\ F[Len(s) + 1] = {Len(s) + 1}
      /\ \A i \in 1 .. Len(s) :
           F[i] = IF s[i] = "*" THEN {k \in 1 .. Len(s) + 1 : \E j \in F[i + 1] : k <= j}
                  ELSE {k \in 1 .. Len(s) : Takes(s[i], s[k]) /\ k + 1 \in F[i + 1]}
  BY <1>1, PlainMatching
<1> HIDE DEF F
<1>3. F[2] = {2} /\ 1 \in 1 .. Len(s)
  BY <1>1, <1>2
<1>4. F[1] = IF s[1] = "*" THEN {k \in 1 .. 2 : \E j \in F[2] : k <= j}
             ELSE {k \in 1 .. 1 : Takes(s[1], s[k]) /\ k + 1 \in F[2]}
  BY <1>1, <1>2, <1>3
<1>5. Takes(s[1], s[1])
  BY DEF Takes
<1>6. 1 \in F[1]
  BY <1>3, <1>4, <1>5
<1> QED BY <1>1, <1>6 DEF s, F, Means

(* Two characters by name. *)
Blank == " "
Line == "_"

(* Without blanks nothing is left out. *)
LEMMA NoBlanksKeeps ==
  ASSUME NEW T, Blank \notin T, NEW s \in Seq(T)
  PROVE  NoBlanks(s) = s
<1> DEFINE n == Len(s)
           S == 0 .. n
           Body(f, i) == IF i = 0 THEN <<>> ELSE IF s[i] = Blank THEN f[i - 1] ELSE Append(f[i - 1], s[i])
           G == CHOOSE g : g = [i \in S |-> Body(g, i)]
           f == [i \in S |-> SubSeq(s, 1, i)]
           A == {i \in Nat : i <= n => G[i] = SubSeq(s, 1, i)}
<1>1. n \in Nat /\ \A i \in 1 .. n : s[i] \in T /\ s[i] # Blank
  BY ElementOfSeq
<1>2. SubSeq(s, 1, 0) = <<>>
  BY SubSeqEmpty
<1>3. \A i \in 1 .. n : SubSeq(s, 1, i) = Append(SubSeq(s, 1, i - 1), s[i])
  <2> SUFFICES ASSUME NEW i \in 1 .. n PROVE SubSeq(s, 1, i) = Append(SubSeq(s, 1, i - 1), s[i])
    OBVIOUS
  <2>1. 1 \in 1 .. Len(s) /\ i \in 1 .. Len(s)
    BY <1>1
  <2>2. SubSeq(s, 1, i) = SubSeq(s, 1, i - 1) \o <<s[i]>>
    BY <2>1, SubSeqRecursiveSecond
  <2>3. SubSeq(s, 1, i - 1) \in Seq(T)
    <3>1. 1 \in Int /\ i - 1 \in Int /\ \A j \in 1 .. i - 1 : s[j] \in T
      BY <1>1
    <3> QED BY <3>1, SubSeqProperties
  <2> DEFINE a == SubSeq(s, 1, i - 1)
             c == s[i]
  <2>4. a \in Seq(T) /\ c \in T
    BY <1>1, <2>3
  <2> HIDE DEF a, c
  <2>5. Append(a, c) = a \o <<c>>
    BY <2>4, AppendIsConcat
  <2> QED BY <2>2, <2>5 DEF a, c
<1>4. f = [i \in S |-> Body(f, i)]
  <2> SUFFICES ASSUME NEW i \in S PROVE f[i] = Body(f, i)
    OBVIOUS
  <2>1. CASE i = 0
    BY <1>2, <2>1
  <2>2. CASE i # 0
    <3>1. i \in 1 .. n /\ i - 1 \in S
      BY <1>1, <2>2
    <3>2. f[i] = SubSeq(s, 1, i) /\ f[i - 1] = SubSeq(s, 1, i - 1) /\ s[i] # Blank
      BY <1>1, <3>1
    <3> HIDE DEF f, S, n
    <3> QED BY <1>3, <2>2, <3>1, <3>2
  <2> QED BY <2>1, <2>2
<1>5. G = [i \in S |-> Body(G, i)]
  <2> HIDE DEF Body, S, f
  <2> QED BY <1>4
<1> HIDE DEF G, f
<1>6. 0 \in A
  <2>1. 0 \in S
    BY <1>1
  <2>2. G[0] = <<>>
    BY <1>5, <2>1
  <2> QED BY <1>2, <2>2
<1>7. ASSUME NEW i \in Nat, i \in A PROVE i + 1 \in A
  <2> SUFFICES ASSUME i + 1 <= n PROVE G[i + 1] = SubSeq(s, 1, i + 1)
    OBVIOUS
  <2>1. i + 1 \in S /\ i + 1 # 0 /\ (i + 1) - 1 = i /\ i + 1 \in 1 .. n /\ i <= n
    BY <1>1
  <2>2. G[i] = SubSeq(s, 1, i)
    BY <1>7, <2>1
  <2>3. G[i + 1] = Body(G, i + 1)
    <3> HIDE DEF Body, S
    <3> QED BY <1>5, <2>1
  <2>4. s[i + 1] # Blank
    BY <1>1, <2>1
  <2> DEFINE m == i + 1
  <2>5. G[m] = Append(G[m - 1], s[m])
    BY <2>1, <2>3, <2>4
  <2>6. SubSeq(s, 1, m) = Append(SubSeq(s, 1, m - 1), s[m])
    BY <1>3, <2>1
  <2> QED BY <2>1, <2>2, <2>5, <2>6
<1>8. G[n] = SubSeq(s, 1, n)
  <2> HIDE DEF A
  <2>1. n \in A
    BY <1>1, <1>6, <1>7, AllNumbers
  <2> QED BY <1>1, <2>1 DEF A
<1>9. NoBlanks(s) = G[n]
  BY DEF NoBlanks, G, Blank
<1> QED BY <1>8, <1>9, SubSeqFull

(* Strings that can be joined. *)
ClearChars == DOMAIN CharOrder \ {" ", "[", "\\"}
Clear == Seq(ClearChars)

LEMMA ClearCharsAre ==
  /\ Blank \notin ClearChars /\ "[" \notin ClearChars /\ "\\" \notin ClearChars
  /\ \A a \in ClearChars : a \in DOMAIN CharOrder
  /\ "FDSN" \in ClearChars /\ ":" \in ClearChars /\ Line \in ClearChars
  /\ \A a \in DOMAIN CharOrder : a \notin {" ", "[", "\\"} => a \in ClearChars
<1>1. "FDSN" \in DOMAIN CharOrder /\ ":" \in DOMAIN CharOrder /\ Line \in DOMAIN CharOrder
  BY SelectionAssumption, Zenon DEF Line
<1>2. Line \notin {" ", "[", "\\"} /\ "FDSN" \notin {" ", "[", "\\"} /\ ":" \notin {" ", "[", "\\"}
  BY Zenon DEF Line
<1> QED BY <1>1, <1>2, Zenon DEF ClearChars, Blank

LEMMA ClearIs ==
  ASSUME NEW p \in Clear
  PROVE  p \in Strings /\ Plain(p) /\ NoBlanks(p) = p /\ Len(p) \in Nat
<1>1. p \in Seq(ClearChars) /\ Len(p) \in Nat
  BY DEF Clear
<1>2. NoBlanks(p) = p
  BY <1>1, ClearCharsAre, NoBlanksKeeps
<1>3. \A i \in 1 .. Len(p) : p[i] \in ClearChars
  BY <1>1, ElementOfSeq
<1>4. p \in Seq(DOMAIN CharOrder)
  <2>1. ClearChars \subseteq DOMAIN CharOrder
    BY ClearCharsAre
  <2> QED BY <1>1, <2>1, SeqMonotonic
<1> QED BY <1>1, <1>2, <1>3, <1>4, ClearCharsAre DEF Plain, Strings

(* u is as long as p and q. *)
AsLong(u, p, q) == Len(u) = Len(p) + Len(q)

LEMMA ClearJoined ==
  ASSUME NEW p \in Clear, NEW q \in Clear
  PROVE  p \o q \in Clear /\ AsLong(p \o q, p, q)
BY ConcatProperties DEF Clear, AsLong

LEMMA ClearCode ==
  ASSUME NEW p \in Strings, Range(p) \cap {" ", "[", "\\"} = {}
  PROVE  p \in Clear
<1>1. p \in Seq(DOMAIN CharOrder)
  BY Zenon DEF Strings
<1>2. Range(p) \subseteq DOMAIN CharOrder
  BY <1>1, RangeOfSeq, Zenon
<1>3. Range(p) \subseteq ClearChars
  BY <1>2, Zenon DEF ClearChars
<1> DEFINE R == Range(p)
<1>4. p \in Seq(R)
  BY <1>1, SeqOfRange, Zenon
<1> HIDE DEF R
<1>5. p \in Seq(ClearChars)
  BY <1>3, <1>4, SeqMonotonic DEF R
<1> QED BY <1>5 DEF Clear

LEMMA ClearParts ==
  ASSUME NEW p \in Clear
  PROVE  Parts(p) \in Clear /\ Len(Parts(p)) = IF Len(p) = 3 THEN 5 ELSE Len(p)
<1> DEFINE five == <<p[1], Line, p[2], Line, p[3]>>
<1>0. Parts(p) = IF Len(p) = 3 THEN five ELSE p
  BY Zenon DEF Parts, Line
<1>1. CASE Len(p) = 3
  <2>1. p \in Seq(ClearChars) /\ 1 \in 1 .. Len(p) /\ 2 \in 1 .. Len(p) /\ 3 \in 1 .. Len(p)
    BY <1>1 DEF Clear
  <2>2. p[1] \in ClearChars /\ p[2] \in ClearChars /\ p[3] \in ClearChars
    BY <2>1, ElementOfSeq
  <2>3. five \in Seq(ClearChars) /\ Len(five) = 5
    BY <2>2, ClearCharsAre, TuplesIn
  <2> QED BY <1>0, <1>1, <2>3 DEF Clear
<1>2. CASE Len(p) # 3
  BY <1>0, <1>2
<1> QED BY <1>1, <1>2

(* The location of a pattern, and a string with the parts of an identifier. *)
NoLocation == <<"-", "-">>
Location(loc) == IF loc = NoLocation THEN <<>> ELSE loc
Joined(a, b, c, d) == Prefix \o a \o Sep \o b \o Sep \o c \o Sep \o d

LEMMA JoinersClear == Prefix \in Clear /\ Len(Prefix) = 2 /\ Sep \in Clear /\ Len(Sep) = 1
<1>1. Prefix = <<"FDSN", ":">> /\ Sep = <<Line>>
  BY Zenon DEF Prefix, Sep, Line
<1> DEFINE f == "FDSN"
           g == ":"
<1>2. f \in ClearChars /\ g \in ClearChars /\ Line \in ClearChars /\ Prefix = <<f, g>>
  BY <1>1, ClearCharsAre, Zenon
<1> HIDE DEF f, g
<1> QED BY <1>1, <1>2, TuplesIn DEF Clear

LEMMA JoinedClear ==
  ASSUME NEW a \in Clear, NEW b \in Clear, NEW c \in Clear, NEW d \in Clear
  PROVE  /\ Joined(a, b, c, d) \in Clear
         /\ Len(Joined(a, b, c, d)) = 5 + Len(a) + Len(b) + Len(c) + Len(d)
<1> DEFINE s1 == Prefix \o a
           s2 == s1 \o Sep
           s3 == s2 \o b
           s4 == s3 \o Sep
           s5 == s4 \o c
           s6 == s5 \o Sep
           s7 == s6 \o d
<1>1. Joined(a, b, c, d) = s7
  BY DEF Joined
<1>2. Prefix \in Clear /\ Len(Prefix) = 2 /\ Sep \in Clear /\ Len(Sep) = 1
  BY JoinersClear
<1>3. s1 \in Clear /\ AsLong(s1, Prefix, a)
  BY <1>2, ClearJoined
<1> HIDE DEF s1
<1>4. s2 \in Clear /\ AsLong(s2, s1, Sep)
  BY <1>2, <1>3, ClearJoined
<1> HIDE DEF s2
<1>5. s3 \in Clear /\ AsLong(s3, s2, b)
  BY <1>4, ClearJoined
<1> HIDE DEF s3
<1>6. s4 \in Clear /\ AsLong(s4, s3, Sep)
  BY <1>2, <1>5, ClearJoined
<1> HIDE DEF s4
<1>7. s5 \in Clear /\ AsLong(s5, s4, c)
  BY <1>6, ClearJoined
<1> HIDE DEF s5
<1>8. s6 \in Clear /\ AsLong(s6, s5, Sep)
  BY <1>2, <1>7, ClearJoined
<1> HIDE DEF s6
<1>9. s7 \in Clear /\ AsLong(s7, s6, d)
  BY <1>8, ClearJoined
<1> HIDE DEF s7
<1>10. Len(a) \in Nat /\ Len(b) \in Nat /\ Len(c) \in Nat /\ Len(d) \in Nat
  BY ClearIs
<1> QED BY <1>1, <1>2, <1>3, <1>4, <1>5, <1>6, <1>7, <1>8, <1>9, <1>10 DEF AsLong

SidOf(a, b, c, d) == ms_nslc2sid(PatternSize, a, b, c, d).sid

(* Codes that fit into the buffers of ms3_addselect_comp(). *)
Uncut == {c \in Clear : Len(c) <= 19}

(* What ms_nslc2sid() makes of clear codes: a channel of three characters  *)
(* by its parts, in which it is the same as when it was converted before.  *)
LEMMA IdentifierIs ==
  ASSUME NEW a \in Uncut, NEW b \in Uncut, NEW c \in Uncut, NEW d \in Uncut, MinSidLen <= PatternSize
  PROVE  SidOf(a, b, c, d) = Joined(a, b, c, Parts(d))
<1> DEFINE x == ms_seedchan2xchan(d)
           y == IF x # <<>> THEN x ELSE d
           sid == Joined(a, b, c, y)
<1>0. /\ a \in Clear /\ b \in Clear /\ c \in Clear /\ d \in Clear
      /\ Len(a) <= 19 /\ Len(b) <= 19 /\ Len(c) <= 19 /\ Len(d) <= 19
  BY DEF Uncut
<1>1. Parts(d) \in Clear /\ Len(Parts(d)) = (IF Len(d) = 3 THEN 5 ELSE Len(d)) /\ Len(d) \in Nat
  BY <1>0, ClearIs, ClearParts
<1>2. x = IF Len(d) = 3 THEN Parts(d) ELSE <<>>
  <2>1. CASE Len(d) = 3
    <3>1. x = NoBlanks(Parts(d))
      BY <2>1, Zenon DEF ms_seedchan2xchan, Parts
    <3> QED BY <1>1, <2>1, <3>1, ClearIs
  <2>2. CASE Len(d) # 3
    BY <2>2, Zenon DEF ms_seedchan2xchan
  <2> QED BY <2>1, <2>2
<1>3. y = Parts(d)
  <2> HIDE DEF x
  <2>1. CASE Len(d) = 3
    <3>1. Parts(d) # <<>>
      <4>1. Len(Parts(d)) # Len(<<>>)
        BY <1>1, <2>1
      <4> QED BY <4>1, Zenon
    <3> QED BY <1>2, <2>1, <3>1
  <2>2. CASE Len(d) # 3
    <3>1. Parts(d) = d
      BY <2>2, Zenon DEF Parts
    <3> QED BY <1>2, <2>2, <3>1
  <2> QED BY <2>1, <2>2
<1> DEFINE short == PatternSize < MinSidLen \/ SidBytes(sid) + 1 > PatternSize
<1>4. ms_nslc2sid(PatternSize, a, b, c, d).sid = IF short THEN <<>> ELSE NoBlanks(sid)
  <2>1. ms_nslc2sid(PatternSize, a, b, c, d) =
          IF short THEN [ret |-> -1, sid |-> <<>>] ELSE [ret |-> SidBytes(NoBlanks(sid)), sid |-> NoBlanks(sid)]
    BY Zenon DEF ms_nslc2sid, Joined
  <2> HIDE DEF short, sid
  <2> QED BY <2>1
<1> HIDE DEF x, y, sid, short
<1>5. y \in Clear /\ Len(y) <= 19
  <2>1. y \in Clear
    BY <1>1, <1>3
  <2>2. Len(y) = IF Len(d) = 3 THEN 5 ELSE Len(d)
    BY <1>1, <1>3
  <2>3. Len(y) <= 19
    BY <1>0, <1>1, <2>2
  <2> QED BY <2>1, <2>3
<1>6. sid \in Clear /\ Len(sid) = 5 + Len(a) + Len(b) + Len(c) + Len(y)
  BY <1>0, <1>5, JoinedClear DEF sid
<1>7. Len(a) \in Nat /\ Len(b) \in Nat /\ Len(c) \in Nat /\ Len(y) <= 19 /\ Len(y) \in Nat
  BY <1>0, <1>5, ClearIs
<1>8. SidBytes(sid) = Len(sid) + 3
  <2>1. Len(Prefix) = 2 /\ Len(sid) \in Nat
    BY <1>6, JoinersClear, ClearIs
  <2> QED BY <2>1 DEF SidBytes, PrefixLen
<1>9. NoBlanks(sid) = sid
  BY <1>6, ClearIs
<1>10. ~short
  <2>1. SidBytes(sid) + 1 <= PatternSize /\ SidBytes(sid) \in Int
    BY <1>0, <1>6, <1>7, <1>8 DEF PatternSize
  <2>2. MinSidLen \in Nat
    BY SourceIdAssumption
  <2>3. PatternSize \in Nat
    BY DEF PatternSize
  <2> QED BY <2>1, <2>2, <2>3 DEF short
<1> QED BY <1>3, <1>4, <1>9, <1>10 DEF sid, SidOf

(* The pattern of codes has each of them between the separators. *)
LEMMA PatternIs ==
  ASSUME NEW c, c[1] \in Uncut, c[2] \in Uncut, c[3] \in Uncut, c[4] \in Uncut, MinSidLen <= PatternSize
  PROVE  CodesPattern(c) = Joined(c[1], c[2], Location(c[3]), Parts(c[4]))
<1> DEFINE simple == Range(c[4]) \subseteq ClassChars
           loc == Location(c[3])
           x == IF Len(c[4]) = 3 /\ simple THEN ms_seedchan2xchan(c[4]) ELSE c[4]
<1>0. c[3] \in Clear /\ c[4] \in Clear /\ Len(c[3]) <= 19 /\ Len(c[4]) <= 19
  BY DEF Uncut
<1>1. CodesPattern(c) = SidOf(c[1], c[2], loc, x)
  <2> DEFINE cut(code) == Trunc(code, CodeSize - 1)
             loc0 == IF c[3] = NoLocation THEN <<>> ELSE cut(c[3])
             x0 == IF Len(c[4]) = 3 /\ simple THEN ms_seedchan2xchan(c[4]) ELSE cut(c[4])
  <2>1. \A s \in Uncut : cut(s) = s
    <3>1. CodeSize - 1 = 19
      BY DEF CodeSize
    <3> SUFFICES ASSUME NEW s \in Uncut PROVE Trunc(s, 19) = s
      BY <3>1
    <3>2. s \in Seq(ClearChars) /\ Len(s) <= 19
      BY DEF Uncut, Clear
    <3> QED BY <3>2, TruncIs
  <2>2. CodesPattern(c) = SidOf(cut(c[1]), cut(c[2]), loc0, x0)
    BY Zenon DEF CodesPattern, SidOf, NoLocation
  <2> HIDE DEF cut, simple
  <2> QED BY <2>1, <2>2 DEF Location
<1>2. loc \in Clear /\ Len(loc) <= 19
  <2>1. <<>> \in Clear /\ Len(<<>>) = 0
    BY DEF Clear
  <2> QED BY <1>0, <2>1 DEF Location
<1>3. Parts(c[4]) \in Clear /\ Len(Parts(c[4])) = (IF Len(c[4]) = 3 THEN 5 ELSE Len(c[4]))
  BY <1>0, ClearParts
<1>4. x = c[4] \/ (Len(c[4]) = 3 /\ x = Parts(c[4]))
  <2>1. ASSUME Len(c[4]) = 3 PROVE ms_seedchan2xchan(c[4]) = Parts(c[4])
    <3>1. ms_seedchan2xchan(c[4]) = NoBlanks(Parts(c[4]))
      BY <2>1, Zenon DEF ms_seedchan2xchan, Parts
    <3> QED BY <1>3, <3>1, ClearIs
  <2> HIDE DEF simple
  <2> QED BY <2>1
<1> HIDE DEF x, loc, simple
<1>5. x \in Clear /\ Len(x) <= 19 /\ Parts(x) = Parts(c[4])
  <2>1. CASE x = c[4]
    BY <1>0, <2>1
  <2>2. CASE Len(c[4]) = 3 /\ x = Parts(c[4])
    <3>1. x \in Clear /\ Len(x) = 5
      BY <1>3, <2>2
    <3>2. Len(x) # 3
      BY <3>1
    <3>3. Parts(x) = x
      BY <3>2, Zenon DEF Parts
    <3> QED BY <2>2, <3>1, <3>3
  <2> QED BY <1>4, <2>1, <2>2
<1>6. SidOf(c[1], c[2], loc, x) = Joined(c[1], c[2], loc, Parts(x))
  <2> DEFINE a == c[1]
             b == c[2]
  <2>1. a \in Uncut /\ b \in Uncut /\ loc \in Uncut /\ x \in Uncut
    BY <1>2, <1>5 DEF Uncut
  <2> HIDE DEF a, b
  <2>2. SidOf(a, b, loc, x) = Joined(a, b, loc, Parts(x))
    BY <2>1, IdentifierIs
  <2> QED BY <2>2 DEF a, b
<1> QED BY <1>1, <1>5, <1>6 DEF loc

-----------------------------------------------------------------------------
(* Identifiers and patterns of codes.                                      *)

(* u is s with a behind it. *)
Longer(u, s, a) == Len(u) = Len(s) + 1 /\ u[Len(s) + 1] = a /\ \A i \in 1 .. Len(s) : u[i] = s[i]

LEMMA OneMore ==
  ASSUME NEW T, NEW s \in Seq(T), NEW a \in T
  PROVE  s \o <<a>> \in Seq(T) /\ Longer(s \o <<a>>, s, a)
<1>1. <<a>> \in Seq(T) /\ Len(<<a>>) = 1 /\ <<a>>[1] = a /\ Len(s) \in Nat
  OBVIOUS
<1> DEFINE t == <<a>>
           u == s \o t
<1>2. u \in Seq(T) /\ Len(u) = Len(s) + 1 /\ \A i \in 1 .. Len(s) + 1 : u[i] = IF i <= Len(s) THEN s[i] ELSE t[i - Len(s)]
  <2> HIDE DEF t
  <2> QED BY <1>1, ConcatProperties DEF t
<1> HIDE DEF u
<1>3. u[Len(s) + 1] = a
  <2>1. Len(s) + 1 \in 1 .. Len(s) + 1 /\ ~(Len(s) + 1 <= Len(s)) /\ (Len(s) + 1) - Len(s) = 1
    BY <1>1
  <2> QED BY <1>1, <1>2, <2>1
<1>4. \A i \in 1 .. Len(s) : u[i] = s[i]
  <2> HIDE DEF t
  <2> QED BY <1>1, <1>2
<1>5. Longer(u, s, a)
  BY <1>2, <1>3, <1>4 DEF Longer
<1> QED BY <1>2, <1>5 DEF u

(* A tuple is joined from its elements. *)
Together(a, b, c, d, e) == <<a, b, c, d, e>> = (((<<a>> \o <<b>>) \o <<c>>) \o <<d>>) \o <<e>>
LEMMA Pieces ==
  ASSUME NEW T, NEW a \in T, NEW b \in T, NEW c \in T, NEW d \in T, NEW e \in T
  PROVE  /\ <<a, b>> = <<a>> \o <<b>>
         /\ Together(a, b, c, d, e)
<1> DEFINE s1 == <<a>>
           s2 == s1 \o <<b>>
           s3 == s2 \o <<c>>
           s4 == s3 \o <<d>>
           s5 == s4 \o <<e>>
           two == <<a, b>>
           five == <<a, b, c, d, e>>
<1>1. s1 \in Seq(T) /\ Len(s1) = 1 /\ s1[1] = a
  OBVIOUS
<1>2. /\ two \in Seq(T) /\ Len(two) = 2 /\ two[1] = a /\ two[2] = b
      /\ five \in Seq(T) /\ Len(five) = 5
      /\ five[1] = a /\ five[2] = b /\ five[3] = c /\ five[4] = d /\ five[5] = e
  OBVIOUS
<1> HIDE DEF s1, two, five
<1>3. s2 \in Seq(T) /\ Longer(s2, s1, b)
  BY <1>1, OneMore
<1> HIDE DEF s2
<1>4. s3 \in Seq(T) /\ Longer(s3, s2, c)
  BY <1>3, OneMore
<1> HIDE DEF s3
<1>5. s4 \in Seq(T) /\ Longer(s4, s3, d)
  BY <1>4, OneMore
<1> HIDE DEF s4
<1>6. s5 \in Seq(T) /\ Longer(s5, s4, e)
  BY <1>5, OneMore
<1> HIDE DEF s5
<1>7. Len(s2) = 2 /\ s2[1] = a /\ s2[2] = b
  BY <1>1, <1>3 DEF Longer
<1>8. Len(s3) = 3 /\ s3[1] = a /\ s3[2] = b /\ s3[3] = c
  BY <1>4, <1>7 DEF Longer
<1>9. Len(s4) = 4 /\ s4[1] = a /\ s4[2] = b /\ s4[3] = c /\ s4[4] = d
  BY <1>5, <1>8 DEF Longer
<1>10. Len(s5) = 5 /\ s5[1] = a /\ s5[2] = b /\ s5[3] = c /\ s5[4] = d /\ s5[5] = e
  BY <1>6, <1>9 DEF Longer
<1>11. two = s2
  <2>1. \A i \in 1 .. Len(two) : two[i] = s2[i]
    BY <1>2, <1>7
  <2> QED BY <1>2, <1>3, <1>7, <2>1, SeqEqual
<1>12. five = s5
  <2>1. \A i \in 1 .. Len(five) : five[i] = s5[i]
    <3> SUFFICES ASSUME NEW i \in 1 .. 5 PROVE five[i] = s5[i]
      BY <1>2
    <3>1. i = 1 \/ i = 2 \/ i = 3 \/ i = 4 \/ i = 5
      OBVIOUS
    <3> QED BY <1>2, <1>10, <3>1
  <2> QED BY <1>2, <1>6, <1>10, <2>1, SeqEqual
<1> QED BY <1>11, <1>12 DEF Together, s1, s2, s3, s4, s5, two, five

(* s matches p, and p can be joined with other patterns. *)
Meets(s, p) == s \in Strings /\ p \in Strings /\ Plain(p) /\ Means(s, p)

LEMMA MeetsJoined ==
  ASSUME NEW s, NEW p, NEW t, NEW q, Meets(s, p), Meets(t, q)
  PROVE  Meets(s \o t, p \o q)
BY JoinMeans DEF Meets

LEMMA SameMeets ==
  ASSUME NEW a \in ClearChars
  PROVE  Meets(<<a>>, <<a>>)
BY ClearCharsAre, SameMeans DEF Meets

LEMMA NoneMeets == Meets(<<>>, <<>>)
<1> DEFINE s == <<>>
<1>1. s \in Strings /\ Len(s) = 0 /\ Plain(s)
  BY NoneIn DEF Strings, Plain
<1> HIDE DEF s
<1>2. MatchingFrom(s, s)[Len(s) + 1] = {Len(s) + 1}
  BY <1>1, PlainMatching
<1>3. Means(s, s)
  BY <1>1, <1>2 DEF Means
<1> QED BY <1>1, <1>3 DEF Meets, s

LEMMA JoinersMeet == Meets(Prefix, Prefix) /\ Meets(Sep, Sep)
<1> DEFINE f == "FDSN"
           g == ":"
<1>1. f \in ClearChars /\ g \in ClearChars /\ Line \in ClearChars /\ Prefix = <<f, g>> /\ Sep = <<Line>>
  BY ClearCharsAre, Zenon DEF Prefix, Sep, Line
<1> HIDE DEF f, g
<1>2. <<f>> \o <<g>> = <<f, g>>
  BY <1>1, Pieces
<1> QED BY <1>1, <1>2, SameMeets, MeetsJoined

(* What is joined matches if each code does. *)
LEMMA JoinedMeets ==
  ASSUME NEW a, NEW b, NEW c, NEW d, NEW ka, NEW kb, NEW kc, NEW kd,
         Meets(ka, a), Meets(kb, b), Meets(kc, c), Meets(kd, d)
  PROVE  Meets(Joined(ka, kb, kc, kd), Joined(a, b, c, d))
<1> DEFINE s1 == Prefix \o ka
           s2 == s1 \o Sep
           s3 == s2 \o kb
           s4 == s3 \o Sep
           s5 == s4 \o kc
           s6 == s5 \o Sep
           p1 == Prefix \o a
           p2 == p1 \o Sep
           p3 == p2 \o b
           p4 == p3 \o Sep
           p5 == p4 \o c
           p6 == p5 \o Sep
<1>1. Joined(ka, kb, kc, kd) = s6 \o kd /\ Joined(a, b, c, d) = p6 \o d
  BY DEF Joined
<1>2. Meets(Prefix, Prefix) /\ Meets(Sep, Sep)
  BY JoinersMeet
<1>3. Meets(s1, p1)
  BY <1>2, MeetsJoined
<1> HIDE DEF s1, p1
<1>4. Meets(s2, p2)
  BY <1>2, <1>3, MeetsJoined
<1> HIDE DEF s2, p2
<1>5. Meets(s3, p3)
  BY <1>4, MeetsJoined
<1> HIDE DEF s3, p3
<1>6. Meets(s4, p4)
  BY <1>2, <1>5, MeetsJoined
<1> HIDE DEF s4, p4
<1>7. Meets(s5, p5)
  BY <1>6, MeetsJoined
<1> HIDE DEF s5, p5
<1>8. Meets(s6, p6)
  BY <1>2, <1>7, MeetsJoined
<1> HIDE DEF s6, p6
<1>9. Meets(s6 \o kd, p6 \o d)
  BY <1>8, MeetsJoined
<1> QED BY <1>1, <1>9

(* A channel of three characters matches by its parts. *)
LEMMA PartsMeet ==
  ASSUME NEW chan \in Strings, NEW p \in Clear, Len(chan) = 3, Len(p) = 3,
         \A i \in 1 .. 3 : Means(<<chan[i]>>, <<p[i]>>)
  PROVE  Meets(Parts(chan), Parts(p))
<1>1. ASSUME NEW i \in 1 .. 3 PROVE Meets(<<chan[i]>>, <<p[i]>>)
  <2> DEFINE a == chan[i]
             b == p[i]
  <2>1. chan \in Seq(DOMAIN CharOrder) /\ p \in Seq(ClearChars) /\ i \in 1 .. Len(chan) /\ i \in 1 .. Len(p)
    BY DEF Strings, Clear
  <2>2. a \in DOMAIN CharOrder /\ b \in ClearChars
    BY <2>1, ElementOfSeq
  <2>3. Means(<<a>>, <<b>>)
    OBVIOUS
  <2> HIDE DEF a, b
  <2>4. <<a>> \in Strings
    BY <2>2 DEF Strings
  <2>5. Meets(<<b>>, <<b>>)
    BY <2>2, SameMeets
  <2>6. Meets(<<a>>, <<b>>)
    BY <2>3, <2>4, <2>5 DEF Meets
  <2> QED BY <2>6 DEF a, b
<1>2. Meets(<<Line>>, <<Line>>)
  BY ClearCharsAre, SameMeets
<1>3. \A x : Len(x) = 3 => Parts(x) = <<x[1], Line, x[2], Line, x[3]>>
  BY Zenon DEF Parts, Line
<1>4. \A u, v, w \in DOMAIN CharOrder :
        <<u, Line, v, Line, w>> = (((<<u>> \o <<Line>>) \o <<v>>) \o <<Line>>) \o <<w>>
  <2>1. Line \in DOMAIN CharOrder
    BY ClearCharsAre
  <2> SUFFICES ASSUME NEW u \in DOMAIN CharOrder, NEW v \in DOMAIN CharOrder, NEW w \in DOMAIN CharOrder
               PROVE  <<u, Line, v, Line, w>> = (((<<u>> \o <<Line>>) \o <<v>>) \o <<Line>>) \o <<w>>
    OBVIOUS
  <2> DEFINE D == DOMAIN CharOrder
             l == Line
  <2>2. l \in D /\ u \in D /\ v \in D /\ w \in D
    BY <2>1
  <2> HIDE DEF D, l
  <2>3. Together(u, l, v, l, w)
    BY <2>2, Pieces
  <2> QED BY <2>3, Zenon DEF l, Together
<1> DEFINE s1 == <<chan[1]>> \o <<Line>>
           s2 == s1 \o <<chan[2]>>
           s3 == s2 \o <<Line>>
           p1 == <<p[1]>> \o <<Line>>
           p2 == p1 \o <<p[2]>>
           p3 == p2 \o <<Line>>
<1>5. Parts(chan) = s3 \o <<chan[3]>> /\ Parts(p) = p3 \o <<p[3]>>
  <2>1. ASSUME NEW x \in Strings, Len(x) = 3
        PROVE  Parts(x) = (((<<x[1]>> \o <<Line>>) \o <<x[2]>>) \o <<Line>>) \o <<x[3]>>
    <3>1. x \in Seq(DOMAIN CharOrder) /\ 1 \in 1 .. Len(x) /\ 2 \in 1 .. Len(x) /\ 3 \in 1 .. Len(x)
      BY <2>1 DEF Strings
    <3>2. x[1] \in DOMAIN CharOrder /\ x[2] \in DOMAIN CharOrder /\ x[3] \in DOMAIN CharOrder
      BY <3>1, ElementOfSeq
    <3>3. Parts(x) = <<x[1], Line, x[2], Line, x[3]>>
      BY <1>3, <2>1, Zenon
    <3>4. <<x[1], Line, x[2], Line, x[3]>> = (((<<x[1]>> \o <<Line>>) \o <<x[2]>>) \o <<Line>>) \o <<x[3]>>
      BY <1>4, <3>2, Zenon
    <3> QED BY <3>3, <3>4, Zenon
  <2>2. p \in Strings
    BY ClearIs
  <2> QED BY <2>1, <2>2, Zenon
<1>6. Meets(<<chan[1]>>, <<p[1]>>) /\ Meets(<<chan[2]>>, <<p[2]>>) /\ Meets(<<chan[3]>>, <<p[3]>>)
  BY <1>1
<1>7. Meets(s1, p1)
  BY <1>2, <1>6, MeetsJoined
<1> HIDE DEF s1, p1
<1>8. Meets(s2, p2)
  BY <1>6, <1>7, MeetsJoined
<1> HIDE DEF s2, p2
<1>9. Meets(s3, p3)
  BY <1>2, <1>8, MeetsJoined
<1> HIDE DEF s3, p3
<1> QED BY <1>5, <1>6, <1>9, MeetsJoined

(* An identifier whose codes match matches the pattern of the codes. *)
LEMMA CodesMeet ==
  ASSUME PlainCodes, NEW c \in Components, NEW q \in Queries, CodesMatch(SidCodes(q[1]), c)
  PROVE  /\ Means(q[1], CodesPattern(c)) /\ CodesPattern(c) \in Strings
         /\ CutPattern(CodesPattern(c)) = CodesPattern(c)
<1> DEFINE k == SidCodes(q[1])
<1>1. /\ k \in Strings \X Strings \X Strings \X Strings
      /\ q[1] = Joined(k[1], k[2], k[3], Parts(k[4]))
  BY DEF PlainCodes, Joined
<1>2. c[1] \in Strings /\ c[2] \in Strings /\ c[3] \in Strings /\ c[4] \in Strings
  BY SelectionAssumption
<1>3. ASSUME NEW i \in 1 .. 4, c[i] \in Strings PROVE c[i] \in Uncut
  <2>1. Range(c[i]) \cap {" ", "[", "\\"} = {} /\ Len(c[i]) < CodeSize
    BY Zenon DEF PlainCodes
  <2> DEFINE p == c[i]
  <2>2. p \in Clear
    BY <1>3, <2>1, ClearCode, Zenon
  <2>3. Len(p) <= 19
    <3>1. Len(p) < 20
      BY <2>1, Zenon DEF CodeSize
    <3> HIDE DEF p
    <3>2. Len(p) \in Nat
      BY <2>2, ClearIs
    <3> QED BY <3>1, <3>2
  <2> HIDE DEF p
  <2>4. p \in Uncut
    BY <2>2, <2>3 DEF Uncut
  <2> QED BY <2>4 DEF p
<1>4. c[1] \in Uncut /\ c[2] \in Uncut /\ c[3] \in Uncut /\ c[4] \in Uncut
  BY <1>2, <1>3
<1>5. MinSidLen <= PatternSize
  BY Zenon DEF PlainCodes
<1>6. CodesPattern(c) = Joined(c[1], c[2], Location(c[3]), Parts(c[4]))
  BY <1>4, <1>5, PatternIs
<1>7. /\ Means(k[1], c[1]) /\ Means(k[2], c[2])
      /\ IF c[3] = NoLocation THEN k[3] = <<>> ELSE Means(k[3], c[3])
      /\ IF Len(c[4]) = 3 THEN Len(k[4]) = 3 /\ \A i \in 1 .. 3 : Means(<<k[4][i]>>, <<c[4][i]>>)
         ELSE Means(Parts(k[4]), c[4])
  BY Zenon DEF CodesMatch, NoLocation
<1> HIDE DEF k
<1>8. \A p \in Uncut : p \in Clear /\ p \in Strings /\ Plain(p)
  BY ClearIs DEF Uncut
<1>9. k[1] \in Strings /\ k[2] \in Strings /\ k[3] \in Strings /\ k[4] \in Strings
  BY <1>1
<1>10. Meets(k[1], c[1]) /\ Meets(k[2], c[2])
  BY <1>4, <1>7, <1>8, <1>9 DEF Meets
<1>11. Meets(k[3], Location(c[3]))
  BY <1>4, <1>7, <1>8, <1>9, NoneMeets DEF Meets, Location
<1>12. Meets(Parts(k[4]), Parts(c[4]))
  <2>1. CASE Len(c[4]) = 3
    <3>1. Len(k[4]) = 3 /\ \A i \in 1 .. 3 : Means(<<k[4][i]>>, <<c[4][i]>>)
      BY <1>7, <2>1
    <3>2. k[4] \in Strings /\ c[4] \in Clear
      BY <1>4, <1>8, <1>9
    <3> DEFINE chan == k[4]
               p == c[4]
    <3> HIDE DEF chan, p
    <3>3. Meets(Parts(chan), Parts(p))
      BY <2>1, <3>1, <3>2, PartsMeet DEF chan, p
    <3> QED BY <3>3 DEF chan, p
  <2>2. CASE Len(c[4]) # 3
    <3>1. Parts(c[4]) = c[4]
      BY <2>2, Zenon DEF Parts
    <3>2. Parts(k[4]) \in Strings
      <4> DEFINE chan == k[4]
                 D == DOMAIN CharOrder
      <4>1. CASE Len(chan) = 3
        <5>1. chan \in Seq(D) /\ 1 \in 1 .. Len(chan) /\ 2 \in 1 .. Len(chan) /\ 3 \in 1 .. Len(chan)
          BY <1>9, <4>1 DEF Strings
        <5>2. Line \in D
          BY ClearCharsAre
        <5> HIDE DEF chan, D
        <5>3. chan[1] \in D /\ chan[2] \in D /\ chan[3] \in D
          BY <5>1, ElementOfSeq
        <5>4. <<chan[1], Line, chan[2], Line, chan[3]>> \in Seq(D)
          BY <5>2, <5>3, TuplesIn
        <5>5. Parts(chan) = <<chan[1], Line, chan[2], Line, chan[3]>>
          BY <4>1, Zenon DEF Parts, Line
        <5> QED BY <5>4, <5>5 DEF Strings, D, chan
      <4>2. CASE Len(chan) # 3
        <5>1. Parts(chan) = chan
          BY <4>2, Zenon DEF Parts
        <5> QED BY <1>9, <5>1
      <4> QED BY <4>1, <4>2
    <3> QED BY <1>4, <1>7, <1>8, <2>2, <3>1, <3>2 DEF Meets
  <2> QED BY <2>1, <2>2
<1>13. Meets(Joined(k[1], k[2], k[3], Parts(k[4])), Joined(c[1], c[2], Location(c[3]), Parts(c[4])))
  BY <1>10, <1>11, <1>12, JoinedMeets
<1>14. CutPattern(CodesPattern(c)) = CodesPattern(c)
  <2> DEFINE a == c[1]
             b == c[2]
             l == Location(c[3])
             d == Parts(c[4])
             p == Joined(a, b, l, d)
  <2>1. a \in Clear /\ Len(a) <= 19 /\ b \in Clear /\ Len(b) <= 19
    BY <1>4 DEF Uncut
  <2>2. l \in Clear /\ Len(l) <= 19
    <3>1. <<>> \in Clear /\ Len(<<>>) = 0
      BY DEF Clear
    <3> QED BY <1>4, <3>1 DEF Location, Uncut
  <2>3. d \in Clear /\ Len(d) <= 19
    <3> DEFINE chan == c[4]
    <3>1. chan \in Clear /\ Len(chan) <= 19
      BY <1>4 DEF Uncut
    <3> HIDE DEF chan
    <3>2. Parts(chan) \in Clear /\ Len(Parts(chan)) = IF Len(chan) = 3 THEN 5 ELSE Len(chan)
      BY <3>1, ClearParts
    <3> QED BY <3>1, <3>2 DEF chan
  <2> HIDE DEF a, b, l, d
  <2>4. p \in Clear /\ Len(p) = 5 + Len(a) + Len(b) + Len(l) + Len(d)
    BY <2>1, <2>2, <2>3, JoinedClear
  <2>5. Len(a) \in Nat /\ Len(b) \in Nat /\ Len(l) \in Nat /\ Len(d) \in Nat
    BY <2>1, <2>2, <2>3, ClearIs
  <2> HIDE DEF p
  <2>6. p \in Strings
    BY <2>4, ClearIs
  <2>7. Len(p) <= PatternSize - 4
    BY <2>1, <2>2, <2>3, <2>4, <2>5 DEF PatternSize
  <2>8. CutPattern(p) = p
    BY <2>6, <2>7, CutPatternIs
  <2> QED BY <1>6, <2>8 DEF p, a, b, l, d
<1> QED BY <1>1, <1>6, <1>13, <1>14 DEF Meets

(* What was added by codes is among what was added. *)
CodesAdded == \A c \in comps : c \in Components /\ <<CodesPattern(c), NstUnset, NstUnset, 0>> \in added

LEMMA CallsKeepCodes == CodesAdded /\ [SelNext]_selVars => CodesAdded'
<1> SUFFICES ASSUME CodesAdded, [SelNext]_selVars PROVE CodesAdded'
  OBVIOUS
<1>1. ASSUME comps' = comps, added \subseteq added' PROVE CodesAdded'
  BY <1>1 DEF CodesAdded
<1>2. ASSUME NEW e \in Entries, ms3_addselect(e) PROVE CodesAdded'
  <2>1. comps' = comps /\ added' = added \cup {e}
    BY <1>2 DEF ms3_addselect
  <2> QED BY <1>1, <2>1
<1>3. ASSUME NEW c \in Components, ms3_addselect_comp(c) PROVE CodesAdded'
  <2>1. comps' = comps \cup {c} /\ added' = added \cup {<<CodesPattern(c), NstUnset, NstUnset, 0>>}
    BY <1>3 DEF ms3_addselect_comp
  <2> QED BY <2>1 DEF CodesAdded
<1>4. ASSUME NEW lines \in SelFiles, ms3_readselectionsfile(lines) PROVE CodesAdded'
  <2>1. comps' = comps /\ added \subseteq added'
    BY <1>4 DEF ms3_readselectionsfile
  <2> QED BY <1>1, <2>1
<1>5. ASSUME NEW q \in Queries, ms3_matchselect(q) PROVE CodesAdded'
  <2>1. comps' = comps /\ added' = added
    BY <1>5 DEF ms3_matchselect
  <2> QED BY <1>1, <2>1
<1>6. ASSUME ms3_freeselections PROVE CodesAdded'
  <2>1. comps' = {}
    BY <1>6 DEF ms3_freeselections
  <2> QED BY <2>1 DEF CodesAdded
<1>7. ASSUME UNCHANGED selVars PROVE CodesAdded'
  <2>1. comps' = comps /\ added' = added
    BY <1>7 DEF selVars
  <2> QED BY <1>1, <2>1
<1> QED BY <1>2, <1>3, <1>4, <1>5, <1>6, <1>7 DEF SelNext

LEMMA CodesFound == PlainCodes /\ SelectionInv /\ CodesAdded => CodesSelected
<1> SUFFICES ASSUME PlainCodes, SelectionInv, CodesAdded, hit.query # <<>>, hit.sel = <<>>,
                    NEW c \in comps, CodesMatch(SidCodes(hit.query[1]), c)
             PROVE  FALSE
  BY DEF CodesSelected
<1>1. PICK q \in Queries : hit.query = q /\ \A i \in 1 .. Len(sels) : ~Matches(q, sels[i])
  BY DEF SelectionInv, HitIs
<1>2. c \in Components /\ <<CodesPattern(c), NstUnset, NstUnset, 0>> \in added
  BY DEF CodesAdded
<1>3. /\ Means(q[1], CodesPattern(c)) /\ CodesPattern(c) \in Strings /\ q[1] \in Strings
      /\ CutPattern(CodesPattern(c)) = CodesPattern(c)
  <2>1. q[1] \in Strings
    BY SelectionAssumption
  <2> QED BY <1>1, <1>2, <2>1, CodesMeet
<1>4. ms_globmatch(q[1], CodesPattern(c))
  BY <1>3, GlobIs
<1> DEFINE e == <<CodesPattern(c), NstUnset, NstUnset, 0>>
<1>5. PICK i \in 1 .. Len(sels), j \in Nat : j \in 1 .. Len(sels[i].windows) /\ e = EntryAt(sels, i, j)
  <2>1. Kept(e) = e
    BY <1>3, Zenon DEF Kept
  <2>2. Kept(e) \in KeptEntries
    BY <1>2, Zenon DEF KeptEntries
  <2>3. Held(sels, e)
    BY <2>1, <2>2 DEF SelectionInv
  <2> HIDE DEF e
  <2> QED BY <2>3 DEF Held
<1>6. /\ sels[i].pattern = CodesPattern(c) /\ sels[i].pub = 0
      /\ sels[i].windows[j][1] = NstUnset /\ sels[i].windows[j][2] = NstUnset
  BY <1>5 DEF EntryAt
<1>7. ~PassedOver(q, sels[i].windows[j])
  BY <1>6 DEF PassedOver, Open
<1>8. Matches(q, sels[i])
  BY <1>4, <1>5, <1>6, <1>7 DEF Matches
<1> QED BY <1>1, <1>8

(* ms3_addselect_comp() and ms3_matchselect(): besides, data that are not  *)
(* selected have codes that match none of the selections by codes, when    *)
(* these codes do not take in the separators they are joined with.         *)
THEOREM SelectionsAreAsAsked == PlainCodes => (SelSpec => []SelectsAsAsked)
<1> SUFFICES ASSUME PlainCodes PROVE SelSpec => []SelectsAsAsked
  OBVIOUS
<1>1. SelInit => CodesAdded
  BY DEF SelInit, CodesAdded
<1>2. SelectionIsUnion /\ SelectionInv /\ CodesAdded => SelectsAsAsked
  BY CodesFound DEF SelectsAsAsked
<1>3. SelInit => SelectionInv
  BY NothingSelected
<1> QED BY <1>1, <1>2, <1>3, CallsKeepSelections, CallsKeepCodes, SelectedIs, PTL DEF SelSpec
=============================================================================
