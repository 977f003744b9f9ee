---------------------------- MODULE GlobPattern -----------------------------
(***************************************************************************)
(* Glob patterns as source identifiers are matched with: ms_globmatch()    *)
(* and _match_charclass() in selection.c.  Strings are sequences of        *)
(* characters, At(s, i) is Nul at the terminator.                          *)
(***************************************************************************)
EXTENDS Integers, Sequences, SequencesExt

CONSTANT CharOrder   \* a function from characters to their codes
Nul == "nul"         \* the terminator

ASSUME CharOrderAssumption ==
  Nul \notin DOMAIN CharOrder /\ \A c \in DOMAIN CharOrder : CharOrder[c] \in Nat

Strings == Seq(DOMAIN CharOrder)

At(s, i) == IF i <= Len(s) THEN s[i] ELSE Nul
Code(c) == CharOrder[c]

(* The positions after the stars at i, and of the next of some characters  *)
(* or the end of the string.                                               *)
SkipStars(p, i) == Min({j \in i .. Len(p) + 1 : At(p, j) # "*"})
SkipTo(s, k, cs) == Min({j \in k .. Len(s) + 1 : At(s, j) \in {Nul} \cup cs})

-----------------------------------------------------------------------------
(* A class, from the character after "[" at position i: whether c is in it *)
(* and the position after "]".  A first "]" or "-" stands for itself, a    *)
(* range needs both ends, and a class without "]" matches nothing.  Items  *)
(* have no "]" in them, so the next one ends the class.                    *)
Negates(p, i) == At(p, i) \in {"^", "!"}
ClassStart(p, i) == IF Negates(p, i) THEN i + 1 ELSE i
ClassItems(p, i) ==
  LET j == IF At(p, ClassStart(p, i)) = "]" THEN ClassStart(p, i) + 1 ELSE ClassStart(p, i)
  IN  IF At(p, j) = "-" THEN j + 1 ELSE j
ClassEnd(p, i) == SkipTo(p, ClassItems(p, i), {"]"})

(* c is one of the items from i0 on. *)
InItems(p, i0, c) ==
  LET from[i \in Nat] ==
        IF At(p, i) \in {Nul, "]"} THEN FALSE
        ELSE IF /\ At(p, i + 1) = "-" /\ At(p, i + 2) \notin {Nul, "]"}
                /\ Code(At(p, i)) <= Code(At(p, i + 2))
             THEN Code(c) \in Code(p[i]) .. Code(p[i + 2]) \/ from[i + 3]
             ELSE c = p[i] \/ from[i + 1]
  IN  from[i0]

match_charclass(p, i, c) ==
  /\ At(p, ClassEnd(p, i)) = "]"
  /\ Negates(p, i) # \/ \E j \in ClassStart(p, i) .. ClassItems(p, i) - 1 : c = p[j]
                     \/ InItems(p, ClassItems(p, i), c)
AfterClass(p, i) == IF At(p, ClassEnd(p, i)) = "]" THEN ClassEnd(p, i) + 1 ELSE ClassEnd(p, i)

-----------------------------------------------------------------------------
(* The loop.                                                               *)

(* A character that stands for itself: a backslash takes the next one.     *)
Escapes(p, i) == At(p, i) = "\\" /\ At(p, i + 1) # Nul
Literal(p, i) == IF Escapes(p, i) THEN p[i + 1] ELSE At(p, i)
AfterLiteral(p, i) == IF Escapes(p, i) THEN i + 2 ELSE i + 1

(* The position in the string that the pattern after a star can match      *)
(* first.                                                                  *)
BadStarAt(s, p, j, k) == IF At(p, j) \notin {"?", "[", "*"} THEN SkipTo(s, k, {At(p, j)}) ELSE k
StarAt(s, p, j, k) == IF Literal(p, j) \notin {"?", "[", "*"} THEN SkipTo(s, k, {Literal(p, j)}) ELSE k

(* A turn: string position k, pattern position i, the pattern after the    *)
(* last star (0 if there was none) with where it was met in the string,    *)
(* and what is returned.                                                   *)
GlobStates(s, p) ==
  {x \in [k : 1 .. Len(s) + 1, i : 1 .. Len(p) + 1, star : 0 .. Len(p) + 1, at : 0 .. Len(s) + 1,
          ret : {"none", "match", "nomatch"}] : x.star <= x.i /\ x.at <= x.k}

(* The last star takes one more character.                                 *)
Backtrack(s, x) ==
  IF x.star = 0 \/ At(s, x.at) = Nul THEN [x EXCEPT !.ret = "nomatch"]
  ELSE [x EXCEPT !.k = x.at + 1, !.i = x.star, !.at = x.at + 1]

GlobTurn(s, p, x) ==
  LET c == At(p, x.i)
      d == At(s, x.k)
      back == Backtrack(s, x)
      next(i) == [x EXCEPT !.k = x.k + 1, !.i = i]
      j == SkipStars(p, x.i)
      k == StarAt(s, p, j, x.k)
  IN  CASE c = Nul -> IF d = Nul THEN [x EXCEPT !.ret = "match"] ELSE back
        [] c = "?" -> IF d = Nul THEN back ELSE next(x.i + 1)
        [] c = "*" -> IF At(p, j) = Nul THEN [x EXCEPT !.ret = "match"]
                      ELSE [x EXCEPT !.k = k, !.i = j, !.star = j, !.at = k]
        [] c = "[" -> IF d = Nul \/ ~match_charclass(p, x.i + 1, d) THEN back ELSE next(AfterClass(p, x.i + 1))
        [] OTHER -> IF d # Literal(p, x.i) THEN back ELSE next(AfterLiteral(p, x.i))

GlobLoop(s, p) ==
  LET loop[x \in GlobStates(s, p)] == IF x.ret = "none" THEN loop[GlobTurn(s, p, x)] ELSE x.ret = "match"
  IN  loop

ms_globmatch(string, pattern) ==
  GlobLoop(string, pattern)[[k |-> 1, i |-> 1, star |-> 0, at |-> 0, ret |-> "none"]]

-----------------------------------------------------------------------------
(* Reference: what a pattern means.  A star matches any characters, also   *)
(* none, a question mark any one, a class one of its characters.           *)
Accepts(p, i, c) ==
  CASE p[i] = "?" -> TRUE
    [] p[i] = "[" -> match_charclass(p, i + 1, c)
    [] OTHER -> c = Literal(p, i)
Following(p, i) ==
  CASE p[i] \in {"?", "*"} -> i + 1
    [] p[i] = "[" -> AfterClass(p, i + 1)
    [] OTHER -> AfterLiteral(p, i)

(* The positions in s where the rest matches the rest of p, from each i.   *)
MatchingFrom(s, p) ==
  LET from[i \in 1 .. Len(p) + 1] ==
        IF i > Len(p) THEN {Len(s) + 1}
        ELSE LET rest == from[Following(p, i)]
             IN  IF p[i] = "*" THEN {k \in 1 .. Len(s) + 1 : \E j \in rest : k <= j}
                 ELSE {k \in 1 .. Len(s) : Accepts(p, i, s[k]) /\ k + 1 \in rest}
  IN  from

Means(s, p) == 1 \in MatchingFrom(s, p)[1]
=============================================================================
