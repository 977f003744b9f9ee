----------------------------- MODULE RateCalls ------------------------------
(* Callers that convert sample rates, and what they rely on.               *)
EXTENDS LibraryCall, RateConversion

CONSTANT Rates   \* rationals

Factorise == \E r \in Rates : Call("genfactmult", r, ms_genfactmult(r))

RateNext == call.op = "idle" /\ Factorise

-----------------------------------------------------------------------------
(* Properties.                                                             *)

(* A rate, or a period, that two factors can express.                      *)
Expressible(r) ==
  \/ r[1] % r[2] = 0 /\ \E f \in 1 .. MaxFactor : (r[1] \div r[2]) % f = 0 /\ (r[1] \div r[2]) \div f <= MaxFactor
  \/ r[1] % r[2] # 0 /\ \E d \in 1 .. MaxFactor - 1 : (r[1] * d) % r[2] = 0 /\ (r[1] * d) \div r[2] < MaxFactor

(* ms_genfactmult() and ms_nomsamprate(): a rate of at least one, or a     *)
(* period, that two factors of 16 bits express comes back exactly; another *)
(* one is refused or approximated with two factors that fit, less than one *)
(* sample per second, or one second, away where a single factor reaches.   *)
RateRoundTrip ==
  call.op = "genfactmult" =>
    LET r == call.arg
        fast == IF r[1] >= r[2] THEN r ELSE Reciprocal(r)
        v == call.val
        nominal == ms_nomsamprate(v.f, v.m)
    IN  \/ r[1] = 0 /\ v = Factors(0, 0)
        \/ ~v.ok /\ ~Expressible(fast)
        \/ /\ v.ok /\ v.f \in -MaxFactor .. MaxFactor /\ v.m \in -MaxFactor .. MaxFactor
           /\ IF Expressible(fast) THEN SameRate(nominal, r)
              ELSE fast[1] < MaxFactor * fast[2] =>
                     ~MoreThan(Apart(IF r[1] >= r[2] THEN nominal ELSE Reciprocal(nominal), fast), 1)
=============================================================================
