----------------------- MODULE TimeConversion_proofs ------------------------
(***************************************************************************)
(* Proofs about TimeConversion, whatever the units below a day: the        *)
(* calendar of the conversions is the real one, counted year by year, and  *)
(* dates, days of the year and epoch times are converted exactly.          *)
(***************************************************************************)
EXTENDS TimeConversion, TLAPS, FiniteSetTheorems, WellFoundedInduction

(* A set of natural numbers that is not empty has a least one. *)
LEMMA LeastNatural ==
  ASSUME NEW S \in SUBSET Nat, S # {}
  PROVE  \E m \in S : \A n \in S : m <= n
<1>1. PICK x \in S : \A y \in S : ~(<<y, x>> \in OpToRel(<, Nat))
  BY NatLessThanWellFounded, WFMin, Zenon
<1>2. \A y \in S : ~(y < x)
  BY <1>1 DEF OpToRel
<1> QED BY <1>2

(* Induction over the natural numbers, for a set of them. *)
LEMMA AllNaturals ==
  ASSUME NEW A, 0 \in A, \A n \in Nat : n \in A => n + 1 \in A
  PROVE  \A n \in Nat : n \in A
<1> SUFFICES ASSUME Nat \ A # {} PROVE FALSE
  OBVIOUS
<1>1. PICK n \in Nat \ A : \A m \in Nat \ A : n <= m
  BY LeastNatural
<1>2. n # 0 /\ n - 1 \in Nat
  BY <1>1
<1>3. n - 1 \in A
  BY <1>1, <1>2
<1>4. (n - 1) + 1 = n
  BY <1>1
<1> QED BY <1>1, <1>2, <1>3, <1>4

-----------------------------------------------------------------------------
(* Years.                                                                  *)

(* The leap years up to y, and the days before y, of the calendar as it    *)
(* would go on backwards.                                                  *)
Leaps(y) == (y \div 4) - (y \div 100) + (y \div 400)
Before(y) == 365 * y + Leaps(y - 1)

LEMMA LeapsStep ==
  ASSUME NEW y \in Int
  PROVE  Leaps(y) - Leaps(y - 1) = IF LEAPYEAR(y) THEN 1 ELSE 0
<1>1. (y \div 4) - ((y - 1) \div 4) = IF y % 4 = 0 THEN 1 ELSE 0
  OBVIOUS
<1>2. (y \div 100) - ((y - 1) \div 100) = IF y % 100 = 0 THEN 1 ELSE 0
  OBVIOUS
<1>3. (y \div 400) - ((y - 1) \div 400) = IF y % 400 = 0 THEN 1 ELSE 0
  OBVIOUS
<1>4. (y % 100 = 0 => y % 4 = 0) /\ (y % 400 = 0 => y % 100 = 0)
  OBVIOUS
<1>5. /\ y \div 4 \in Int /\ (y - 1) \div 4 \in Int /\ y \div 100 \in Int /\ (y - 1) \div 100 \in Int
      /\ y \div 400 \in Int /\ (y - 1) \div 400 \in Int
  OBVIOUS
<1> QED BY <1>1, <1>2, <1>3, <1>4, <1>5 DEF Leaps, LEAPYEAR

LEMMA YearTypes ==
  ASSUME NEW y \in Int
  PROVE  /\ Leaps(y) \in Int /\ Before(y) \in Int
         /\ YearLength(y) \in {365, 366}
         /\ Before(y + 1) = Before(y) + YearLength(y)
<1>1. \A x \in Int : Leaps(x) \in Int
  BY DEF Leaps
<1>2. y - 1 \in Int /\ (y + 1) - 1 = y
  OBVIOUS
<1>3. Before(y + 1) = 365 * (y + 1) + Leaps(y)
  BY <1>2 DEF Before
<1>4. Before(y) = 365 * y + Leaps(y - 1)
  BY DEF Before
<1>5. Leaps(y) - Leaps(y - 1) = IF LEAPYEAR(y) THEN 1 ELSE 0
  BY LeapsStep
<1>6. Leaps(y) \in Int /\ Leaps(y - 1) \in Int
  BY <1>1, <1>2
<1>7. YearLength(y) = IF LEAPYEAR(y) THEN 366 ELSE 365
  BY DEF YearLength
<1> QED BY <1>3, <1>4, <1>5, <1>6, <1>7

LEMMA DaysBetweenIs ==
  ASSUME NEW a \in Int, NEW b \in Int
  PROVE  DaysBetween(a, b) = Before(b) - Before(a)
  BY DEF DaysBetween, Before, Leaps

(* Every year has 365 or 366 days, and two behind each other are not both  *)
(* longer.                                                                 *)
YearsApart(y, n) ==
  /\ 365 * n <= Before(y + n) - Before(y)
  /\ Before(y + n) - Before(y) <= 366 * n
  /\ n >= 2 => Before(y + n) - Before(y) < 366 * n

LEMMA YearsBounded ==
  ASSUME NEW y \in Int
  PROVE  \A n \in Nat : YearsApart(y, n)
<1> DEFINE Bounded(n) == /\ 365 * n <= Before(y + n) - Before(y)
                         /\ Before(y + n) - Before(y) <= 366 * n
                         /\ n >= 2 => Before(y + n) - Before(y) < 366 * n
           A == {n \in Nat : Bounded(n) /\ (n = 1 => Before(y + n) - Before(y) = YearLength(y))}
<1>1. 0 \in A
  BY YearTypes
<1>2. ASSUME NEW n \in Nat, n \in A PROVE n + 1 \in A
  <2>1. /\ Before(y + (n + 1)) = Before(y + n) + YearLength(y + n)
        /\ YearLength(y + n) \in {365, 366}
        /\ Before(y + n) \in Int /\ Before(y) \in Int
    <3>1. y + n \in Int /\ (y + n) + 1 = y + (n + 1)
      OBVIOUS
    <3> QED BY <3>1, YearTypes
  <2>2. CASE n = 0
    <3>1. YearLength(y) \in {365, 366} /\ y + 0 = y
      BY YearTypes
    <3> QED BY <2>1, <2>2, <3>1
  <2>3. CASE n = 1
    <3>1. YearLength(y + 1) = 365 \/ YearLength(y) = 365
      BY DEF YearLength, LEAPYEAR
    <3>2. YearLength(y) \in {365, 366}
      BY YearTypes
    <3>3. Before(y + n) - Before(y) = YearLength(y)
      BY <1>2, <2>3
    <3> QED BY <2>1, <2>3, <3>1, <3>2, <3>3
  <2>4. CASE n >= 2
    BY <1>2, <2>1, <2>4
  <2> QED BY <2>2, <2>3, <2>4
<1> HIDE DEF A
<1>3. \A n \in Nat : n \in A
  BY <1>1, <1>2, AllNaturals
<1> QED BY <1>3 DEF A, YearsApart

(* The year of a day is the one before whose end it is.                    *)
LEMMA YearOfDay ==
  ASSUME NEW y \in Int, NEW m \in Nat
  PROVE  \E k \in Nat : Before(y + k) - Before(y) <= m /\ m < Before(y + k + 1) - Before(y)
<1> DEFINE B == {k \in Nat : m < Before(y + k + 1) - Before(y)}
<1>1. \A k \in Nat : Before(y + k) \in Int /\ Before(y) \in Int /\ y + k + 1 = y + (k + 1)
  BY YearTypes
<1>2. m \in B
  <2> DEFINE n == m + 1
  <2>0. n \in Nat /\ n = m + 1 /\ y + n \in Int
    OBVIOUS
  <2> HIDE DEF n
  <2>1. 365 * n <= Before(y + n) - Before(y)
    <3>1. YearsApart(y, n)
      BY <2>0, YearsBounded
    <3> QED BY <3>1 DEF YearsApart
  <2>2. Before(y + n) \in Int /\ Before(y) \in Int
    BY <2>0, YearTypes
  <2>3. y + m + 1 = y + n
    BY <2>0
  <2>4. m < Before(y + n) - Before(y)
    BY <2>0, <2>1, <2>2
  <2> QED BY <2>3, <2>4
<1>3. PICK k \in B : \A j \in B : k <= j
  BY <1>2, LeastNatural
<1>4. CASE k = 0
  <2>1. y + k = y /\ Before(y) - Before(y) <= m
    BY <1>1, <1>4
  <2> QED BY <1>3, <2>1
<1>5. CASE k # 0
  <2>1. k - 1 \in Nat /\ k - 1 \notin B /\ y + (k - 1) + 1 = y + k
    BY <1>3, <1>5
  <2>2. ~(m < Before(y + k) - Before(y))
    BY <2>1
  <2>3. Before(y + k) - Before(y) <= m
    BY <1>1, <2>2
  <2> QED BY <1>3, <2>3
<1> QED BY <1>4, <1>5

(* The loop that goes forward.                                             *)
LEMMA YearsForwardIs ==
  ASSUME NEW y \in Int, NEW m \in Nat
  PROVE  \E z \in Int : /\ YearsForward(m, y) = <<m - (Before(z) - Before(y)), z>>
                        /\ Before(z) - Before(y) <= m /\ m < Before(z + 1) - Before(y)
<1> DEFINE D == y + (m \div 366) .. y + (m \div 365)
           P(z) == DaysBetween(y, z) <= m /\ m < DaysBetween(y, z + 1)
           z == CHOOSE x \in D : P(x)
<1>1. D \subseteq Int
  OBVIOUS
<1>2. \A x \in Int : x + 1 \in Int /\ DaysBetween(y, x) = Before(x) - Before(y) /\ DaysBetween(y, x + 1) = Before(x + 1) - Before(y)
  BY DaysBetweenIs
<1>3. \E x \in D : P(x)
  <2>1. PICK k \in Nat : Before(y + k) - Before(y) <= m /\ m < Before(y + k + 1) - Before(y)
    BY YearOfDay
  <2>2. 365 * k <= Before(y + k) - Before(y)
    <3>1. YearsApart(y, k)
      BY YearsBounded
    <3> QED BY <3>1 DEF YearsApart
  <2>3. Before(y + k + 1) - Before(y) <= 366 * (k + 1)
    <3> DEFINE j == k + 1
    <3>1. j \in Nat /\ y + k + 1 = y + j
      OBVIOUS
    <3> HIDE DEF j
    <3>2. Before(y + j) - Before(y) <= 366 * j
      <4>1. YearsApart(y, j)
        BY <3>1, YearsBounded
      <4> QED BY <4>1 DEF YearsApart
    <3> QED BY <3>1, <3>2 DEF j
  <2>4. y + k \in Int /\ Before(y + k) \in Int /\ Before(y) \in Int /\ Before(y + k + 1) \in Int
    BY YearTypes
  <2>5. 365 * k <= m /\ m < 366 * (k + 1)
    BY <2>1, <2>2, <2>3, <2>4
  <2>6. m \div 366 <= k /\ k <= m \div 365
    BY <2>5
  <2>7. y + k \in D
    BY <2>6
  <2>8. P(y + k)
    BY <1>2, <2>1, <2>4
  <2> QED BY <2>7, <2>8
<1>4. z \in D /\ P(z)
  <2> HIDE DEF D, P
  <2> QED BY <1>3
<1>5. YearsForward(m, y) = <<m - DaysBetween(y, z), z>>
  BY DEF YearsForward
<1> HIDE DEF z, D
<1> QED BY <1>1, <1>2, <1>4, <1>5

(* And the one that goes back, by more than one year.                      *)
BackTo(y, n, z) ==
  /\ YearsBack(-n, y) = <<-n + (Before(y + 1) - Before(z + 1)), z>>
  /\ Before(z) <= Before(y + 1) - n /\ Before(y + 1) - n < Before(z + 1)

LEMMA YearsBackIs ==
  ASSUME NEW y \in Int, NEW n \in Nat, n > 366
  PROVE  \E z \in Int : BackTo(y, n, z)
<1> DEFINE D == y - ((-(-n)) \div 365) .. y - ((-(-n)) \div 366)
           P(z) == DaysBetween(z, y + 1) >= -(-n) /\ -(-n) > DaysBetween(z + 1, y + 1)
           z == CHOOSE x \in D : P(x)
<1>0. -(-n) = n
  OBVIOUS
<1>1. D \subseteq Int
  OBVIOUS
<1>2. \A x \in Int : x + 1 \in Int /\ DaysBetween(x, y + 1) = Before(y + 1) - Before(x) /\ DaysBetween(x + 1, y + 1) = Before(y + 1) - Before(x + 1)
  BY DaysBetweenIs
<1>3. \E x \in D : P(x)
  <2> DEFINE s == y + 1 - n
             m == Before(y + 1) - n - Before(s)
  <2>1. s \in Int /\ s + n = y + 1 /\ Before(s) \in Int /\ Before(y + 1) \in Int
    BY YearTypes
  <2>2. m \in Nat
    <3>1. 365 * n <= Before(s + n) - Before(s)
      <4>1. YearsApart(s, n)
        BY <2>1, YearsBounded
      <4> QED BY <4>1 DEF YearsApart
    <3> HIDE DEF s
    <3> QED BY <2>1, <3>1
  <2>3. PICK k \in Nat : Before(s + k) - Before(s) <= m /\ m < Before(s + k + 1) - Before(s)
    <3> HIDE DEF s, m
    <3> QED BY <2>1, <2>2, YearOfDay
  <2> DEFINE x == s + k
  <2>4. x \in Int /\ Before(x) \in Int /\ Before(x + 1) \in Int
    BY <2>1, YearTypes
  <2>5. Before(x) <= Before(y + 1) - n /\ Before(y + 1) - n < Before(x + 1)
    <3>1. s + k + 1 = x + 1
      OBVIOUS
    <3> HIDE DEF s, x
    <3> QED BY <2>1, <2>3, <2>4, <3>1 DEF x
  <2> HIDE DEF x, s, m
  <2> DEFINE j == y + 1 - x
  <2>6. x < y + 1
    <3> SUFFICES ASSUME x >= y + 1 PROVE FALSE
      BY <2>4
    <3> DEFINE d == x - (y + 1)
    <3>1. d \in Nat /\ (y + 1) + d = x /\ y + 1 \in Int
      BY <2>4
    <3> HIDE DEF d
    <3>2. 365 * d <= Before((y + 1) + d) - Before(y + 1)
      <4>1. YearsApart(y + 1, d)
        BY <3>1, YearsBounded
      <4> QED BY <4>1 DEF YearsApart
    <3> QED BY <2>1, <2>4, <2>5, <3>1, <3>2
  <2>7. j \in Nat /\ j >= 1 /\ x + j = y + 1 /\ j - 1 \in Nat /\ (x + 1) + (j - 1) = y + 1
    BY <2>4, <2>6
  <2> HIDE DEF j
  <2>8. /\ 365 * j <= Before(y + 1) - Before(x) /\ Before(y + 1) - Before(x) <= 366 * j
        /\ j >= 2 => Before(y + 1) - Before(x) < 366 * j
    <3>1. /\ 365 * j <= Before(x + j) - Before(x) /\ Before(x + j) - Before(x) <= 366 * j
          /\ j >= 2 => Before(x + j) - Before(x) < 366 * j
      <4>1. YearsApart(x, j)
        BY <2>4, <2>7, YearsBounded
      <4> QED BY <4>1 DEF YearsApart
    <3> QED BY <2>7, <3>1
  <2>9. 365 * (j - 1) <= Before(y + 1) - Before(x + 1)
    <3>1. x + 1 \in Int
      BY <2>4
    <3>2. 365 * (j - 1) <= Before((x + 1) + (j - 1)) - Before(x + 1)
      <4>1. YearsApart(x + 1, j - 1)
        BY <2>7, <3>1, YearsBounded
      <4> QED BY <4>1 DEF YearsApart
    <3> QED BY <2>7, <3>2
  <2>10. 365 * (j - 1) <= n /\ n < 366 * j
    BY <2>1, <2>4, <2>5, <2>7, <2>8, <2>9
  <2>11. n \div 366 <= j - 1 /\ j - 1 <= n \div 365
    BY <2>7, <2>10
  <2>12. x \in D
    BY <1>0, <2>4, <2>7, <2>11
  <2>13. P(x)
    BY <1>0, <1>2, <2>1, <2>4, <2>5
  <2> QED BY <2>12, <2>13
<1>4. z \in D /\ P(z)
  <2> HIDE DEF D, P
  <2> QED BY <1>3
<1>5. YearsBack(-n, y) = <<-n + DaysBetween(z + 1, y + 1), z>>
  BY DEF YearsBack
<1> HIDE DEF z, D
<1>6. z \in Int /\ Before(z) \in Int /\ Before(z + 1) \in Int /\ Before(y + 1) \in Int
  BY <1>1, <1>4, YearTypes
<1>7. Before(z) <= Before(y + 1) - n /\ Before(y + 1) - n < Before(z + 1)
  BY <1>0, <1>2, <1>4, <1>6
<1>8. DaysBetween(z + 1, y + 1) = Before(y + 1) - Before(z + 1)
  BY <1>2, <1>6
<1> QED BY <1>5, <1>6, <1>7, <1>8 DEF BackTo

(* The calendar repeats itself.                                            *)
LEMMA CyclesAlike ==
  ASSUME NEW y \in Int, NEW c \in Int
  PROVE  Before(y + 400 * c) = Before(y) + c * CycleDays
<1> DEFINE x == y - 1
<1>1. (x + 400 * c) \div 4 = (x \div 4) + 100 * c
  OBVIOUS
<1>2. (x + 400 * c) \div 100 = (x \div 100) + 4 * c
  OBVIOUS
<1>3. (x + 400 * c) \div 400 = (x \div 400) + c
  OBVIOUS
<1>4. (y + 400 * c) - 1 = x + 400 * c
  OBVIOUS
<1>5. x \in Int /\ x \div 4 \in Int /\ x \div 100 \in Int /\ x \div 400 \in Int
  OBVIOUS
<1> HIDE DEF x
<1>6. Leaps((y + 400 * c) - 1) = Leaps(x) + 97 * c /\ Leaps(x) \in Int
  BY <1>1, <1>2, <1>3, <1>4, <1>5 DEF Leaps
<1>7. Before(y) = 365 * y + Leaps(x)
  BY DEF Before, x
<1>8. CycleDays = 146097
  BY DEF CycleDays
<1> QED BY <1>6, <1>7, <1>8 DEF Before

(* The year that a day is in, and how far.                                 *)
InYear(day, y, yd) == yd < YearLength(y) /\ day = Before(y) + yd - Before(1970)

LEMMA DayOfIs ==
  ASSUME NEW day \in Int
  PROVE  \E y \in Int, yd \in Nat : DayOf(day) = <<yd, y>> /\ InYear(day, y, yd)
<1> DEFINE start == IF day >= CHEAT_DAYS THEN 2008 ELSE 1970
           m == IF day >= CHEAT_DAYS THEN day - CHEAT_DAYS ELSE day
           cycles == IF m >= 0 THEN CDiv(m, CycleDays) ELSE CDiv(m, CycleDays) + 1
           rest == m - cycles * CycleDays
           last == YearsBack(rest, start - 1 + 400 * cycles)
<1>1. DayOf(day) = IF m >= 0 THEN YearsForward(rest, start + 400 * cycles)
                   ELSE <<last[1] + YearLength(last[2]), last[2]>>
  BY DEF DayOf
<1>2. start \in Int /\ m \in Int /\ day = m + Before(start) - Before(1970) /\ Before(start) \in Int /\ Before(1970) \in Int
  <2>1. Before(2008) = Before(1970) + CHEAT_DAYS /\ Before(1970) \in Int /\ CHEAT_DAYS = 13879
    BY DEF Before, Leaps, CHEAT_DAYS
  <2> QED BY <2>1
<1> HIDE DEF start, m
<1>3. CycleDays = 146097
  BY DEF CycleDays
<1>4. cycles \in Int /\ rest \in Int /\ m = rest + cycles * CycleDays /\ (IF m >= 0 THEN rest \in Nat ELSE -rest \in Nat /\ -rest > 366)
  BY <1>2, <1>3 DEF CDiv
<1> HIDE DEF cycles, rest
<1> DEFINE first == start + 400 * cycles
<1>5. first \in Int /\ Before(first) = Before(start) + cycles * CycleDays /\ Before(first) \in Int
  BY <1>2, <1>4, CyclesAlike, YearTypes
<1>6. day = rest + Before(first) - Before(1970)
  <2>1. cycles * CycleDays \in Int
    BY <1>3, <1>4
  <2> DEFINE p == cycles * CycleDays
  <2> HIDE DEF p
  <2>2. m = rest + p /\ Before(first) = Before(start) + p /\ p \in Int
    BY <1>4, <1>5, <2>1 DEF p
  <2> HIDE DEF first
  <2> QED BY <1>2, <1>4, <1>5, <2>2
<1>7. CASE m >= 0
  <2>1. PICK z \in Int : /\ YearsForward(rest, first) = <<rest - (Before(z) - Before(first)), z>>
                         /\ Before(z) - Before(first) <= rest /\ rest < Before(z + 1) - Before(first)
    <3> HIDE DEF first
    <3> QED BY <1>4, <1>5, <1>7, YearsForwardIs
  <2>2. Before(z) \in Int /\ Before(z + 1) = Before(z) + YearLength(z) /\ YearLength(z) \in Int
    BY YearTypes
  <2> DEFINE yd == rest - (Before(z) - Before(first))
  <2>3. yd \in Nat /\ yd < YearLength(z) /\ day = Before(z) + yd - Before(1970)
    <3> HIDE DEF first
    <3> QED BY <1>2, <1>4, <1>5, <1>6, <2>1, <2>2
  <2>4. DayOf(day) = <<yd, z>>
    BY <1>1, <1>7, <2>1
  <2> HIDE DEF yd
  <2> QED BY <2>3, <2>4 DEF InYear
<1>8. CASE ~(m >= 0)
  <2> DEFINE y == start - 1 + 400 * cycles
             n == -rest
  <2>1. y \in Int /\ y + 1 = first /\ n \in Nat /\ n > 366 /\ rest = -n
    BY <1>2, <1>4, <1>8
  <2> HIDE DEF n
  <2>2. PICK z \in Int : BackTo(y, n, z)
    <3> HIDE DEF y
    <3> QED BY <2>1, YearsBackIs
  <2>3. Before(z) \in Int /\ Before(z + 1) = Before(z) + YearLength(z) /\ YearLength(z) \in Int
    BY YearTypes
  <2>4. last = <<rest + (Before(first) - Before(z + 1)), z>>
    BY <2>1, <2>2 DEF BackTo
  <2> DEFINE yd == (rest + (Before(first) - Before(z + 1))) + YearLength(z)
  <2>5. DayOf(day) = <<yd, z>>
    BY <1>1, <1>8, <2>4
  <2>6. Before(z) <= Before(first) + rest /\ Before(first) + rest < Before(z + 1)
    <3> HIDE DEF first, y
    <3> QED BY <1>4, <1>5, <2>1, <2>2 DEF BackTo
  <2>7. yd \in Nat /\ yd < YearLength(z) /\ day = Before(z) + yd - Before(1970)
    <3> HIDE DEF first
    <3> QED BY <1>2, <1>4, <1>5, <1>6, <2>3, <2>6
  <2> HIDE DEF yd
  <2> QED BY <2>5, <2>7 DEF InYear
<1> QED BY <1>7, <1>8

-----------------------------------------------------------------------------
(* The reference counts the same leap years.                               *)

LeapYears(a, b) == {y \in a .. b : LEAPYEAR(y)}

LEMMA LeapYearsCounted ==
  ASSUME NEW a \in Int
  PROVE  \A n \in Nat : /\ IsFiniteSet(LeapYears(a, a + n - 1))
                        /\ Cardinality(LeapYears(a, a + n - 1)) = Leaps(a + n - 1) - Leaps(a - 1)
<1> DEFINE A == {n \in Nat : /\ IsFiniteSet(LeapYears(a, a + n - 1))
                             /\ Cardinality(LeapYears(a, a + n - 1)) = Leaps(a + n - 1) - Leaps(a - 1)}
<1>1. 0 \in A
  <2>1. LeapYears(a, a + 0 - 1) = {}
    BY DEF LeapYears
  <2>2. a + 0 - 1 = a - 1 /\ Leaps(a - 1) \in Int
    BY YearTypes
  <2> QED BY <2>1, <2>2, FS_EmptySet
<1>2. ASSUME NEW n \in Nat, n \in A PROVE n + 1 \in A
  <2> DEFINE y == a + n
             S == LeapYears(a, a + n - 1)
             T == LeapYears(a, y)
  <2>1. a + (n + 1) - 1 = y /\ y - 1 = a + n - 1 /\ y \in Int /\ a - 1 \in Int /\ a + n - 1 \in Int
    OBVIOUS
  <2>2. T = S \cup (IF LEAPYEAR(y) THEN {y} ELSE {}) /\ y \notin S
    BY DEF LeapYears
  <2>3. IsFiniteSet(S) /\ Cardinality(S) = Leaps(a + n - 1) - Leaps(a - 1)
    BY <1>2
  <2>4. Leaps(y) - Leaps(a + n - 1) = IF LEAPYEAR(y) THEN 1 ELSE 0
    BY <2>1, LeapsStep
  <2>5. Leaps(y) \in Int /\ Leaps(a + n - 1) \in Int /\ Leaps(a - 1) \in Int
    <3> HIDE DEF y
    <3> QED BY <2>1, YearTypes
  <2> HIDE DEF S, T, y
  <2>6. IsFiniteSet(T) /\ Cardinality(T) = Leaps(y) - Leaps(a - 1)
    <3>1. CASE LEAPYEAR(y)
      <4>1. T = S \cup {y}
        BY <2>2, <3>1
      <4>2. IsFiniteSet(T) /\ Cardinality(T) = Cardinality(S) + 1
        BY <2>2, <2>3, <4>1, FS_AddElement
      <4> QED BY <2>3, <2>4, <2>5, <3>1, <4>2
    <3>2. CASE ~LEAPYEAR(y)
      <4>1. T = S
        BY <2>2, <3>2
      <4> QED BY <2>3, <2>4, <2>5, <3>2, <4>1
    <3> QED BY <3>1, <3>2
  <2>7. IsFiniteSet(LeapYears(a, a + (n + 1) - 1)) /\ Cardinality(LeapYears(a, a + (n + 1) - 1)) = Leaps(a + (n + 1) - 1) - Leaps(a - 1)
    BY <2>1, <2>6 DEF T
  <2> QED BY <2>7
<1> HIDE DEF A
<1>3. \A n \in Nat : n \in A
  BY <1>1, <1>2, AllNaturals
<1> QED BY <1>3 DEF A

LEMMA LeapYearsBetween ==
  ASSUME NEW a \in Int, NEW b \in Int
  PROVE  Cardinality(LeapYears(a, b)) = IF a <= b THEN Leaps(b) - Leaps(a - 1) ELSE 0
<1>1. CASE a <= b
  <2> DEFINE n == b - a + 1
  <2>1. n \in Nat /\ a + n - 1 = b
    BY <1>1
  <2> HIDE DEF n
  <2> QED BY <1>1, <2>1, LeapYearsCounted
<1>2. CASE ~(a <= b)
  <2>1. LeapYears(a, b) = {}
    BY <1>2 DEF LeapYears
  <2> QED BY <1>2, <2>1, FS_EmptySet
<1> QED BY <1>1, <1>2

LEMMA RefDaysIs ==
  ASSUME NEW y \in Int, NEW yd \in Int
  PROVE  RefDays(y, yd) = Before(y) - Before(1970) + yd - 1
<1>1. RefDays(y, yd) = 365 * (y - 1970) + Cardinality(LeapYears(1970, y - 1)) - Cardinality(LeapYears(y, 1969)) + yd - 1
  BY DEF RefDays, LeapYears
<1>2. y - 1 \in Int /\ 1970 - 1 = 1969
  OBVIOUS
<1>3. Leaps(y - 1) \in Int /\ Leaps(1969) \in Int
  BY <1>2, YearTypes
<1>4. Cardinality(LeapYears(1970, y - 1)) = IF 1970 <= y - 1 THEN Leaps(y - 1) - Leaps(1969) ELSE 0
  BY <1>2, LeapYearsBetween
<1>5. Cardinality(LeapYears(y, 1969)) = IF y <= 1969 THEN Leaps(1969) - Leaps(y - 1) ELSE 0
  BY LeapYearsBetween
<1>6. Before(y) = 365 * y + Leaps(y - 1) /\ Before(1970) = 365 * 1970 + Leaps(1969)
  BY <1>2 DEF Before
<1> DEFINE p == Cardinality(LeapYears(1970, y - 1))
           q == Cardinality(LeapYears(y, 1969))
<1>7. p - q = Leaps(y - 1) - Leaps(1969) /\ p \in Int /\ q \in Int
  BY <1>3, <1>4, <1>5
<1>8. RefDays(y, yd) = 365 * (y - 1970) + p - q + yd - 1
  BY <1>1
<1> HIDE DEF p, q
<1> DEFINE l == Leaps(y - 1)
           k == Leaps(1969)
<1>9. l \in Int /\ k \in Int /\ p - q = l - k /\ Before(y) = 365 * y + l /\ Before(1970) = 365 * 1970 + k
  BY <1>3, <1>6, <1>7
<1> HIDE DEF l, k
<1>10. RefDays(y, yd) = 365 * (y - 1970) + (p - q) + yd - 1
  BY <1>7, <1>8
<1> QED BY <1>9, <1>10

(* The days that ms_time2nstime_int() counts.                              *)
EpochDays(year, yday) ==
  LET short == year - 1900
      a4 == (short \div 4) + 475 - (IF short % 4 = 0 THEN 1 ELSE 0)
      a100 == CDiv(a4, 25) - (IF CMod(a4, 25) < 0 THEN 1 ELSE 0)
  IN  365 * (short - 70) + (a4 - 492) - (a100 - 19) + ((a100 \div 4) - 4) + (yday - 1)

LEMMA EpochDaysIs ==
  ASSUME NEW year \in Int, VALIDYEAR(year), NEW yday \in Int
  PROVE  EpochDays(year, yday) = RefDays(year, yday)
<1> DEFINE short == year - 1900
           a4 == (short \div 4) + 475 - (IF short % 4 = 0 THEN 1 ELSE 0)
           a100 == CDiv(a4, 25) - (IF CMod(a4, 25) < 0 THEN 1 ELSE 0)
<1>1. year >= 1678
  BY DEF VALIDYEAR
<1>2. a4 = (year - 1) \div 4 /\ a4 \in Nat
  BY <1>1
<1>3. CDiv(a4, 25) = a4 \div 25 /\ CMod(a4, 25) \in Nat /\ a4 \div 25 \in Nat
  <2> HIDE DEF a4
  <2> QED BY <1>2 DEF CDiv, CMod
<1>4. a100 = (year - 1) \div 100 /\ a100 \div 4 = (year - 1) \div 400
  <2>1. a100 = a4 \div 25
    <3>1. ~(CMod(a4, 25) < 0)
      <4> HIDE DEF a4
      <4> QED BY <1>3
    <3>2. a100 = CDiv(a4, 25) - 0
      BY <3>1
    <3> HIDE DEF a4, a100
    <3> QED BY <1>3, <3>2
  <2> HIDE DEF a4, a100
  <2> QED BY <1>1, <1>2, <2>1
<1>5. EpochDays(year, yday) = 365 * (short - 70) + (a4 - 492) - (a100 - 19) + ((a100 \div 4) - 4) + (yday - 1)
  BY DEF EpochDays
<1> HIDE DEF a4, a100
<1>6. EpochDays(year, yday) = 365 * (year - 1970) + ((year - 1) \div 4) - ((year - 1) \div 100) + ((year - 1) \div 400) - 477 + yday - 1
  BY <1>2, <1>4, <1>5
<1>7. Before(1970) = 365 * 1970 + 477
  BY DEF Before, Leaps
<1>8. Before(year) = 365 * year + ((year - 1) \div 4) - ((year - 1) \div 100) + ((year - 1) \div 400)
  BY DEF Before, Leaps
<1> QED BY <1>6, <1>7, <1>8, RefDaysIs

-----------------------------------------------------------------------------
(* Units of time.                                                          *)

LEMMA Units ==
  /\ HourPerDay \in Nat \ {0} /\ MinPerHour \in Nat \ {0} /\ SecPerMin \in Nat \ {0}
  /\ NSTMODULUS \in Nat \ {0} /\ SecPerDay \in Nat \ {0}
  /\ MaxTime \in Nat /\ FirstTime \in Int
<1>1. /\ HourPerDay \in Nat \ {0} /\ MinPerHour \in Nat \ {0} /\ SecPerMin \in Nat \ {0}
      /\ SubMicro \in Nat \ {0} /\ MicroPerSec \in Nat \ {0} /\ LastDay \in Nat
  BY UnitsAssumption
<1>2. \A a, b \in Nat \ {0} : a * b \in Nat \ {0}
  OBVIOUS
<1>3. NSTMODULUS \in Nat \ {0}
  BY <1>1, <1>2 DEF NSTMODULUS
<1>4. SecPerDay \in Nat \ {0}
  BY <1>1, <1>2 DEF SecPerDay
<1>5. (LastDay + 1) * SecPerDay * NSTMODULUS \in Nat \ {0}
  BY <1>1, <1>2, <1>3, <1>4
<1>6. MaxTime \in Nat
  BY <1>5 DEF MaxTime
<1>7. FirstTime \in Int
  BY <1>3, <1>4 DEF FirstTime
<1> QED BY <1>1, <1>3, <1>4, <1>6, <1>7

(* A number of two digits, the higher one below x, the lower one below y.  *)
LEMMA TwoDigits ==
  ASSUME NEW x \in Nat, NEW y \in Nat, NEW a \in 0 .. x - 1, NEW b \in 0 .. y - 1
  PROVE  a * y + b \in 0 .. x * y - 1
<1>1. a + 1 <= x /\ a \in Nat
  OBVIOUS
<1>2. (a + 1) * y <= x * y
  <2>1. x = (a + 1) + (x - (a + 1)) /\ x - (a + 1) \in Nat
    BY <1>1
  <2> DEFINE k == x - (a + 1)
  <2> HIDE DEF k
  <2>2. x * y = (a + 1) * y + k * y /\ k * y \in Nat
    BY <1>1, <2>1 DEF k
  <2> QED BY <1>1, <2>2
<1>3. (a + 1) * y = a * y + y /\ a * y \in Nat
  BY <1>1
<1> QED BY <1>2, <1>3

(* Truncating division and what is left.                                   *)
LEMMA Truncated ==
  ASSUME NEW a \in Int, NEW b \in Nat \ {0}
  PROVE  /\ CDiv(a, b) \in Int /\ CMod(a, b) \in Int
         /\ a = b * CDiv(a, b) + CMod(a, b)
         /\ a >= 0 => CMod(a, b) \in 0 .. b - 1
         /\ a < 0 => CMod(a, b) \in -b + 1 .. 0
<1>1. CASE a >= 0
  <2>1. CDiv(a, b) = a \div b
    BY <1>1 DEF CDiv
  <2>2. a \div b \in Int /\ a % b \in 0 .. b - 1 /\ a = b * (a \div b) + (a % b)
    OBVIOUS
  <2>3. CMod(a, b) = a % b
    BY <2>1, <2>2 DEF CMod
  <2> QED BY <1>1, <2>1, <2>2, <2>3
<1>2. CASE a < 0
  <2> DEFINE c == -a
  <2>1. c \in Nat /\ a = -c
    BY <1>2
  <2>2. CDiv(a, b) = -(c \div b)
    BY <1>2 DEF CDiv
  <2> HIDE DEF c
  <2>3. c \div b \in Int /\ c % b \in 0 .. b - 1 /\ c = b * (c \div b) + (c % b)
    BY <2>1
  <2> DEFINE q == c \div b
             r == c % b
  <2> HIDE DEF q, r
  <2>4. q \in Int /\ r \in 0 .. b - 1 /\ c = b * q + r /\ CDiv(a, b) = -q
    BY <2>2, <2>3 DEF q, r
  <2>5. b * (-q) = -(b * q) /\ b * q \in Int
    BY <2>4
  <2>6. CMod(a, b) = -r
    BY <2>1, <2>4, <2>5 DEF CMod
  <2> QED BY <1>2, <2>1, <2>4, <2>5, <2>6
<1> QED BY <1>1, <1>2

(* A unit of ms_gmtime64_r(): what the one below borrowed is taken off.    *)
LEMMA Borrows ==
  ASSUME NEW a \in Int, NEW b \in Nat \ {0}, NEW c \in {-1, 0}
  PROVE  LET r == Wrap(CMod(a, b) + c, b)
         IN  /\ r[1] \in 0 .. b - 1 /\ r[2] \in {-1, 0}
             /\ a + c = b * (CDiv(a, b) + r[2]) + r[1]
<1> DEFINE q == CDiv(a, b)
           m == CMod(a, b)
           r == Wrap(m + c, b)
<1>1. q \in Int /\ m \in Int /\ a = b * q + m /\ m > -b /\ m < b
  <2>1. q \in Int /\ m \in Int /\ a = b * q + m /\ (a >= 0 => m \in 0 .. b - 1) /\ (a < 0 => m \in -b + 1 .. 0)
    BY Truncated
  <2> HIDE DEF q, m
  <2> QED BY <2>1
<1> HIDE DEF q, m
<1>2. CASE m + c < 0
  <2>1. r[1] = m + c + b /\ r[2] = -1
    BY <1>2 DEF Wrap
  <2> HIDE DEF r
  <2>2. b * (q + -1) = b * q - b /\ b * q \in Int
    BY <1>1
  <2>3. r[1] \in 0 .. b - 1 /\ r[2] \in {-1, 0}
    BY <1>1, <1>2, <2>1
  <2>4. a + c = b * (q + r[2]) + r[1]
    BY <1>1, <2>1, <2>2
  <2> QED BY <2>3, <2>4 DEF r, q, m
<1>3. CASE ~(m + c < 0)
  <2>1. r[1] = m + c /\ r[2] = 0
    BY <1>3 DEF Wrap
  <2> HIDE DEF r
  <2>2. b * (q + 0) = b * q /\ b * q \in Int
    BY <1>1
  <2>3. r[1] \in 0 .. b - 1 /\ r[2] \in {-1, 0}
    BY <1>1, <1>3, <2>1
  <2>4. a + c = b * (q + r[2]) + r[1]
    BY <1>1, <2>1, <2>2
  <2> QED BY <2>3, <2>4 DEF r, q, m
<1> QED BY <1>2, <1>3

(* The fields of a time: a day, and what is below it.                      *)
Clocked(time, day, h, m, s) ==
  /\ day \in Int /\ h \in 0 .. HourPerDay - 1 /\ m \in 0 .. MinPerHour - 1 /\ s \in 0 .. SecPerMin - 1
  /\ time = SecPerMin * (MinPerHour * (HourPerDay * day + h) + m) + s

LEMMA GmtimeIs ==
  ASSUME NEW time \in Int
  PROVE  \E day, h, m, s \in Int : /\ Clocked(time, day, h, m, s)
                                   /\ ms_gmtime64_r(time) = DateAt(DayOf(day), h, m, s)
<1> DEFINE mins == CDiv(time, SecPerMin)
           hours == CDiv(mins, MinPerHour)
           sec == Wrap(CMod(time, SecPerMin), SecPerMin)
           min == Wrap(CMod(mins, MinPerHour) + sec[2], MinPerHour)
           hour == Wrap(CMod(hours, HourPerDay) + min[2], HourPerDay)
           day == CDiv(hours, HourPerDay) + hour[2]
<1>1. HourPerDay \in Nat \ {0} /\ MinPerHour \in Nat \ {0} /\ SecPerMin \in Nat \ {0}
  BY Units
<1>2. ms_gmtime64_r(time) = DateAt(DayOf(day), hour[1], min[1], sec[1])
  BY DEF ms_gmtime64_r
<1>3. mins \in Int /\ CMod(time, SecPerMin) \in Int
  BY <1>1, Truncated
<1>4. sec[1] \in 0 .. SecPerMin - 1 /\ sec[2] \in {-1, 0} /\ time = SecPerMin * (mins + sec[2]) + sec[1]
  <2> DEFINE r == Wrap(CMod(time, SecPerMin) + 0, SecPerMin)
  <2>1. CMod(time, SecPerMin) + 0 = CMod(time, SecPerMin) /\ time + 0 = time
    BY <1>3
  <2>2. r[1] \in 0 .. SecPerMin - 1 /\ r[2] \in {-1, 0} /\ time + 0 = SecPerMin * (CDiv(time, SecPerMin) + r[2]) + r[1]
    BY <1>1, Borrows
  <2> QED BY <2>1, <2>2
<1> HIDE DEF mins, sec
<1>5. hours \in Int
  BY <1>1, <1>3, Truncated
<1>6. min[1] \in 0 .. MinPerHour - 1 /\ min[2] \in {-1, 0} /\ mins + sec[2] = MinPerHour * (hours + min[2]) + min[1]
  <2>1. MinPerHour \in Nat \ {0} /\ mins \in Int /\ sec[2] \in {-1, 0}
    BY <1>1, <1>3, <1>4
  <2> QED BY <2>1, Borrows
<1> HIDE DEF hours, min
<1>7. CDiv(hours, HourPerDay) \in Int
  BY <1>1, <1>5, Truncated
<1>8. hour[1] \in 0 .. HourPerDay - 1 /\ hour[2] \in {-1, 0} /\ hours + min[2] = HourPerDay * day + hour[1]
  <2>1. HourPerDay \in Nat \ {0} /\ hours \in Int /\ min[2] \in {-1, 0}
    BY <1>1, <1>5, <1>6
  <2> QED BY <2>1, Borrows
<1>9. day \in Int
  <2> HIDE DEF hour
  <2> QED BY <1>7, <1>8
<1> HIDE DEF day, hour
<1>10. Clocked(time, day, hour[1], min[1], sec[1])
  BY <1>4, <1>6, <1>8, <1>9 DEF Clocked
<1>11. hour[1] \in Int /\ min[1] \in Int /\ sec[1] \in Int
  BY <1>1, <1>4, <1>6, <1>8
<1> QED BY <1>2, <1>9, <1>10, <1>11

LEMMA SplitTimeIs ==
  ASSUME NEW t \in Int
  PROVE  \E isec \in Int, nsec \in 0 .. NSTMODULUS - 1 : SplitTime(t) = <<isec, nsec>> /\ t = isec * NSTMODULUS + nsec
<1> DEFINE q == CDiv(t, NSTMODULUS)
           f == t - q * NSTMODULUS
<1>1. NSTMODULUS \in Nat \ {0}
  BY Units
<1>2. /\ q \in Int /\ f \in Int /\ t = q * NSTMODULUS + f
      /\ t >= 0 => f \in 0 .. NSTMODULUS - 1
      /\ t < 0 => f \in -NSTMODULUS + 1 .. 0
  <2>1. /\ CDiv(t, NSTMODULUS) \in Int
        /\ t >= 0 => CMod(t, NSTMODULUS) \in 0 .. NSTMODULUS - 1
        /\ t < 0 => CMod(t, NSTMODULUS) \in -NSTMODULUS + 1 .. 0
    BY <1>1, Truncated
  <2>2. q * NSTMODULUS = NSTMODULUS * q /\ q * NSTMODULUS \in Int
    BY <1>1, <2>1
  <2>3. CMod(t, NSTMODULUS) = f
    BY <2>2 DEF CMod
  <2> DEFINE p == q * NSTMODULUS
  <2>4. f = t - p /\ p \in Int
    BY <2>2
  <2> HIDE DEF p
  <2>5. f \in Int /\ t = p + f
    <3> HIDE DEF f
    <3> QED BY <2>4
  <2> QED BY <2>1, <2>3, <2>5 DEF p
<1>3. SplitTime(t) = IF t < 0 /\ f # 0 THEN <<q - 1, NSTMODULUS + f>> ELSE <<q, f>>
  BY DEF SplitTime
<1> HIDE DEF q, f
<1>4. CASE t < 0 /\ f # 0
  <2>1. (q - 1) * NSTMODULUS = q * NSTMODULUS - NSTMODULUS /\ q * NSTMODULUS \in Int
    BY <1>1, <1>2
  <2>2. q - 1 \in Int /\ NSTMODULUS + f \in 0 .. NSTMODULUS - 1 /\ t = (q - 1) * NSTMODULUS + (NSTMODULUS + f)
    BY <1>1, <1>2, <1>4, <2>1
  <2> QED BY <1>3, <1>4, <2>2
<1>5. CASE ~(t < 0 /\ f # 0)
  <2>1. f \in 0 .. NSTMODULUS - 1
    BY <1>1, <1>2, <1>5
  <2> QED BY <1>2, <1>3, <1>5, <2>1
<1> QED BY <1>4, <1>5

-----------------------------------------------------------------------------
(* Times as dates.                                                         *)

(* The seconds of a day and of what is below.                              *)
LEMMA DayTime ==
  ASSUME NEW isec \in Int, NEW day, NEW h, NEW m, NEW s, Clocked(isec, day, h, m, s),
         NEW n \in 0 .. NSTMODULUS - 1
  PROVE  \E r \in 0 .. SecPerDay * NSTMODULUS - 1 : isec * NSTMODULUS + n = day * (SecPerDay * NSTMODULUS) + r
<1>1. HourPerDay \in Nat /\ MinPerHour \in Nat /\ SecPerMin \in Nat /\ NSTMODULUS \in Nat
  BY Units
<1>2. day \in Int /\ h \in 0 .. HourPerDay - 1 /\ m \in 0 .. MinPerHour - 1 /\ s \in 0 .. SecPerMin - 1
  BY DEF Clocked
<1> DEFINE hm == h * MinPerHour + m
           hms == hm * SecPerMin + s
           r == hms * NSTMODULUS + n
<1>3. hm \in 0 .. HourPerDay * MinPerHour - 1
  BY <1>1, <1>2, TwoDigits
<1> HIDE DEF hm
<1>4. hms \in 0 .. (HourPerDay * MinPerHour) * SecPerMin - 1
  <2>1. HourPerDay * MinPerHour \in Nat
    BY <1>1
  <2> QED BY <1>1, <1>2, <1>3, <2>1, TwoDigits
<1> HIDE DEF hms
<1>5. SecPerDay = (HourPerDay * MinPerHour) * SecPerMin /\ SecPerDay \in Nat
  BY Units DEF SecPerDay
<1>6. r \in 0 .. SecPerDay * NSTMODULUS - 1
  BY <1>1, <1>4, <1>5, TwoDigits
<1>7. isec = SecPerMin * (MinPerHour * (HourPerDay * day + h) + m) + s
  BY DEF Clocked
<1>8. isec = day * SecPerDay + hms
  <2> DEFINE p == HourPerDay * day
  <2>1. p \in Int /\ MinPerHour * (p + h) = MinPerHour * p + h * MinPerHour /\ MinPerHour * p \in Int /\ h * MinPerHour \in Int
    BY <1>1, <1>2
  <2>2. MinPerHour * (p + h) + m = MinPerHour * p + hm /\ hm \in Int
    <3> HIDE DEF p
    <3> QED BY <1>1, <1>2, <2>1 DEF hm
  <2>3. isec = SecPerMin * (MinPerHour * p + hm) + s
    BY <1>7, <2>2
  <2>4. SecPerMin * (MinPerHour * p + hm) = SecPerMin * (MinPerHour * p) + hm * SecPerMin
    <3> HIDE DEF p
    <3> QED BY <1>1, <2>1, <2>2
  <2>5. SecPerMin * (MinPerHour * p) = day * SecPerDay
    BY <1>1, <1>2, <1>5
  <2>6. day * SecPerDay \in Int /\ hm * SecPerMin \in Int
    BY <1>1, <1>2, <1>5, <2>2
  <2> HIDE DEF p
  <2> QED BY <1>2, <2>3, <2>4, <2>5, <2>6 DEF hms
<1>9. isec * NSTMODULUS = day * (SecPerDay * NSTMODULUS) + hms * NSTMODULUS
  <2>1. day * SecPerDay \in Int /\ hms \in Int
    BY <1>1, <1>2, <1>4, <1>5
  <2>2. (day * SecPerDay) * NSTMODULUS = day * (SecPerDay * NSTMODULUS)
    BY <1>1, <1>2, <1>5
  <2> DEFINE p == day * SecPerDay
  <2> HIDE DEF p
  <2>3. (p + hms) * NSTMODULUS = p * NSTMODULUS + hms * NSTMODULUS
    BY <1>1, <2>1 DEF p
  <2> QED BY <1>8, <2>2, <2>3 DEF p
<1>10. isec * NSTMODULUS + n = day * (SecPerDay * NSTMODULUS) + r
  <2>1. day * (SecPerDay * NSTMODULUS) \in Int /\ hms * NSTMODULUS \in Int
    BY <1>1, <1>2, <1>4, <1>5
  <2> QED BY <1>9, <2>1
<1> HIDE DEF r
<1> QED BY <1>6, <1>10

LEMMA YearsAscend ==
  ASSUME NEW a \in Int, NEW b \in Int, a <= b
  PROVE  Before(a) <= Before(b)
<1> DEFINE n == b - a
<1>1. n \in Nat /\ a + n = b
  OBVIOUS
<1> HIDE DEF n
<1>2. 365 * n <= Before(a + n) - Before(a)
  <2>1. YearsApart(a, n)
    BY <1>1, YearsBounded
  <2> QED BY <2>1 DEF YearsApart
<1>3. Before(a) \in Int /\ Before(b) \in Int
  BY YearTypes
<1> QED BY <1>1, <1>2, <1>3

(* Every time that is converted is in a year that dates can have.          *)
FirstDay == -106650
FinalDay == 106751

LEMMA DaysKnown ==
  /\ FirstDay \in Int /\ FinalDay \in Int
  /\ FirstTime = FirstDay * (SecPerDay * NSTMODULUS)
  /\ LastDay <= FinalDay
  /\ Before(1678) - Before(1970) = FirstDay /\ Before(2263) - Before(1970) > FinalDay
<1>1. FirstDay \in Int /\ FinalDay \in Int
  BY SMT DEF FirstDay, FinalDay
<1> DEFINE k == 106650
<1>2. k \in Nat /\ FirstDay = -k /\ FirstTime = -(k * SecPerDay * NSTMODULUS)
  BY SMT DEF FirstTime, FirstDay
<1> HIDE DEF k
<1>3. FirstTime = FirstDay * (SecPerDay * NSTMODULUS)
  <2>1. (k * SecPerDay) * NSTMODULUS = k * (SecPerDay * NSTMODULUS) /\ SecPerDay * NSTMODULUS \in Nat
    BY <1>2, Units
  <2> DEFINE u == SecPerDay * NSTMODULUS
  <2> HIDE DEF u
  <2>2. -(k * u) = (-k) * u
    BY <1>2, <2>1 DEF u
  <2> QED BY <1>2, <2>1, <2>2 DEF u
<1>4. LastDay <= FinalDay
  BY CalendarAssumption, SMT DEF FinalDay
<1>5. Before(1678) - Before(1970) = FirstDay
  BY SMT DEF Before, Leaps, FirstDay
<1>6. Before(2263) - Before(1970) > FinalDay
  BY SMT DEF Before, Leaps, FinalDay
<1> QED BY <1>1, <1>3, <1>4, <1>5, <1>6

LEMMA YearIsValid ==
  ASSUME NEW day \in Int, day \in FirstDay .. FinalDay,
         NEW y \in Int, NEW yd \in Nat, InYear(day, y, yd)
  PROVE  VALIDYEAR(y)
<1>0. yd < YearLength(y) /\ day = Before(y) + yd - Before(1970)
  BY DEF InYear
<1>1. /\ Before(1678) - Before(1970) = FirstDay /\ Before(2263) - Before(1970) > FinalDay
      /\ Before(1970) \in Int /\ Before(1678) \in Int /\ Before(2263) \in Int
      /\ FirstDay \in Int /\ FinalDay \in Int
  BY DaysKnown, YearTypes
<1>2. Before(y) \in Int /\ Before(y + 1) = Before(y) + YearLength(y) /\ YearLength(y) \in Int /\ Before(y + 1) \in Int
  BY YearTypes
<1>3. y >= 1678
  <2> SUFFICES ASSUME y + 1 <= 1678 PROVE FALSE
    OBVIOUS
  <2>1. Before(y + 1) <= Before(1678)
    BY YearsAscend
  <2> QED BY <1>0, <1>1, <1>2, <2>1
<1>4. y <= 2262
  <2> SUFFICES ASSUME 2263 <= y PROVE FALSE
    OBVIOUS
  <2>1. Before(2263) <= Before(y)
    BY YearsAscend
  <2> QED BY <1>0, <1>1, <1>2, <2>1
<1> QED BY <1>3, <1>4 DEF VALIDYEAR

LEMMA DateIsExact ==
  ASSUME NEW t \in FirstTime .. MaxTime
  PROVE  LET d == ms_nstime2time(t) IN ValidDate(d) /\ d[5] < SecPerMin /\ RefTime(d) = t
<1>1. t \in Int
  BY Units
<1>2. PICK isec \in Int, n \in 0 .. NSTMODULUS - 1 : SplitTime(t) = <<isec, n>> /\ t = isec * NSTMODULUS + n
  BY <1>1, SplitTimeIs
<1>3. PICK day, h, m, s \in Int : Clocked(isec, day, h, m, s) /\ ms_gmtime64_r(isec) = DateAt(DayOf(day), h, m, s)
  BY GmtimeIs
<1>4. PICK y \in Int, yd \in Nat : DayOf(day) = <<yd, y>> /\ InYear(day, y, yd)
  BY <1>3, DayOfIs
<1> DEFINE d == <<y, yd + 1, h, m, s, n>>
<1>5. ms_nstime2time(t) = d
  <2> DEFINE tms == ms_gmtime64_r(isec)
  <2>1. tms.year = y /\ tms.yday = yd + 1 /\ tms.hour = h /\ tms.min = m /\ tms.sec = s
    BY <1>3, <1>4 DEF DateAt
  <2> HIDE DEF tms
  <2> QED BY <1>2, <2>1 DEF ms_nstime2time, DateTuple, tms
<1>6. h \in 0 .. HourPerDay - 1 /\ m \in 0 .. MinPerHour - 1 /\ s \in 0 .. SecPerMin - 1
  BY <1>3 DEF Clocked
<1>7. HourPerDay \in Nat \ {0} /\ MinPerHour \in Nat \ {0} /\ SecPerMin \in Nat \ {0} /\ NSTMODULUS \in Nat \ {0} /\ SecPerDay \in Nat \ {0}
  BY Units
<1>8. day \in FirstDay .. FinalDay
  <2> DEFINE u == SecPerDay * NSTMODULUS
  <2>1. u \in Nat \ {0}
    BY <1>7
  <2>2. PICK r \in 0 .. u - 1 : t = day * u + r
    BY <1>2, <1>3, DayTime
  <2>3. FirstTime = FirstDay * u /\ FirstDay \in Int
    BY DaysKnown
  <2>4. MaxTime = (LastDay + 1) * u - 1 /\ LastDay \in Nat /\ LastDay <= FinalDay /\ FinalDay \in Int
    BY <1>7, UnitsAssumption, DaysKnown DEF MaxTime
  <2> HIDE DEF u
  <2>5. day >= FirstDay
    <3> SUFFICES ASSUME day + 1 <= FirstDay PROVE FALSE
      BY <1>3, <2>3
    <3>1. (day + 1) * u <= FirstDay * u
      <4> DEFINE k == FirstDay - (day + 1)
      <4>1. k \in Nat /\ FirstDay = (day + 1) + k /\ day + 1 \in Int
        BY <1>3, <2>3
      <4> HIDE DEF k
      <4>2. FirstDay * u = (day + 1) * u + k * u /\ k * u \in Nat /\ (day + 1) * u \in Int
        BY <2>1, <4>1
      <4> QED BY <4>2
    <3>2. (day + 1) * u = day * u + u /\ day * u \in Int
      BY <1>3, <2>1
    <3>3. FirstDay * u \in Int /\ FirstDay * u <= t
      BY <1>1, <2>1, <2>3
    <3> QED BY <1>1, <2>1, <2>2, <3>1, <3>2, <3>3
  <2>6. day <= LastDay
    <3> SUFFICES ASSUME LastDay + 1 <= day PROVE FALSE
      BY <1>3, <2>4
    <3> DEFINE k == day - (LastDay + 1)
    <3>1. k \in Nat /\ day = (LastDay + 1) + k
      BY <1>3, <2>4
    <3> HIDE DEF k
    <3>2. day * u = (LastDay + 1) * u + k * u /\ k * u \in Nat /\ (LastDay + 1) * u \in Int /\ day * u \in Int
      BY <2>1, <2>4, <3>1
    <3> QED BY <1>1, <2>1, <2>2, <2>4, <3>2
  <2> QED BY <1>3, <2>4, <2>5, <2>6
<1>9. VALIDYEAR(y)
  BY <1>3, <1>4, <1>8, YearIsValid
<1>10. ValidDate(d)
  <2>1. YearLength(y) \in {365, 366} /\ yd + 1 \in 1 .. YearLength(y)
    BY <1>4, YearTypes DEF InYear
  <2>2. VALIDYEARDAY(y, yd + 1) /\ VALIDHOUR(h) /\ VALIDMIN(m) /\ VALIDNANOSEC(n)
    BY <1>2, <1>6, <2>1 DEF VALIDYEARDAY, VALIDHOUR, VALIDMIN, VALIDNANOSEC
  <2>3. VALIDSEC(s)
    BY <1>6, <1>7 DEF VALIDSEC
  <2> QED BY <1>9, <2>2, <2>3 DEF ValidDate
<1>11. RefTime(d) = t
  <2>1. RefDays(y, yd + 1) = day
    <3>1. RefDays(y, yd + 1) = Before(y) - Before(1970) + (yd + 1) - 1
      BY RefDaysIs
    <3>2. Before(y) \in Int /\ Before(1970) \in Int
      BY YearTypes
    <3> QED BY <1>4, <3>1, <3>2 DEF InYear
  <2>2. isec = SecPerMin * (MinPerHour * (HourPerDay * day + h) + m) + s
    BY <1>3 DEF Clocked
  <2>3. RefTime(d) = (((day * HourPerDay + h) * MinPerHour + m) * SecPerMin + s) * NSTMODULUS + n
    BY <2>1 DEF RefTime
  <2>4. ((day * HourPerDay + h) * MinPerHour + m) * SecPerMin + s = isec
    <3>1. day * HourPerDay = HourPerDay * day /\ HourPerDay * day \in Int
      BY <1>3, <1>7
    <3> DEFINE p == HourPerDay * day + h
    <3>2. p \in Int /\ day * HourPerDay + h = p
      BY <1>3, <3>1
    <3> HIDE DEF p
    <3>3. p * MinPerHour = MinPerHour * p /\ MinPerHour * p \in Int
      BY <1>7, <3>2
    <3> DEFINE q == MinPerHour * p + m
    <3>4. q \in Int /\ p * MinPerHour + m = q
      BY <1>3, <3>3
    <3> HIDE DEF q
    <3>5. q * SecPerMin = SecPerMin * q
      BY <1>7, <3>4
    <3> QED BY <2>2, <3>2, <3>4, <3>5 DEF p, q
  <2> QED BY <1>2, <2>3, <2>4
<1>12. d[5] < SecPerMin
  BY <1>6, <1>7
<1> HIDE DEF d
<1> QED BY <1>5, <1>10, <1>11, <1>12

-----------------------------------------------------------------------------
(* Dates as times.                                                         *)

LEMMA FitsInt64 ==
  ASSUME NEW t \in -MaxTime .. MaxTime
  PROVE  AsInt64(t) = t
<1>1. MaxTime \in Nat
  BY Units
<1> DEFINE m == MaxTime + 1
           x == t + MaxTime + 1
<1>2. m \in Nat \ {0} /\ x \in Int /\ x >= 0 /\ x < 2 * m /\ x - m = t
  BY <1>1
<1>3. AsInt64(t) = (x % (2 * m)) - m
  BY DEF AsInt64
<1> HIDE DEF x, m
<1> DEFINE k == 2 * m
<1>4. k \in Nat \ {0} /\ x < k
  BY <1>2
<1> HIDE DEF k
<1>5. (x % k) = x
  BY <1>2, <1>4
<1> QED BY <1>2, <1>3, <1>5 DEF k

LEMMA EpochIsExact ==
  ASSUME NEW d \in Int \X Int \X Int \X Int \X Int \X Int
  PROVE  LET v == ms_time2nstime(d[1], d[2], d[3], d[4], d[5], d[6])
         IN  IF ValidDate(d) /\ RefTime(d) \in -MaxTime .. MaxTime THEN v = RefTime(d)
             ELSE ~ValidDate(d) => v = NSTERROR
<1> DEFINE v == ms_time2nstime(d[1], d[2], d[3], d[4], d[5], d[6])
<1>1. d[1] \in Int /\ d[2] \in Int /\ d[3] \in Int /\ d[4] \in Int /\ d[5] \in Int /\ d[6] \in Int
  OBVIOUS
<1>2. v = IF ValidDate(d) THEN ms_time2nstime_int(d[1], d[2], d[3], d[4], d[5], d[6]) ELSE NSTERROR
  BY DEF ms_time2nstime, ValidDate
<1>3. ASSUME ValidDate(d)
      PROVE  ms_time2nstime_int(d[1], d[2], d[3], d[4], d[5], d[6]) = AsInt64(RefTime(d))
  <2> DEFINE day == EpochDays(d[1], d[2])
             p == HourPerDay * day + d[3]
             q == MinPerHour * p + d[4]
             r == SecPerMin * q + d[5]
  <2>1. day = RefDays(d[1], d[2]) /\ day \in Int
    <3>1. VALIDYEAR(d[1])
      BY <1>3 DEF ValidDate
    <3>2. EpochDays(d[1], d[2]) = RefDays(d[1], d[2])
      BY <1>1, <3>1, EpochDaysIs
    <3>3. RefDays(d[1], d[2]) = Before(d[1]) - Before(1970) + d[2] - 1
      BY <1>1, RefDaysIs
    <3>4. Before(d[1]) \in Int /\ Before(1970) \in Int
      BY <1>1, YearTypes
    <3> QED BY <1>1, <3>2, <3>3, <3>4
  <2>2. ms_time2nstime_int(d[1], d[2], d[3], d[4], d[5], d[6]) = AsInt64(r * NSTMODULUS + d[6])
    BY DEF ms_time2nstime_int, EpochDays
  <2>3. RefTime(d) = (((day * HourPerDay + d[3]) * MinPerHour + d[4]) * SecPerMin + d[5]) * NSTMODULUS + d[6]
    BY <2>1 DEF RefTime
  <2> HIDE DEF day
  <2>4. HourPerDay \in Nat /\ MinPerHour \in Nat /\ SecPerMin \in Nat
    BY Units
  <2>5. p \in Int /\ day * HourPerDay + d[3] = p
    BY <1>1, <2>1, <2>4
  <2> HIDE DEF p
  <2>6. q \in Int /\ p * MinPerHour + d[4] = q
    BY <1>1, <2>4, <2>5
  <2> HIDE DEF q
  <2>7. q * SecPerMin + d[5] = r
    BY <1>1, <2>4, <2>6
  <2> HIDE DEF r
  <2> QED BY <2>2, <2>3, <2>5, <2>6, <2>7
<1>4. CASE ValidDate(d) /\ RefTime(d) \in -MaxTime .. MaxTime
  <2>1. v = AsInt64(RefTime(d))
    BY <1>2, <1>3, <1>4
  <2>2. AsInt64(RefTime(d)) = RefTime(d)
    BY <1>4, FitsInt64
  <2> QED BY <1>4, <2>1, <2>2
<1>5. CASE ~(ValidDate(d) /\ RefTime(d) \in -MaxTime .. MaxTime)
  BY <1>2, <1>5
<1> QED BY <1>4, <1>5

-----------------------------------------------------------------------------
(* Months.                                                                 *)

MonthLength(l, m) == <<31, 28 + l, 31, 30, 31, 30, 31, 31, 30, 31, 30, 31>>[m]
MonthStart(l, m) ==
  IF m = 1 THEN 0 ELSE IF m = 2 THEN 31 ELSE <<0, 31, 59, 90, 120, 151, 181, 212, 243, 273, 304, 334>>[m] + l

LEMMA MonthsFollow ==
  ASSUME NEW l \in {0, 1}
  PROVE  /\ \A m \in 1 .. 12 : MonthStart(l, m) \in Nat /\ MonthLength(l, m) \in Nat
         /\ \A m \in 1 .. 12 : MonthStart(l, m) = IF m = 1 THEN 0 ELSE MonthStart(l, m - 1) + MonthLength(l, m - 1)
         /\ \A m \in 1 .. 12 : MonthStart(l, m) + MonthLength(l, m) <= 365 + l
         /\ \A p, q \in 1 .. 12 : p < q => MonthStart(l, p) + MonthLength(l, p) <= MonthStart(l, q)
<1>1. \A m \in 1 .. 12 : m \in {1, 2, 3, 4, 5, 6, 7, 8, 9, 10, 11, 12}
  OBVIOUS
<1>2. \A m \in 1 .. 12 : MonthStart(l, m) \in Nat /\ MonthLength(l, m) \in Nat
  BY <1>1 DEF MonthStart, MonthLength
<1>3. ASSUME NEW m \in 1 .. 12
      PROVE  MonthStart(l, m) = IF m = 1 THEN 0 ELSE MonthStart(l, m - 1) + MonthLength(l, m - 1)
  BY <1>1 DEF MonthStart, MonthLength
<1>4. ASSUME NEW m \in 1 .. 12
      PROVE  MonthStart(l, m) + MonthLength(l, m) <= 365 + l
  BY <1>1 DEF MonthStart, MonthLength
<1>5. ASSUME NEW p \in 1 .. 12, NEW q \in 1 .. 12, p < q
      PROVE  MonthStart(l, p) + MonthLength(l, p) <= MonthStart(l, q)
  BY <1>1, <1>5 DEF MonthStart, MonthLength
<1> QED BY <1>2, <1>3, <1>4, <1>5

Leap(year) == IF LEAPYEAR(year) THEN 1 ELSE 0

LEMMA MonthLengthIs ==
  ASSUME NEW year, NEW m \in 1 .. 12
  PROVE  monthdays(year)[m] = MonthLength(Leap(year), m)
<1>1. m \in {1, 2, 3, 4, 5, 6, 7, 8, 9, 10, 11, 12}
  OBVIOUS
<1> QED BY <1>1 DEF monthdays, MonthLength, Leap

LEMMA DaysBeforeIs ==
  ASSUME NEW year, NEW month \in 1 .. 12
  PROVE  DaysBefore(year, month) = MonthStart(Leap(year), month)
<1> DEFINE D == 1 .. 12
           l == Leap(year)
           Is(f) == f = [m \in D |-> IF m = 1 THEN 0 ELSE f[m - 1] + monthdays(year)[m - 1]]
           F == CHOOSE f : Is(f)
           g == [m \in D |-> MonthStart(l, m)]
           A == {i \in Nat : i + 1 <= 12 => F[i + 1] = MonthStart(l, i + 1)}
<1>1. l \in {0, 1}
  BY DEF Leap
<1>2. ASSUME NEW m \in D, m # 1 PROVE m - 1 \in D /\ monthdays(year)[m - 1] = MonthLength(l, m - 1)
  <2>1. m - 1 \in D
    BY <1>2
  <2> QED BY <2>1, MonthLengthIs
<1> HIDE DEF l
<1>3. Is(g)
  <2>1. ASSUME NEW m \in D PROVE g[m] = IF m = 1 THEN 0 ELSE g[m - 1] + monthdays(year)[m - 1]
    <3>1. MonthStart(l, m) = IF m = 1 THEN 0 ELSE MonthStart(l, m - 1) + MonthLength(l, m - 1)
      BY <1>1, MonthsFollow
    <3> QED BY <1>2, <3>1
  <2>2. g = [m \in D |-> g[m]]
    OBVIOUS
  <2> HIDE DEF g, D
  <2> QED BY <2>1, <2>2
<1>4. Is(F)
  <2> HIDE DEF Is, g
  <2> QED BY <1>3
<1>5. \A m \in D : F[m] = IF m = 1 THEN 0 ELSE F[m - 1] + monthdays(year)[m - 1]
  <2> HIDE DEF F
  <2> QED BY <1>4
<1>6. DaysBefore(year, month) = F[month]
  BY DEF DaysBefore
<1> HIDE DEF F
<1>7. 0 \in A
  BY <1>5 DEF MonthStart
<1>8. ASSUME NEW i \in Nat, i \in A PROVE i + 1 \in A
  <2> SUFFICES ASSUME (i + 1) + 1 <= 12 PROVE F[(i + 1) + 1] = MonthStart(l, (i + 1) + 1)
    OBVIOUS
  <2> DEFINE k == (i + 1) + 1
  <2>1. k \in D /\ k # 1 /\ k - 1 = i + 1 /\ i + 1 <= 12
    OBVIOUS
  <2>2. F[i + 1] = MonthStart(l, i + 1)
    BY <1>8, <2>1
  <2> HIDE DEF k, D
  <2>3. F[k] = F[k - 1] + monthdays(year)[k - 1]
    BY <1>5, <2>1
  <2>4. monthdays(year)[k - 1] = MonthLength(l, k - 1)
    BY <1>2, <2>1
  <2>5. MonthStart(l, k) = MonthStart(l, k - 1) + MonthLength(l, k - 1)
    BY <1>1, <2>1, MonthsFollow DEF D
  <2>6. F[k] = MonthStart(l, k)
    BY <2>1, <2>2, <2>3, <2>4, <2>5
  <2> QED BY <2>6 DEF k
<1>9. \A i \in Nat : i \in A
  <2> HIDE DEF A
  <2> QED BY <1>7, <1>8, AllNaturals
<1>10. month - 1 \in Nat /\ (month - 1) + 1 = month /\ month <= 12
  OBVIOUS
<1>11. month - 1 \in A
  BY <1>9, <1>10
<1>12. F[month] = MonthStart(l, month)
  BY <1>10, <1>11
<1> QED BY <1>6, <1>12 DEF l

LEMMA MonthDayIsInverse ==
  ASSUME NEW year \in Int, NEW month \in Int, NEW mday \in Int, mday > 0,
         ms_md2doy(year, month, mday) # <<>>
  PROVE  ms_doy2md(year, ms_md2doy(year, month, mday)[1]) = <<month, mday>>
<1>1. VALIDYEAR(year) /\ month \in 1 .. 12 /\ mday \in 0 .. monthdays(year)[month]
  BY DEF ms_md2doy, VALIDMONTH, VALIDMONTHDAY
<1> DEFINE l == Leap(year)
           D == 1 .. 12
           yday == DaysBefore(year, month) + mday
           In(m) == yday - DaysBefore(year, m) <= monthdays(year)[m] /\ yday > DaysBefore(year, m)
           found == CHOOSE m \in D : In(m)
<1>2. ms_md2doy(year, month, mday)[1] = yday
  BY <1>1 DEF ms_md2doy, VALIDMONTH, VALIDMONTHDAY
<1>3. l \in {0, 1} /\ YearLength(year) = 365 + l
  BY DEF Leap, YearLength
<1> HIDE DEF l
<1>4. \A m \in D : DaysBefore(year, m) = MonthStart(l, m) /\ monthdays(year)[m] = MonthLength(l, m)
  BY DaysBeforeIs, MonthLengthIs DEF l
<1>5. \A m \in D : MonthStart(l, m) \in Nat /\ MonthLength(l, m) \in Nat
  BY <1>3, MonthsFollow
<1> DEFINE b == MonthStart(l, month)
           n == MonthLength(l, month)
<1>0. b \in Nat /\ n \in Nat /\ DaysBefore(year, month) = b /\ monthdays(year)[month] = n
  BY <1>1, <1>4, <1>5
<1> HIDE DEF b, n
<1>6. yday = b + mday /\ yday \in Nat /\ mday <= n /\ mday \in Nat
  <2>1. yday = b + mday
    BY <1>0
  <2>2. mday \in 0 .. n
    BY <1>0, <1>1
  <2> HIDE DEF yday
  <2> QED BY <1>0, <2>1, <2>2
<1>7. VALIDYEARDAY(year, yday)
  <2>1. b + n <= 365 + l
    <3>1. month \in 1 .. 12 /\ l \in {0, 1}
      BY <1>1, <1>3
    <3>2. MonthStart(l, month) + MonthLength(l, month) <= 365 + l
      BY <3>1, MonthsFollow, ZenonT(30)
    <3> QED BY <3>2 DEF b, n
  <2>2. yday \in 1 .. 365 + l
    <3> HIDE DEF yday
    <3> QED BY <1>0, <1>3, <1>6, <2>1
  <2> HIDE DEF yday
  <2> QED BY <1>3, <2>2 DEF VALIDYEARDAY
<1> HIDE DEF yday
<1>8. In(month)
  BY <1>0, <1>6
<1>9. found \in D /\ In(found)
  <2> HIDE DEF In
  <2> QED BY <1>1, <1>8
<1> HIDE DEF found
<1>10. found = month
  <2>0. found \in 1 .. 12 /\ month \in 1 .. 12 /\ l \in {0, 1}
    BY <1>1, <1>3, <1>9
  <2>1. /\ yday - MonthStart(l, found) <= MonthLength(l, found)
        /\ yday > MonthStart(l, found)
        /\ MonthStart(l, found) \in Nat /\ MonthLength(l, found) \in Nat
    BY <1>4, <1>5, <1>9
  <2>2. MonthStart(l, month) \in Nat /\ MonthLength(l, month) \in Nat
    BY <1>1, <1>5
  <2>3. yday = MonthStart(l, month) + mday /\ mday <= MonthLength(l, month) /\ mday \in Nat
    BY <1>6 DEF b, n
  <2>4. found < month => MonthStart(l, found) + MonthLength(l, found) <= MonthStart(l, month)
    BY <2>0, MonthsFollow, ZenonT(30)
  <2>5. month < found => MonthStart(l, month) + MonthLength(l, month) <= MonthStart(l, found)
    BY <2>0, MonthsFollow, ZenonT(30)
  <2>6. ~(found < month) /\ ~(month < found)
    BY <1>1, <1>9, <2>1, <2>2, <2>3, <2>4, <2>5
  <2> QED BY <1>1, <1>9, <2>6
<1>11. ms_doy2md(year, yday) = <<found, yday - DaysBefore(year, found)>>
  BY <1>1, <1>7 DEF ms_doy2md, found
<1>12. yday - DaysBefore(year, month) = mday
  BY <1>0, <1>6
<1> QED BY <1>2, <1>10, <1>11, <1>12

-----------------------------------------------------------------------------
(* The calls that convert.                                                 *)

CallExact ==
  /\ call.op = "time2nstime" =>
       /\ call.arg \in Int \X Int \X Int \X Int \X Int \X Int
       /\ call.val = ms_time2nstime(call.arg[1], call.arg[2], call.arg[3], call.arg[4], call.arg[5], call.arg[6])
  /\ call.op = "nstime2time" => call.arg \in FirstTime .. MaxTime /\ call.val = ms_nstime2time(call.arg)
  /\ call.op = "md2doy" =>
       call.arg \in Int \X Int \X Int /\ call.val = ms_md2doy(call.arg[1], call.arg[2], call.arg[3])

LEMMA CallIsExact == CallExact => CalendarExact
<1> SUFFICES ASSUME CallExact PROVE CalendarExact
  OBVIOUS
<1>1. EpochExact
  <2> SUFFICES ASSUME call.op = "time2nstime"
               PROVE  IF ValidDate(call.arg) /\ RefTime(call.arg) \in -MaxTime .. MaxTime THEN call.val = RefTime(call.arg)
                      ELSE ~ValidDate(call.arg) => call.val = NSTERROR
    BY DEF EpochExact
  <2>1. /\ call.arg \in Int \X Int \X Int \X Int \X Int \X Int
        /\ call.val = ms_time2nstime(call.arg[1], call.arg[2], call.arg[3], call.arg[4], call.arg[5], call.arg[6])
    BY DEF CallExact
  <2> QED BY <2>1, EpochIsExact
<1>2. DateExact
  <2> SUFFICES ASSUME call.op = "nstime2time"
               PROVE  ValidDate(call.val) /\ call.val[5] < SecPerMin /\ RefTime(call.val) = call.arg
    BY DEF DateExact
  <2>1. call.arg \in FirstTime .. MaxTime /\ call.val = ms_nstime2time(call.arg)
    BY DEF CallExact
  <2> QED BY <2>1, DateIsExact
<1>3. MonthDayInverse
  <2> SUFFICES ASSUME call.op = "md2doy", call.val # <<>>, call.arg[3] > 0
               PROVE  ms_doy2md(call.arg[1], call.val[1]) = <<call.arg[2], call.arg[3]>>
    BY DEF MonthDayInverse
  <2>1. /\ call.arg[1] \in Int /\ call.arg[2] \in Int /\ call.arg[3] \in Int
        /\ call.val = ms_md2doy(call.arg[1], call.arg[2], call.arg[3])
    BY DEF CallExact
  <2> QED BY <2>1, MonthDayIsInverse
<1> QED BY <1>1, <1>2, <1>3 DEF CalendarExact

LEMMA CallsStayExact == CallExact /\ [CalendarNext \/ Done]_call => CallExact'
<1> SUFFICES ASSUME CallExact, [CalendarNext \/ Done]_call PROVE CallExact'
  OBVIOUS
<1>1. ASSUME NEW d \in Dates, ToEpoch(d) PROVE CallExact'
  <2>1. d \in Int \X Int \X Int \X Int \X Int \X Int
    BY CalendarAssumption
  <2> QED BY <1>1, <2>1 DEF ToEpoch, Call, CallExact
<1>2. ASSUME NEW t \in Times, FromEpoch(t) PROVE CallExact'
  <2>1. t \in FirstTime .. MaxTime
    BY CalendarAssumption
  <2> QED BY <1>2, <2>1 DEF FromEpoch, Call, CallExact
<1>3. ASSUME NEW d \in MonthDays, ToYearDay(d) PROVE CallExact'
  <2>1. d \in Int \X Int \X Int
    BY CalendarAssumption
  <2> QED BY <1>3, <2>1 DEF ToYearDay, Call, CallExact
<1>4. ASSUME Done PROVE CallExact'
  BY <1>4 DEF Done, Idle, CallExact
<1>5. ASSUME UNCHANGED call PROVE CallExact'
  BY <1>5 DEF CallExact
<1> QED BY <1>1, <1>2, <1>3, <1>4, <1>5 DEF CalendarNext

(* Dates, days of the year and epoch times are converted into each other   *)
(* exactly, whatever the units below a day, for every date and every time  *)
(* in a year that dates can have (ms_time2nstime(), ms_nstime2time() over  *)
(* ms_gmtime64_r(), ms_md2doy() and ms_doy2md()).                          *)
THEOREM CalendarStaysExact == CalendarSpec => []CalendarExact
<1>1. CallInit => CallExact
  BY DEF CallInit, Idle, CallExact
<1> QED BY <1>1, CallsStayExact, CallIsExact, PTL DEF CalendarSpec
============================================================================
