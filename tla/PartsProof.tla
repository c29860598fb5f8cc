------------------------------ MODULE PartsProof ------------------------------
(* Proofs about the parts of RepoDNA that are pure algorithms, for every     *)
(* input: MCParts checks the same statements on inputs of small sets.        *)
EXTENDS Core, FilePass, Archive, Comparison, WellFoundedInduction, FiniteSetTheorems, TLAPS

-----------------------------------------------------------------------------
(* Induction, which the rest uses on sets of numbers: a set that has 0 and,  *)
(* with each number, the next one, has all of them. Every set of numbers has *)
(* a least one, because proper inclusion of finite sets is well-founded.     *)
LEMMA Least ==
  ASSUME NEW T \in SUBSET Nat, T # {}
  PROVE \E x \in T : \A y \in T : x <= y
<1> DEFINE F == {0 .. x : x \in T}
<1>1. F \subseteq FiniteSubsetsOf(Nat) /\ F # {}
  <2>1. \A x \in T : IsFiniteSet(0 .. x) /\ 0 .. x \in SUBSET Nat
    BY FS_Interval
  <2>2. FiniteSubsetsOf(Nat) = {A \in SUBSET Nat : IsFiniteSet(A)}
    BY DEF FiniteSubsetsOf
  <2> QED BY <2>1, <2>2
<1>2. PICK A \in F : \A B \in F : ~ (<<B, A>> \in StrictSubsetOrdering(Nat))
  <2> HIDE DEF F
  <2> QED BY <1>1, WFMin, FS_StrictSubsetOrderingWellFounded
<1>3. PICK x \in T : A = 0 .. x
  BY <1>2
<1>4. ASSUME NEW y \in T, y < x PROVE FALSE
  <2>1. (0 .. y) \in F /\ (0 .. y) \subseteq A /\ x \in A /\ x \notin 0 .. y
    BY <1>3, <1>4
  <2>2. <<0 .. y, A>> \in StrictSubsetOrdering(Nat)
    BY <2>1, <1>3 DEF StrictSubsetOrdering
  <2> QED BY <1>2, <2>1, <2>2
<1> QED BY <1>4

(* What is in a set from 0 on, step by step, is all the natural numbers. *)
LEMMA SetInduction ==
  ASSUME NEW S, 0 \in S, \A n \in Nat : n \in S => n + 1 \in S
  PROVE Nat \subseteq S
<1> DEFINE T == Nat \ S
<1> SUFFICES ASSUME T # {} PROVE FALSE
  OBVIOUS
<1>1. PICK x \in T : \A y \in T : x <= y
  BY Least
<1>2. x # 0 /\ x \in Nat
  OBVIOUS
<1>3. x - 1 \in Nat /\ x - 1 \notin T
  BY <1>1, <1>2
<1>4. (x - 1) + 1 = x
  BY <1>2
<1> QED BY <1>3, <1>4

-----------------------------------------------------------------------------
(* core/time.rs: the formulas for days and dates give what counting gives.   *)
(* A year is counted by its leap days, and the era formula grows by as many. *)
LeapDay(y) == IF IsLeapYear(y) THEN 1 ELSE 0

(* Counting: a year is 365 days, or 366, later than the one before. *)
LEMMA NewYearStep ==
  ASSUME NEW y \in Int
  PROVE  /\ NewYear(y) \in Int
         /\ NewYear(y + 1) = NewYear(y) + 365 + LeapDay(y)
<1> DEFINE Leap(a, b) == {l \in a..b : IsLeapYear(l)}
<1>1. ASSUME NEW a \in Int, NEW b \in Int
      PROVE IsFiniteSet(Leap(a, b)) /\ Cardinality(Leap(a, b)) \in Nat
  BY FS_Interval, FS_Subset, FS_CardinalityType
<1>2. NewYear(y) \in Int
  BY <1>1, SMTT(30) DEF NewYear
<1>3. CASE y >= 1970
  <2>1. Leap(1970, y) = IF IsLeapYear(y) THEN Leap(1970, y - 1) \cup {y} ELSE Leap(1970, y - 1)
    BY <1>3
  <2>2. Cardinality(Leap(1970, y)) = Cardinality(Leap(1970, y - 1)) + LeapDay(y)
    <3>1. y \notin Leap(1970, y - 1)
      OBVIOUS
    <3> HIDE DEF Leap
    <3>2. IsFiniteSet(Leap(1970, y - 1)) /\ Cardinality(Leap(1970, y - 1)) \in Nat
      BY <1>1, y - 1 \in Int, 1970 \in Int
    <3> QED BY <2>1, <3>1, <3>2, FS_AddElement DEF LeapDay
  <2>3. NewYear(y) = 365 * (y - 1970) + Cardinality(Leap(1970, y - 1))
    BY <1>3 DEF NewYear
  <2>4. NewYear(y + 1) = 365 * (y + 1 - 1970) + Cardinality(Leap(1970, y))
    <3>1. (y + 1) - 1 = y /\ y + 1 >= 1970
      BY <1>3
    <3> QED BY <3>1 DEF NewYear
  <2>5. Cardinality(Leap(1970, y - 1)) \in Nat /\ LeapDay(y) \in Nat
    BY <1>1 DEF LeapDay
  <2> HIDE DEF Leap
  <2> QED BY <1>2, <2>2, <2>3, <2>4, <2>5
<1>4. CASE y < 1970
  <2>1. Leap(y, 1969) = IF IsLeapYear(y) THEN Leap(y + 1, 1969) \cup {y} ELSE Leap(y + 1, 1969)
    BY <1>4
  <2>2. Cardinality(Leap(y, 1969)) = Cardinality(Leap(y + 1, 1969)) + LeapDay(y)
    <3>1. y \notin Leap(y + 1, 1969)
      OBVIOUS
    <3> HIDE DEF Leap
    <3>2. IsFiniteSet(Leap(y + 1, 1969)) /\ Cardinality(Leap(y + 1, 1969)) \in Nat
      BY <1>1
    <3> QED BY <2>1, <3>1, <3>2, FS_AddElement DEF LeapDay
  <2>3. Leap(1970, 1969) = {}
    OBVIOUS
  <2>4. Cardinality(Leap(1970, 1969)) = 0
    <3> HIDE DEF Leap
    <3> QED BY <2>3, FS_EmptySet
  <2>5. NewYear(y) = 365 * (y - 1970) - Cardinality(Leap(y, 1969))
    BY <1>4 DEF NewYear
  <2>6. NewYear(y + 1) = 365 * (y + 1 - 1970) - Cardinality(Leap(y + 1, 1969))
    <3>1. CASE y + 1 < 1970
      BY <3>1 DEF NewYear
    <3>2. CASE y + 1 = 1970
      <4>1. NewYear(1970) = Cardinality(Leap(1970, 1969))
        BY <1>1 DEF NewYear
      <4> QED BY <3>2, <4>1, <2>4
    <3> QED BY <1>4, <3>1, <3>2
  <2> HIDE DEF Leap
  <2>7. Cardinality(Leap(y + 1, 1969)) \in Nat /\ LeapDay(y) \in Nat
    BY <1>1 DEF LeapDay
  <2> QED BY <1>2, <2>2, <2>5, <2>6, <2>7
<1> QED BY <1>2, <1>3, <1>4

(* The formula: 1 January moves by as much, also from one era of 400 years to *)
(* the next.                                                                 *)
LEMMA JanuaryStep ==
  ASSUME NEW y \in Int
  PROVE  /\ DaysFromCivil(y, 1, 1) \in Int
         /\ DaysFromCivil(y + 1, 1, 1) = DaysFromCivil(y, 1, 1) + 365 + LeapDay(y)
<1> DEFINE FirstDay(r, e) == e * 146097 + r * 365 + r \div 4 - r \div 100 + 306 - 719468
           e == (y - 1) \div 400
           r == (y - 1) % 400
<1>1. e \in Int /\ r \in 0..399 /\ y - 1 = 400 * e + r
  OBVIOUS
<1> HIDE DEF e, r
<1>2. DaysFromCivil(y, 1, 1) = FirstDay(r, e)
  BY DEF DaysFromCivil, e, r
<1>3. DaysFromCivil(y + 1, 1, 1) = FirstDay(y % 400, y \div 400)
  BY DEF DaysFromCivil
<1>4. CASE r < 399
  <2>1. y % 400 = r + 1 /\ y \div 400 = e
    BY <1>1, <1>4
  <2>2. IsLeapYear(y) <=> ((r + 1) % 4 = 0 /\ (r + 1) % 100 # 0)
    BY <1>1, <1>4 DEF IsLeapYear
  <2> QED BY <1>1, <1>2, <1>3, <1>4, <2>1, <2>2 DEF LeapDay
<1>5. CASE r = 399
  <2>1. y % 400 = 0 /\ y \div 400 = e + 1
    BY <1>1, <1>5
  <2>2. IsLeapYear(y)
    BY <2>1 DEF IsLeapYear
  <2> QED BY <1>1, <1>2, <1>3, <1>5, <2>1, <2>2 DEF LeapDay
<1> QED BY <1>1, <1>4, <1>5

(* Both begin with 1970. *)
LEMMA JanuaryStart == DaysFromCivil(1970, 1, 1) = 0 /\ NewYear(1970) = 0
BY FS_EmptySet DEF DaysFromCivil, NewYear

(* Hence they agree for every year, by induction in both directions. *)
LEMMA NewYearIsJanuary ==
  ASSUME NEW y \in Int
  PROVE  NewYear(y) = DaysFromCivil(y, 1, 1)
<1> DEFINE Later == {n \in Nat : NewYear(1970 + n) = DaysFromCivil(1970 + n, 1, 1)}
           Sooner == {n \in Nat : NewYear(1970 - n) = DaysFromCivil(1970 - n, 1, 1)}
<1>1. Nat \subseteq Later
  <2>1. 0 \in Later
    BY JanuaryStart
  <2>2. ASSUME NEW n \in Later PROVE n + 1 \in Later
    <3>1. 1970 + (n + 1) = (1970 + n) + 1 /\ 1970 + n \in Int
      OBVIOUS
    <3>2. NewYear((1970 + n) + 1) = DaysFromCivil((1970 + n) + 1, 1, 1)
      BY <3>1, NewYearStep, JanuaryStep
    <3> QED BY <3>1, <3>2
  <2> HIDE DEF Later
  <2> QED BY <2>1, <2>2, SetInduction
<1>2. Nat \subseteq Sooner
  <2>1. 0 \in Sooner
    BY JanuaryStart
  <2>2. ASSUME NEW n \in Sooner PROVE n + 1 \in Sooner
    <3>1. 1970 - n = (1970 - (n + 1)) + 1 /\ 1970 - (n + 1) \in Int
      OBVIOUS
    <3>2. LeapDay(1970 - (n + 1)) \in Nat
      BY DEF LeapDay
    <3> DEFINE b == 1970 - (n + 1)
    <3>3. b \in Int /\ NewYear(b + 1) = DaysFromCivil(b + 1, 1, 1) /\ LeapDay(b) \in Nat
      BY <3>1, <3>2
    <3> HIDE DEF b
    <3>4. NewYear(b) = DaysFromCivil(b, 1, 1)
      <4>1. NewYear(b) \in Int /\ NewYear(b + 1) = NewYear(b) + 365 + LeapDay(b)
        BY <3>3, NewYearStep
      <4>2. /\ DaysFromCivil(b, 1, 1) \in Int
            /\ DaysFromCivil(b + 1, 1, 1) = DaysFromCivil(b, 1, 1) + 365 + LeapDay(b)
        BY <3>3, JanuaryStep
      <4> QED BY <3>3, <4>1, <4>2
    <3> USE DEF b
    <3> QED BY <3>4
  <2> HIDE DEF Sooner
  <2> QED BY <2>1, <2>2, SetInduction
<1>3. CASE y >= 1970
  <2>1. y - 1970 \in Nat /\ 1970 + (y - 1970) = y
    BY <1>3
  <2> HIDE DEF Later
  <2>2. y - 1970 \in Later
    BY <1>1, <2>1
  <2> USE DEF Later
  <2> QED BY <2>1, <2>2
<1>4. CASE y < 1970
  <2>1. 1970 - y \in Nat /\ 1970 - (1970 - y) = y
    BY <1>4
  <2> HIDE DEF Sooner
  <2>2. 1970 - y \in Sooner
    BY <1>2, <2>1
  <2> USE DEF Sooner
  <2> QED BY <2>1, <2>2
<1> QED BY <1>3, <1>4

(* Days before a month, as a table. *)
MonthStart(y, m) ==
  <<0, 31, 59, 90, 120, 151, 181, 212, 243, 273, 304, 334>>[m]
    + (IF m > 2 THEN LeapDay(y) ELSE 0)

(* The lengths of the months in terms of the leap day. *)
LEMMA DaysInMonthIs ==
  ASSUME NEW y \in Int, NEW m \in 1..12
  PROVE  DaysInMonth(y, m) =
           IF m = 2 THEN 28 + LeapDay(y) ELSE IF m \in {4, 6, 9, 11} THEN 30 ELSE 31
<1>1. CASE m = 2
  BY <1>1 DEF DaysInMonth, LeapDay
<1>2. CASE m \in {4, 6, 9, 11}
  BY <1>2 DEF DaysInMonth
<1>3. CASE m \in {1, 3, 5, 7, 8, 10, 12}
  BY <1>3 DEF DaysInMonth
<1> QED BY <1>1, <1>2, <1>3

(* The table has what counting month by month gives. *)
LEMMA BeforeIsMonthStart ==
  ASSUME NEW y \in Int, NEW m \in 1..12
  PROVE  Before(y, m) = MonthStart(y, m)
<1> DEFINE Is(days) ==
             days = [k \in 0..12 |-> IF k = 0 THEN 0 ELSE days[k - 1] + DaysInMonth(y, k)]
           known == [k \in 0..12 |->
                       IF k = 12 THEN MonthStart(y, 12) + 31 ELSE MonthStart(y, k + 1)]
           days == CHOOSE days : Is(days)
<1>1. Is(known)
  <2>1. \A k \in 0..12 : known[k] = IF k = 0 THEN 0 ELSE known[k - 1] + DaysInMonth(y, k)
    BY DaysInMonthIs DEF MonthStart, LeapDay
  <2> QED BY <2>1
<1>2. Is(days)
  BY <1>1
<1>3. Before(y, m) = days[m - 1]
  BY DEF Before
<1> HIDE DEF days
<1>4. \A k \in 0..12 : days[k] = IF k = 0 THEN 0 ELSE days[k - 1] + DaysInMonth(y, k)
  BY <1>2
<1>5. days[0] = 0 /\ \A k \in 1..12 : days[k] = days[k - 1] + DaysInMonth(y, k)
  BY <1>4
<1>6. days[m - 1] = MonthStart(y, m)
  BY <1>5, DaysInMonthIs DEF MonthStart, LeapDay
<1> QED BY <1>3, <1>6

(* The formula counts months from March; it moves within a year as the table. *)
LEMMA DaysFromYear ==
  ASSUME NEW y \in Int, NEW m \in 1..12, NEW d \in Int
  PROVE  DaysFromCivil(y, m, d) = DaysFromCivil(y, 1, 1) + MonthStart(y, m) + d - 1
<1> DEFINE Since(k) == (153 * ((k + 9) % 12) + 2) \div 5
<1>1. CASE m <= 2
  <2>1. DaysFromCivil(y, m, d) = DaysFromCivil(y, 1, 1) + Since(m) - Since(1) + d - 1
    BY <1>1 DEF DaysFromCivil
  <2>2. Since(m) - Since(1) = MonthStart(y, m)
    BY <1>1 DEF MonthStart
  <2> QED BY <2>1, <2>2, JanuaryStep
<1>2. CASE m > 2
  <2>1. DaysFromCivil(y, m, d) = DaysFromCivil(y + 1, 1, 1) + Since(m) - Since(1) + d - 1
    <3>1. (y + 1) - 1 = y
      OBVIOUS
    <3> QED BY <1>2, <3>1 DEF DaysFromCivil
  <2>2. 365 + Since(m) - Since(1) + LeapDay(y) = MonthStart(y, m)
    <3>1. \A k \in 3..12 :
            365 + Since(k) - Since(1) = <<0, 31, 59, 90, 120, 151, 181, 212, 243, 273, 304, 334>>[k]
      OBVIOUS
    <3>2. LeapDay(y) \in Nat
      BY DEF LeapDay
    <3> QED BY <1>2, <3>1, <3>2 DEF MonthStart
  <2>3. Since(m) \in Int /\ Since(1) = 306 /\ LeapDay(y) \in Int /\ DaysFromCivil(y, 1, 1) \in Int
    BY JanuaryStep DEF LeapDay
  <2> HIDE DEF Since
  <2> QED BY <2>1, <2>2, <2>3, JanuaryStep
<1> QED BY <1>1, <1>2

(* Quotient and remainder by the days of an era. *)
LEMMA ByEra ==
  ASSUME NEW e \in Int, NEW of \in Int, 0 <= of, of <= 146096, NEW s \in Int, s = 146097 * e + of
  PROVE  s \div 146097 = e /\ s % 146097 = of
<1>1. (146097 * e + of) \div 146097 = e
  BY SMT
<1>2. (146097 * e + of) % 146097 = of
  BY SMT
<1> QED BY <1>1, <1>2, SMT

(* Days of an era before year 100 c + 4 q + r of it, and doy more. *)
Days(c, q, r, doy) == 36524 * c + 1461 * q + 365 * r + doy

(* The corrections for 4, 100 and 400 years find the year of such a day.     *)
LEMMA YearOfEraIs ==
  ASSUME NEW c \in Int, NEW q \in Int, NEW r \in Int, NEW doy \in Int,
         0 <= c, c <= 3, 0 <= q, q <= 24, 0 <= r, r <= 3, 0 <= doy, doy <= 365,
         doy = 365 => r = 3 /\ (q < 24 \/ c = 3)
  PROVE  /\ Days(c, q, r, doy) \in Nat
         /\ Days(c, q, r, doy) <= 146096
         /\ YearOfEra(Days(c, q, r, doy)) = 100 * c + 4 * q + r
<1> DEFINE rest == 1461 * q + 365 * r + doy
           of == 36524 * c + rest
<1>1. rest \in Int /\ 0 <= rest /\ rest <= 36524 /\ (rest = 36524 => c = 3)
  BY SMT
<1>2. CASE rest = 36524
  <2>1. c = 3 /\ q = 24 /\ r = 3 /\ doy = 365
    <3>1. q = 24
      <4>1. CASE q <= 23
        BY <1>2, <4>1, SMT
      <4> QED BY <4>1, SMT
    <3>2. 365 * r + doy = 1460
      BY <1>2, <3>1, SMT
    <3>3. r = 3
      BY <3>2, SMT
    <3> QED BY <1>1, <1>2, <3>1, <3>2, <3>3, SMT
  <2> QED BY <2>1, SMT DEF YearOfEra, Days
<1>3. CASE rest < 36524
  <2>1. of \div 36524 = c
    BY <1>1, <1>3, SMT
  <2>2. of \div 146096 = 0
    BY <1>1, <1>3, SMT
  <2>4. (of - of \div 1460 + c) \div 365 = 100 * c + 4 * q + r
    BY SMT
  <2>5. of = Days(c, q, r, doy) /\ of \in Int /\ 0 <= of /\ of <= 146096
    BY SMT DEF Days
  <2> HIDE DEF of
  <2> QED BY <2>1, <2>2, <2>4, <2>5, SMT DEF YearOfEra
<1> QED BY <1>1, <1>2, <1>3, SMT

(* A day and a date by era, year of the era and day from 1 March. *)
DayOf(e, c, q, r, doy) == 146097 * e + Days(c, q, r, doy) - 719468
DateOf(year, k, doy) ==
  LET month == IF k < 10 THEN k + 3 ELSE k - 9
  IN [year |-> year + (IF month <= 2 THEN 1 ELSE 0), month |-> month,
      day |-> doy - (153 * k + 2) \div 5 + 1]

(* The date of a day is found from these parts. *)
LEMMA CivilOfParts ==
  ASSUME NEW e \in Int, NEW c \in Int, NEW q \in Int, NEW r \in Int, NEW doy \in Int,
         0 <= c, c <= 3, 0 <= q, q <= 24, 0 <= r, r <= 3, 0 <= doy, doy <= 365,
         doy = 365 => r = 3 /\ (q < 24 \/ c = 3)
  PROVE  CivilFromDays(DayOf(e, c, q, r, doy)) =
           DateOf(100 * c + 4 * q + r + e * 400, (5 * doy + 2) \div 153, doy)
<1> DEFINE yoe == 100 * c + 4 * q + r
           of == Days(c, q, r, doy)
           days == DayOf(e, c, q, r, doy)
<1>2. of \in Int /\ 0 <= of /\ of <= 146096 /\ YearOfEra(of) = yoe
  <2>1. Days(c, q, r, doy) \in Nat
    BY SMT DEF Days
  <2>2. YearOfEra(Days(c, q, r, doy)) = 100 * c + 4 * q + r
    BY YearOfEraIs, SMT
  <2>3. Days(c, q, r, doy) <= 146096
    BY YearOfEraIs, SMT
  <2> QED BY <2>1, <2>2, <2>3, SMT
<1>3. (days + 719468) \div 146097 = e /\ (days + 719468) % 146097 = of
  <2>1. days + 719468 = 146097 * e + of /\ days + 719468 \in Int
    BY <1>2, SMT DEF DayOf
  <2> HIDE DEF of, days
  <2> QED BY <1>2, <2>1, ByEra, SMT
<1>4. of - (365 * yoe + yoe \div 4 - yoe \div 100) = doy
  <2>1. yoe \div 4 = 25 * c + q /\ yoe \div 100 = c
    BY SMT
  <2> QED BY <2>1, SMT DEF Days
<1> HIDE DEF of, yoe, days
<1>5. CivilFromDays(days) = DateOf(yoe + e * 400, (5 * doy + 2) \div 153, doy)
  BY <1>2, <1>3, <1>4, SMT DEF CivilFromDays, DateOf
<1> QED BY <1>5, SMT DEF yoe, days

(* Timestamp::civil is the inverse of Timestamp::from_civil on every date. *)
LEMMA CivilIsInverse ==
  ASSUME NEW y \in Int, NEW m \in 1..12, NEW d \in 1..DaysInMonth(y, m)
  PROVE  CivilFromDays(DaysFromCivil(y, m, d)) = [year |-> y, month |-> m, day |-> d]
<1> DEFINE year == IF m <= 2 THEN y - 1 ELSE y
           yoe == year % 400
           e == year \div 400
           k == (m + 9) % 12
           doy == (153 * k + 2) \div 5 + d - 1
           c == yoe \div 100
           q == (yoe % 100) \div 4
           r == yoe % 4
           days == DaysFromCivil(y, m, d)
<1>1. d \in 1..31 /\ k \in 0..11 /\ year \in Int
  <2>1. DaysInMonth(y, m) \in Int /\ DaysInMonth(y, m) <= 31
    BY DaysInMonthIs DEF LeapDay
  <2> QED BY <2>1
<1>2. /\ c \in 0..3 /\ q \in 0..24 /\ r \in 0..3 /\ e \in Int /\ yoe \in 0..399
      /\ yoe = 100 * c + 4 * q + r /\ year = 400 * e + yoe
      /\ yoe \div 4 = 25 * c + q
  BY <1>1
<1>3. d <= <<31, 30, 31, 30, 31, 31, 30, 31, 30, 31, 31, 29>>[k + 1]
  <2>1. DaysInMonth(y, m) <= <<31, 30, 31, 30, 31, 31, 30, 31, 30, 31, 31, 29>>[k + 1]
    BY DaysInMonthIs DEF LeapDay
  <2>2. DaysInMonth(y, m) \in Int
    BY DaysInMonthIs DEF LeapDay
  <2> QED BY <1>1, <2>1, <2>2
<1>4. (5 * doy + 2) \div 153 = k
  <2>1. \A i \in 0..11 : \A n \in 1..<<31, 30, 31, 30, 31, 31, 30, 31, 30, 31, 31, 29>>[i + 1] :
          (5 * ((153 * i + 2) \div 5 + n - 1) + 2) \div 153 = i
    OBVIOUS
  <2> HIDE DEF k
  <2> QED BY <1>1, <1>3, <2>1
<1>5. doy \in 0..365 /\ (doy = 365 => r = 3 /\ (q < 24 \/ c = 3))
  <2>1. CASE k < 11
    <3>1. \A i \in 0..10 : \A n \in 1..31 : (153 * i + 2) \div 5 + n - 1 \in 0..364
      OBVIOUS
    <3> HIDE DEF k
    <3> QED BY <1>1, <2>1, <3>1
  <2>2. CASE k = 11
    <3>1. m = 2 /\ year = y - 1 /\ d <= 28 + LeapDay(y) /\ doy = 337 + d - 1
      <4>1. m = 2
        BY <2>2
      <4> QED BY <2>2, <4>1, DaysInMonthIs
    <3>2. doy \in 0..365 /\ (doy = 365 => IsLeapYear(y))
      BY <1>1, <3>1 DEF LeapDay
    <3>3. IsLeapYear(y) => r = 3 /\ (q < 24 \/ c = 3)
      <4>1. y = 400 * e + 100 * c + 4 * q + r + 1
        BY <1>2, <3>1
      <4> HIDE DEF e, c, q, r
      <4> QED BY <1>2, <4>1 DEF IsLeapYear
    <3> QED BY <3>2, <3>3
  <2> QED BY <1>1, <2>1, <2>2
<1>6. days = DayOf(e, c, q, r, doy)
  <2>1. days = 146097 * e + (yoe * 365 + yoe \div 4 - yoe \div 100 + doy) - 719468
    BY SMT DEF DaysFromCivil
  <2>2. c = yoe \div 100
    BY SMT
  <2> HIDE DEF days, yoe, e, c, q, r, doy
  <2> QED BY <1>2, <1>5, <2>1, <2>2, SMT DEF Days, DayOf
<1>7. y = year + (IF m <= 2 THEN 1 ELSE 0) /\ m = IF k < 10 THEN k + 3 ELSE k - 9
  OBVIOUS
<1>8. doy - (153 * k + 2) \div 5 + 1 = d
  BY <1>1
<1> HIDE DEF year, yoe, e, k, doy, c, q, r, days
<1>9. CivilFromDays(days) = DateOf(100 * c + 4 * q + r + e * 400, (5 * doy + 2) \div 153, doy)
  <2>1. /\ e \in Int /\ c \in Int /\ q \in Int /\ r \in Int /\ doy \in Int
        /\ 0 <= c /\ c <= 3 /\ 0 <= q /\ q <= 24 /\ 0 <= r /\ r <= 3
        /\ 0 <= doy /\ doy <= 365
    BY <1>2, <1>5, SMT
  <2>2. CivilFromDays(DayOf(e, c, q, r, doy)) =
          DateOf(100 * c + 4 * q + r + e * 400, (5 * doy + 2) \div 153, doy)
    BY <2>1, <1>5, CivilOfParts, SMTT(30)
  <2> QED BY <1>6, <2>2
<1>10. 100 * c + 4 * q + r + e * 400 = year
  BY <1>2
<1>11. CivilFromDays(days) = DateOf(year, k, doy)
  BY <1>4, <1>9, <1>10
<1>12. DateOf(year, k, doy) = [year |-> y, month |-> m, day |-> d]
  BY <1>7, <1>8 DEF DateOf
<1> QED BY <1>11, <1>12 DEF days

(* For every year, past or future, days and dates are those of the calendar  *)
(* counted day by day, and a day that no month has is refused: every date    *)
(* of an artifact went through these formulas.                               *)
THEOREM DatesAreRight == \A y \in Int : DatesAreCounted(y)
<1> SUFFICES ASSUME NEW y \in Int, NEW m \in 1..12, NEW d \in 1..DaysInMonth(y, m)
             PROVE  /\ DaysFromCivil(y, m, d) = NewYear(y) + Before(y, m) + d - 1
                    /\ CivilFromDays(NewYear(y) + Before(y, m) + d - 1)
                         = [year |-> y, month |-> m, day |-> d]
                    /\ FromYmd(y, m, DaysInMonth(y, m) + d) = Invalid
  BY DEF DatesAreCounted
<1>1. DaysInMonth(y, m) \in Int /\ d \in Int /\ 1 <= d
  BY DaysInMonthIs DEF LeapDay
<1>2. DaysFromCivil(y, m, d) = NewYear(y) + Before(y, m) + d - 1
  BY <1>1, DaysFromYear, NewYearIsJanuary, BeforeIsMonthStart
<1>3. FromYmd(y, m, DaysInMonth(y, m) + d) = Invalid
  BY <1>1 DEF FromYmd
<1> QED BY <1>2, <1>3, CivilIsInverse

(* Months have 28 to 31 days, each begins on a day, and the next one follows. *)
LEMMA MonthLength ==
  ASSUME NEW y \in Int, NEW m \in 1..12
  PROVE  DaysInMonth(y, m) \in 28..31
BY DaysInMonthIs, SMT DEF LeapDay

LEMMA FirstIsDay ==
  ASSUME NEW y \in Int, NEW m \in 1..12
  PROVE  DaysFromCivil(y, m, 1) \in Int
BY SMT DEF DaysFromCivil

LEMMA MonthEnds ==
  ASSUME NEW y \in Int, NEW m \in 1..12
  PROVE  DaysFromCivil(y, m, 1) + DaysInMonth(y, m) =
           IF m = 12 THEN DaysFromCivil(y + 1, 1, 1) ELSE DaysFromCivil(y, m + 1, 1)
<1>1. LeapDay(y) \in {0, 1} /\ DaysInMonth(y, m) \in 28..31
  BY MonthLength DEF LeapDay
<1>2. /\ DaysFromCivil(y, 1, 1) \in Int
      /\ DaysFromCivil(y + 1, 1, 1) = DaysFromCivil(y, 1, 1) + 365 + LeapDay(y)
  BY JanuaryStep
<1>3. ASSUME NEW n \in 1..12
      PROVE  /\ MonthStart(y, n) \in Int
             /\ DaysFromCivil(y, n, 1) = DaysFromCivil(y, 1, 1) + MonthStart(y, n)
  <2>1. MonthStart(y, n) \in Int
    BY <1>1, SMT DEF MonthStart
  <2>2. DaysFromCivil(y, n, 1) = DaysFromCivil(y, 1, 1) + MonthStart(y, n) + 1 - 1
    BY DaysFromYear, SMT
  <2> QED BY <1>2, <2>1, <2>2, SMT
<1>4. MonthStart(y, m) \in Int
  BY <1>3
<1>5. CASE m = 12
  BY <1>1, <1>2, <1>3, <1>5, DaysInMonthIs DEF MonthStart
<1>6. CASE m < 12
  <2>1. MonthStart(y, m) + DaysInMonth(y, m) = MonthStart(y, m + 1)
    BY <1>1, <1>6, DaysInMonthIs DEF MonthStart
  <2> QED BY <1>1, <1>2, <1>3, <1>4, <1>6, <2>1
<1> QED BY <1>5, <1>6

(* Months are numbered from year 0 on, and found again by their number. *)
Index(y, m) == 12 * y + (m - 1)
FirstOf(index) == [day |-> DaysFromCivil(index \div 12, (index % 12) + 1, 1), second |-> 0]

LEMMA IndexIs ==
  ASSUME NEW y \in Int, NEW m \in 1..12
  PROVE  Index(y, m) \in Int /\ Index(y, m) \div 12 = y /\ (Index(y, m) % 12) + 1 = m
<1> DEFINE i == 12 * y + (m - 1)
<1>1. i \div 12 = y /\ i % 12 = m - 1 /\ i \in Int
  BY SMT
<1> QED BY <1>1, SMT DEF Index

(* The first day of a month, by its date and by its number. *)
LEMMA FirstOfIs ==
  ASSUME NEW y \in Int, NEW m \in 1..12
  PROVE  /\ FromYmd(y, m, 1) = [day |-> DaysFromCivil(y, m, 1), second |-> 0]
         /\ FirstOf(Index(y, m)) = [day |-> DaysFromCivil(y, m, 1), second |-> 0]
<1>1. DaysInMonth(y, m) \in 28..31
  BY MonthLength, SMT
<1>2. FromYmd(y, m, 1) = [day |-> DaysFromCivil(y, m, 1), second |-> 0]
  BY <1>1, SMT DEF FromYmd
<1>3. Index(y, m) \div 12 = y /\ (Index(y, m) % 12) + 1 = m
  BY IndexIs, Zenon
<1> QED BY <1>2, <1>3, Zenon DEF FirstOf

(* Timestamp::start_of_month and plus_months, of any day of a month. *)
LEMMA MonthOfDay ==
  ASSUME NEW y \in Int, NEW m \in 1..12, NEW d \in 1..DaysInMonth(y, m),
         NEW t, t.day = DaysFromCivil(y, m, d)
  PROVE  /\ StartOfMonth(t) = [day |-> DaysFromCivil(y, m, 1), second |-> 0]
         /\ \A n \in Int : PlusMonths(t, n) = FirstOf(Index(y, m) + n)
<1>1. CivilFromDays(t.day) = [year |-> y, month |-> m, day |-> d]
  BY CivilIsInverse
<1>2. MonthIndex(CivilFromDays(t.day)) = Index(y, m)
  BY <1>1, SMT DEF MonthIndex, Index
<1>3. StartOfMonth(t) = [day |-> DaysFromCivil(y, m, 1), second |-> 0]
  BY <1>1, SMT DEF StartOfMonth
<1>4. ASSUME NEW n \in Int PROVE PlusMonths(t, n) = FirstOf(Index(y, m) + n)
  <2> DEFINE index == MonthIndex(CivilFromDays(t.day)) + n
  <2>1. PlusMonths(t, n) = [day |-> DaysFromCivil(index \div 12, (index % 12) + 1, 1), second |-> 0]
    BY Zenon DEF PlusMonths
  <2> HIDE DEF index
  <2>2. PlusMonths(t, n) = FirstOf(index)
    BY <2>1, Zenon DEF FirstOf
  <2> QED BY <1>2, <2>2, Zenon DEF index
<1> QED BY <1>3, <1>4

(* For every year, months follow one another without a gap, forwards and     *)
(* backwards, across years and eras: the buckets of the timeline are made of *)
(* these operations.                                                         *)
THEOREM MonthsAreInOrder == \A y \in Int : MonthsFollow(y)
<1> SUFFICES ASSUME NEW y \in Int, NEW m \in 1..12, NEW d \in {0, 14, DaysInMonth(y, m) - 1}
             PROVE  MonthFollows(y, m, d)
  BY DEF MonthsFollow
<1> DEFINE length == DaysInMonth(y, m)
           first == DaysFromCivil(y, m, 1)
           start == FromYmd(y, m, 1)
           end == PlusDays(start, length)
           t == [PlusDays(start, d) EXCEPT !.second = 86399]
<1>1. length \in 28..31 /\ first \in Int /\ d \in Int /\ 0 <= d /\ d < length
  <2>1. length \in 28..31
    BY MonthLength, SMT
  <2>2. first \in Int
    BY FirstIsDay, Zenon
  <2> HIDE DEF first
  <2> QED BY <2>1, <2>2, SMT
<1>2. /\ start = [day |-> first, second |-> 0] /\ start = FirstOf(Index(y, m))
      /\ end = [day |-> first + length, second |-> 0]
      /\ t = [day |-> first + d, second |-> 86399]
  <2>1. start = [day |-> first, second |-> 0] /\ start = FirstOf(Index(y, m))
    BY FirstOfIs
  <2>2. \A n : PlusDays([day |-> first, second |-> 0], n) = [day |-> first + n, second |-> 0]
    <3> HIDE DEF first
    <3> QED BY SMT DEF PlusDays
  <2>3. [[day |-> first + d, second |-> 0] EXCEPT !.second = 86399]
          = [day |-> first + d, second |-> 86399]
    <3> HIDE DEF first
    <3> QED BY SMT
  <2> HIDE DEF start, first, length
  <2> QED BY <2>1, <2>2, <2>3, SMT
<1>3. t.day = DaysFromCivil(y, m, d + 1) /\ d + 1 \in 1..length
  <2>1. MonthStart(y, m) \in Int /\ DaysFromCivil(y, 1, 1) \in Int
    BY JanuaryStep, SMT DEF MonthStart, LeapDay
  <2>2. /\ DaysFromCivil(y, m, d + 1) = DaysFromCivil(y, 1, 1) + MonthStart(y, m) + (d + 1) - 1
        /\ first = DaysFromCivil(y, 1, 1) + MonthStart(y, m) + 1 - 1
    BY <1>1, DaysFromYear, SMT
  <2> HIDE DEF t, first, length
  <2>3. t.day = first + d
    BY <1>2, SMT
  <2>4. d + 1 \in 1..length
    BY <1>1, SMT
  <2>5. first + d = DaysFromCivil(y, m, d + 1)
    <3> DEFINE january == DaysFromCivil(y, 1, 1)  before == MonthStart(y, m)
               day == DaysFromCivil(y, m, d + 1)
    <3>1. /\ day = january + before + (d + 1) - 1 /\ first = january + before + 1 - 1
          /\ january \in Int /\ before \in Int /\ d \in Int
      BY <1>1, <2>1, <2>2
    <3> HIDE DEF january, before, day
    <3>2. first + d = day
      BY <3>1, SMT
    <3> QED BY <3>2 DEF day
  <2> QED BY <2>3, <2>4, <2>5
<1> HIDE DEF length, first, start, end, t
<1>4. /\ StartOfMonth(t) = start
      /\ \A n \in Int : PlusMonths(t, n) = FirstOf(Index(y, m) + n)
  BY <1>2, <1>3, MonthOfDay DEF length, first
<1>5. Index(y, m) \in Int
  BY IndexIs
<1>6. /\ PlusMonths(t, 1) = FirstOf(Index(y, m) + 1) /\ PlusMonths(t, 0) = FirstOf(Index(y, m))
      /\ PlusMonths(t, -13) = FirstOf(Index(y, m) - 13)
  BY <1>4, <1>5, SMT
<1>7. /\ end = FirstOf(Index(y, m) + 1)
      /\ \A n \in Int : PlusMonths(end, n) = FirstOf(Index(y, m) + 1 + n)
  <2>1. PICK k \in Int, n \in 1..12 : /\ Index(k, n) = Index(y, m) + 1
                                       /\ end.day = DaysFromCivil(k, n, 1)
    <3>1. first + length = IF m = 12 THEN DaysFromCivil(y + 1, 1, 1) ELSE DaysFromCivil(y, m + 1, 1)
      BY MonthEnds DEF first, length
    <3>2. CASE m = 12
      <4>1. Index(y + 1, 1) = Index(y, m) + 1
        BY <3>2, SMT DEF Index
      <4> QED BY <1>2, <3>1, <3>2, <4>1
    <3>3. CASE m # 12
      <4>1. Index(y, m + 1) = Index(y, m) + 1 /\ m + 1 \in 1..12
        BY <3>3, SMT DEF Index
      <4> QED BY <1>2, <3>1, <3>3, <4>1
    <3> QED BY <3>2, <3>3
  <2>2. 1 \in 1..DaysInMonth(k, n)
    BY MonthLength, SMT
  <2>3. FirstOf(Index(k, n)) = [day |-> end.day, second |-> 0]
    BY <2>1, FirstOfIs
  <2>4. \A i \in Int : PlusMonths(end, i) = FirstOf(Index(k, n) + i)
    BY <2>1, <2>2, MonthOfDay
  <2> QED BY <1>2, <2>1, <2>3, <2>4
<1>8. PlusMonths(PlusMonths(t, 1), -1) = start
  <2>1. PlusMonths(end, -1) = FirstOf(Index(y, m) + 1 + -1)
    BY <1>7, SMT
  <2>2. Index(y, m) + 1 + -1 = Index(y, m)
    BY <1>5, SMT
  <2> QED BY <1>2, <1>6, <1>7, <2>1, <2>2
<1>9. PlusMonths(t, -13) = FromYmd(IF m = 1 THEN y - 2 ELSE y - 1, IF m = 1 THEN 12 ELSE m - 1, 1)
  <2>1. CASE m = 1
    <3>1. Index(y - 2, 12) = Index(y, m) - 13
      BY <2>1, SMT DEF Index
    <3>2. y - 2 \in Int /\ 12 \in 1..12
      BY SMT
    <3>3. FromYmd(y - 2, 12, 1) = FirstOf(Index(y - 2, 12))
      BY <3>2, FirstOfIs, Zenon
    <3> QED BY <1>6, <2>1, <3>1, <3>3
  <2>2. CASE m # 1
    <3>1. Index(y - 1, m - 1) = Index(y, m) - 13 /\ m - 1 \in 1..12
      BY <2>2, SMT DEF Index
    <3>2. y - 1 \in Int /\ m - 1 \in 1..12
      BY <3>1, SMT
    <3>3. FromYmd(y - 1, m - 1, 1) = FirstOf(Index(y - 1, m - 1))
      BY <3>2, FirstOfIs, Zenon
    <3> QED BY <1>6, <2>2, <3>1, <3>3
  <2> QED BY <2>1, <2>2
<1>10. DaysUntil(start, t) = d /\ DaysUntil(t, start) = -d - 1
  BY <1>1, <1>2, SMT DEF DaysUntil
<1>11. Weekday(end) = (Weekday(start) + length) % 7
  BY <1>1, <1>2, SMT DEF Weekday
<1>12. /\ PlusMonths(t, 1) = end /\ PlusMonths(t, 0) = start /\ StartOfMonth(t) = start
  BY <1>2, <1>4, <1>6, <1>7
<1> QED BY <1>8, <1>9, <1>10, <1>11, <1>12, SMT DEF length, start, end, t, MonthFollows

-----------------------------------------------------------------------------
(* core/glob.rs. A pattern takes a text piece by piece: each symbol moves    *)
(* from one place of the text to another, and a way goes from the place d    *)
(* after a symbols to the place e after b of them.                           *)
Ways(l, moves, a, b) ==
  {cut \in [a..b -> 0..l] : \A i \in (a + 1)..b : <<cut[i - 1], cut[i]>> \in moves[i]}

Way(l, moves, a, b, d, e) == \E cut \in Ways(l, moves, a, b) : cut[a] = d /\ cut[b] = e

(* No symbol, no move. *)
LEMMA WayNone ==
  ASSUME NEW l \in Nat, NEW moves, NEW a \in Nat, NEW d \in 0..l, NEW e \in 0..l
  PROVE Way(l, moves, a, a, d, e) <=> d = e
<1> DEFINE cut == [i \in a..a |-> d]
<1>1. cut \in Ways(l, moves, a, a) /\ cut[a] = d
  BY SMT DEF Ways
<1> QED BY <1>1 DEF Way

(* A way begins with the move of its first symbol, *)
LEMMA WayFirst ==
  ASSUME NEW l \in Nat, NEW moves, NEW a \in Nat, NEW b \in Nat, a < b,
         NEW d \in 0..l, NEW e \in 0..l
  PROVE Way(l, moves, a, b, d, e) <=>
          \E c \in 0..l : <<d, c>> \in moves[a + 1] /\ Way(l, moves, a + 1, b, c, e)
<1>1. ASSUME NEW cut \in Ways(l, moves, a, b), cut[a] = d, cut[b] = e
      PROVE \E c \in 0..l : <<d, c>> \in moves[a + 1] /\ Way(l, moves, a + 1, b, c, e)
  <2> DEFINE rest == [i \in (a + 1)..b |-> cut[i]]
  <2>1. cut \in [a..b -> 0..l] /\ \A i \in (a + 1)..b : <<cut[i - 1], cut[i]>> \in moves[i]
    BY DEF Ways
  <2>2. /\ rest \in [(a + 1)..b -> 0..l] /\ rest[a + 1] = cut[a + 1] /\ rest[b] = e
        /\ cut[a + 1] \in 0..l /\ a + 1 \in (a + 1)..b /\ (a + 1) - 1 = a
    BY <1>1, <2>1, SMT
  <2>3. \A i \in ((a + 1) + 1)..b :
          i \in (a + 1)..b /\ rest[i] = cut[i] /\ rest[i - 1] = cut[i - 1]
    BY SMT
  <2> HIDE DEF rest
  <2>4. rest \in Ways(l, moves, a + 1, b)
    BY <2>1, <2>2, <2>3 DEF Ways
  <2>5. <<d, cut[a + 1]>> \in moves[a + 1]
    BY <1>1, <2>1, <2>2
  <2> QED BY <2>2, <2>4, <2>5 DEF Way
<1>2. ASSUME NEW c \in 0..l, <<d, c>> \in moves[a + 1],
             NEW rest \in Ways(l, moves, a + 1, b), rest[a + 1] = c, rest[b] = e
      PROVE Way(l, moves, a, b, d, e)
  <2> DEFINE cut == [i \in a..b |-> IF i = a THEN d ELSE rest[i]]
  <2>1. /\ rest \in [(a + 1)..b -> 0..l]
        /\ \A i \in ((a + 1) + 1)..b : <<rest[i - 1], rest[i]>> \in moves[i]
    BY DEF Ways
  <2>2. cut \in [a..b -> 0..l] /\ cut[a] = d /\ cut[b] = e
    BY <1>2, <2>1, SMT
  <2>3. \A i \in (a + 1)..b : cut[i] = rest[i]
    BY SMT
  <2> HIDE DEF cut
  <2>4. ASSUME NEW i \in (a + 1)..b PROVE <<cut[i - 1], cut[i]>> \in moves[i]
    <3>1. CASE i = a + 1
      <4>1. cut[i - 1] = d /\ cut[i] = c
        BY <1>2, <2>2, <2>3, <3>1, SMT
      <4> QED BY <1>2, <3>1, <4>1
    <3>2. CASE i # a + 1
      <4>1. i \in ((a + 1) + 1)..b /\ i - 1 \in (a + 1)..b
        BY <3>2, SMT
      <4> QED BY <2>1, <2>3, <4>1
    <3> QED BY <3>1, <3>2
  <2>5. cut \in Ways(l, moves, a, b)
    BY <2>2, <2>4 DEF Ways
  <2> QED BY <2>2, <2>5 DEF Way
<1> QED BY <1>1, <1>2 DEF Way

(* and ends with the move of its last one. *)
LEMMA WayLast ==
  ASSUME NEW l \in Nat, NEW moves, NEW a \in Nat, NEW b \in Nat, a <= b,
         NEW d \in 0..l, NEW e \in 0..l
  PROVE Way(l, moves, a, b + 1, d, e) <=>
          \E c \in 0..l : Way(l, moves, a, b, d, c) /\ <<c, e>> \in moves[b + 1]
<1>1. ASSUME NEW cut \in Ways(l, moves, a, b + 1), cut[a] = d, cut[b + 1] = e
      PROVE \E c \in 0..l : Way(l, moves, a, b, d, c) /\ <<c, e>> \in moves[b + 1]
  <2> DEFINE rest == [i \in a..b |-> cut[i]]
  <2>1. /\ cut \in [a..(b + 1) -> 0..l]
        /\ \A i \in (a + 1)..(b + 1) : <<cut[i - 1], cut[i]>> \in moves[i]
    BY DEF Ways
  <2>2. /\ rest \in [a..b -> 0..l] /\ rest[a] = d /\ rest[b] = cut[b]
        /\ cut[b] \in 0..l /\ b + 1 \in (a + 1)..(b + 1) /\ (b + 1) - 1 = b
    BY <1>1, <2>1, SMT
  <2>3. \A i \in (a + 1)..b :
          i \in (a + 1)..(b + 1) /\ rest[i] = cut[i] /\ rest[i - 1] = cut[i - 1]
    BY SMT
  <2> HIDE DEF rest
  <2>4. rest \in Ways(l, moves, a, b)
    BY <2>1, <2>2, <2>3 DEF Ways
  <2>5. <<cut[b], e>> \in moves[b + 1]
    BY <1>1, <2>1, <2>2
  <2> QED BY <2>2, <2>4, <2>5 DEF Way
<1>2. ASSUME NEW c \in 0..l, <<c, e>> \in moves[b + 1],
             NEW rest \in Ways(l, moves, a, b), rest[a] = d, rest[b] = c
      PROVE Way(l, moves, a, b + 1, d, e)
  <2> DEFINE cut == [i \in a..(b + 1) |-> IF i = b + 1 THEN e ELSE rest[i]]
  <2>1. rest \in [a..b -> 0..l] /\ \A i \in (a + 1)..b : <<rest[i - 1], rest[i]>> \in moves[i]
    BY DEF Ways
  <2>2. cut \in [a..(b + 1) -> 0..l] /\ cut[a] = d /\ cut[b + 1] = e
    BY <1>2, <2>1, SMT
  <2>3. \A i \in a..b : cut[i] = rest[i]
    BY SMT
  <2> HIDE DEF cut
  <2>4. ASSUME NEW i \in (a + 1)..(b + 1) PROVE <<cut[i - 1], cut[i]>> \in moves[i]
    <3>1. CASE i = b + 1
      <4>1. cut[i - 1] = c /\ cut[i] = e
        BY <1>2, <2>2, <2>3, <3>1, SMT
      <4> QED BY <1>2, <3>1, <4>1
    <3>2. CASE i # b + 1
      <4>1. i \in (a + 1)..b /\ i \in a..b /\ i - 1 \in a..b
        BY <3>2, SMT
      <4> QED BY <2>1, <2>3, <4>1
    <3> QED BY <3>1, <3>2
  <2>5. cut \in Ways(l, moves, a, b + 1)
    BY <2>2, <2>4 DEF Ways
  <2> QED BY <2>2, <2>5 DEF Way
<1> QED BY <1>1, <1>2 DEF Way

(* The moves of a symbol in a name. *)
Skips(l) == {move \in (0..l) \X (0..l) : move[1] <= move[2]}
NameMove(token, text) ==
  IF token = "*" THEN Skips(Len(text))
  ELSE {move \in (0..Len(text)) \X (0..Len(text)) :
          move[2] = move[1] + 1 /\ Accepts(token, text[move[2]])}
NameMoves(tokens, text) == [i \in DOMAIN tokens |-> NameMove(tokens[i], text)]

LEMMA NameMoveIs ==
  ASSUME NEW token, NEW text, Len(text) \in Nat,
         NEW d \in 0..Len(text), NEW e \in 0..Len(text)
  PROVE <<d, e>> \in NameMove(token, text) <=>
          /\ d <= e
          /\ token = "*" \/ (e = d + 1 /\ Accepts(token, text[e]))
<1>1. <<d, e>> \in (0..Len(text)) \X (0..Len(text)) /\ <<d, e>>[1] = d /\ <<d, e>>[2] = e
  OBVIOUS
<1>2. <<d, e>> \in Skips(Len(text)) <=> d <= e
  BY <1>1 DEF Skips
<1>3. e = d + 1 => d <= e
  BY SMT
<1> QED BY <1>1, <1>2, <1>3 DEF NameMove

LEMMA NameWay ==
  ASSUME NEW tokens, Len(tokens) \in Nat, DOMAIN tokens = 1..Len(tokens),
         NEW text, Len(text) \in Nat
  PROVE NameFits(tokens, text)
          <=> Way(Len(text), NameMoves(tokens, text), 0, Len(tokens), 0, Len(text))
<1> DEFINE n == Len(tokens)  l == Len(text)
<1>1. ASSUME NEW cut \in [0..n -> 0..l], NEW i \in 1..n
      PROVE <<cut[i - 1], cut[i]>> \in NameMoves(tokens, text)[i] <=>
              /\ cut[i - 1] <= cut[i]
              /\ tokens[i] = "*" \/ (cut[i] = cut[i - 1] + 1 /\ Accepts(tokens[i], text[cut[i]]))
  <2>1. /\ cut[i - 1] \in 0..l /\ cut[i] \in 0..l
        /\ NameMoves(tokens, text)[i] = NameMove(tokens[i], text)
    BY SMT DEF NameMoves
  <2>2. <<cut[i - 1], cut[i]>> \in NameMove(tokens[i], text) <=>
          /\ cut[i - 1] <= cut[i]
          /\ tokens[i] = "*" \/ (cut[i] = cut[i - 1] + 1 /\ Accepts(tokens[i], text[cut[i]]))
    BY <2>1, NameMoveIs
  <2> QED BY <2>1, <2>2
<1>2. \A cut \in [0..n -> 0..l] :
        cut \in Ways(l, NameMoves(tokens, text), 0, n) /\ cut[0] = 0 /\ cut[n] = l <=>
        /\ cut \in Cuts(n, l)
        /\ \A i \in DOMAIN tokens :
             tokens[i] = "*" \/ (cut[i] = cut[i - 1] + 1 /\ Accepts(tokens[i], text[cut[i]]))
  <2> SUFFICES ASSUME NEW cut \in [0..n -> 0..l]
               PROVE (\A i \in (0 + 1)..n : <<cut[i - 1], cut[i]>> \in NameMoves(tokens, text)[i])
                     <=> \A i \in 1..n :
                           /\ cut[i - 1] <= cut[i]
                           /\ \/ tokens[i] = "*"
                              \/ cut[i] = cut[i - 1] + 1 /\ Accepts(tokens[i], text[cut[i]])
    BY DEF Ways, Cuts
  <2>1. 0 + 1 = 1
    OBVIOUS
  <2> QED BY <1>1, <2>1
<1>3. /\ Ways(l, NameMoves(tokens, text), 0, n) \subseteq [0..n -> 0..l]
      /\ Cuts(n, l) \subseteq [0..n -> 0..l]
  BY DEF Ways, Cuts
<1> QED BY <1>2, <1>3, Zenon DEF Way, NameFits

(* From a symbol and a place of a name on, both counted from one, what is    *)
(* left of the symbols can take what is left of the name.                    *)
Fits(tokens, text, t, s) ==
  Way(Len(text), NameMoves(tokens, text), t - 1, Len(tokens), s - 1, Len(text))

LEMMA FitsOne ==
  ASSUME NEW tokens, NEW text, Len(tokens) \in Nat, Len(text) \in Nat,
         DOMAIN tokens = 1..Len(tokens),
         NEW t \in 1..Len(tokens), NEW s \in 1..(Len(text) + 1)
  PROVE Fits(tokens, text, t, s) <=>
          \E r \in s..(Len(text) + 1) :
            /\ Fits(tokens, text, t + 1, r)
            /\ tokens[t] = "*" \/ (r = s + 1 /\ Accepts(tokens[t], text[s]))
<1> DEFINE l == Len(text)  From(c) == Way(l, NameMoves(tokens, text), t, Len(tokens), c, l)
<1>1. /\ t - 1 \in Nat /\ t - 1 < Len(tokens) /\ (t - 1) + 1 = t /\ (t + 1) - 1 = t
      /\ s - 1 \in 0..l /\ l \in 0..l
      /\ \A r \in s..(l + 1) : r - 1 \in 0..l
      /\ \A c \in 0..l : c + 1 \in s..(l + 1) <=> s - 1 <= c
      /\ \A c \in 0..l : (c + 1) - 1 = c
  BY SMT
<1>2. Fits(tokens, text, t, s) <=>
        \E c \in 0..l : <<s - 1, c>> \in NameMove(tokens[t], text) /\ From(c)
  <2>1. Way(l, NameMoves(tokens, text), t - 1, Len(tokens), s - 1, l) <=>
          \E c \in 0..l : /\ <<s - 1, c>> \in NameMoves(tokens, text)[(t - 1) + 1]
                          /\ Way(l, NameMoves(tokens, text), (t - 1) + 1, Len(tokens), c, l)
    BY <1>1, WayFirst
  <2>2. NameMoves(tokens, text)[t] = NameMove(tokens[t], text)
    BY DEF NameMoves
  <2>3. (t - 1) + 1 = t
    BY <1>1, SMT
  <2>4. Way(l, NameMoves(tokens, text), t - 1, Len(tokens), s - 1, l) <=>
          \E c \in 0..l : /\ <<s - 1, c>> \in NameMoves(tokens, text)[t]
                          /\ Way(l, NameMoves(tokens, text), t, Len(tokens), c, l)
    BY <2>1, <2>3, Zenon
  <2> QED BY <2>2, <2>4, Zenon DEF Fits
<1>3. ASSUME NEW c \in 0..l
      PROVE <<s - 1, c>> \in NameMove(tokens[t], text) <=>
              /\ s - 1 <= c
              /\ tokens[t] = "*" \/ (c + 1 = s + 1 /\ Accepts(tokens[t], text[s]))
  <2>1. c = (s - 1) + 1 <=> c + 1 = s + 1
    BY SMT
  <2>2. c = (s - 1) + 1 => c = s
    BY SMT
  <2>3. <<s - 1, c>> \in NameMove(tokens[t], text) <=>
          /\ s - 1 <= c
          /\ tokens[t] = "*" \/ (c = (s - 1) + 1 /\ Accepts(tokens[t], text[c]))
    BY <1>1, NameMoveIs
  <2> QED BY <2>1, <2>2, <2>3
<1>4. \A r : Fits(tokens, text, t + 1, r) <=> From(r - 1)
  BY <1>1 DEF Fits
<1> HIDE DEF From
<1>5. ASSUME NEW c \in 0..l, <<s - 1, c>> \in NameMove(tokens[t], text), From(c)
      PROVE \E r \in s..(l + 1) :
              /\ Fits(tokens, text, t + 1, r)
              /\ tokens[t] = "*" \/ (r = s + 1 /\ Accepts(tokens[t], text[s]))
  <2>1. c + 1 \in s..(l + 1) /\ Fits(tokens, text, t + 1, c + 1)
    BY <1>1, <1>3, <1>4, <1>5
  <2> QED BY <1>3, <1>5, <2>1
<1>6. ASSUME NEW r \in s..(l + 1), Fits(tokens, text, t + 1, r),
             tokens[t] = "*" \/ (r = s + 1 /\ Accepts(tokens[t], text[s]))
      PROVE \E c \in 0..l : <<s - 1, c>> \in NameMove(tokens[t], text) /\ From(c)
  <2>1. r - 1 \in 0..l /\ s - 1 <= r - 1 /\ (r = s + 1 => (r - 1) + 1 = s + 1)
    BY <1>1, SMT
  <2> QED BY <1>3, <1>4, <1>6, <2>1
<1> QED BY <1>2, <1>5, <1>6

(* Past the last symbol only the end of the name fits. *)
LEMMA FitsEnd ==
  ASSUME NEW tokens, NEW text, Len(tokens) \in Nat, Len(text) \in Nat,
         NEW s \in 1..(Len(text) + 1)
  PROVE Fits(tokens, text, Len(tokens) + 1, s) <=> s = Len(text) + 1
<1>1. /\ s - 1 \in 0..Len(text) /\ Len(text) \in 0..Len(text)
      /\ (Len(tokens) + 1) - 1 = Len(tokens)
      /\ s - 1 = Len(text) <=> s = Len(text) + 1
  BY SMT
<1> QED BY <1>1, WayNone DEF Fits

(* Symbols that are no stars, each taking its letter: as far as one pass gets *)
(* on its own, when it has come to the end of the text or to a star.          *)
Block(tokens, text, t, s, k) ==
  \A i \in 0..(k - 1) :
    /\ t + i <= Len(tokens) /\ tokens[t + i] # "*"
    /\ s + i <= Len(text) /\ Accepts(tokens[t + i], text[s + i])

Reaches(tokens, text, t, s) ==
  \E k \in Nat :
    /\ Block(tokens, text, t, s, k)
    /\ s + k = Len(text) + 1 \/ (t + k <= Len(tokens) /\ tokens[t + k] = "*")

(* A block takes as many letters as it has symbols, from wherever it starts. *)
LEMMA BlockFits ==
  ASSUME NEW tokens, NEW text, Len(tokens) \in Nat, Len(text) \in Nat,
         DOMAIN tokens = 1..Len(tokens),
         NEW t \in 1..(Len(tokens) + 1), NEW s \in 1..(Len(text) + 1), NEW k \in Nat,
         Block(tokens, text, t, s, k)
  PROVE  /\ t + k <= Len(tokens) + 1 /\ s + k <= Len(text) + 1
         /\ Fits(tokens, text, t, s) <=> Fits(tokens, text, t + k, s + k)
         /\ \A r \in 1..(Len(text) + 1) : Fits(tokens, text, t, r) =>
              r + k <= Len(text) + 1 /\ Fits(tokens, text, t + k, r + k)
<1> DEFINE Good(j) ==
             /\ t + j <= Len(tokens) + 1 /\ s + j <= Len(text) + 1
             /\ Fits(tokens, text, t, s) <=> Fits(tokens, text, t + j, s + j)
             /\ \A r \in 1..(Len(text) + 1) : Fits(tokens, text, t, r) =>
                  r + j <= Len(text) + 1 /\ Fits(tokens, text, t + j, r + j)
           S == {j \in Nat : j <= k => Good(j)}
<1>1. 0 \in S
  BY SMT
<1>2. ASSUME NEW j \in Nat, j \in S, j + 1 <= k PROVE Good(j + 1)
  <2>1. Good(j)
    BY <1>2, SMT
  <2>2. /\ t + j \in 1..Len(tokens) /\ tokens[t + j] # "*"
        /\ s + j \in 1..Len(text) /\ Accepts(tokens[t + j], text[s + j])
    BY <1>2, SMT DEF Block
  <2>3. ASSUME NEW r \in 1..(Len(text) + 1)
        PROVE Fits(tokens, text, t + j, r) <=>
                /\ r + 1 \in r..(Len(text) + 1) /\ Fits(tokens, text, (t + j) + 1, r + 1)
                /\ Accepts(tokens[t + j], text[r])
    BY <2>2, FitsOne, SMTT(30)
  <2>4. /\ (t + j) + 1 = t + (j + 1) /\ (s + j) + 1 = s + (j + 1)
        /\ (s + j) \in 1..(Len(text) + 1) /\ (s + j) + 1 \in (s + j)..(Len(text) + 1)
        /\ t + (j + 1) <= Len(tokens) + 1 /\ s + (j + 1) <= Len(text) + 1
    BY <2>2, SMT
  <2>5. Fits(tokens, text, t, s) <=> Fits(tokens, text, t + (j + 1), s + (j + 1))
    BY <2>1, <2>2, <2>3, <2>4
  <2>6. ASSUME NEW r \in 1..(Len(text) + 1), Fits(tokens, text, t, r)
        PROVE r + (j + 1) <= Len(text) + 1 /\ Fits(tokens, text, t + (j + 1), r + (j + 1))
    <3>1. r + j <= Len(text) + 1 /\ Fits(tokens, text, t + j, r + j)
      BY <2>1, <2>6
    <3>2. r + j \in 1..(Len(text) + 1) /\ (r + j) + 1 = r + (j + 1)
      BY <3>1, SMT
    <3>3. /\ (r + j) + 1 \in (r + j)..(Len(text) + 1)
          /\ Fits(tokens, text, (t + j) + 1, (r + j) + 1)
      BY <2>3, <3>1, <3>2
    <3>4. r + (j + 1) <= Len(text) + 1
      BY <3>2, <3>3, SMT
    <3> QED BY <2>4, <3>2, <3>3, <3>4
  <2> QED BY <2>4, <2>5, <2>6
<1>3. \A j \in Nat : j \in S => j + 1 \in S
  <2> HIDE DEF Good
  <2> QED BY <1>2, SMT
<1>4. k \in S
  <2> HIDE DEF S
  <2> QED BY <1>1, <1>3, SetInduction
<1> QED BY <1>4

(* If a block can be taken here up to a star or the end of the text, then    *)
(* what fits from a later place fits from here: trying later is not needed.  *)
LEMMA EarlierFits ==
  ASSUME NEW tokens, NEW text, Len(tokens) \in Nat, Len(text) \in Nat,
         DOMAIN tokens = 1..Len(tokens),
         NEW t \in 1..(Len(tokens) + 1), NEW s \in 1..(Len(text) + 1),
         Reaches(tokens, text, t, s),
         NEW r \in 1..(Len(text) + 1), s < r, Fits(tokens, text, t, r)
  PROVE Fits(tokens, text, t, s)
<1>1. PICK k \in Nat :
        /\ Block(tokens, text, t, s, k)
        /\ s + k = Len(text) + 1 \/ (t + k <= Len(tokens) /\ tokens[t + k] = "*")
  BY DEF Reaches
<1>2. /\ s + k <= Len(text) + 1
      /\ Fits(tokens, text, t, s) <=> Fits(tokens, text, t + k, s + k)
      /\ r + k <= Len(text) + 1 /\ Fits(tokens, text, t + k, r + k)
  BY <1>1, BlockFits
<1>3. /\ t + k \in 1..Len(tokens) /\ tokens[t + k] = "*"
      /\ s + k \in 1..(Len(text) + 1) /\ r + k \in 1..(Len(text) + 1)
      /\ \A q \in (r + k)..(Len(text) + 1) : q \in (s + k)..(Len(text) + 1)
  BY <1>1, <1>2, SMT
<1>4. \E q \in (r + k)..(Len(text) + 1) : Fits(tokens, text, (t + k) + 1, q)
  BY <1>2, <1>3, FitsOne
<1>5. Fits(tokens, text, t + k, s + k)
  BY <1>3, <1>4, FitsOne
<1> QED BY <1>2, <1>5

(* How one step of the pass changes what it can still reach. *)
LEMMA ReachesOne ==
  ASSUME NEW tokens, NEW text, Len(tokens) \in Nat, Len(text) \in Nat,
         DOMAIN tokens = 1..Len(tokens),
         NEW t \in 1..(Len(tokens) + 1), NEW s \in 1..Len(text)
  PROVE Reaches(tokens, text, t, s) <=>
          /\ t <= Len(tokens)
          /\ \/ tokens[t] = "*"
             \/ Accepts(tokens[t], text[s]) /\ Reaches(tokens, text, t + 1, s + 1)
<1> DEFINE End(k) == s + k = Len(text) + 1 \/ (t + k <= Len(tokens) /\ tokens[t + k] = "*")
<1>1. ASSUME NEW k \in Nat, Block(tokens, text, t, s, k), End(k)
      PROVE /\ t <= Len(tokens)
            /\ \/ tokens[t] = "*"
               \/ Accepts(tokens[t], text[s]) /\ Reaches(tokens, text, t + 1, s + 1)
  <2>1. CASE k = 0
    BY <1>1, <2>1, SMT
  <2>2. CASE k # 0
    <3>1. k - 1 \in Nat /\ 0 \in 0..(k - 1) /\ t + 0 = t /\ s + 0 = s
      BY <2>2, SMT
    <3>2. t <= Len(tokens) /\ Accepts(tokens[t], text[s])
      BY <1>1, <3>1 DEF Block
    <3>3. Block(tokens, text, t + 1, s + 1, k - 1)
      <4> SUFFICES ASSUME NEW i \in 0..((k - 1) - 1)
                   PROVE /\ (t + 1) + i <= Len(tokens) /\ tokens[(t + 1) + i] # "*"
                         /\ (s + 1) + i <= Len(text)
                         /\ Accepts(tokens[(t + 1) + i], text[(s + 1) + i])
        BY DEF Block
      <4>1. i + 1 \in 0..(k - 1) /\ (t + 1) + i = t + (i + 1) /\ (s + 1) + i = s + (i + 1)
        BY SMT
      <4> QED BY <1>1, <4>1 DEF Block
    <3>4. /\ (s + 1) + (k - 1) = s + k /\ (t + 1) + (k - 1) = t + k
      BY SMT
    <3>5. Reaches(tokens, text, t + 1, s + 1)
      BY <1>1, <3>1, <3>3, <3>4 DEF Reaches
    <3> QED BY <3>2, <3>5
  <2> QED BY <2>1, <2>2
<1>2. ASSUME t <= Len(tokens), tokens[t] = "*" PROVE Reaches(tokens, text, t, s)
  <2>1. Block(tokens, text, t, s, 0) /\ End(0)
    BY <1>2, SMT DEF Block
  <2> QED BY <2>1 DEF Reaches
<1>3. ASSUME t <= Len(tokens), tokens[t] # "*", Accepts(tokens[t], text[s]),
             Reaches(tokens, text, t + 1, s + 1)
      PROVE Reaches(tokens, text, t, s)
  <2>1. PICK k \in Nat :
          /\ Block(tokens, text, t + 1, s + 1, k)
          /\ \/ (s + 1) + k = Len(text) + 1
             \/ (t + 1) + k <= Len(tokens) /\ tokens[(t + 1) + k] = "*"
    BY <1>3 DEF Reaches
  <2>2. Block(tokens, text, t, s, k + 1)
    <3> SUFFICES ASSUME NEW i \in 0..((k + 1) - 1)
                 PROVE /\ t + i <= Len(tokens) /\ tokens[t + i] # "*"
                       /\ s + i <= Len(text) /\ Accepts(tokens[t + i], text[s + i])
      BY DEF Block
    <3>1. CASE i = 0
      <4>1. t + i = t /\ s + i = s
        BY <3>1, SMT
      <4> QED BY <1>3, <4>1
    <3>2. CASE i # 0
      <4>1. i - 1 \in 0..(k - 1) /\ (t + 1) + (i - 1) = t + i /\ (s + 1) + (i - 1) = s + i
        BY <3>2, SMT
      <4> QED BY <2>1, <4>1 DEF Block
    <3> QED BY <3>1, <3>2
  <2>3. (s + 1) + k = s + (k + 1) /\ (t + 1) + k = t + (k + 1) /\ k + 1 \in Nat
    BY SMT
  <2>4. End(k + 1)
    BY <2>1, <2>3
  <2> QED BY <2>2, <2>3, <2>4 DEF Reaches
<1>4. Reaches(tokens, text, t, s) => \E k \in Nat : Block(tokens, text, t, s, k) /\ End(k)
  BY DEF Reaches
<1> QED BY <1>1, <1>2, <1>3, <1>4

(* At the end of the name only stars fit. *)
LEMMA FitsEmpty ==
  ASSUME NEW tokens, NEW text, Len(tokens) \in Nat, Len(text) \in Nat,
         DOMAIN tokens = 1..Len(tokens),
         NEW t \in 1..(Len(tokens) + 1)
  PROVE Fits(tokens, text, t, Len(text) + 1) <=> \A i \in t..Len(tokens) : tokens[i] = "*"
<1> DEFINE n == Len(tokens)  l == Len(text)
           Good(q) == Fits(tokens, text, q, l + 1) <=> \A i \in q..n : tokens[i] = "*"
           S == {j \in Nat : j <= n => Good(n + 1 - j)}
<1>1. 0 \in S
  <2>1. n + 1 - 0 = n + 1 /\ l + 1 \in 1..(l + 1) /\ \A i \in (n + 1)..n : FALSE
    BY SMT
  <2> QED BY <2>1, FitsEnd
<1>2. ASSUME NEW j \in Nat, j \in S, j + 1 <= n PROVE Good(n + 1 - (j + 1))
  <2> DEFINE q == n - j
  <2>1. /\ q \in 1..n /\ n + 1 - (j + 1) = q /\ n + 1 - j = q + 1 /\ j <= n
        /\ \A i \in q..n : i = q \/ i \in (q + 1)..n
        /\ q \in q..n /\ \A i \in (q + 1)..n : i \in q..n
    <3>1. j + 1 <= n /\ n \in Nat
      BY <1>2
    <3>2. q \in 1..n /\ j <= n /\ q \in q..n
      BY <3>1, SMT
    <3>3. n + 1 - (j + 1) = q /\ n + 1 - j = q + 1
      <4>1. \A a, b \in Nat : a + 1 - (b + 1) = a - b /\ a + 1 - b = (a - b) + 1
        OBVIOUS
      <4> QED BY <3>1, <4>1
    <3> HIDE DEF q
    <3>4. \A i \in q..n : i = q \/ i \in (q + 1)..n
      BY <3>2, SMT
    <3>5. \A i \in (q + 1)..n : i \in q..n
      BY <3>2, SMT
    <3> QED BY <3>2, <3>3, <3>4, <3>5
  <2>0. /\ l + 1 \in 1..(l + 1) /\ l + 1 # (l + 1) + 1 /\ l + 1 \in (l + 1)..(l + 1)
        /\ \A r \in (l + 1)..(l + 1) : r = l + 1
    BY SMT
  <2>2. Good(q + 1)
    BY <1>2, <2>1
  <2> HIDE DEF q
  <2>3. Fits(tokens, text, q, l + 1) <=> Fits(tokens, text, q + 1, l + 1) /\ tokens[q] = "*"
    BY <2>0, <2>1, FitsOne
  <2> QED BY <2>1, <2>2, <2>3
<1>3. \A j \in Nat : j \in S => j + 1 \in S
  <2> HIDE DEF Good
  <2> QED BY <1>2
<1>4. n + 1 - t \in S
  <2>1. n + 1 - t \in Nat
    BY SMT
  <2> HIDE DEF S
  <2> QED BY <1>1, <1>3, <2>1, SetInduction
<1>5. n + 1 - (n + 1 - t) = t /\ (n + 1 - t <= n)
  BY SMT
<1> QED BY <1>4, <1>5

(* What the pass finds from a state on: the rest fits, or else, when the     *)
(* pass gets stuck before the next star, what follows the remembered star    *)
(* fits from a place further on.                                             *)
Found(tokens, text, t, s, star_t, star_s) ==
  \/ Fits(tokens, text, t, s)
  \/ /\ ~Reaches(tokens, text, t, s)
     /\ star_t # NoStar
     /\ \E r \in (star_s + 1)..(Len(text) + 1) : Fits(tokens, text, star_t + 1, r)

(* A star: what fits after it here or further on fits with it. *)
LEMMA AtStar ==
  ASSUME NEW tokens, NEW text, Len(tokens) \in Nat, Len(text) \in Nat,
         DOMAIN tokens = 1..Len(tokens),
         NEW t \in 1..Len(tokens), NEW s \in 1..Len(text), tokens[t] = "*",
         NEW star_t, NEW star_s
  PROVE Found(tokens, text, t + 1, s, t, s) <=> Found(tokens, text, t, s, star_t, star_s)
<1>1. Reaches(tokens, text, t, s)
  BY ReachesOne, SMT
<1>2. Fits(tokens, text, t, s) <=> \E r \in s..(Len(text) + 1) : Fits(tokens, text, t + 1, r)
  BY FitsOne, SMT
<1>3. /\ t + 1 \in 1..(Len(tokens) + 1) /\ s \in 1..(Len(text) + 1) /\ t # NoStar
      /\ s \in s..(Len(text) + 1)
      /\ \A r \in s..(Len(text) + 1) :
           r \in 1..(Len(text) + 1) /\ (r = s \/ r \in (s + 1)..(Len(text) + 1))
      /\ \A r \in (s + 1)..(Len(text) + 1) : r \in s..(Len(text) + 1) /\ s < r
  BY SMT DEF NoStar
<1>4. ASSUME Reaches(tokens, text, t + 1, s),
             NEW r \in s..(Len(text) + 1), Fits(tokens, text, t + 1, r)
      PROVE Fits(tokens, text, t + 1, s)
  BY <1>3, <1>4, EarlierFits
<1> QED BY <1>1, <1>2, <1>3, <1>4 DEF Found

(* A symbol that takes its letter: nothing is decided. *)
LEMMA AtLetter ==
  ASSUME NEW tokens, NEW text, Len(tokens) \in Nat, Len(text) \in Nat,
         DOMAIN tokens = 1..Len(tokens),
         NEW t \in 1..Len(tokens), NEW s \in 1..Len(text),
         tokens[t] # "*", Accepts(tokens[t], text[s]), NEW star_t, NEW star_s
  PROVE Found(tokens, text, t + 1, s + 1, star_t, star_s)
          <=> Found(tokens, text, t, s, star_t, star_s)
<1>1. s \in 1..(Len(text) + 1) /\ s + 1 \in s..(Len(text) + 1) /\ t <= Len(tokens)
      /\ t \in 1..(Len(tokens) + 1)
  BY SMT
<1>2. Reaches(tokens, text, t + 1, s + 1) <=> Reaches(tokens, text, t, s)
  BY <1>1, ReachesOne
<1>3. Fits(tokens, text, t + 1, s + 1) <=> Fits(tokens, text, t, s)
  BY <1>1, FitsOne
<1> QED BY <1>2, <1>3 DEF Found

(* No symbol is left or it refuses its letter: only the star can help, by    *)
(* taking one letter more.                                                   *)
LEMMA AtMismatch ==
  ASSUME NEW tokens, NEW text, Len(tokens) \in Nat, Len(text) \in Nat,
         DOMAIN tokens = 1..Len(tokens),
         NEW t \in 1..(Len(tokens) + 1), NEW s \in 1..Len(text),
         t <= Len(tokens) => tokens[t] # "*" /\ ~Accepts(tokens[t], text[s])
  PROVE ~Reaches(tokens, text, t, s) /\ ~Fits(tokens, text, t, s)
<1>1. ~Reaches(tokens, text, t, s)
  BY ReachesOne
<1>2. CASE t = Len(tokens) + 1
  <2>1. s \in 1..(Len(text) + 1) /\ s # Len(text) + 1
    BY SMT
  <2> QED BY <1>1, <1>2, <2>1, FitsEnd
<1>3. CASE t # Len(tokens) + 1
  <2>1. t \in 1..Len(tokens) /\ t <= Len(tokens) /\ s \in 1..(Len(text) + 1)
    BY <1>3, SMT
  <2> QED BY <1>1, <2>1, FitsOne
<1> QED BY <1>2, <1>3

LEMMA AtRetry ==
  ASSUME NEW tokens, NEW text, Len(tokens) \in Nat, Len(text) \in Nat,
         DOMAIN tokens = 1..Len(tokens),
         NEW t \in 1..(Len(tokens) + 1), NEW s \in 1..Len(text),
         t <= Len(tokens) => tokens[t] # "*" /\ ~Accepts(tokens[t], text[s]),
         NEW star_t \in 1..Len(tokens), NEW star_s \in 0..s
  PROVE Found(tokens, text, star_t + 1, star_s + 1, star_t, star_s + 1)
          <=> Found(tokens, text, t, s, star_t, star_s)
<1>1. ~Reaches(tokens, text, t, s) /\ ~Fits(tokens, text, t, s)
  BY AtMismatch
<1>2. /\ star_t + 1 \in 1..(Len(tokens) + 1) /\ star_s + 1 \in 1..(Len(text) + 1)
      /\ star_t # NoStar
      /\ star_s + 1 \in (star_s + 1)..(Len(text) + 1)
      /\ \A r \in (star_s + 1)..(Len(text) + 1) :
           /\ r \in 1..(Len(text) + 1)
           /\ r = star_s + 1 \/ (r \in ((star_s + 1) + 1)..(Len(text) + 1) /\ star_s + 1 < r)
      /\ \A r \in ((star_s + 1) + 1)..(Len(text) + 1) : r \in (star_s + 1)..(Len(text) + 1)
  BY SMT DEF NoStar
<1>3. ASSUME Reaches(tokens, text, star_t + 1, star_s + 1),
             NEW r \in (star_s + 1)..(Len(text) + 1), Fits(tokens, text, star_t + 1, r)
      PROVE Fits(tokens, text, star_t + 1, star_s + 1)
  BY <1>2, <1>3, EarlierFits
<1> QED BY <1>1, <1>2, <1>3 DEF Found

(* The body of match_tokens, for what the pass makes of the later states.    *)
Step(tokens, text, match, at) ==
  IF at.s > Len(text) THEN \A i \in at.t..Len(tokens) : tokens[i] = "*"
  ELSE IF at.t <= Len(tokens) /\ tokens[at.t] = "*"
  THEN match[[t |-> at.t + 1, s |-> at.s, star_t |-> at.t, star_s |-> at.s]]
  ELSE IF at.t <= Len(tokens) /\ Accepts(tokens[at.t], text[at.s])
  THEN match[[at EXCEPT !.t = @ + 1, !.s = @ + 1]]
  ELSE IF at.star_t = NoStar THEN FALSE
  ELSE match[[t |-> at.star_t + 1, s |-> Retry(at.star_s, at.s),
              star_t |-> at.star_t, star_s |-> Retry(at.star_s, at.s)]]

(* The pass goes on to a later star, lets the star take more, or advances.   *)
Later(b, a) ==
  \/ b.star_t > a.star_t
  \/ b.star_t = a.star_t /\ b.star_s > a.star_s
  \/ b.star_t = a.star_t /\ b.star_s = a.star_s /\ b.t > a.t

FoundAt(tokens, text, at) == Found(tokens, text, at.t, at.s, at.star_t, at.star_s)

LEMMA StepFinds ==
  ASSUME NEW tokens, NEW text, Len(tokens) \in Nat, Len(text) \in Nat,
         DOMAIN tokens = 1..Len(tokens),
         NEW at \in States(tokens, text), NEW match,
         \A b \in States(tokens, text) :
           Later(b, at) => match[b] = FoundAt(tokens, text, b)
  PROVE Step(tokens, text, match, at) = FoundAt(tokens, text, at)
<1> DEFINE n == Len(tokens)  l == Len(text)
<1>1. /\ at = [t |-> at.t, s |-> at.s, star_t |-> at.star_t, star_s |-> at.star_s]
      /\ at.t \in 1..(n + 1) /\ at.s \in 1..(l + 1)
      /\ at.star_t \in 0..n /\ at.star_s \in 0..(l + 1)
      /\ at.star_t < at.t /\ at.star_s <= at.s
  BY DEF States, NoStar
<1>2. ASSUME NEW t \in 1..(n + 1), NEW s \in 1..(l + 1),
             NEW star_t \in 0..n, NEW star_s \in 0..(l + 1), star_t < t, star_s <= s,
             \/ star_t > at.star_t
             \/ star_t = at.star_t /\ star_s > at.star_s
             \/ star_t = at.star_t /\ star_s = at.star_s /\ t > at.t
      PROVE match[[t |-> t, s |-> s, star_t |-> star_t, star_s |-> star_s]]
              = Found(tokens, text, t, s, star_t, star_s)
  <2> DEFINE b == [t |-> t, s |-> s, star_t |-> star_t, star_s |-> star_s]
  <2>1. b.t = t /\ b.s = s /\ b.star_t = star_t /\ b.star_s = star_s
    OBVIOUS
  <2>2. b \in States(tokens, text)
    BY <1>2 DEF States, NoStar
  <2> HIDE DEF b
  <2>3. Later(b, at)
    BY <1>2, <2>1 DEF Later
  <2>4. match[b] = Found(tokens, text, t, s, star_t, star_s)
    BY <2>1, <2>2, <2>3 DEF FoundAt
  <2> QED BY <2>4 DEF b
<1>3. CASE at.s > l
  <2>1. at.s = l + 1
    BY <1>1, <1>3, SMT
  <2>2. Reaches(tokens, text, at.t, at.s)
    <3>1. Block(tokens, text, at.t, at.s, 0) /\ at.s + 0 = Len(text) + 1
      BY <2>1, SMT DEF Block
    <3> QED BY <3>1 DEF Reaches
  <2>3. Fits(tokens, text, at.t, at.s) <=> \A i \in at.t..Len(tokens) : tokens[i] = "*"
    BY <1>1, <2>1, FitsEmpty
  <2> QED BY <1>3, <2>2, <2>3 DEF Step, FoundAt, Found
<1>4. CASE ~(at.s > l)
  <2>1. at.s \in 1..l
    BY <1>1, <1>4, SMT
  <2>2. CASE at.t <= n /\ tokens[at.t] = "*"
    <3>1. at.t \in 1..n /\ at.t + 1 \in 1..(n + 1) /\ at.t > at.star_t /\ at.t < at.t + 1
          /\ at.t \in 0..n /\ at.s \in 0..(l + 1) /\ at.s \in 1..(l + 1) /\ at.s <= at.s
      BY <1>1, <2>1, <2>2, SMT
    <3>2. match[[t |-> at.t + 1, s |-> at.s, star_t |-> at.t, star_s |-> at.s]]
            = Found(tokens, text, at.t + 1, at.s, at.t, at.s)
      BY <1>2, <3>1
    <3>3. Found(tokens, text, at.t + 1, at.s, at.t, at.s) <=> FoundAt(tokens, text, at)
      BY <2>1, <2>2, <3>1, AtStar DEF FoundAt
    <3>4. Step(tokens, text, match, at)
            = match[[t |-> at.t + 1, s |-> at.s, star_t |-> at.t, star_s |-> at.s]]
      BY <1>4, <2>2 DEF Step
    <3> QED BY <3>2, <3>3, <3>4 DEF FoundAt, Found
  <2>3. CASE ~(at.t <= n /\ tokens[at.t] = "*") /\ at.t <= n
             /\ Accepts(tokens[at.t], text[at.s])
    <3>1. at.t \in 1..n /\ at.t + 1 \in 1..(n + 1) /\ at.s + 1 \in 1..(l + 1)
          /\ at.star_t < at.t + 1 /\ at.star_s <= at.s + 1 /\ at.t + 1 > at.t
      BY <1>1, <2>1, <2>3, SMT
    <3>2. [at EXCEPT !.t = @ + 1, !.s = @ + 1]
            = [t |-> at.t + 1, s |-> at.s + 1, star_t |-> at.star_t, star_s |-> at.star_s]
      <4> DEFINE next == [at EXCEPT !.t = at.t + 1]
      <4>1. at \in [t : 1..(n + 1), s : 1..(l + 1), star_t : 0..n, star_s : 0..(l + 1)]
        BY DEF States, NoStar
      <4>2. [at EXCEPT !.t = @ + 1, !.s = @ + 1] = [next EXCEPT !.s = at.s + 1]
        BY <4>1
      <4>3. next = [t |-> at.t + 1, s |-> at.s, star_t |-> at.star_t, star_s |-> at.star_s]
        BY <4>1
      <4>4. /\ next \in [t : 1..(n + 1), s : 1..(l + 1), star_t : 0..n, star_s : 0..(l + 1)]
            /\ next.t = at.t + 1 /\ next.star_t = at.star_t /\ next.star_s = at.star_s
        BY <3>1, <4>1, <4>3
      <4> HIDE DEF next
      <4>5. [next EXCEPT !.s = at.s + 1]
              = [t |-> next.t, s |-> at.s + 1, star_t |-> next.star_t, star_s |-> next.star_s]
        BY <4>4
      <4> QED BY <4>2, <4>4, <4>5
    <3>3. match[[t |-> at.t + 1, s |-> at.s + 1, star_t |-> at.star_t, star_s |-> at.star_s]]
            = Found(tokens, text, at.t + 1, at.s + 1, at.star_t, at.star_s)
      BY <1>1, <1>2, <3>1
    <3>4. Found(tokens, text, at.t + 1, at.s + 1, at.star_t, at.star_s)
            <=> FoundAt(tokens, text, at)
      BY <2>1, <2>3, <3>1, AtLetter DEF FoundAt
    <3>5. Step(tokens, text, match, at) = match[[at EXCEPT !.t = @ + 1, !.s = @ + 1]]
      BY <1>4, <2>3 DEF Step
    <3> QED BY <3>2, <3>3, <3>4, <3>5 DEF FoundAt, Found
  <2>4. CASE at.t <= n => tokens[at.t] # "*" /\ ~Accepts(tokens[at.t], text[at.s])
    <3>1. CASE at.star_t = NoStar
      <4>1. ~Reaches(tokens, text, at.t, at.s) /\ ~Fits(tokens, text, at.t, at.s)
        BY <1>1, <2>1, <2>4, AtMismatch
      <4>2. Step(tokens, text, match, at) = FALSE
        BY <1>4, <2>4, <3>1 DEF Step
      <4> QED BY <3>1, <4>1, <4>2 DEF FoundAt, Found
    <3>2. CASE at.star_t # NoStar
      <4>1. at.star_t \in 1..n /\ at.star_t + 1 \in 1..(n + 1) /\ at.star_s \in 0..at.s
            /\ at.star_s + 1 \in 1..(l + 1) /\ at.star_s + 1 \in 0..(l + 1)
            /\ at.star_t < at.star_t + 1 /\ at.star_s + 1 > at.star_s
            /\ at.star_s + 1 <= at.star_s + 1
        BY <1>1, <2>1, <3>2, SMT DEF NoStar
      <4>2. match[[t |-> at.star_t + 1, s |-> at.star_s + 1,
                   star_t |-> at.star_t, star_s |-> at.star_s + 1]]
              = Found(tokens, text, at.star_t + 1, at.star_s + 1, at.star_t, at.star_s + 1)
        BY <1>1, <1>2, <4>1
      <4>3. Found(tokens, text, at.star_t + 1, at.star_s + 1, at.star_t, at.star_s + 1)
              <=> FoundAt(tokens, text, at)
        BY <1>1, <2>1, <2>4, <4>1, AtRetry DEF FoundAt
      <4>4. Step(tokens, text, match, at)
              = match[[t |-> at.star_t + 1, s |-> at.star_s + 1,
                       star_t |-> at.star_t, star_s |-> at.star_s + 1]]
        BY <1>4, <2>4, <3>2 DEF Step, Retry
      <4> QED BY <4>2, <4>3, <4>4 DEF FoundAt, Found
    <3> QED BY <3>1, <3>2
  <2> QED BY <2>2, <2>3, <2>4
<1> QED BY <1>3, <1>4

(* Every set of states has one that no other is later than. *)
LEMMA Latest ==
  ASSUME NEW tokens, NEW text, Len(tokens) \in Nat, Len(text) \in Nat,
         DOMAIN tokens = 1..Len(tokens),
         NEW B \in SUBSET States(tokens, text), B # {}
  PROVE \E at \in B : \A b \in B : ~Later(b, at)
<1> DEFINE n == Len(tokens)  l == Len(text)
<1>1. \A b \in B : b.t \in 1..(n + 1) /\ b.star_t \in 0..n /\ b.star_s \in 0..(l + 1)
  BY DEF States, NoStar
<1>2. PICK x \in B : \A b \in B : b.star_t <= x.star_t
  <2> DEFINE T == {n - b.star_t : b \in B}
  <2>1. T \in SUBSET Nat /\ T # {}
    BY <1>1, SMT
  <2>2. PICK y \in T : \A z \in T : y <= z
    BY <2>1, Least
  <2>3. PICK x \in B : y = n - x.star_t
    BY <2>2
  <2>4. \A b \in B : n - x.star_t <= n - b.star_t
    BY <2>2, <2>3
  <2>5. \A b \in B : b.star_t <= x.star_t
    BY <1>1, <2>4, SMT
  <2> QED BY <2>5
<1> DEFINE C == {b \in B : b.star_t = x.star_t}
<1>3. PICK y \in C : \A b \in C : b.star_s <= y.star_s
  <2> DEFINE T == {(l + 1) - b.star_s : b \in C}
  <2>1. T \in SUBSET Nat /\ T # {}
    BY <1>1, SMT
  <2>2. PICK z \in T : \A w \in T : z <= w
    BY <2>1, Least
  <2>3. PICK c \in C : z = (l + 1) - c.star_s
    BY <2>2
  <2>4. \A b \in C : (l + 1) - c.star_s <= (l + 1) - b.star_s
    BY <2>2, <2>3
  <2>5. \A b \in C : b.star_s <= c.star_s
    BY <1>1, <2>4, SMT
  <2> QED BY <2>5
<1> DEFINE D == {b \in C : b.star_s = y.star_s}
<1>4. PICK z \in D : \A b \in D : b.t <= z.t
  <2> DEFINE T == {(n + 1) - b.t : b \in D}
  <2>1. T \in SUBSET Nat /\ T # {}
    BY <1>1, SMT
  <2>2. PICK w \in T : \A v \in T : w <= v
    BY <2>1, Least
  <2>3. PICK d \in D : w = (n + 1) - d.t
    BY <2>2
  <2>4. \A b \in D : (n + 1) - d.t <= (n + 1) - b.t
    BY <2>2, <2>3
  <2>5. \A b \in D : b.t <= d.t
    BY <1>1, <2>4, SMT
  <2> QED BY <2>5
<1>5. ASSUME NEW b \in B PROVE ~Later(b, z)
  BY <1>1, <1>2, <1>3, <1>4, SMT DEF Later
<1> QED BY <1>4, <1>5

(* glob.rs:247: one pass that remembers a single star finds a way to cut the *)
(* name into pieces, one for each symbol, exactly when there is one, for     *)
(* every pattern of one segment and every name.                              *)
THEOREM OnePassIsEnough ==
  ASSUME NEW X, NEW Y, NEW tokens \in Seq(X), NEW text \in Seq(Y)
  PROVE MatchTokens(tokens, text) = NameFits(tokens, text)
<1>1. Len(tokens) \in Nat /\ Len(text) \in Nat /\ DOMAIN tokens = 1..Len(tokens)
  OBVIOUS
<1> DEFINE Pass(f) == f = [at \in States(tokens, text) |-> Step(tokens, text, f, at)]
           found == [at \in States(tokens, text) |-> FoundAt(tokens, text, at)]
<1>2. Pass(found)
  <2>1. ASSUME NEW at \in States(tokens, text)
        PROVE Step(tokens, text, found, at) = FoundAt(tokens, text, at)
    BY <1>1, StepFinds
  <2> QED BY <2>1
<1>3. ASSUME NEW f, Pass(f) PROVE f = found
  <2> DEFINE B == {at \in States(tokens, text) : f[at] # FoundAt(tokens, text, at)}
  <2>1. ASSUME B # {} PROVE FALSE
    <3>1. PICK at \in B : \A b \in B : ~Later(b, at)
      BY <1>1, <2>1, Latest
    <3>2. Step(tokens, text, f, at) = FoundAt(tokens, text, at)
      BY <1>1, <3>1, StepFinds
    <3>3. f[at] = Step(tokens, text, f, at)
      BY <1>3
    <3> QED BY <3>1, <3>2, <3>3
  <2>2. \A at \in States(tokens, text) : f[at] = FoundAt(tokens, text, at)
    BY <2>1
  <2>3. f = [at \in States(tokens, text) |-> f[at]]
    BY <1>3
  <2> QED BY <2>2, <2>3
<1>4. MatchTokens(tokens, text) = (CHOOSE f : Pass(f))[Begin]
  BY DEF MatchTokens, Step
<1>5. (CHOOSE f : Pass(f)) = found
  BY <1>2, <1>3
<1>6. Begin \in States(tokens, text)
  BY <1>1, SMT DEF Begin, States, NoStar
<1>7. MatchTokens(tokens, text) = FoundAt(tokens, text, Begin)
  BY <1>4, <1>5, <1>6
<1>8. FoundAt(tokens, text, Begin) <=> Fits(tokens, text, 1, 1)
  BY DEF FoundAt, Found, Begin, NoStar
<1>9. Fits(tokens, text, 1, 1) <=> NameFits(tokens, text)
  BY <1>1, NameWay DEF Fits
<1> QED BY <1>7, <1>8, <1>9 DEF FoundAt, Found, NameFits

-----------------------------------------------------------------------------
(* The segments of a compiled pattern, each with what it can take of a path. *)
SegmentMove(segment, path) ==
  IF segment = AnyDirectories THEN Skips(Len(path))
  ELSE {move \in (0..Len(path)) \X (0..Len(path)) :
          move[2] = move[1] + 1 /\ MatchTokens(segment, path[move[2]])}
SegmentMoves(segments, path) == [i \in DOMAIN segments |-> SegmentMove(segments[i], path)]

LEMMA SegmentMoveIs ==
  ASSUME NEW segment, NEW path, Len(path) \in Nat,
         NEW d \in 0..Len(path), NEW e \in 0..Len(path)
  PROVE <<d, e>> \in SegmentMove(segment, path) <=>
          IF segment = AnyDirectories THEN d <= e
          ELSE e = d + 1 /\ MatchTokens(segment, path[e])
<1>1. <<d, e>> \in (0..Len(path)) \X (0..Len(path)) /\ <<d, e>>[1] = d /\ <<d, e>>[2] = e
  OBVIOUS
<1>2. <<d, e>> \in Skips(Len(path)) <=> d <= e
  BY <1>1 DEF Skips
<1> QED BY <1>1, <1>2 DEF SegmentMove

(* From a segment and a place of the path on, both counted from one. *)
Remain(segments, path, i, j) ==
  Way(Len(path), SegmentMoves(segments, path), i - 1, Len(segments), j - 1, Len(path))

LEMMA RemainEnd ==
  ASSUME NEW segments, Len(segments) \in Nat, NEW path, Len(path) \in Nat,
         NEW j \in 1..(Len(path) + 1)
  PROVE Remain(segments, path, Len(segments) + 1, j) <=> j > Len(path)
<1>1. /\ j - 1 \in 0..Len(path) /\ Len(path) \in 0..Len(path)
      /\ (Len(segments) + 1) - 1 = Len(segments)
      /\ j - 1 = Len(path) <=> j > Len(path)
  BY SMT
<1> QED BY <1>1, WayNone DEF Remain

LEMMA RemainOne ==
  ASSUME NEW segments, Len(segments) \in Nat, DOMAIN segments = 1..Len(segments),
         NEW path, Len(path) \in Nat,
         NEW i \in 1..Len(segments), NEW j \in 1..(Len(path) + 1)
  PROVE Remain(segments, path, i, j) <=>
          IF segments[i] = AnyDirectories
          THEN \E k \in j..(Len(path) + 1) : Remain(segments, path, i + 1, k)
          ELSE /\ j <= Len(path) /\ MatchTokens(segments[i], path[j])
               /\ Remain(segments, path, i + 1, j + 1)
<1> DEFINE n == Len(segments)  l == Len(path)  moves == SegmentMoves(segments, path)
<1>1. i - 1 \in Nat /\ i - 1 < n /\ (i - 1) + 1 = i /\ (i + 1) - 1 = i
  BY SMT
<1>2. j - 1 \in 0..l /\ l \in 0..l /\ (j - 1) + 1 = j /\ (j + 1) - 1 = j
  BY SMT
<1>3. Way(l, moves, i - 1, n, j - 1, l) <=>
        \E c \in 0..l : <<j - 1, c>> \in moves[(i - 1) + 1] /\ Way(l, moves, (i - 1) + 1, n, c, l)
  BY <1>1, <1>2, WayFirst
<1>4. moves[i] = SegmentMove(segments[i], path)
  BY DEF SegmentMoves
<1>5. Remain(segments, path, i, j) <=>
        \E c \in 0..l : <<j - 1, c>> \in SegmentMove(segments[i], path) /\ Way(l, moves, i, n, c, l)
  BY <1>1, <1>3, <1>4 DEF Remain
<1>6. \A k : Remain(segments, path, i + 1, k) <=> Way(l, moves, i, n, k - 1, l)
  BY <1>1 DEF Remain
<1>7. CASE segments[i] = AnyDirectories
  <2>1. \A c \in 0..l : <<j - 1, c>> \in SegmentMove(segments[i], path) <=> j - 1 <= c
    BY <1>2, <1>7, SegmentMoveIs
  <2>2. \A c \in 0..l : (j - 1 <= c => c + 1 \in j..(l + 1)) /\ (c + 1) - 1 = c
    BY SMT
  <2>3. \A k \in j..(l + 1) : k - 1 \in 0..l /\ j - 1 <= k - 1
    BY SMT
  <2>4. ASSUME NEW c \in 0..l, j - 1 <= c, Way(l, moves, i, n, c, l)
        PROVE \E k \in j..(l + 1) : Remain(segments, path, i + 1, k)
    <3>1. c + 1 \in j..(l + 1) /\ (c + 1) - 1 = c
      BY <2>2, <2>4
    <3>2. Remain(segments, path, i + 1, c + 1)
      BY <1>6, <2>4, <3>1
    <3> QED BY <3>1, <3>2
  <2>5. ASSUME NEW k \in j..(l + 1), Remain(segments, path, i + 1, k)
        PROVE \E c \in 0..l : j - 1 <= c /\ Way(l, moves, i, n, c, l)
    <3>1. k - 1 \in 0..l /\ j - 1 <= k - 1
      BY <2>3
    <3>2. Way(l, moves, i, n, k - 1, l)
      BY <1>6, <2>5
    <3> QED BY <3>1, <3>2
  <2>6. Remain(segments, path, i, j) <=> \E k \in j..(l + 1) : Remain(segments, path, i + 1, k)
    BY <1>5, <2>1, <2>4, <2>5
  <2> QED BY <1>7, <2>6
<1>8. CASE segments[i] # AnyDirectories
  <2>1. \A c \in 0..l : <<j - 1, c>> \in SegmentMove(segments[i], path) <=>
          c = (j - 1) + 1 /\ MatchTokens(segments[i], path[c])
    BY <1>2, <1>8, SegmentMoveIs
  <2>2. j \in 0..l <=> j <= l
    BY SMT
  <2> HIDE DEF moves
  <2> QED BY <1>2, <1>5, <1>6, <1>8, <2>1, <2>2
<1> QED BY <1>7, <1>8

(* The body of match_segments, for what it makes of the next segment. *)
Rest(segments, parts, match, i) ==
  LET rest == match[i + 1] IN
  [j \in 1..(Len(parts) + 1) |->
     IF i > Len(segments) THEN j > Len(parts)
     ELSE IF segments[i] = AnyDirectories THEN \E k \in j..(Len(parts) + 1) : rest[k]
     ELSE j <= Len(parts) /\ MatchTokens(segments[i], parts[j]) /\ rest[j + 1]]

Remains(segments, path, i) ==
  [j \in 1..(Len(path) + 1) |-> Remain(segments, path, i, j)]

LEMMA RestRemains ==
  ASSUME NEW segments, Len(segments) \in Nat, DOMAIN segments = 1..Len(segments),
         NEW path, Len(path) \in Nat, NEW i \in 1..(Len(segments) + 1), NEW match,
         i <= Len(segments) => match[i + 1] = Remains(segments, path, i + 1)
  PROVE Rest(segments, path, match, i) = Remains(segments, path, i)
<1> DEFINE n == Len(segments)  l == Len(path)
           Of(j) == IF i > n THEN j > l
                    ELSE IF segments[i] = AnyDirectories THEN \E k \in j..(l + 1) : match[i + 1][k]
                    ELSE j <= l /\ MatchTokens(segments[i], path[j]) /\ match[i + 1][j + 1]
<1> SUFFICES ASSUME NEW j \in 1..(l + 1) PROVE Of(j) = Remain(segments, path, i, j)
  BY DEF Rest, Remains
<1>1. CASE i = n + 1
  <2>1. i > n
    BY <1>1, SMT
  <2>2. Remain(segments, path, i, j) <=> j > l
    BY <1>1, RemainEnd
  <2>3. Of(j) = (j > l)
    BY <2>1
  <2>4. (j > l) \in BOOLEAN /\ Remain(segments, path, i, j) \in BOOLEAN
    BY SMT DEF Remain, Way
  <2> QED BY <2>2, <2>3, <2>4
<1>2. CASE i # n + 1
  <2>1. i \in 1..n /\ i <= n /\ ~(i > n)
    BY <1>2, SMT
  <2>2. /\ \A k \in j..(l + 1) : k \in 1..(l + 1)
        /\ j <= l => j + 1 \in 1..(l + 1)
    BY SMT
  <2>3. \A k \in 1..(l + 1) : match[i + 1][k] = Remain(segments, path, i + 1, k)
    BY <2>1 DEF Remains
  <2>4. Remain(segments, path, i, j) <=>
          IF segments[i] = AnyDirectories
          THEN \E k \in j..(l + 1) : Remain(segments, path, i + 1, k)
          ELSE /\ j <= l /\ MatchTokens(segments[i], path[j])
               /\ Remain(segments, path, i + 1, j + 1)
    BY <2>1, RemainOne
  <2>5. Of(j) <=> Remain(segments, path, i, j)
    BY <2>1, <2>2, <2>3, <2>4
  <2>6. Of(j) \in BOOLEAN
    BY <2>1
  <2> QED BY <2>5, <2>6 DEF Remain, Way
<1> QED BY <1>1, <1>2

LEMMA SegmentsWay ==
  ASSUME NEW segments, Len(segments) \in Nat, DOMAIN segments = 1..Len(segments),
         NEW path, Len(path) \in Nat
  PROVE MatchSegments(segments, path)
          <=> Way(Len(path), SegmentMoves(segments, path), 0, Len(segments), 0, Len(path))
<1> DEFINE n == Len(segments)
           Pass(f) == f = [i \in 1..(n + 1) |-> Rest(segments, path, f, i)]
           remains == [i \in 1..(n + 1) |-> Remains(segments, path, i)]
<1>1. Pass(remains)
  <2>1. ASSUME NEW i \in 1..(n + 1)
        PROVE Rest(segments, path, remains, i) = Remains(segments, path, i)
    <3>1. i <= n => i + 1 \in 1..(n + 1)
      BY SMT
    <3> QED BY <3>1, RestRemains
  <2> QED BY <2>1
<1>2. ASSUME NEW f, Pass(f) PROVE f = remains
  <2> DEFINE S == {k \in Nat : k <= n => f[n + 1 - k] = Remains(segments, path, n + 1 - k)}
  <2>1. \A i \in 1..(n + 1) : f[i] = Rest(segments, path, f, i)
    BY <1>2
  <2>2. 0 \in S
    <3>1. n + 1 - 0 = n + 1 /\ n + 1 \in 1..(n + 1) /\ ~(n + 1 <= n)
      BY SMT
    <3> QED BY <2>1, <3>1, RestRemains
  <2>3. ASSUME NEW k \in Nat, k \in S, k + 1 <= n
        PROVE f[n + 1 - (k + 1)] = Remains(segments, path, n + 1 - (k + 1))
    <3>1. \A a, b \in Nat : b + 1 <= a =>
            a + 1 - (b + 1) \in 1..(a + 1) /\ (a + 1 - (b + 1)) + 1 = a + 1 - b /\ b <= a
      BY SMT
    <3>2. /\ n + 1 - (k + 1) \in 1..(n + 1) /\ (n + 1 - (k + 1)) + 1 = n + 1 - k /\ k <= n
      BY <2>3, <3>1
    <3> QED BY <2>1, <2>3, <3>2, RestRemains
  <2>4. Nat \subseteq S
    <3> HIDE DEF Pass
    <3>1. \A k \in Nat : k \in S => k + 1 \in S
      BY <2>3
    <3> HIDE DEF S
    <3> QED BY <2>2, <3>1, SetInduction
  <2>5. ASSUME NEW i \in 1..(n + 1) PROVE f[i] = Remains(segments, path, i)
    <3>1. n + 1 - i \in Nat /\ n + 1 - i <= n /\ n + 1 - (n + 1 - i) = i
      BY SMT
    <3> QED BY <2>4, <3>1
  <2>6. f = [i \in 1..(n + 1) |-> f[i]]
    BY <1>2
  <2> HIDE DEF S
  <2> QED BY <2>5, <2>6
<1>3. MatchSegments(segments, path) = (CHOOSE f : Pass(f))[1][1]
  BY DEF MatchSegments, Rest
<1>4. (CHOOSE f : Pass(f)) = remains
  BY <1>1, <1>2
<1>5. 1 \in 1..(n + 1) /\ 1 \in 1..(Len(path) + 1) /\ 1 - 1 = 0
  BY SMT
<1>6. MatchSegments(segments, path) = Remain(segments, path, 1, 1)
  <2>1. remains[1] = Remains(segments, path, 1)
    BY <1>5
  <2>2. Remains(segments, path, 1)[1] = Remain(segments, path, 1, 1)
    BY <1>5 DEF Remains
  <2> HIDE DEF Pass, remains
  <2> QED BY <1>3, <1>4, <2>1, <2>2
<1> QED BY <1>5, <1>6 DEF Remain

-----------------------------------------------------------------------------
(* FoldLeft takes a sequence from left to right: it is a function on the     *)
(* sets of positions, each without its greatest one first.                   *)
LEMMA MaxIs ==
  ASSUME NEW n \in Nat, NEW s \in SUBSET (1..n), s # {}
  PROVE Max(s) \in s /\ \A x \in s : x <= Max(s)
<1> DEFINE T == {n - x : x \in s}
<1>0. \A x \in s : x \in Int /\ n - x \in Nat
  <2>1. \A x \in 1..n : x \in Int /\ n - x \in Nat
    OBVIOUS
  <2> QED BY <2>1
<1>1. T \in SUBSET Nat /\ T # {}
  BY <1>0
<1>2. PICK y \in T : \A z \in T : y <= z
  BY <1>1, Least
<1>3. PICK m \in s : y = n - m
  BY <1>2
<1>4. \A x \in s : n - m <= n - x
  BY <1>2, <1>3
<1>5. \A x \in s : m >= x
  <2>1. \A a, b \in Int : n - a <= n - b => a >= b
    BY SMT
  <2> QED BY <1>0, <1>4, <2>1
<1>6. \E m1 \in s : \A x \in s : m1 >= x
  BY <1>5
<1>7. Max(s) \in s /\ \A x \in s : Max(s) >= x
  BY <1>6 DEF Max
<1>8. \A a, b \in Int : a >= b => b <= a
  BY SMT
<1> QED BY <1>0, <1>7, <1>8

LEMMA MaxOfInterval ==
  ASSUME NEW k \in Nat, k # 0
  PROVE Max(1..k) = k /\ (1..k) \ {k} = 1..(k - 1) /\ 1..k # {}
<1>1. 1..k \in SUBSET (1..k) /\ k \in 1..k
  BY SMT
<1>2. Max(1..k) \in 1..k /\ k <= Max(1..k)
  BY <1>1, MaxIs
<1> QED BY <1>1, <1>2, SMT

(* There is such a function, whatever is done at each position. *)
IsFold(f, n, base, step) ==
  f = [s \in SUBSET (1..n) |-> IF s = {} THEN base ELSE step[f[s \ {Max(s)}], Max(s)]]

LEMMA FoldExists ==
  ASSUME NEW n \in Nat, NEW V, NEW base \in V, NEW step \in [V \X (1..n) -> V]
  PROVE \E f \in [SUBSET (1..n) -> V] : IsFold(f, n, base, step)
<1> DEFINE Is(f, k) == \A s \in SUBSET (1..k) :
             f[s] = IF s = {} THEN base ELSE step[f[s \ {Max(s)}], Max(s)]
           S == {k \in Nat : k <= n => \E f \in [SUBSET (1..k) -> V] : Is(f, k)}
<1>1. 0 \in S
  <2> DEFINE f == [s \in SUBSET (1..0) |-> base]
  <2>1. \A s \in SUBSET (1..0) : s = {}
    BY SMT
  <2>2. f \in [SUBSET (1..0) -> V] /\ Is(f, 0)
    BY <2>1
  <2> QED BY <2>2
<1>2. ASSUME NEW k \in Nat, k \in S, k + 1 <= n
      PROVE \E g \in [SUBSET (1..(k + 1)) -> V] : Is(g, k + 1)
  <2>1. k <= n /\ k + 1 \in 1..n /\ k + 1 \in 1..(k + 1) /\ k + 1 \in Nat
    <3>1. k + 1 <= n
      BY <1>2
    <3> QED BY <3>1, SMT
  <2>2. PICK f \in [SUBSET (1..k) -> V] : Is(f, k)
    BY <1>2, <2>1
  <2> DEFINE g == [s \in SUBSET (1..(k + 1)) |->
                     IF k + 1 \in s THEN step[f[s \ {k + 1}], k + 1] ELSE f[s]]
  <2>3. ASSUME NEW s \in SUBSET (1..(k + 1)), k + 1 \in s
        PROVE /\ Max(s) = k + 1 /\ s \ {k + 1} \in SUBSET (1..k)
              /\ s \ {k + 1} \in SUBSET (1..(k + 1))
    <3>1. Max(s) \in s /\ \A x \in s : x <= Max(s)
      BY <2>1, <2>3, MaxIs
    <3>2. Max(s) \in 1..(k + 1) /\ k + 1 <= Max(s)
      BY <2>3, <3>1
    <3>3. \A x \in s \ {k + 1} : x \in 1..k
      BY SMT
    <3> QED BY <3>2, <3>3, SMT
  <2>4. ASSUME NEW s \in SUBSET (1..(k + 1)), k + 1 \notin s
        PROVE s \in SUBSET (1..k)
    BY <2>4, SMT
  <2>5. g \in [SUBSET (1..(k + 1)) -> V]
    <3>1. ASSUME NEW s \in SUBSET (1..(k + 1)), k + 1 \in s
          PROVE step[f[s \ {k + 1}], k + 1] \in V
      <4>1. f[s \ {k + 1}] \in V
        BY <2>3, <3>1
      <4> QED BY <2>1, <4>1
    <3>2. ASSUME NEW s \in SUBSET (1..(k + 1)), k + 1 \notin s PROVE f[s] \in V
      BY <2>4, <3>2
    <3> QED BY <3>1, <3>2
  <2>6. \A s \in SUBSET (1..k) : k + 1 \notin s /\ s \in SUBSET (1..(k + 1))
    BY SMT
  <2>7. \A s \in SUBSET (1..k) : g[s] = f[s]
    BY <2>6
  <2>8. ASSUME NEW s \in SUBSET (1..(k + 1))
        PROVE g[s] = IF s = {} THEN base ELSE step[g[s \ {Max(s)}], Max(s)]
    <3>1. CASE k + 1 \in s
      <4>1. g[s] = step[f[s \ {k + 1}], k + 1]
        BY <3>1
      <4>2. g[s \ {k + 1}] = f[s \ {k + 1}]
        BY <2>3, <2>7, <3>1
      <4>3. Max(s) = k + 1 /\ s # {}
        BY <2>3, <3>1
      <4> HIDE DEF g
      <4> QED BY <4>1, <4>2, <4>3
    <3>2. CASE k + 1 \notin s
      <4>1. s \in SUBSET (1..k) /\ s \ {Max(s)} \in SUBSET (1..k)
        BY <2>4, <3>2
      <4>2. g[s] = f[s] /\ g[s \ {Max(s)}] = f[s \ {Max(s)}]
        BY <2>7, <4>1
      <4> HIDE DEF g
      <4> QED BY <2>2, <4>1, <4>2
    <3> QED BY <3>1, <3>2
  <2> HIDE DEF g
  <2> QED BY <2>5, <2>8
<1>3. n \in S
  <2> HIDE DEF Is
  <2>1. ASSUME NEW k \in Nat, k \in S PROVE k + 1 \in S
    <3>1. k + 1 \in Nat
      OBVIOUS
    <3>2. CASE k + 1 <= n
      BY <1>2, <2>1, <3>1, <3>2
    <3>3. CASE ~(k + 1 <= n)
      BY <3>1, <3>3
    <3> QED BY <3>2, <3>3
  <2> HIDE DEF S
  <2> QED BY <1>1, <2>1, SetInduction
<1>4. PICK f \in [SUBSET (1..n) -> V] : Is(f, n)
  <2>1. n <= n
    OBVIOUS
  <2> HIDE DEF Is
  <2> QED BY <1>3, <2>1
<1>5. f = [s \in SUBSET (1..n) |-> f[s]]
  OBVIOUS
<1> QED BY <1>4, <1>5 DEF IsFold

-----------------------------------------------------------------------------
(* Sequences, which are built one element at a time. *)
LEMMA AppendIs ==
  ASSUME NEW X, NEW s \in Seq(X), NEW x \in X
  PROVE  /\ Append(s, x) \in Seq(X) /\ Len(Append(s, x)) = Len(s) + 1
         /\ Append(s, x)[Len(s) + 1] = x /\ Append(s, x) # <<>>
         /\ \A i \in 1..Len(s) : Append(s, x)[i] = s[i]
BY SMT

(* parse_segment, symbol by symbol. *)
NextToken(tokens, c) ==
  IF c = "*" /\ tokens # <<>> /\ Last(tokens) = "*" THEN tokens ELSE Append(tokens, c)

LEMMA ParseSteps ==
  ASSUME NEW X, NEW part \in Seq(X)
  PROVE \E parsed \in [0..Len(part) -> Seq(X)] :
          /\ parsed[0] = <<>> /\ parsed[Len(part)] = ParseSegment(part)
          /\ \A k \in 1..Len(part) : parsed[k] = NextToken(parsed[k - 1], part[k])
<1> DEFINE n == Len(part)  V == Seq(X)
           step == [p \in V \X (1..n) |-> NextToken(p[1], part[p[2]])]
           Pass(f) == f = [s \in SUBSET DOMAIN part |->
                             IF s = {} THEN <<>>
                             ELSE NextToken(f[s \ {Max(s)}], part[Max(s)])]
           fold == CHOOSE f : Pass(f)
           parsed == [k \in 0..n |-> fold[1..k]]
<1>1. n \in Nat /\ <<>> \in V /\ DOMAIN part = 1..n /\ \A i \in 1..n : part[i] \in X
  OBVIOUS
<1>2. \A tokens \in V, c \in X : NextToken(tokens, c) \in V
  BY AppendIs DEF NextToken
<1>3. step \in [V \X (1..n) -> V]
  BY <1>1, <1>2
<1>4. \A v \in V, m \in 1..n : step[v, m] = NextToken(v, part[m])
  OBVIOUS
<1> HIDE DEF step
<1>5. PICK f \in [SUBSET (1..n) -> V] : IsFold(f, n, <<>>, step)
  BY <1>1, <1>3, FoldExists
<1>6. Pass(f)
  <2>1. ASSUME NEW s \in SUBSET (1..n), s # {}
        PROVE step[f[s \ {Max(s)}], Max(s)] = NextToken(f[s \ {Max(s)}], part[Max(s)])
    <3>1. f[s \ {Max(s)}] \in V /\ Max(s) \in 1..n
      BY <1>1, <2>1, MaxIs
    <3> QED BY <1>4, <3>1
  <2> DEFINE One(s) == IF s = {} THEN <<>> ELSE step[f[s \ {Max(s)}], Max(s)]
             Two(s) == IF s = {} THEN <<>> ELSE NextToken(f[s \ {Max(s)}], part[Max(s)])
  <2>2. \A s \in SUBSET (1..n) : One(s) = Two(s)
    BY <2>1
  <2>3. f = [s \in SUBSET (1..n) |-> One(s)]
    BY <1>5 DEF IsFold
  <2> HIDE DEF One, Two
  <2>4. f = [s \in SUBSET (1..n) |-> Two(s)]
    BY <2>2, <2>3
  <2> QED BY <1>1, <2>4 DEF Two
<1>7. Pass(fold)
  <2> HIDE DEF Pass
  <2> QED BY <1>6
<1> HIDE DEF fold
<1>8. ParseSegment(part) = fold[DOMAIN part]
  BY DEF ParseSegment, FoldLeft, MapThenFoldSet, NextToken, fold
<1>9. fold[{}] = <<>>
  BY <1>7
<1>10. ASSUME NEW k \in 1..n PROVE fold[1..k] = NextToken(fold[1..(k - 1)], part[k])
  <2>1. k \in Nat /\ k # 0 /\ 1..k \in SUBSET (1..n)
    BY <1>1, SMT
  <2>2. Max(1..k) = k /\ (1..k) \ {k} = 1..(k - 1) /\ 1..k # {}
    BY <2>1, MaxOfInterval
  <2> QED BY <1>1, <1>7, <2>1, <2>2
<1>11. 1..0 = {} /\ \A k \in 1..n : k - 1 \in 0..n /\ k \in 0..n
  BY <1>1, SMT
<1>12. \A k \in 1..n : parsed[k] = NextToken(parsed[k - 1], part[k])
  BY <1>10, <1>11
<1>13. parsed[0] = <<>> /\ parsed[n] = ParseSegment(part)
  <2>1. 0 \in 0..n /\ n \in 0..n
    BY <1>1, SMT
  <2> QED BY <1>1, <1>8, <1>9, <1>11, <2>1
<1>14. parsed \in [0..n -> V]
  <2> HIDE DEF parsed, V
  <2> DEFINE S == {k \in Nat : k <= n => parsed[k] \in V}
  <2>1. 0 \in S
    BY <1>1, <1>13
  <2>2. ASSUME NEW k \in Nat, k \in S PROVE k + 1 \in S
    <3>1. k + 1 \in Nat /\ (k + 1 <= n => k <= n /\ k + 1 \in 1..n /\ (k + 1) - 1 = k)
      BY <1>1, SMT
    <3>2. k + 1 <= n => parsed[k + 1] = NextToken(parsed[k], part[k + 1])
      BY <1>12, <3>1
    <3> QED BY <1>1, <1>2, <2>2, <3>1, <3>2
  <2>3. Nat \subseteq S
    <3> HIDE DEF S
    <3> QED BY <2>1, <2>2, SetInduction
  <2>4. \A k \in 0..n : k \in Nat /\ k <= n
    BY <1>1, SMT
  <2>5. \A k \in 0..n : parsed[k] \in V
    BY <2>3, <2>4
  <2>6. parsed = [k \in 0..n |-> parsed[k]]
    BY DEF parsed
  <2> QED BY <2>5, <2>6
<1> HIDE DEF parsed
<1> QED BY <1>12, <1>13, <1>14

-----------------------------------------------------------------------------
(* Only the symbols on the way count. *)
LEMMA WaySame ==
  ASSUME NEW l, NEW m1, NEW m2, NEW a, NEW b, NEW d, NEW e,
         \A i \in (a + 1)..b : m1[i] = m2[i]
  PROVE Way(l, m1, a, b, d, e) <=> Way(l, m2, a, b, d, e)
BY DEF Way, Ways

(* One symbol more at the end of a name's pattern. *)
LEMMA NameAppend ==
  ASSUME NEW X, NEW tokens \in Seq(X), NEW c \in X, NEW text, Len(text) \in Nat,
         NEW e \in 0..Len(text)
  PROVE Way(Len(text), NameMoves(Append(tokens, c), text), 0, Len(tokens) + 1, 0, e) <=>
          \E d \in 0..Len(text) :
            /\ Way(Len(text), NameMoves(tokens, text), 0, Len(tokens), 0, d)
            /\ <<d, e>> \in NameMove(c, text)
<1> DEFINE l == Len(text)  n == Len(tokens)  more == Append(tokens, c)
<1>1. /\ n \in Nat /\ DOMAIN tokens = 1..n /\ DOMAIN more = 1..(n + 1) /\ more[n + 1] = c
      /\ \A i \in 1..n : more[i] = tokens[i] /\ i \in 1..(n + 1)
      /\ n + 1 \in 1..(n + 1) /\ 0 <= n /\ 0 \in 0..l /\ 0 + 1 = 1
  <2>1. more \in Seq(X) /\ Len(more) = n + 1 /\ more[n + 1] = c
        /\ \A i \in 1..n : more[i] = tokens[i]
    BY AppendIs
  <2> HIDE DEF more
  <2>2. n \in Nat /\ DOMAIN tokens = 1..n /\ DOMAIN more = 1..(n + 1)
    BY <2>1
  <2> QED BY <2>1, <2>2, SMT
<1> HIDE DEF more
<1>2. NameMoves(more, text)[n + 1] = NameMove(c, text)
  BY <1>1 DEF NameMoves
<1>3. \A i \in 1..n : NameMoves(more, text)[i] = NameMoves(tokens, text)[i]
  BY <1>1 DEF NameMoves
<1>4. \A d \in 0..l : Way(l, NameMoves(more, text), 0, n, 0, d)
                        <=> Way(l, NameMoves(tokens, text), 0, n, 0, d)
  BY <1>1, <1>3, WaySame
<1>5. Way(l, NameMoves(more, text), 0, n + 1, 0, e) <=>
        \E d \in 0..l : /\ Way(l, NameMoves(more, text), 0, n, 0, d)
                        /\ <<d, e>> \in NameMoves(more, text)[n + 1]
  BY <1>1, WayLast
<1> QED BY <1>2, <1>4, <1>5 DEF more

(* Two stars in a row take what one takes. *)
LEMMA SkipsTwice ==
  ASSUME NEW l \in Nat, NEW moves, NEW b \in Nat, b # 0, NEW e \in 0..l,
         \A c, d \in 0..l : <<c, d>> \in moves[b] <=> c <= d
  PROVE Way(l, moves, 0, b, 0, e) <=> \E c \in 0..l : Way(l, moves, 0, b, 0, c) /\ c <= e
<1>1. b - 1 \in Nat /\ (b - 1) + 1 = b /\ 0 \in 0..l /\ 0 <= b - 1 /\ 0 \in Nat
  BY SMT
<1>2. \A f \in 0..l : Way(l, moves, 0, b, 0, f) <=>
        \E c \in 0..l : Way(l, moves, 0, b - 1, 0, c) /\ c <= f
  <2> SUFFICES ASSUME NEW f \in 0..l
               PROVE Way(l, moves, 0, b, 0, f) <=>
                       \E c \in 0..l : Way(l, moves, 0, b - 1, 0, c) /\ c <= f
    OBVIOUS
  <2>1. Way(l, moves, 0, (b - 1) + 1, 0, f) <=>
          \E c \in 0..l : Way(l, moves, 0, b - 1, 0, c) /\ <<c, f>> \in moves[(b - 1) + 1]
    BY <1>1, WayLast
  <2> QED BY <1>1, <2>1
<1>3. e <= e /\ \A c, d \in 0..l : c <= d /\ d <= e => c <= e
  BY SMT
<1> QED BY <1>2, <1>3

(* Leaving out stars that follow one another changes nothing. *)
LEMMA ParseKeepsNames ==
  ASSUME NEW X, NEW part \in Seq(X), NEW Y, NEW text \in Seq(Y)
  PROVE  /\ ParseSegment(part) \in Seq(X)
         /\ NameFits(ParseSegment(part), text) <=> NameFits(part, text)
<1> DEFINE n == Len(part)  l == Len(text)
<1>1. PICK parsed \in [0..n -> Seq(X)] :
        /\ parsed[0] = <<>> /\ parsed[n] = ParseSegment(part)
        /\ \A k \in 1..n : parsed[k] = NextToken(parsed[k - 1], part[k])
  BY ParseSteps
<1>2. n \in Nat /\ l \in Nat /\ DOMAIN part = 1..n /\ \A i \in 1..n : part[i] \in X
  OBVIOUS
<1> DEFINE Of(k, e) == Way(l, NameMoves(parsed[k], text), 0, Len(parsed[k]), 0, e)
           To(k, e) == Way(l, NameMoves(part, text), 0, k, 0, e)
           S == {k \in Nat : k <= n => \A e \in 0..l : Of(k, e) <=> To(k, e)}
<1>3. 0 \in S
  <2>1. Len(parsed[0]) = 0 /\ 0 \in 0..l /\ 0 \in Nat
    BY <1>1, <1>2, SMT
  <2>2. ASSUME NEW e \in 0..l PROVE Of(0, e) <=> To(0, e)
    <3>1. Of(0, e) <=> Way(l, NameMoves(parsed[0], text), 0, 0, 0, e)
      BY <2>1
    <3> QED BY <1>2, <2>1, <3>1, WayNone
  <2> HIDE DEF Of, To
  <2> QED BY <2>1, <2>2
<1>4. ASSUME NEW k \in Nat, k \in S, k + 1 <= n, NEW e \in 0..l
      PROVE Of(k + 1, e) <=> To(k + 1, e)
  <2>0. k + 1 <= n
    BY <1>4
  <2>1. k \in 0..n /\ k <= n /\ k + 1 \in 1..n /\ (k + 1) - 1 = k /\ 0 <= k /\ 0 \in 0..l
    BY <1>2, <2>0, SMT
  <2> DEFINE tokens == parsed[k]  c == part[k + 1]
  <2>2. tokens \in Seq(X) /\ c \in X /\ parsed[k + 1] = NextToken(tokens, c)
    BY <1>1, <1>2, <2>1
  <2>3. \A d \in 0..l : Of(k, d) <=> To(k, d)
    BY <1>4, <2>1
  <2>4. NameMoves(part, text)[k + 1] = NameMove(c, text)
    BY <1>2, <2>1 DEF NameMoves
  <2> HIDE DEF tokens, c
  <2>5. To(k + 1, e) <=> \E d \in 0..l : To(k, d) /\ <<d, e>> \in NameMove(c, text)
    <3>1. 0 \in Nat /\ l \in Nat
      BY <1>2
    <3>2. Way(l, NameMoves(part, text), 0, k + 1, 0, e) <=>
            \E d \in 0..l : /\ Way(l, NameMoves(part, text), 0, k, 0, d)
                            /\ <<d, e>> \in NameMoves(part, text)[k + 1]
      BY <2>1, <3>1, WayLast
    <3> QED BY <2>4, <3>2
  <2>6. To(k + 1, e) <=> \E d \in 0..l : Of(k, d) /\ <<d, e>> \in NameMove(c, text)
    <3> HIDE DEF Of, To
    <3> QED BY <2>3, <2>5
  <2>7. CASE ~(c = "*" /\ tokens # <<>> /\ Last(tokens) = "*")
    <3>1. parsed[k + 1] = Append(tokens, c) /\ Len(Append(tokens, c)) = Len(tokens) + 1
      BY <2>2, <2>7, AppendIs DEF NextToken
    <3>2. Of(k + 1, e)
            <=> Way(l, NameMoves(Append(tokens, c), text), 0, Len(tokens) + 1, 0, e)
      BY <3>1
    <3>3. Way(l, NameMoves(Append(tokens, c), text), 0, Len(tokens) + 1, 0, e)
            <=> \E d \in 0..l : /\ Way(l, NameMoves(tokens, text), 0, Len(tokens), 0, d)
                                /\ <<d, e>> \in NameMove(c, text)
      BY <1>2, <2>2, NameAppend
    <3> QED BY <2>6, <3>2, <3>3 DEF tokens
  <2>8. CASE c = "*" /\ tokens # <<>> /\ Last(tokens) = "*"
    <3>1. parsed[k + 1] = tokens
      BY <2>2, <2>8 DEF NextToken
    <3>2. /\ Len(tokens) \in Nat /\ Len(tokens) # 0 /\ Len(tokens) \in DOMAIN tokens
          /\ tokens[Len(tokens)] = "*"
      BY <2>2, <2>8 DEF Last
    <3>3. \A d, f \in 0..l : <<d, f>> \in NameMove("*", text) <=> d <= f
      BY <1>2, NameMoveIs
    <3>4. NameMoves(tokens, text)[Len(tokens)] = NameMove("*", text)
      BY <3>2 DEF NameMoves
    <3>5. Way(l, NameMoves(tokens, text), 0, Len(tokens), 0, e) <=>
            \E d \in 0..l : Way(l, NameMoves(tokens, text), 0, Len(tokens), 0, d) /\ d <= e
      BY <1>2, <3>2, <3>3, <3>4, SkipsTwice, ZenonT(60)
    <3>6. Of(k + 1, e) <=> \E d \in 0..l : Of(k, d) /\ d <= e
      BY <3>1, <3>5 DEF tokens
    <3> HIDE DEF Of, To
    <3> QED BY <2>6, <2>8, <3>3, <3>6
  <2> QED BY <2>7, <2>8
<1>5. n \in S
  <2> HIDE DEF Of, To
  <2>1. ASSUME NEW k \in Nat, k \in S PROVE k + 1 \in S
    <3>1. k + 1 \in Nat
      OBVIOUS
    <3>2. CASE k + 1 <= n
      BY <1>4, <2>1, <3>1, <3>2
    <3>3. CASE ~(k + 1 <= n)
      BY <3>1, <3>3
    <3> QED BY <3>2, <3>3
  <2> HIDE DEF S
  <2> QED BY <1>2, <1>3, <2>1, SetInduction
<1>6. n <= n /\ n \in 0..n /\ l \in 0..l
  BY <1>2, SMT
<1>7. Of(n, l) <=> To(n, l)
  <2> HIDE DEF Of, To
  <2> QED BY <1>5, <1>6
<1>8. ParseSegment(part) \in Seq(X)
  BY <1>1, <1>6
<1>9. Len(ParseSegment(part)) \in Nat /\ DOMAIN ParseSegment(part) = 1..Len(ParseSegment(part))
  BY <1>8
<1>10. NameFits(ParseSegment(part), text) <=> Of(n, l)
  BY <1>1, <1>2, <1>9, NameWay
<1>11. NameFits(part, text) <=> To(n, l)
  BY <1>2, NameWay
<1> QED BY <1>7, <1>8, <1>10, <1>11

-----------------------------------------------------------------------------
(* Splitting at slashes, symbol by symbol. *)
NextPart(parts, c) ==
  IF c = "/" THEN Append(parts, <<>>) ELSE [parts EXCEPT ![Len(parts)] = Append(@, c)]

Partings(X) == {parts \in Seq(Seq(X)) : Len(parts) # 0}

LEMMA NextPartIs ==
  ASSUME NEW X, NEW parts \in Partings(X), NEW c \in X
  PROVE  /\ NextPart(parts, c) \in Partings(X)
         /\ c = "/" => /\ Len(NextPart(parts, c)) = Len(parts) + 1
                       /\ NextPart(parts, c)[Len(parts) + 1] = <<>>
                       /\ \A i \in 1..Len(parts) : NextPart(parts, c)[i] = parts[i]
         /\ c # "/" => /\ Len(NextPart(parts, c)) = Len(parts)
                       /\ NextPart(parts, c)[Len(parts)] = Append(parts[Len(parts)], c)
                       /\ \A i \in 1..(Len(parts) - 1) : NextPart(parts, c)[i] = parts[i]
<1>1. parts \in Seq(Seq(X)) /\ Len(parts) \in Nat /\ Len(parts) # 0 /\ Len(parts) \in 1..Len(parts)
      /\ DOMAIN parts = 1..Len(parts) /\ <<>> \in Seq(X)
  BY SMT DEF Partings
<1>2. CASE c = "/"
  <2>1. NextPart(parts, c) = Append(parts, <<>>)
    BY <1>2 DEF NextPart
  <2>2. /\ Append(parts, <<>>) \in Seq(Seq(X)) /\ Len(Append(parts, <<>>)) = Len(parts) + 1
        /\ Append(parts, <<>>)[Len(parts) + 1] = <<>>
        /\ \A i \in 1..Len(parts) : Append(parts, <<>>)[i] = parts[i]
    BY <1>1, AppendIs
  <2>3. Len(parts) + 1 # 0
    BY <1>1, SMT
  <2> QED BY <1>2, <2>1, <2>2, <2>3 DEF Partings
<1>3. CASE c # "/"
  <2> DEFINE last == Append(parts[Len(parts)], c)  next == [parts EXCEPT ![Len(parts)] = last]
  <2>1. NextPart(parts, c) = next
    BY <1>3 DEF NextPart
  <2>2. last \in Seq(X)
    BY <1>1
  <2> HIDE DEF last
  <2>3. next \in Seq(Seq(X)) /\ Len(next) = Len(parts)
    BY <1>1, <2>2
  <2>4. /\ next[Len(parts)] = last
        /\ \A i \in 1..(Len(parts) - 1) : next[i] = parts[i]
    <3>0. \A k \in Nat : \A i \in 1..(k - 1) : i \in 1..k /\ i # k
      OBVIOUS
    <3>1. \A i \in 1..(Len(parts) - 1) : i \in DOMAIN parts /\ i # Len(parts)
      BY <1>1, <3>0
    <3> QED BY <1>1, <3>1
  <2> QED BY <1>1, <1>3, <2>1, <2>3, <2>4 DEF Partings, last
<1> QED BY <1>2, <1>3

LEMMA SplitSteps ==
  ASSUME NEW X, NEW body \in Seq(X)
  PROVE \E split \in [0..Len(body) -> Partings(X)] :
          /\ split[0] = << <<>> >> /\ split[Len(body)] = Split(body)
          /\ \A k \in 1..Len(body) : split[k] = NextPart(split[k - 1], body[k])
<1> DEFINE n == Len(body)  V == Partings(X)
           step == [p \in V \X (1..n) |-> NextPart(p[1], body[p[2]])]
           Pass(f) == f = [s \in SUBSET DOMAIN body |->
                             IF s = {} THEN << <<>> >>
                             ELSE NextPart(f[s \ {Max(s)}], body[Max(s)])]
           fold == CHOOSE f : Pass(f)
           split == [k \in 0..n |-> fold[1..k]]
<1>1. n \in Nat /\ << <<>> >> \in V /\ DOMAIN body = 1..n /\ \A i \in 1..n : body[i] \in X
  <2>1. << <<>> >> \in Seq(Seq(X)) /\ Len(<< <<>> >>) # 0
    OBVIOUS
  <2> QED BY <2>1 DEF Partings
<1>2. \A parts \in V, c \in X : NextPart(parts, c) \in V
  BY NextPartIs
<1>3. step \in [V \X (1..n) -> V]
  BY <1>1, <1>2
<1>4. \A v \in V, m \in 1..n : step[v, m] = NextPart(v, body[m])
  OBVIOUS
<1> HIDE DEF step
<1>5. PICK f \in [SUBSET (1..n) -> V] : IsFold(f, n, << <<>> >>, step)
  BY <1>1, <1>3, FoldExists
<1>6. Pass(f)
  <2>1. ASSUME NEW s \in SUBSET (1..n), s # {}
        PROVE step[f[s \ {Max(s)}], Max(s)] = NextPart(f[s \ {Max(s)}], body[Max(s)])
    <3>1. f[s \ {Max(s)}] \in V /\ Max(s) \in 1..n
      BY <1>1, <2>1, MaxIs
    <3> QED BY <1>4, <3>1
  <2> DEFINE One(s) == IF s = {} THEN << <<>> >> ELSE step[f[s \ {Max(s)}], Max(s)]
             Two(s) == IF s = {} THEN << <<>> >> ELSE NextPart(f[s \ {Max(s)}], body[Max(s)])
  <2>2. \A s \in SUBSET (1..n) : One(s) = Two(s)
    BY <2>1
  <2>3. f = [s \in SUBSET (1..n) |-> One(s)]
    BY <1>5 DEF IsFold
  <2> HIDE DEF One, Two
  <2>4. f = [s \in SUBSET (1..n) |-> Two(s)]
    BY <2>2, <2>3
  <2> QED BY <1>1, <2>4 DEF Two
<1>7. Pass(fold)
  <2> HIDE DEF Pass
  <2> QED BY <1>6
<1> HIDE DEF fold
<1>8. Split(body) = fold[DOMAIN body]
  BY DEF Split, FoldLeft, MapThenFoldSet, NextPart, fold
<1>9. fold[{}] = << <<>> >>
  BY <1>7
<1>10. ASSUME NEW k \in 1..n PROVE fold[1..k] = NextPart(fold[1..(k - 1)], body[k])
  <2>1. k \in Nat /\ k # 0 /\ 1..k \in SUBSET (1..n)
    BY <1>1, SMT
  <2>2. Max(1..k) = k /\ (1..k) \ {k} = 1..(k - 1) /\ 1..k # {}
    BY <2>1, MaxOfInterval
  <2> QED BY <1>1, <1>7, <2>1, <2>2
<1>11. 1..0 = {} /\ \A k \in 1..n : k - 1 \in 0..n /\ k \in 0..n
  BY <1>1, SMT
<1>12. \A k \in 1..n : split[k] = NextPart(split[k - 1], body[k])
  BY <1>10, <1>11
<1>13. split[0] = << <<>> >> /\ split[n] = Split(body)
  <2>1. 0 \in 0..n /\ n \in 0..n
    BY <1>1, SMT
  <2> QED BY <1>1, <1>8, <1>9, <1>11, <2>1
<1>14. split \in [0..n -> V]
  <2> HIDE DEF split, V
  <2> DEFINE S == {k \in Nat : k <= n => split[k] \in V}
  <2>1. 0 \in S
    BY <1>1, <1>13
  <2>2. ASSUME NEW k \in Nat, k \in S PROVE k + 1 \in S
    <3>1. k + 1 \in Nat /\ (k + 1 <= n => k <= n /\ k + 1 \in 1..n /\ (k + 1) - 1 = k)
      BY <1>1, SMT
    <3>2. k + 1 <= n => split[k + 1] = NextPart(split[k], body[k + 1])
      BY <1>12, <3>1
    <3> QED BY <1>1, <1>2, <2>2, <3>1, <3>2
  <2>3. Nat \subseteq S
    <3> HIDE DEF S
    <3> QED BY <2>1, <2>2, SetInduction
  <2>4. \A k \in 0..n : k \in Nat /\ k <= n
    BY <1>1, SMT
  <2>5. \A k \in 0..n : split[k] \in V
    BY <2>3, <2>4
  <2>6. split = [k \in 0..n |-> split[k]]
    BY DEF split
  <2> QED BY <2>5, <2>6
<1> HIDE DEF split
<1> QED BY <1>12, <1>13, <1>14

(* Slashes at the ends of a pattern only add empty parts. *)
Padded(whole, parts, p) ==
  /\ p + Len(parts) <= Len(whole)
  /\ \A i \in 1..p : whole[i] = <<>>
  /\ \A i \in 1..Len(parts) : whole[p + i] = parts[i]
  /\ \A i \in (p + Len(parts) + 1)..Len(whole) : whole[i] = <<>>

Empties(parts, k) == Len(parts) = k /\ \A i \in 1..k : parts[i] = <<>>

LEMMA MoreEmpties ==
  ASSUME NEW X, NEW parts \in Partings(X), NEW k \in Nat, Empties(parts, k), "/" \in X
  PROVE Empties(NextPart(parts, "/"), k + 1)
<1>1. /\ Len(NextPart(parts, "/")) = k + 1 /\ NextPart(parts, "/")[k + 1] = <<>>
      /\ \A i \in 1..k : NextPart(parts, "/")[i] = <<>>
  BY NextPartIs, SMTT(30) DEF Empties
<1>2. \A i \in 1..(k + 1) : i = k + 1 \/ i \in 1..k
  BY SMT
<1> QED BY <1>1, <1>2 DEF Empties

LEMMA MorePadded ==
  ASSUME NEW X, NEW whole \in Partings(X), NEW parts \in Partings(X), NEW p \in Nat,
         Padded(whole, parts, p), "/" \in X
  PROVE Padded(NextPart(whole, "/"), parts, p)
<1> DEFINE n == Len(whole)  m == Len(parts)
<1>1. /\ Len(NextPart(whole, "/")) = n + 1 /\ NextPart(whole, "/")[n + 1] = <<>>
      /\ \A i \in 1..n : NextPart(whole, "/")[i] = whole[i]
  BY NextPartIs
<1>2. n \in Nat /\ m \in Nat /\ p + m <= n
  BY DEF Partings, Padded
<1> HIDE DEF n, m
<1>3. /\ p + m <= n + 1
      /\ \A i \in 1..p : i \in 1..n
      /\ \A i \in 1..m : p + i \in 1..n
      /\ \A i \in (p + m + 1)..(n + 1) : i = n + 1 \/ (i \in 1..n /\ i \in (p + m + 1)..n)
  BY <1>2, SMT
<1> QED BY <1>1, <1>3 DEF Padded, n, m

(* The same symbol, put behind a pattern and behind one with slashes before. *)
Shifted(whole, parts, p) ==
  /\ Len(whole) = p + Len(parts)
  /\ \A i \in 1..p : whole[i] = <<>>
  /\ \A i \in 1..Len(parts) : whole[p + i] = parts[i]

LEMMA MoreShifted ==
  ASSUME NEW X, NEW whole \in Partings(X), NEW parts \in Partings(X), NEW p \in Nat,
         Shifted(whole, parts, p), NEW c \in X
  PROVE Shifted(NextPart(whole, c), NextPart(parts, c), p)
<1> DEFINE n == Len(whole)  m == Len(parts)  w == NextPart(whole, c)  r == NextPart(parts, c)
<1>1. n = p + m /\ m \in Nat /\ m # 0
  BY DEF Partings, Shifted
<1>2. /\ \A i \in 1..p : whole[i] = <<>>
      /\ \A i \in 1..m : whole[p + i] = parts[i]
  BY DEF Shifted
<1>3. CASE c = "/"
  <2>1. Len(w) = n + 1 /\ w[n + 1] = <<>> /\ \A i \in 1..n : w[i] = whole[i]
    BY <1>3, NextPartIs
  <2>2. Len(r) = m + 1 /\ r[m + 1] = <<>> /\ \A i \in 1..m : r[i] = parts[i]
    BY <1>3, NextPartIs
  <2> HIDE DEF n, m, w, r
  <2>3. /\ n + 1 = p + (m + 1)
        /\ \A i \in 1..p : i \in 1..n
        /\ \A i \in 1..m : p + i \in 1..n
        /\ \A i \in 1..(m + 1) : i \in 1..m \/ i = m + 1
    BY <1>1, SMT
  <2>4. \A i \in 1..p : w[i] = <<>>
    BY <1>2, <2>1, <2>3
  <2>5. ASSUME NEW i \in 1..(m + 1) PROVE w[p + i] = r[i]
    <3>1. CASE i \in 1..m
      BY <1>2, <2>1, <2>2, <2>3, <3>1
    <3>2. CASE i = m + 1
      BY <2>1, <2>2, <2>3, <3>2
    <3> QED BY <2>3, <3>1, <3>2
  <2> QED BY <2>1, <2>2, <2>3, <2>4, <2>5 DEF Shifted, w, r
<1>4. CASE c # "/"
  <2>1. /\ Len(w) = n /\ w[n] = Append(whole[n], c) /\ \A i \in 1..(n - 1) : w[i] = whole[i]
    BY <1>4, NextPartIs
  <2>2. /\ Len(r) = m /\ r[m] = Append(parts[m], c) /\ \A i \in 1..(m - 1) : r[i] = parts[i]
    BY <1>4, NextPartIs
  <2> HIDE DEF n, m, w, r
  <2>3. /\ \A i \in 1..p : i \in 1..(n - 1)
        /\ \A i \in 1..m : i = m \/ (i \in 1..(m - 1) /\ p + i \in 1..(n - 1))
        /\ m \in 1..m
    BY <1>1, SMT
  <2>4. \A i \in 1..p : w[i] = <<>>
    BY <1>2, <2>1, <2>3
  <2>5. ASSUME NEW i \in 1..m PROVE w[p + i] = r[i]
    <3>1. CASE i # m
      BY <1>2, <2>1, <2>2, <2>3, <3>1
    <3>2. CASE i = m
      BY <1>1, <1>2, <2>1, <2>2, <2>3, <3>2
    <3> QED BY <3>1, <3>2
  <2> QED BY <1>1, <2>1, <2>2, <2>4, <2>5 DEF Shifted, w, r
<1> QED BY <1>3, <1>4

LEMMA SplitPadded ==
  ASSUME NEW X, "/" \in X, NEW pattern \in Seq(X), NEW rest \in Seq(X),
         NEW p \in Nat, p + Len(rest) <= Len(pattern),
         \A i \in 1..p : pattern[i] = "/",
         \A i \in 1..Len(rest) : pattern[p + i] = rest[i],
         \A i \in (p + Len(rest) + 1)..Len(pattern) : pattern[i] = "/"
  PROVE Padded(Split(pattern), Split(rest), p)
<1> DEFINE n == Len(pattern)  m == Len(rest)
<1>1. n \in Nat /\ m \in Nat
  OBVIOUS
<1>2. PICK w \in [0..n -> Partings(X)] :
        /\ w[0] = << <<>> >> /\ w[n] = Split(pattern)
        /\ \A k \in 1..n : w[k] = NextPart(w[k - 1], pattern[k])
  BY SplitSteps
<1>3. PICK r \in [0..m -> Partings(X)] :
        /\ r[0] = << <<>> >> /\ r[m] = Split(rest)
        /\ \A k \in 1..m : r[k] = NextPart(r[k - 1], rest[k])
  BY SplitSteps
<1>4. p + m <= n /\ \A i \in 1..m : rest[i] \in X
  OBVIOUS
<1> HIDE DEF n, m
<1>5. Empties(w[p], p + 1)
  <2> DEFINE S == {k \in Nat : k <= p => Empties(w[k], k + 1)}
  <2>1. 0 \in S
    <3>1. 0 + 1 = 1 /\ \A i \in 1..1 : i = 1
      BY SMT
    <3>2. Len(<< <<>> >>) = 1 /\ << <<>> >>[1] = <<>>
      OBVIOUS
    <3> QED BY <1>2, <3>1, <3>2 DEF Empties
  <2>2. ASSUME NEW k \in Nat, k \in S, k + 1 <= p PROVE Empties(w[k + 1], k + 1 + 1)
    <3>1. k + 1 <= p
      BY <2>2
    <3>2. /\ k \in 0..n /\ k <= p /\ k + 1 \in 1..n /\ (k + 1) - 1 = k
          /\ k + 1 \in 1..p /\ k + 1 \in Nat
      BY <1>1, <1>4, <3>1, SMT
    <3>3. w[k + 1] = NextPart(w[k], "/") /\ w[k] \in Partings(X) /\ Empties(w[k], k + 1)
      BY <1>2, <2>2, <3>2
    <3> QED BY <3>2, <3>3, MoreEmpties
  <2>3. p \in S
    <3>1. ASSUME NEW k \in Nat, k \in S PROVE k + 1 \in S
      <4>1. k + 1 \in Nat
        OBVIOUS
      <4>2. CASE k + 1 <= p
        BY <2>2, <3>1, <4>1, <4>2
      <4>3. CASE ~(k + 1 <= p)
        BY <4>1, <4>3
      <4> QED BY <4>2, <4>3
    <3> HIDE DEF S
    <3> QED BY <2>1, <3>1, SetInduction
  <2>4. p <= p
    OBVIOUS
  <2> QED BY <2>3, <2>4
<1>6. Shifted(w[p + m], r[m], p)
  <2> DEFINE S == {j \in Nat : j <= m => Shifted(w[p + j], r[j], p)}
  <2>1. 0 \in S
    <3>1. /\ Len(<< <<>> >>) = 1 /\ << <<>> >>[1] = <<>> /\ p + 0 = p
          /\ p + 1 \in 1..(p + 1) /\ \A i \in 1..1 : i = 1
          /\ \A i \in 1..p : i \in 1..(p + 1)
      BY SMT
    <3>2. Shifted(w[p + 0], r[0], p)
      BY <1>3, <1>5, <3>1 DEF Empties, Shifted
    <3> QED BY <3>2
  <2>2. ASSUME NEW j \in Nat, j \in S, j + 1 <= m PROVE Shifted(w[p + (j + 1)], r[j + 1], p)
    <3>1. j + 1 <= m
      BY <2>2
    <3>2. /\ j \in 0..m /\ j <= m /\ j + 1 \in 1..m /\ (j + 1) - 1 = j
          /\ p + j \in 0..n /\ p + (j + 1) \in 1..n /\ (p + (j + 1)) - 1 = p + j
      BY <1>1, <1>4, <3>1, SMT
    <3>3. r[j + 1] = NextPart(r[j], rest[j + 1]) /\ r[j] \in Partings(X)
      BY <1>3, <3>2
    <3>4. pattern[p + (j + 1)] = rest[j + 1]
      BY <3>2 DEF m
    <3>5. w[p + (j + 1)] = NextPart(w[p + j], rest[j + 1]) /\ w[p + j] \in Partings(X)
      BY <1>2, <3>2, <3>4
    <3>6. rest[j + 1] \in X /\ Shifted(w[p + j], r[j], p)
      BY <1>4, <2>2, <3>2
    <3> QED BY <3>3, <3>5, <3>6, MoreShifted
  <2>3. m \in S
    <3>1. ASSUME NEW k \in Nat, k \in S PROVE k + 1 \in S
      <4>1. k + 1 \in Nat
        OBVIOUS
      <4>2. CASE k + 1 <= m
        BY <2>2, <3>1, <4>1, <4>2
      <4>3. CASE ~(k + 1 <= m)
        BY <4>1, <4>3
      <4> QED BY <4>2, <4>3
    <3> HIDE DEF S
    <3> QED BY <1>1, <2>1, <3>1, SetInduction
  <2>4. m <= m
    BY <1>1, SMT
  <2> QED BY <2>3, <2>4
<1>7. Padded(w[p + m], r[m], p)
  <2>1. Len(w[p + m]) = p + Len(r[m])
    BY <1>6 DEF Shifted
  <2>2. Len(r[m]) \in Nat
    <3>1. m \in 0..m
      BY <1>1, SMT
    <3> QED BY <1>3, <3>1 DEF Partings
  <2>3. \A k \in Nat : p + k <= p + k /\ \A i \in (p + k + 1)..(p + k) : FALSE
    BY SMT
  <2> QED BY <1>6, <2>1, <2>2, <2>3 DEF Shifted, Padded
<1>8. Padded(w[n], r[m], p)
  <2> DEFINE q == n - (p + m)
             S == {j \in Nat : j <= q => Padded(w[(p + m) + j], r[m], p)}
  <2>0. q \in Nat /\ (p + m) + q = n /\ p + m \in Nat /\ (p + m) + 0 = p + m /\ m \in 0..m
    BY <1>1, <1>4, SMT
  <2> HIDE DEF q
  <2>1. 0 \in S
    BY <1>7, <2>0
  <2>2. ASSUME NEW j \in Nat, j \in S, j + 1 <= q PROVE Padded(w[(p + m) + (j + 1)], r[m], p)
    <3>1. j + 1 <= q
      BY <2>2
    <3>2. \A k \in Nat : k + q = n =>
            /\ k + j \in 0..n /\ k + (j + 1) \in 1..n /\ (k + (j + 1)) - 1 = k + j
                                     /\ k + (j + 1) \in (k + 1)..n /\ j <= q
      BY <1>1, <2>0, <3>1, SMT
    <3>3. /\ (p + m) + j \in 0..n /\ (p + m) + (j + 1) \in 1..n
          /\ ((p + m) + (j + 1)) - 1 = (p + m) + j
          /\ (p + m) + (j + 1) \in (p + m + 1)..n /\ j <= q
      BY <2>0, <3>2
    <3>4. pattern[(p + m) + (j + 1)] = "/"
      BY <3>3 DEF m, n
    <3>5. /\ w[(p + m) + (j + 1)] = NextPart(w[(p + m) + j], "/")
          /\ w[(p + m) + j] \in Partings(X) /\ r[m] \in Partings(X)
      BY <1>2, <1>3, <2>0, <3>3, <3>4
    <3>6. Padded(w[(p + m) + j], r[m], p)
      BY <2>2, <3>3
    <3> QED BY <3>5, <3>6, MorePadded
  <2>3. q \in S
    <3>1. ASSUME NEW k \in Nat, k \in S PROVE k + 1 \in S
      <4>1. k + 1 \in Nat
        OBVIOUS
      <4>2. CASE k + 1 <= q
        BY <2>2, <3>1, <4>1, <4>2
      <4>3. CASE ~(k + 1 <= q)
        BY <4>1, <4>3
      <4> QED BY <4>2, <4>3
    <3> HIDE DEF S
    <3> QED BY <2>0, <2>1, <3>1, SetInduction
  <2>4. q <= q
    BY <2>0, SMT
  <2> QED BY <2>0, <2>3, <2>4
<1> QED BY <1>2, <1>3, <1>8

-----------------------------------------------------------------------------
(* Glob::new, part by part. *)
NextSegment(segments, part) ==
  IF part = <<>> THEN segments
  ELSE IF part = <<"*", "*">>
  THEN IF segments # <<>> /\ Last(segments) = AnyDirectories THEN segments
       ELSE Append(segments, AnyDirectories)
  ELSE Append(segments, ParseSegment(part))

Segments(first, parts) == FoldLeft(NextSegment, first, parts)
Compiled(X) == Seq(Seq(X \cup {"**"}))

LEMMA NextSegmentIs ==
  ASSUME NEW X, NEW segments \in Compiled(X), NEW part \in Seq(X)
  PROVE NextSegment(segments, part) \in Compiled(X)
<1>1. ParseSegment(part) \in Seq(X)
  <2>1. << >> \in Seq(X)
    OBVIOUS
  <2> QED BY <2>1, ParseKeepsNames
<1>2. ParseSegment(part) \in Seq(X \cup {"**"}) /\ AnyDirectories \in Seq(X \cup {"**"})
  BY <1>1 DEF AnyDirectories
<1>3. \A t \in Seq(X \cup {"**"}) : Append(segments, t) \in Compiled(X)
  BY AppendIs DEF Compiled
<1> QED BY <1>2, <1>3 DEF NextSegment

Adds(added, first, parts) ==
  /\ added[0] = first /\ added[Len(parts)] = Segments(first, parts)
  /\ \A k \in 1..Len(parts) : added[k] = NextSegment(added[k - 1], parts[k])

LEMMA SegmentSteps ==
  ASSUME NEW X, NEW parts \in Seq(Seq(X)), NEW first \in Compiled(X)
  PROVE \E added \in [0..Len(parts) -> Compiled(X)] : Adds(added, first, parts)
<1> DEFINE n == Len(parts)  V == Compiled(X)
           step == [p \in V \X (1..n) |-> NextSegment(p[1], parts[p[2]])]
           Pass(f) == f = [s \in SUBSET DOMAIN parts |->
                             IF s = {} THEN first
                             ELSE NextSegment(f[s \ {Max(s)}], parts[Max(s)])]
           fold == CHOOSE f : Pass(f)
           added == [k \in 0..n |-> fold[1..k]]
<1>1. n \in Nat /\ first \in V /\ DOMAIN parts = 1..n /\ \A i \in 1..n : parts[i] \in Seq(X)
  OBVIOUS
<1>2. \A segments \in V, c \in Seq(X) : NextSegment(segments, c) \in V
  BY NextSegmentIs
<1>3. step \in [V \X (1..n) -> V]
  BY <1>1, <1>2
<1>4. \A v \in V, m \in 1..n : step[v, m] = NextSegment(v, parts[m])
  OBVIOUS
<1> HIDE DEF step
<1>5. PICK f \in [SUBSET (1..n) -> V] : IsFold(f, n, first, step)
  BY <1>1, <1>3, FoldExists
<1>6. Pass(f)
  <2>1. ASSUME NEW s \in SUBSET (1..n), s # {}
        PROVE step[f[s \ {Max(s)}], Max(s)] = NextSegment(f[s \ {Max(s)}], parts[Max(s)])
    <3>1. f[s \ {Max(s)}] \in V /\ Max(s) \in 1..n
      BY <1>1, <2>1, MaxIs
    <3> QED BY <1>4, <3>1
  <2> DEFINE One(s) == IF s = {} THEN first ELSE step[f[s \ {Max(s)}], Max(s)]
             Two(s) == IF s = {} THEN first ELSE NextSegment(f[s \ {Max(s)}], parts[Max(s)])
  <2>2. \A s \in SUBSET (1..n) : One(s) = Two(s)
    BY <2>1
  <2>3. f = [s \in SUBSET (1..n) |-> One(s)]
    BY <1>5 DEF IsFold
  <2> HIDE DEF One, Two
  <2>4. f = [s \in SUBSET (1..n) |-> Two(s)]
    BY <2>2, <2>3
  <2> QED BY <1>1, <2>4 DEF Two
<1>7. Pass(fold)
  <2> HIDE DEF Pass
  <2> QED BY <1>6
<1> HIDE DEF fold
<1>8. Segments(first, parts) = fold[DOMAIN parts]
  BY DEF Segments, FoldLeft, MapThenFoldSet, NextSegment, fold
<1>9. fold[{}] = first
  BY <1>7
<1>10. ASSUME NEW k \in 1..n PROVE fold[1..k] = NextSegment(fold[1..(k - 1)], parts[k])
  <2>1. k \in Nat /\ k # 0 /\ 1..k \in SUBSET (1..n)
    BY <1>1, SMT
  <2>2. Max(1..k) = k /\ (1..k) \ {k} = 1..(k - 1) /\ 1..k # {}
    BY <2>1, MaxOfInterval
  <2> QED BY <1>1, <1>7, <2>1, <2>2
<1>11. 1..0 = {} /\ \A k \in 1..n : k - 1 \in 0..n /\ k \in 0..n
  BY <1>1, SMT
<1>12. \A k \in 1..n : added[k] = NextSegment(added[k - 1], parts[k])
  BY <1>10, <1>11
<1>13. added[0] = first /\ added[n] = Segments(first, parts)
  <2>1. 0 \in 0..n /\ n \in 0..n
    BY <1>1, SMT
  <2> QED BY <1>1, <1>8, <1>9, <1>11, <2>1
<1>14. added \in [0..n -> V]
  <2> HIDE DEF added, V
  <2> DEFINE S == {k \in Nat : k <= n => added[k] \in V}
  <2>1. 0 \in S
    BY <1>1, <1>13
  <2>2. ASSUME NEW k \in Nat, k \in S PROVE k + 1 \in S
    <3>1. k + 1 \in Nat /\ (k + 1 <= n => k <= n /\ k + 1 \in 1..n /\ (k + 1) - 1 = k)
      BY <1>1, SMT
    <3>2. k + 1 <= n => added[k + 1] = NextSegment(added[k], parts[k + 1])
      BY <1>12, <3>1
    <3> QED BY <1>1, <1>2, <2>2, <3>1, <3>2
  <2>3. Nat \subseteq S
    <3> HIDE DEF S
    <3> QED BY <2>1, <2>2, SetInduction
  <2>4. \A k \in 0..n : k \in Nat /\ k <= n
    BY <1>1, SMT
  <2>5. \A k \in 0..n : added[k] \in V
    BY <2>3, <2>4
  <2>6. added = [k \in 0..n |-> added[k]]
    BY DEF added
  <2> QED BY <2>5, <2>6
<1> HIDE DEF added
<1> QED BY <1>12, <1>13, <1>14 DEF Adds

LEMMA NewIs ==
  ASSUME NEW pattern
  PROVE LET body == TrimEnd(pattern)
            rest == TrimStart(body)
            first == IF FloatsAnywhere(Head(body) = "/", rest) THEN <<AnyDirectories>> ELSE <<>>
        IN New(pattern) = IF pattern = <<>> \/ rest = <<>> THEN Error
                          ELSE [segments |-> Segments(first, Split(rest)),
                                directoryOnly |-> Len(pattern) > 1 /\ Last(pattern) = "/"]
BY DEF New, Segments, FoldLeft, MapThenFoldSet, NextSegment

(* One segment more. *)
LEMMA SegmentAppend ==
  ASSUME NEW X, NEW segments \in Compiled(X), NEW t \in Seq(X \cup {"**"}),
         NEW path, Len(path) \in Nat, NEW e \in 0..Len(path)
  PROVE Way(Len(path), SegmentMoves(Append(segments, t), path), 0, Len(segments) + 1, 0, e) <=>
          \E d \in 0..Len(path) :
            /\ Way(Len(path), SegmentMoves(segments, path), 0, Len(segments), 0, d)
            /\ <<d, e>> \in SegmentMove(t, path)
<1> DEFINE l == Len(path)  n == Len(segments)  more == Append(segments, t)
<1>1. /\ n \in Nat /\ DOMAIN segments = 1..n /\ DOMAIN more = 1..(n + 1) /\ more[n + 1] = t
      /\ \A i \in 1..n : more[i] = segments[i] /\ i \in 1..(n + 1)
      /\ n + 1 \in 1..(n + 1) /\ 0 <= n /\ 0 \in 0..l /\ 0 + 1 = 1
  <2>1. more \in Compiled(X) /\ Len(more) = n + 1 /\ more[n + 1] = t
        /\ \A i \in 1..n : more[i] = segments[i]
    BY AppendIs DEF Compiled
  <2> HIDE DEF more
  <2>2. n \in Nat /\ DOMAIN segments = 1..n /\ DOMAIN more = 1..(n + 1)
    BY <2>1 DEF Compiled
  <2> QED BY <2>1, <2>2, SMT
<1> HIDE DEF more
<1>2. SegmentMoves(more, path)[n + 1] = SegmentMove(t, path)
  BY <1>1 DEF SegmentMoves
<1>3. \A i \in 1..n : SegmentMoves(more, path)[i] = SegmentMoves(segments, path)[i]
  BY <1>1 DEF SegmentMoves
<1>4. \A d \in 0..l : Way(l, SegmentMoves(more, path), 0, n, 0, d)
                        <=> Way(l, SegmentMoves(segments, path), 0, n, 0, d)
  BY <1>1, <1>3, WaySame
<1>5. Way(l, SegmentMoves(more, path), 0, n + 1, 0, e) <=>
        \E d \in 0..l : /\ Way(l, SegmentMoves(more, path), 0, n, 0, d)
                        /\ <<d, e>> \in SegmentMoves(more, path)[n + 1]
  BY <1>1, WayLast
<1> QED BY <1>2, <1>4, <1>5 DEF more

(* What a part of the pattern stands for in a path. *)
PathMove(part, path) ==
  {move \in (0..Len(path)) \X (0..Len(path)) :
     \/ part = <<>> /\ move[2] = move[1]
     \/ part = <<"*", "*">> /\ move[1] <= move[2]
     \/ part # <<>> /\ move[2] = move[1] + 1 /\ NameFits(part, path[move[2]])}
PathMoves(parts, path) == [i \in DOMAIN parts |-> PathMove(parts[i], path)]

LEMMA PathMoveIs ==
  ASSUME NEW part, NEW path, Len(path) \in Nat,
         NEW d \in 0..Len(path), NEW e \in 0..Len(path)
  PROVE <<d, e>> \in PathMove(part, path) <=>
          \/ part = <<>> /\ e = d
          \/ part = <<"*", "*">> /\ d <= e
          \/ part # <<>> /\ e = d + 1 /\ NameFits(part, path[e])
<1>1. <<d, e>> \in (0..Len(path)) \X (0..Len(path)) /\ <<d, e>>[1] = d /\ <<d, e>>[2] = e
  OBVIOUS
<1> QED BY <1>1 DEF PathMove

LEMMA PathWay ==
  ASSUME NEW parts, Len(parts) \in Nat, DOMAIN parts = 1..Len(parts),
         NEW path, Len(path) \in Nat
  PROVE PathFits(parts, path)
          <=> Way(Len(path), PathMoves(parts, path), 0, Len(parts), 0, Len(path))
<1> DEFINE n == Len(parts)  l == Len(path)
           Piece(cut, i) == \/ parts[i] = <<>> /\ cut[i] = cut[i - 1]
                            \/ parts[i] = <<"*", "*">>
                            \/ /\ parts[i] # <<>> /\ cut[i] = cut[i - 1] + 1
                               /\ NameFits(parts[i], path[cut[i]])
<1>1. ASSUME NEW cut \in [0..n -> 0..l], NEW i \in 1..n
      PROVE <<cut[i - 1], cut[i]>> \in PathMoves(parts, path)[i] <=>
              cut[i - 1] <= cut[i] /\ Piece(cut, i)
  <2>1. /\ cut[i - 1] \in 0..l /\ cut[i] \in 0..l
        /\ PathMoves(parts, path)[i] = PathMove(parts[i], path)
    BY SMT DEF PathMoves
  <2>2. <<cut[i - 1], cut[i]>> \in PathMove(parts[i], path) <=>
          \/ parts[i] = <<>> /\ cut[i] = cut[i - 1]
          \/ parts[i] = <<"*", "*">> /\ cut[i - 1] <= cut[i]
          \/ parts[i] # <<>> /\ cut[i] = cut[i - 1] + 1 /\ NameFits(parts[i], path[cut[i]])
    BY <2>1, PathMoveIs
  <2>3. \A d, e \in 0..l : (e = d => d <= e) /\ (e = d + 1 => d <= e)
    BY SMT
  <2> QED BY <2>1, <2>2, <2>3
<1>2. ASSUME NEW cut \in [0..n -> 0..l]
      PROVE cut \in Ways(l, PathMoves(parts, path), 0, n) /\ cut[0] = 0 /\ cut[n] = l <=>
              cut \in Cuts(n, l) /\ \A i \in DOMAIN parts : Piece(cut, i)
  <2>1. (\A i \in (0 + 1)..n : <<cut[i - 1], cut[i]>> \in PathMoves(parts, path)[i])
          <=> \A i \in 1..n : cut[i - 1] <= cut[i] /\ Piece(cut, i)
    <3>1. 0 + 1 = 1
      OBVIOUS
    <3> HIDE DEF Piece
    <3> QED BY <1>1, <3>1
  <2> HIDE DEF Piece
  <2> QED BY <2>1 DEF Ways, Cuts
<1>3. /\ Ways(l, PathMoves(parts, path), 0, n) \subseteq [0..n -> 0..l]
      /\ Cuts(n, l) \subseteq [0..n -> 0..l]
  BY DEF Ways, Cuts
<1>4. PathFits(parts, path) <=> \E cut \in Cuts(n, l) : \A i \in DOMAIN parts : Piece(cut, i)
  BY DEF PathFits
<1> HIDE DEF Piece
<1> QED BY <1>2, <1>3, <1>4, Zenon DEF Way

(* Empty parts stand for nothing. *)
LEMMA EmptiesMoveNot ==
  ASSUME NEW parts, NEW a \in Nat, NEW b \in Nat, a <= b, b <= Len(parts), Len(parts) \in Nat,
         DOMAIN parts = 1..Len(parts), \A i \in (a + 1)..b : parts[i] = <<>>,
         NEW path, Len(path) \in Nat, NEW e \in 0..Len(path)
  PROVE Way(Len(path), PathMoves(parts, path), 0, b, 0, e)
          <=> Way(Len(path), PathMoves(parts, path), 0, a, 0, e)
<1> DEFINE l == Len(path)  To(k) == Way(l, PathMoves(parts, path), 0, k, 0, e)
           S == {k \in Nat : a + k <= b => (To(a + k) <=> To(a))}
<1>1. 0 \in S
  BY SMT
<1>2. ASSUME NEW k \in Nat, k \in S, a + (k + 1) <= b PROVE To(a + (k + 1)) <=> To(a)
  <2>0. a + (k + 1) <= b /\ b <= Len(parts)
    BY <1>2
  <2>1. /\ a + k \in Nat /\ (a + k) + 1 = a + (k + 1) /\ a + k <= b /\ 0 <= a + k
        /\ a + (k + 1) \in (a + 1)..b /\ a + (k + 1) \in 1..Len(parts)
        /\ 0 \in Nat /\ 0 \in 0..l
    BY <2>0, SMT
  <2>2. PathMoves(parts, path)[a + (k + 1)] = PathMove(<<>>, path)
    BY <2>1 DEF PathMoves
  <2>3. \A d \in 0..l : <<d, e>> \in PathMove(<<>>, path) <=> e = d
    <3>1. <<>> # <<"*", "*">>
      OBVIOUS
    <3> QED BY <3>1, PathMoveIs
  <2>4. Way(l, PathMoves(parts, path), 0, (a + k) + 1, 0, e) <=>
          \E d \in 0..l : /\ Way(l, PathMoves(parts, path), 0, a + k, 0, d)
                          /\ <<d, e>> \in PathMoves(parts, path)[(a + k) + 1]
    BY <2>1, WayLast
  <2>5. To(a + (k + 1)) <=> To(a + k)
    BY <2>1, <2>2, <2>3, <2>4
  <2> HIDE DEF To
  <2> QED BY <1>2, <2>1, <2>5
<1>3. b - a \in S
  <2> HIDE DEF To
  <2>1. ASSUME NEW k \in Nat, k \in S PROVE k + 1 \in S
    <3>1. k + 1 \in Nat
      OBVIOUS
    <3>2. CASE a + (k + 1) <= b
      BY <1>2, <2>1, <3>1, <3>2
    <3>3. CASE ~(a + (k + 1) <= b)
      BY <3>1, <3>3
    <3> QED BY <3>2, <3>3
  <2>2. b - a \in Nat
    BY SMT
  <2> HIDE DEF S
  <2> QED BY <1>1, <2>1, <2>2, SetInduction
<1>4. a + (b - a) = b /\ a + (b - a) <= b
  BY SMT
<1> HIDE DEF To
<1> QED BY <1>3, <1>4 DEF To

(* One part more, compiled and as it is meant. *)
LEMMA SegmentOfPart ==
  ASSUME NEW X, "**" \notin X, NEW segments \in Compiled(X), NEW part \in Seq(X),
         NEW Y, NEW path \in Seq(Seq(Y)), NEW e \in 0..Len(path)
  PROVE LET next == NextSegment(segments, part)
            After(d) == Way(Len(path), SegmentMoves(segments, path), 0, Len(segments), 0, d)
        IN Way(Len(path), SegmentMoves(next, path), 0, Len(next), 0, e) <=>
             \E d \in 0..Len(path) : After(d) /\ <<d, e>> \in PathMove(part, path)
<1> DEFINE l == Len(path)  next == NextSegment(segments, part)
           After(d) == Way(l, SegmentMoves(segments, path), 0, Len(segments), 0, d)
           Next(d) == Way(l, SegmentMoves(next, path), 0, Len(next), 0, d)
<1>1. l \in Nat /\ \A i \in 1..l : path[i] \in Seq(Y)
  OBVIOUS
<1>2. /\ <<"*", "*">> # <<>> /\ <<"*", "*">> # <<"*">> /\ Len(<<"*", "*">>) = 2
      /\ AnyDirectories \in Seq(X \cup {"**"})
  BY DEF AnyDirectories
<1>3. Len(segments) \in Nat /\ DOMAIN segments = 1..Len(segments)
  BY DEF Compiled
<1> SUFFICES Next(e) <=> \E d \in 0..l : After(d) /\ <<d, e>> \in PathMove(part, path)
  OBVIOUS
<1>4. CASE part = <<>>
  <2>1. next = segments
    BY <1>4 DEF NextSegment
  <2>2. \A d \in 0..l : <<d, e>> \in PathMove(part, path) <=> e = d
    BY <1>1, <1>2, <1>4, PathMoveIs
  <2>3. Next(e) <=> After(e)
    BY <2>1
  <2> HIDE DEF Next, After
  <2> QED BY <2>2, <2>3
<1>5. CASE part = <<"*", "*">>
  <2>1. \A d \in 0..l : <<d, e>> \in PathMove(part, path) <=> d <= e
    <3>1. ASSUME NEW d \in 0..l
          PROVE <<d, e>> \in PathMove(part, path) <=>
                  d <= e \/ (e = d + 1 /\ NameFits(part, path[e]))
      BY <1>1, <1>2, <1>5, PathMoveIs
    <3>2. \A d \in 0..l : e = d + 1 => d <= e
      BY SMT
    <3> QED BY <3>1, <3>2
  <2>2. \A d, f \in 0..l : <<d, f>> \in SegmentMove(AnyDirectories, path) <=> d <= f
    BY <1>1, SegmentMoveIs
  <2>3. CASE segments # <<>> /\ Last(segments) = AnyDirectories
    <3>1. next = segments
      BY <1>2, <1>5, <2>3 DEF NextSegment
    <3>2. Len(segments) # 0 /\ Len(segments) \in DOMAIN segments
      BY <1>3, <2>3 DEF Compiled
    <3>3. SegmentMoves(segments, path)[Len(segments)] = SegmentMove(AnyDirectories, path)
      BY <2>3, <3>2 DEF SegmentMoves, Last
    <3>4. After(e) <=> \E d \in 0..l : After(d) /\ d <= e
      BY <1>1, <1>3, <2>2, <3>2, <3>3, SkipsTwice
    <3>5. Next(e) <=> After(e)
      BY <3>1
    <3> HIDE DEF Next, After
    <3> QED BY <2>1, <3>4, <3>5
  <2>4. CASE ~(segments # <<>> /\ Last(segments) = AnyDirectories)
    <3>1. next = Append(segments, AnyDirectories)
      BY <1>2, <1>5, <2>4 DEF NextSegment
    <3>2. Len(Append(segments, AnyDirectories)) = Len(segments) + 1
      BY <1>2, AppendIs DEF Compiled
    <3>3. Next(e) <=> \E d \in 0..l : After(d) /\ <<d, e>> \in SegmentMove(AnyDirectories, path)
      BY <1>1, <1>2, <3>1, <3>2, SegmentAppend
    <3> HIDE DEF Next, After
    <3> QED BY <2>1, <2>2, <3>3
  <2> QED BY <2>3, <2>4
<1>6. CASE part # <<>> /\ part # <<"*", "*">>
  <2> DEFINE t == ParseSegment(part)
  <2>1. t \in Seq(X) /\ \A i \in 1..l : NameFits(t, path[i]) <=> NameFits(part, path[i])
    <3>1. \A i \in 1..l : t \in Seq(X) /\ (NameFits(t, path[i]) <=> NameFits(part, path[i]))
      BY <1>1, ParseKeepsNames
    <3>2. << >> \in Seq(Y)
      OBVIOUS
    <3>3. t \in Seq(X)
      BY <3>2, ParseKeepsNames
    <3> QED BY <3>1, <3>3
  <2>2. next = Append(segments, t)
    BY <1>6 DEF NextSegment
  <2> HIDE DEF t
  <2>3. t \in Seq(X \cup {"**"}) /\ t # AnyDirectories
    <3>1. t \in Seq(X \cup {"**"})
      BY <2>1
    <3>2. ASSUME t = AnyDirectories PROVE FALSE
      <4>1. t[1] \in X /\ t[1] = "**"
        BY <2>1, <3>2 DEF AnyDirectories
      <4> QED BY <4>1
    <3> QED BY <3>1, <3>2
  <2>4. ASSUME NEW d \in 0..l
        PROVE <<d, e>> \in SegmentMove(t, path) <=> <<d, e>> \in PathMove(part, path)
    <3>1. e = d + 1 => e \in 1..l
      BY SMT
    <3>2. e = d + 1 => (MatchTokens(t, path[e]) <=> NameFits(part, path[e]))
      BY <1>1, <2>1, <3>1, OnePassIsEnough
    <3>3. <<d, e>> \in SegmentMove(t, path) <=> e = d + 1 /\ MatchTokens(t, path[e])
      BY <1>1, <2>3, SegmentMoveIs
    <3>4. <<d, e>> \in PathMove(part, path) <=> e = d + 1 /\ NameFits(part, path[e])
      BY <1>1, <1>6, PathMoveIs
    <3> QED BY <3>2, <3>3, <3>4
  <2>5. Len(Append(segments, t)) = Len(segments) + 1
    BY <2>3, AppendIs DEF Compiled
  <2>6. Next(e) <=> \E d \in 0..l : After(d) /\ <<d, e>> \in SegmentMove(t, path)
    BY <1>1, <2>2, <2>3, <2>5, SegmentAppend
  <2> HIDE DEF Next, After
  <2> QED BY <2>4, <2>6
<1> QED BY <1>4, <1>5, <1>6

(* The compiled segments take the paths that the parts of the pattern take,  *)
(* with a `**` in front of them when the pattern floats.                     *)
LEMMA SegmentsFit ==
  ASSUME NEW X, "**" \notin X, NEW parts \in Seq(Seq(X)), NEW meant, Len(meant) \in Nat,
         DOMAIN meant = 1..Len(meant),
         NEW first \in {<<>>, <<AnyDirectories>>}, NEW z \in Nat, Len(first) = z,
         z # 0 => meant[1] = <<"*", "*">>,
         NEW a \in Nat, z <= a, \A i \in (z + 1)..a : meant[i] = <<>>,
         a + Len(parts) <= Len(meant), \A i \in 1..Len(parts) : meant[a + i] = parts[i],
         \A i \in (a + Len(parts) + 1)..Len(meant) : meant[i] = <<>>,
         NEW Y, NEW path \in Seq(Seq(Y))
  PROVE MatchSegments(Segments(first, parts), path) <=> PathFits(meant, path)
<1> DEFINE l == Len(path)  n == Len(parts)
           To(k, e) == Way(l, PathMoves(meant, path), 0, k, 0, e)
<1>1. l \in Nat /\ n \in Nat /\ \A i \in 1..n : parts[i] \in Seq(X)
  OBVIOUS
<1>2. first \in Compiled(X)
  <2>1. AnyDirectories \in Seq(X \cup {"**"})
    BY DEF AnyDirectories
  <2>2. \A V : <<>> \in Seq(V) /\ \A x \in V : <<x>> \in Seq(V)
    OBVIOUS
  <2> QED BY <2>1, <2>2 DEF Compiled
<1>3. PICK added \in [0..n -> Compiled(X)] :
        /\ added[0] = first /\ added[n] = Segments(first, parts)
        /\ \A k \in 1..n : added[k] = NextSegment(added[k - 1], parts[k])
  <2>1. PICK added \in [0..n -> Compiled(X)] : Adds(added, first, parts)
    BY <1>2, SegmentSteps
  <2> QED BY <2>1 DEF Adds
<1> DEFINE Of(k, e) == Way(l, SegmentMoves(added[k], path), 0, Len(added[k]), 0, e)
           S == {k \in Nat : k <= n => \A e \in 0..l : Of(k, e) <=> To(a + k, e)}
<1>4. ASSUME NEW e \in 0..l PROVE To(a, e) <=> To(z, e)
  <2>1. a <= Len(meant)
    BY <1>1, SMT
  <2> QED BY <1>1, <2>1, EmptiesMoveNot
<1>5. ASSUME NEW e \in 0..l PROVE Of(0, e) <=> To(z, e)
  <2>1. 0 \in Nat /\ 0 \in 0..l /\ 0 <= 0 /\ 0 + 1 = 1
    BY <1>1, SMT
  <2>2. CASE first = <<>>
    <3>1. z = 0 /\ Len(added[0]) = 0
      BY <1>3, <2>2
    <3>2. Of(0, e) <=> Way(l, SegmentMoves(added[0], path), 0, 0, 0, e)
      BY <3>1
    <3>3. Way(l, SegmentMoves(added[0], path), 0, 0, 0, e) <=> 0 = e
      BY <1>1, <2>1, WayNone
    <3>4. To(0, e) <=> 0 = e
      BY <1>1, <2>1, WayNone
    <3> HIDE DEF Of, To
    <3> QED BY <3>1, <3>2, <3>3, <3>4
  <2>3. CASE first = <<AnyDirectories>>
    <3>1. /\ z = 1 /\ Len(added[0]) = 1 /\ added[0] = <<AnyDirectories>>
          /\ DOMAIN <<AnyDirectories>> = 1..1
      BY <1>3, <2>3
    <3>2. 1 \in 1..Len(meant) /\ 1 \in 1..1
      BY <3>1, SMT
    <3>3. SegmentMoves(added[0], path)[0 + 1] = SegmentMove(AnyDirectories, path)
      <4>1. <<AnyDirectories>>[1] = AnyDirectories
        OBVIOUS
      <4> QED BY <2>1, <3>1, <3>2, <4>1 DEF SegmentMoves
    <3>4. PathMoves(meant, path)[0 + 1] = PathMove(<<"*", "*">>, path)
      <4>1. z # 0
        BY <3>1
      <4>2. meant[0 + 1] = <<"*", "*">> /\ 0 + 1 \in DOMAIN meant
        BY <2>1, <3>2, <4>1
      <4> QED BY <4>2 DEF PathMoves
    <3>5. Way(l, SegmentMoves(added[0], path), 0, 0 + 1, 0, e) <=>
            \E c \in 0..l : /\ Way(l, SegmentMoves(added[0], path), 0, 0, 0, c)
                            /\ <<c, e>> \in SegmentMoves(added[0], path)[0 + 1]
      BY <1>1, <2>1, WayLast
    <3>6. Way(l, PathMoves(meant, path), 0, 0 + 1, 0, e) <=>
            \E c \in 0..l : /\ Way(l, PathMoves(meant, path), 0, 0, 0, c)
                            /\ <<c, e>> \in PathMoves(meant, path)[0 + 1]
      BY <1>1, <2>1, WayLast
    <3>7. /\ \A c \in 0..l : Way(l, SegmentMoves(added[0], path), 0, 0, 0, c) <=> 0 = c
          /\ \A c \in 0..l : Way(l, PathMoves(meant, path), 0, 0, 0, c) <=> 0 = c
      BY <1>1, <2>1, WayNone
    <3>8. <<0, e>> \in SegmentMove(AnyDirectories, path) <=> 0 <= e
      BY <1>1, <2>1, SegmentMoveIs
    <3>9. 0 <= e
      BY <1>1, SMT
    <3>10. <<0, e>> \in PathMove(<<"*", "*">>, path)
      BY <1>1, <2>1, <3>9, PathMoveIs
    <3>11. Of(0, e) <=> Way(l, SegmentMoves(added[0], path), 0, 0 + 1, 0, e)
      BY <2>1, <3>1
    <3>12. To(z, e) <=> Way(l, PathMoves(meant, path), 0, 0 + 1, 0, e)
      BY <2>1, <3>1
    <3> HIDE DEF Of, To
    <3> QED BY <2>1, <3>3, <3>4, <3>5, <3>6, <3>7, <3>8, <3>9, <3>10, <3>11, <3>12
  <2> QED BY <2>2, <2>3
<1>6. 0 \in S
  <2>1. a + 0 = a
    OBVIOUS
  <2> HIDE DEF Of, To
  <2> QED BY <1>4, <1>5, <2>1
<1>7. ASSUME NEW k \in Nat, k \in S, k + 1 <= n, NEW e \in 0..l
      PROVE Of(k + 1, e) <=> To(a + (k + 1), e)
  <2>0. k + 1 <= n /\ a + n <= Len(meant)
    BY <1>7
  <2>1. /\ k \in 0..n /\ k <= n /\ k + 1 \in 1..n /\ (k + 1) - 1 = k /\ 0 <= a + k
        /\ a + k \in Nat /\ (a + k) + 1 = a + (k + 1) /\ a + (k + 1) \in 1..Len(meant)
        /\ 0 \in Nat /\ 0 \in 0..l
    BY <1>1, <2>0, SMT
  <2> DEFINE part == parts[k + 1]  segments == added[k]
  <2>2. part \in Seq(X) /\ segments \in Compiled(X) /\ added[k + 1] = NextSegment(segments, part)
    BY <1>1, <1>3, <2>1
  <2>3. \A d \in 0..l : Of(k, d) <=> To(a + k, d)
    BY <1>7, <2>1
  <2>4. PathMoves(meant, path)[(a + k) + 1] = PathMove(part, path)
    BY <2>1 DEF PathMoves
  <2>5. Way(l, PathMoves(meant, path), 0, (a + k) + 1, 0, e) <=>
          \E d \in 0..l : /\ Way(l, PathMoves(meant, path), 0, a + k, 0, d)
                          /\ <<d, e>> \in PathMoves(meant, path)[(a + k) + 1]
    BY <1>1, <2>1, WayLast
  <2>6. Of(k + 1, e) <=> \E d \in 0..l : Of(k, d) /\ <<d, e>> \in PathMove(part, path)
    <3> HIDE DEF part, segments
    <3>1. LET next == NextSegment(segments, part)
              After(d) == Way(l, SegmentMoves(segments, path), 0, Len(segments), 0, d)
          IN Way(l, SegmentMoves(next, path), 0, Len(next), 0, e) <=>
               \E d \in 0..l : After(d) /\ <<d, e>> \in PathMove(part, path)
      BY <2>2, SegmentOfPart
    <3> QED BY <2>2, <3>1 DEF segments
  <2> HIDE DEF part, segments, Of
  <2>7. To(a + (k + 1), e) <=> \E d \in 0..l : To(a + k, d) /\ <<d, e>> \in PathMove(part, path)
    BY <2>1, <2>4, <2>5
  <2> HIDE DEF To
  <2> QED BY <2>3, <2>6, <2>7
<1>8. n \in S
  <2> HIDE DEF Of, To
  <2>1. ASSUME NEW k \in Nat, k \in S PROVE k + 1 \in S
    <3>1. k + 1 \in Nat
      OBVIOUS
    <3>2. CASE k + 1 <= n
      BY <1>7, <2>1, <3>1, <3>2
    <3>3. CASE ~(k + 1 <= n)
      BY <3>1, <3>3
    <3> QED BY <3>2, <3>3
  <2> HIDE DEF S
  <2> QED BY <1>1, <1>6, <2>1, SetInduction
<1>9. n <= n /\ n \in 0..n /\ l \in 0..l
  BY <1>1, SMT
<1>10. Of(n, l) <=> To(a + n, l)
  <2> HIDE DEF Of, To
  <2> QED BY <1>8, <1>9
<1>11. To(Len(meant), l) <=> To(a + n, l)
  <2>1. a + n \in Nat /\ a + n <= Len(meant) /\ Len(meant) <= Len(meant)
    BY <1>1, SMT
  <2> QED BY <1>1, <1>9, <2>1, EmptiesMoveNot
<1>12. /\ Len(Segments(first, parts)) \in Nat
       /\ DOMAIN Segments(first, parts) = 1..Len(Segments(first, parts))
  <2>1. Segments(first, parts) \in Compiled(X)
    BY <1>3, <1>9
  <2> QED BY <2>1 DEF Compiled
<1>13. MatchSegments(Segments(first, parts), path) <=> Of(n, l)
  BY <1>1, <1>3, <1>12, SegmentsWay
<1>14. PathFits(meant, path) <=> To(Len(meant), l)
  BY <1>1, PathWay
<1> HIDE DEF Of, To
<1> QED BY <1>10, <1>11, <1>13, <1>14

-----------------------------------------------------------------------------
(* Glob::new takes the slashes at both ends away, and nothing else.          *)
LEMMA MinIs ==
  ASSUME NEW s \in SUBSET Nat, s # {}
  PROVE Min(s) \in s /\ \A x \in s : Min(s) <= x
BY Least DEF Min

LEMMA SubSeqIs ==
  ASSUME NEW X, NEW s \in Seq(X), NEW a \in 1..Len(s), NEW b \in a..Len(s)
  PROVE  /\ SubSeq(s, a, b) \in Seq(X)
         /\ Len(SubSeq(s, a, b)) = b - a + 1
         /\ \A i \in 1..(b - a + 1) : SubSeq(s, a, b)[i] = s[(a - 1) + i]
<1>1. a \in Nat /\ b \in Nat /\ a <= b /\ b <= Len(s) /\ 1 <= a
  BY SMT
<1> QED BY <1>1, SMT

LEMMA TrimEndIs ==
  ASSUME NEW X, NEW pattern \in Seq(X), pattern # <<>>
  PROVE \E b \in 1..Len(pattern) :
          /\ TrimEnd(pattern) = SubSeq(pattern, 1, b)
          /\ b = 1 \/ pattern[b] # "/"
          /\ \A i \in (b + 1)..Len(pattern) : pattern[i] = "/"
<1> DEFINE n == Len(pattern)
           ends == {i \in DOMAIN pattern : i = 1 \/ pattern[i] # "/"}
<1>1. n \in Nat /\ n # 0 /\ DOMAIN pattern = 1..n
  OBVIOUS
<1> HIDE DEF n
<1>2. ends \in SUBSET (1..n) /\ 1 \in ends
  BY <1>1, SMT
<1> DEFINE b == Max(ends)
<1>3. b \in ends /\ \A x \in ends : x <= b
  <2> HIDE DEF ends
  <2> QED BY <1>1, <1>2, MaxIs
<1>4. TrimEnd(pattern) = SubSeq(pattern, 1, b)
  BY DEF TrimEnd
<1> HIDE DEF b
<1>5. b \in 1..n /\ (b = 1 \/ pattern[b] # "/")
  BY <1>1, <1>3
<1>6. ASSUME NEW i \in (b + 1)..n PROVE pattern[i] = "/"
  <2>1. i \in 1..n /\ ~(i <= b)
    BY <1>1, <1>5, SMT
  <2> QED BY <1>1, <1>3, <2>1
<1> QED BY <1>4, <1>5, <1>6 DEF n

LEMMA OnlySlashes ==
  ASSUME NEW X, NEW pattern \in Seq(X), ToSet(pattern) \subseteq {"/"}
  PROVE pattern = <<>> \/ TrimStart(TrimEnd(pattern)) = <<>>
<1> SUFFICES ASSUME pattern # <<>> PROVE TrimStart(TrimEnd(pattern)) = <<>>
  OBVIOUS
<1> DEFINE body == TrimEnd(pattern)
<1>1. PICK b \in 1..Len(pattern) : body = SubSeq(pattern, 1, b)
  BY TrimEndIs
<1>2. /\ Len(pattern) \in Nat /\ 1 \in 1..Len(pattern) /\ b \in 1..Len(pattern) /\ b - 1 + 1 = b
      /\ \A i \in 1..b : i \in 1..Len(pattern) /\ (1 - 1) + i = i
  BY <1>1, SMT
<1>3. body \in Seq(X) /\ Len(body) = b /\ \A i \in 1..b : body[i] = pattern[(1 - 1) + i]
  BY <1>1, <1>2, SubSeqIs
<1>4. DOMAIN body = 1..b
  BY <1>3
<1>5. \A i \in DOMAIN pattern : pattern[i] = "/"
  BY DEF ToSet
<1>6. DOMAIN pattern = 1..Len(pattern)
  OBVIOUS
<1> HIDE DEF body
<1>7. \A i \in DOMAIN body : body[i] = "/"
  BY <1>2, <1>3, <1>4, <1>5, <1>6
<1>8. {i \in DOMAIN body : body[i] # "/"} = {}
  BY <1>7
<1> QED BY <1>8 DEF TrimStart, body

(* What is left of a pattern: it stands in the pattern behind p slashes, has *)
(* slashes behind it, and begins and ends with other symbols.                *)
Trimmed(pattern, rest, p) ==
  /\ p + Len(rest) <= Len(pattern) /\ Len(rest) # 0
  /\ \A i \in 1..p : pattern[i] = "/"
  /\ \A i \in 1..Len(rest) : pattern[p + i] = rest[i]
  /\ \A i \in (p + Len(rest) + 1)..Len(pattern) : pattern[i] = "/"
  /\ rest[1] # "/" /\ rest[Len(rest)] # "/"

LEMMA TrimmedIs ==
  ASSUME NEW X, NEW pattern \in Seq(X), ~(ToSet(pattern) \subseteq {"/"})
  PROVE LET rest == TrimStart(TrimEnd(pattern))
        IN  /\ pattern # <<>> /\ rest \in Seq(X)
            /\ Head(TrimEnd(pattern)) = Head(pattern)
            /\ \E p \in Nat : Trimmed(pattern, rest, p)
<1> DEFINE n == Len(pattern)  body == TrimEnd(pattern)
           names == {i \in DOMAIN body : body[i] # "/"}
<1>1. n \in Nat /\ DOMAIN pattern = 1..n
  OBVIOUS
<1>2. PICK y \in 1..n : pattern[y] # "/"
  BY <1>1 DEF ToSet
<1>3. pattern # <<>> /\ n # 0 /\ 1 \in 1..n
  BY <1>1, <1>2, SMT
<1>4. PICK b \in 1..n : /\ body = SubSeq(pattern, 1, b)
                        /\ b = 1 \/ pattern[b] # "/"
                        /\ \A i \in (b + 1)..n : pattern[i] = "/"
  BY <1>3, TrimEndIs
<1>5. b \in Nat /\ b # 0 /\ b - 1 + 1 = b /\ 1 \in 1..b /\ b \in 1..b
      /\ \A i \in 1..b : (1 - 1) + i = i
  BY <1>1, <1>4, SMT
<1>6. body \in Seq(X) /\ Len(body) = b /\ \A i \in 1..b : body[i] = pattern[i]
  <2>1. body \in Seq(X) /\ Len(body) = b - 1 + 1
        /\ \A i \in 1..(b - 1 + 1) : body[i] = pattern[(1 - 1) + i]
    BY <1>3, <1>4, SubSeqIs
  <2> HIDE DEF body, n
  <2> QED BY <1>5, <2>1
<1>7. DOMAIN body = 1..b
  BY <1>6
<1>8. pattern[b] # "/"
  <2>1. y <= b
    <3>1. ~(y <= b) => y \in (b + 1)..n
      BY <1>1, <1>2, <1>5, SMT
    <3> QED BY <1>2, <1>4, <3>1
  <2>2. b = 1 => y = b
    BY <1>2, <2>1, SMT
  <2> QED BY <1>2, <1>4, <2>2
<1>9. Head(body) = Head(pattern)
  BY <1>3, <1>5, <1>6
<1> HIDE DEF body, n
<1>10. names \in SUBSET Nat /\ b \in names
  BY <1>5, <1>6, <1>7, <1>8
<1> DEFINE a == Min(names)
<1>11. a \in names /\ \A x \in names : a <= x
  <2> HIDE DEF names
  <2> QED BY <1>10, MinIs
<1> DEFINE rest == SubSeq(body, a, b)
<1>12. TrimStart(body) = rest
  <2>1. names # {}
    BY <1>10
  <2> QED BY <1>6, <2>1 DEF TrimStart
<1> HIDE DEF a
<1>13. a \in 1..b /\ body[a] # "/" /\ a <= b
  BY <1>7, <1>10, <1>11
<1> DEFINE p == a - 1  m == Len(rest)
<1>14. b \in a..b /\ p \in Nat
  BY <1>5, <1>13, SMT
<1>15. rest \in Seq(X) /\ m = b - a + 1 /\ \A i \in 1..(b - a + 1) : rest[i] = body[p + i]
  <2>1. /\ a \in 1..Len(body) /\ b \in a..Len(body)
    BY <1>6, <1>13, <1>14
  <2> QED BY <1>6, <2>1, SubSeqIs
<1> HIDE DEF rest, m
<1>16. /\ p + m = b /\ m \in Nat /\ m # 0 /\ b <= n /\ 1 \in 1..m /\ m \in 1..m /\ p + 1 = a
       /\ \A i \in 1..p : i \in 1..b /\ i \in 1..n /\ ~(a <= i)
       /\ \A i \in 1..m : p + i \in 1..b
  BY <1>1, <1>4, <1>5, <1>13, <1>14, <1>15, SMT
<1>17. ASSUME NEW i \in 1..p PROVE pattern[i] = "/"
  <2>1. i \notin names
    BY <1>11, <1>16
  <2> QED BY <1>6, <1>7, <1>16, <2>1
<1>18. \A i \in 1..m : pattern[p + i] = rest[i]
  <2> HIDE DEF p
  <2>1. \A i \in 1..m : rest[i] = body[p + i]
    BY <1>15
  <2> QED BY <1>6, <1>16, <2>1
<1> HIDE DEF p
<1>19. rest[1] # "/" /\ rest[m] # "/"
  <2>1. pattern[a] # "/"
    BY <1>6, <1>13
  <2> QED BY <1>8, <1>16, <1>18, <2>1
<1>20. Trimmed(pattern, rest, p)
  BY <1>4, <1>16, <1>17, <1>18, <1>19 DEF Trimmed, m, n
<1> QED BY <1>3, <1>9, <1>12, <1>14, <1>15, <1>20 DEF body

(* A slash that is left stands between other symbols, and one between other  *)
(* symbols is left.                                                          *)
LEMMA InnerSlash ==
  ASSUME NEW X, NEW pattern \in Seq(X), NEW rest \in Seq(X), NEW p \in Nat,
         Trimmed(pattern, rest, p)
  PROVE "/" \in ToSet(rest) <=>
          \E i, j, k \in DOMAIN pattern :
            i < j /\ j < k /\ pattern[j] = "/" /\ "/" \notin {pattern[i], pattern[k]}
<1> DEFINE n == Len(pattern)  m == Len(rest)
<1>1. /\ n \in Nat /\ m \in Nat /\ DOMAIN pattern = 1..n /\ DOMAIN rest = 1..m
      /\ p + m <= n /\ m # 0
  BY DEF Trimmed
<1>2. /\ \A i \in 1..p : pattern[i] = "/"
      /\ \A i \in 1..m : pattern[p + i] = rest[i]
      /\ \A i \in (p + m + 1)..n : pattern[i] = "/"
      /\ rest[1] # "/" /\ rest[m] # "/"
  BY DEF Trimmed
<1> HIDE DEF n, m
<1>3. ASSUME "/" \in ToSet(rest)
      PROVE \E i, j, k \in DOMAIN pattern :
              i < j /\ j < k /\ pattern[j] = "/" /\ "/" \notin {pattern[i], pattern[k]}
  <2>1. PICK q \in 1..m : rest[q] = "/"
    BY <1>1, <1>3 DEF ToSet
  <2>2. q # 1 /\ q # m
    BY <1>2, <2>1
  <2>3. /\ p + 1 \in 1..n /\ p + q \in 1..n /\ p + m \in 1..n
        /\ p + 1 < p + q /\ p + q < p + m /\ 1 \in 1..m /\ m \in 1..m
    BY <1>1, <2>1, <2>2, SMT
  <2>4. pattern[p + 1] # "/" /\ pattern[p + q] = "/" /\ pattern[p + m] # "/"
    BY <1>2, <2>1, <2>3
  <2> QED BY <1>1, <2>3, <2>4
<1>4. ASSUME NEW i \in 1..n, NEW j \in 1..n, NEW k \in 1..n, i < j, j < k,
             pattern[j] = "/", pattern[i] # "/", pattern[k] # "/"
      PROVE "/" \in ToSet(rest)
  <2>1. i \notin 1..p /\ k \notin (p + m + 1)..n
    BY <1>2, <1>4
  <2>2. j - p \in 1..m /\ p + (j - p) = j
    BY <1>1, <1>4, <2>1, SMT
  <2>3. rest[j - p] = "/"
    BY <1>2, <1>4, <2>2
  <2> QED BY <1>1, <2>2, <2>3 DEF ToSet
<1> QED BY <1>1, <1>3, <1>4

(* The glob that a pattern compiles to, when it is one.                      *)
LEMMA CompiledPattern ==
  ASSUME NEW X, "**" \notin X, "/" \in X, NEW pattern \in Seq(X),
         NEW rest \in Seq(X), NEW p \in Nat, Trimmed(pattern, rest, p),
         NEW floats \in BOOLEAN, NEW Y, NEW path \in Seq(Seq(Y))
  PROVE LET first == IF floats THEN <<AnyDirectories>> ELSE <<>>
            meant == IF floats THEN <<<<"*", "*">>>> \o Split(pattern) ELSE Split(pattern)
        IN MatchSegments(Segments(first, Split(rest)), path) <=> PathFits(meant, path)
<1> DEFINE whole == Split(pattern)  parts == Split(rest)
<1>1. whole \in Seq(Seq(X)) /\ parts \in Seq(Seq(X))
  <2>1. \A s \in Seq(X) : Split(s) \in Partings(X)
    <3>1. SUFFICES ASSUME NEW s \in Seq(X) PROVE Split(s) \in Partings(X)
      OBVIOUS
    <3>2. PICK split \in [0..Len(s) -> Partings(X)] : split[Len(s)] = Split(s)
      BY SplitSteps
    <3>3. Len(s) \in 0..Len(s)
      OBVIOUS
    <3> QED BY <3>2, <3>3
  <2> QED BY <2>1 DEF Partings
<1>2. Padded(whole, parts, p)
  BY SplitPadded DEF Trimmed
<1> HIDE DEF whole, parts
<1> DEFINE n == Len(whole)  m == Len(parts)
<1>3. n \in Nat /\ m \in Nat /\ DOMAIN whole = 1..n
  BY <1>1
<1>4. /\ p + m <= n
      /\ \A i \in 1..p : whole[i] = <<>>
      /\ \A i \in 1..m : whole[p + i] = parts[i]
      /\ \A i \in (p + m + 1)..n : whole[i] = <<>>
  BY <1>2 DEF Padded
<1>5. CASE ~floats
  <2>1. 0 \in Nat /\ 0 <= p /\ 0 + 1 = 1 /\ Len(<<>>) = 0
    BY SMT
  <2>2. MatchSegments(Segments(<<>>, parts), path) <=> PathFits(whole, path)
    BY <1>1, <1>3, <1>4, <2>1, SegmentsFit
  <2> QED BY <1>5, <2>2 DEF whole, parts
<1>6. CASE floats
  <2> DEFINE any == <<"*", "*">>  meant == <<any>> \o whole
  <2>0. any \in Seq({"*"})
    OBVIOUS
  <2> HIDE DEF any
  <2>1. /\ Len(meant) = n + 1 /\ DOMAIN meant = 1..(n + 1) /\ meant[1] = any
        /\ \A i \in 1..n : meant[1 + i] = whole[i]
    <3>1. whole \in Seq(Seq(X) \cup {any}) /\ <<any>> \in Seq(Seq(X) \cup {any})
      BY <1>1
    <3> QED BY <3>1
  <2> HIDE DEF meant, n, m
  <2>2. /\ 1 \in Nat /\ 1 + p \in Nat /\ 1 <= 1 + p /\ n + 1 \in Nat
        /\ (1 + p) + m <= n + 1
        /\ \A i \in (1 + 1)..(1 + p) : i - 1 \in 1..p /\ i - 1 \in 1..n /\ 1 + (i - 1) = i
        /\ \A i \in 1..m : (1 + p) + i = 1 + (p + i) /\ p + i \in 1..n
        /\ \A i \in ((1 + p) + m + 1)..(n + 1) :
             i - 1 \in (p + m + 1)..n /\ i - 1 \in 1..n /\ 1 + (i - 1) = i
    BY <1>3, <1>4, SMT DEF n, m
  <2>3. /\ \A i \in (1 + 1)..(1 + p) : meant[i] = <<>>
        /\ \A i \in 1..m : meant[(1 + p) + i] = parts[i]
        /\ \A i \in ((1 + p) + m + 1)..(n + 1) : meant[i] = <<>>
    <3>1. \A i \in (1 + 1)..(1 + p) : meant[i] = <<>>
      BY <1>4, <2>1, <2>2 DEF n
    <3>2. \A i \in 1..m : meant[(1 + p) + i] = parts[i]
      BY <1>4, <2>1, <2>2 DEF n, m
    <3>3. \A i \in ((1 + p) + m + 1)..(n + 1) : meant[i] = <<>>
      BY <1>4, <2>1, <2>2 DEF n, m
    <3> QED BY <3>1, <3>2, <3>3
  <2>4. Len(<<AnyDirectories>>) = 1
    OBVIOUS
  <2>5. MatchSegments(Segments(<<AnyDirectories>>, parts), path) <=> PathFits(meant, path)
    <3>1. /\ Len(meant) \in Nat /\ DOMAIN meant = 1..Len(meant)
          /\ 1 # 0 => meant[1] = <<"*", "*">>
          /\ (1 + p) + Len(parts) <= Len(meant)
          /\ \A i \in 1..Len(parts) : meant[(1 + p) + i] = parts[i]
          /\ \A i \in ((1 + p) + Len(parts) + 1)..Len(meant) : meant[i] = <<>>
      BY <2>1, <2>2, <2>3 DEF m, any
    <3>2. <<AnyDirectories>> \in {<<>>, <<AnyDirectories>>}
      OBVIOUS
    <3> QED BY <1>1, <2>2, <2>3, <2>4, <3>1, <3>2, SegmentsFit
  <2> QED BY <1>6, <2>5 DEF whole, parts, meant, any
<1> QED BY <1>5, <1>6

(* For every pattern and path, whatever symbols and letters they are made    *)
(* of: a pattern of slashes alone is refused, and every other one matches    *)
(* what the rules of the documentation say, though Glob::new and the single  *)
(* pass of match_tokens never try the ways to cut a path into pieces.        *)
THEOREM GlobIsAsDocumented ==
  ASSUME NEW X, "**" \notin X, "/" \in X, NEW pattern \in Seq(X),
         NEW Y, NEW path \in Seq(Seq(Y))
  PROVE GlobMatchesAsDocumented(pattern, path)
<1> DEFINE glob == New(pattern)  body == TrimEnd(pattern)  rest == TrimStart(body)
           floats == FloatsAnywhere(Head(body) = "/", rest)
           first == IF floats THEN <<AnyDirectories>> ELSE <<>>
           inner == \/ Head(pattern) = "/"
                    \/ \E i, j, k \in DOMAIN pattern :
                         i < j /\ j < k /\ pattern[j] = "/" /\ "/" \notin {pattern[i], pattern[k]}
           meant == IF inner THEN Split(pattern) ELSE <<<<"*", "*">>>> \o Split(pattern)
           directory == Last(pattern) = "/"
           n == Len(path)
<1>1. CASE ToSet(pattern) \subseteq {"/"}
  <2>1. pattern = <<>> \/ rest = <<>>
    BY <1>1, OnlySlashes
  <2>2. glob = Error
    BY <2>1, NewIs
  <2> QED BY <1>1, <2>2 DEF GlobMatchesAsDocumented
<1>2. CASE ~(ToSet(pattern) \subseteq {"/"})
  <2>1. /\ pattern # <<>> /\ rest \in Seq(X) /\ Head(body) = Head(pattern)
        /\ \E p \in Nat : Trimmed(pattern, rest, p)
    BY <1>2, TrimmedIs
  <2>2. PICK p \in Nat : Trimmed(pattern, rest, p)
    BY <2>1
  <2>3. rest # <<>>
    BY <2>2 DEF Trimmed
  <2>4. glob = [segments |-> Segments(first, Split(rest)),
                directoryOnly |-> Len(pattern) > 1 /\ directory]
    BY <2>1, <2>3, NewIs
  <2>5. floats <=> ~inner
    <3> HIDE DEF rest, body
    <3>1. "/" \in ToSet(rest) <=>
            \E i, j, k \in DOMAIN pattern :
              i < j /\ j < k /\ pattern[j] = "/" /\ "/" \notin {pattern[i], pattern[k]}
      BY <2>1, <2>2, InnerSlash
    <3> QED BY <2>1, <3>1 DEF FloatsAnywhere
  <2>6. (Len(pattern) > 1 /\ directory) <=> directory
    <3>1. ASSUME directory PROVE Len(pattern) > 1
      <4>1. Len(pattern) \in Nat /\ Len(pattern) # 0 /\ DOMAIN pattern = 1..Len(pattern)
        BY <2>1
      <4>2. ASSUME Len(pattern) = 1 PROVE FALSE
        <5>1. \A i \in DOMAIN pattern : pattern[i] = "/"
          BY <3>1, <4>1, <4>2 DEF Last
        <5> QED BY <1>2, <5>1 DEF ToSet
      <4> QED BY <4>1, <4>2, SMT
    <3> QED BY <3>1
  <2>7. n \in Nat
    OBVIOUS
  <2>8. ASSUME NEW length \in 1..n
        PROVE MatchSegments(glob.segments, SubSeq(path, 1, length)) <=>
                PathFits(meant, SubSeq(path, 1, length))
    <3>1. SubSeq(path, 1, length) \in Seq(Seq(Y))
      <4>1. 1 \in 1..n /\ length \in 1..n
        BY <2>7, SMT
      <4> QED BY <4>1, SubSeqIs
    <3>2. floats \in BOOLEAN
      BY DEF FloatsAnywhere
    <3>3. glob.segments = Segments(first, Split(rest))
      BY <2>4
    <3>4. meant = IF floats THEN <<<<"*", "*">>>> \o Split(pattern) ELSE Split(pattern)
      BY <2>5
    <3> DEFINE to == SubSeq(path, 1, length)
    <3> HIDE DEF floats, glob, rest, inner, to
    <3>5. MatchSegments(Segments(first, Split(rest)), to) <=>
            PathFits(IF floats THEN <<<<"*", "*">>>> \o Split(pattern) ELSE Split(pattern), to)
      BY <2>1, <2>2, <3>1, <3>2, CompiledPattern DEF to
    <3> QED BY <3>3, <3>4, <3>5 DEF to
  <2>9. glob.directoryOnly <=> directory
    <3> DEFINE both == Len(pattern) > 1 /\ directory
    <3>1. \A x, y : [segments |-> x, directoryOnly |-> y].directoryOnly = y
      OBVIOUS
    <3>2. glob.directoryOnly = both
      <4> HIDE DEF glob, both
      <4>1. glob = [segments |-> Segments(first, Split(rest)), directoryOnly |-> both]
        BY <2>4 DEF both
      <4> QED BY <3>1, <4>1
    <3> QED BY <2>6, <3>2
  <2>10. Matches(glob, path) <=>
           \E length \in 1..n : /\ directory => length < n
                                /\ PathFits(meant, SubSeq(path, 1, length))
    <3> HIDE DEF glob, meant, directory, n
    <3>1. Matches(glob, path) <=>
            \E length \in 1..(IF glob.directoryOnly THEN n - 1 ELSE n) :
              MatchSegments(glob.segments, SubSeq(path, 1, length))
      BY DEF Matches, n
    <3>2. CASE directory
      <4>1. \A length : length \in 1..(n - 1) <=> length \in 1..n /\ length < n
        BY <2>7, SMT
      <4> QED BY <2>8, <2>9, <3>1, <3>2, <4>1
    <3>3. CASE ~directory
      BY <2>8, <2>9, <3>1, <3>3
    <3> QED BY <3>2, <3>3
  <2> HIDE DEF glob, directory, n
  <2> QED BY <1>2, <2>10 DEF GlobMatchesAsDocumented, glob, directory, n
<1> QED BY <1>1, <1>2

-----------------------------------------------------------------------------
(* core/config/load.rs. What a table of tables has.                          *)
Has(settings, t, k) == t \in DOMAIN settings /\ k \in DOMAIN settings[t]
Risky(t, k) == t \in UntrustedTables \/ (t = "privacy" /\ k \in UntrustedPrivacyKeys)

LEMMA MergeIs ==
  ASSUME NEW base, NEW overlay, NEW t, NEW k
  PROVE LET merged == DeepMerge(base, overlay) IN
        /\ Has(merged, t, k) <=> Has(base, t, k) \/ Has(overlay, t, k)
        /\ Has(merged, t, k) =>
             merged[t][k] = IF Has(overlay, t, k) THEN overlay[t][k] ELSE base[t][k]
<1> DEFINE merged == DeepMerge(base, overlay)
<1>1. t \in DOMAIN merged <=> t \in DOMAIN base \/ t \in DOMAIN overlay
  BY DEF DeepMerge
<1>2. CASE t \in DOMAIN base /\ t \in DOMAIN overlay
  <2>1. merged[t] = Overlaid(base[t], overlay[t])
    BY <1>2 DEF DeepMerge
  <2>2. /\ k \in DOMAIN merged[t] <=> k \in DOMAIN base[t] \/ k \in DOMAIN overlay[t]
        /\ k \in DOMAIN merged[t] =>
             merged[t][k] = IF k \in DOMAIN overlay[t] THEN overlay[t][k] ELSE base[t][k]
    BY <2>1 DEF Overlaid
  <2> QED BY <1>1, <1>2, <2>2 DEF Has
<1>3. CASE t \in DOMAIN base /\ t \notin DOMAIN overlay
  <2>1. merged[t] = base[t]
    BY <1>3 DEF DeepMerge
  <2> QED BY <1>1, <1>3, <2>1 DEF Has
<1>4. CASE t \notin DOMAIN base /\ t \in DOMAIN overlay
  <2>1. merged[t] = overlay[t]
    BY <1>4 DEF DeepMerge
  <2> QED BY <1>1, <1>4, <2>1 DEF Has
<1>5. CASE t \notin DOMAIN base /\ t \notin DOMAIN overlay
  BY <1>1, <1>5 DEF Has
<1> QED BY <1>2, <1>3, <1>4, <1>5

LEMMA StripIs ==
  ASSUME NEW settings, NEW t, NEW k
  PROVE LET trusted == StripUntrusted(settings) IN
        /\ Has(trusted, t, k) <=> Has(settings, t, k) /\ ~Risky(t, k)
        /\ Has(trusted, t, k) => trusted[t][k] = settings[t][k]
<1> DEFINE trusted == StripUntrusted(settings)
<1>1. t \in DOMAIN trusted <=> t \in DOMAIN settings /\ t \notin UntrustedTables
  BY DEF StripUntrusted
<1>2. CASE t \in DOMAIN trusted /\ t = "privacy"
  <2>1. trusted[t] = Kept(settings[t], UntrustedPrivacyKeys)
    BY <1>1, <1>2 DEF StripUntrusted
  <2>2. /\ k \in DOMAIN trusted[t] <=> k \in DOMAIN settings[t] /\ k \notin UntrustedPrivacyKeys
        /\ k \in DOMAIN trusted[t] => trusted[t][k] = settings[t][k]
    BY <2>1 DEF Kept
  <2> QED BY <1>1, <1>2, <2>2 DEF Has, Risky
<1>3. CASE t \in DOMAIN trusted /\ t # "privacy"
  <2>1. trusted[t] = settings[t]
    BY <1>1, <1>3 DEF StripUntrusted
  <2> QED BY <1>1, <1>3, <2>1 DEF Has, Risky
<1>4. CASE t \notin DOMAIN trusted
  BY <1>1, <1>4 DEF Has, Risky
<1> QED BY <1>2, <1>3, <1>4

(* Patterns, one by one: each is listed once.                                *)
Lists(P) == {s \in Seq(P) : IsInjective(s)}

LEMMA AddNewIs ==
  ASSUME NEW P, NEW list \in Lists(P), NEW x \in P
  PROVE AddNew(list, x) \in Lists(P) /\ ToSet(AddNew(list, x)) = ToSet(list) \cup {x}
<1>1. list \in Seq(P) /\ DOMAIN list = 1..Len(list) /\ Len(list) \in Nat
  BY DEF Lists
<1>2. CASE Contains(list, x)
  <2>1. AddNew(list, x) = list /\ x \in ToSet(list)
    BY <1>1, <1>2 DEF AddNew, Contains, ToSet
  <2> QED BY <2>1
<1>3. CASE ~Contains(list, x)
  <2> DEFINE more == Append(list, x)
  <2>1. AddNew(list, x) = more
    BY <1>3 DEF AddNew
  <2>2. /\ more \in Seq(P) /\ DOMAIN more = 1..(Len(list) + 1) /\ more[Len(list) + 1] = x
        /\ \A i \in 1..Len(list) : more[i] = list[i] /\ list[i] # x
    <3>1. /\ more \in Seq(P) /\ Len(more) = Len(list) + 1 /\ more[Len(list) + 1] = x
          /\ \A i \in 1..Len(list) : more[i] = list[i]
      BY <1>1, AppendIs
    <3> HIDE DEF more
    <3>2. DOMAIN more = 1..(Len(list) + 1)
      BY <3>1
    <3> QED BY <1>3, <3>1, <3>2 DEF Contains
  <2> HIDE DEF more
  <2>3. \A i : i \in 1..(Len(list) + 1) <=> i \in 1..Len(list) \/ i = Len(list) + 1
    BY <1>1, SMT
  <2>4. \A i, j \in 1..Len(list) : list[i] = list[j] => i = j
    BY <1>1 DEF Lists, IsInjective
  <2>5. IsInjective(more)
    BY <2>2, <2>3, <2>4 DEF IsInjective
  <2>6. \A y : y \in ToSet(more) <=> y \in ToSet(list) \/ y = x
    BY <1>1, <2>2, <2>3 DEF ToSet
  <2>7. ToSet(more) = ToSet(list) \cup {x}
    BY <2>6
  <2> QED BY <2>1, <2>2, <2>5, <2>7 DEF Lists
<1> QED BY <1>2, <1>3

LEMMA PatternsAre ==
  ASSUME NEW P, NEW list \in Lists(P), NEW new \in Seq(P)
  PROVE LET all == FoldLeft(AddNew, list, new)
        IN all \in Lists(P) /\ ToSet(all) = ToSet(list) \cup ToSet(new)
<1> DEFINE n == Len(new)  V == Lists(P)
           step == [p \in V \X (1..n) |-> AddNew(p[1], new[p[2]])]
           Pass(f) == f = [s \in SUBSET DOMAIN new |->
                             IF s = {} THEN list ELSE AddNew(f[s \ {Max(s)}], new[Max(s)])]
           fold == CHOOSE f : Pass(f)
<1>1. n \in Nat /\ DOMAIN new = 1..n /\ \A i \in 1..n : new[i] \in P
  OBVIOUS
<1>2. \A l \in V, x \in P : AddNew(l, x) \in V
  BY AddNewIs
<1>3. step \in [V \X (1..n) -> V]
  BY <1>1, <1>2
<1>4. \A v \in V, m \in 1..n : step[v, m] = AddNew(v, new[m])
  OBVIOUS
<1> HIDE DEF step
<1>5. PICK f \in [SUBSET (1..n) -> V] : IsFold(f, n, list, step)
  BY <1>1, <1>3, FoldExists
<1>6. Pass(f)
  <2>1. ASSUME NEW s \in SUBSET (1..n), s # {}
        PROVE step[f[s \ {Max(s)}], Max(s)] = AddNew(f[s \ {Max(s)}], new[Max(s)])
    <3>1. f[s \ {Max(s)}] \in V /\ Max(s) \in 1..n
      BY <1>1, <2>1, MaxIs
    <3> QED BY <1>4, <3>1
  <2> DEFINE One(s) == IF s = {} THEN list ELSE step[f[s \ {Max(s)}], Max(s)]
             Two(s) == IF s = {} THEN list ELSE AddNew(f[s \ {Max(s)}], new[Max(s)])
  <2>2. \A s \in SUBSET (1..n) : One(s) = Two(s)
    BY <2>1
  <2>3. f = [s \in SUBSET (1..n) |-> One(s)]
    BY <1>5 DEF IsFold
  <2> HIDE DEF One, Two
  <2>4. f = [s \in SUBSET (1..n) |-> Two(s)]
    BY <2>2, <2>3
  <2> QED BY <1>1, <2>4 DEF Two
<1>7. Pass(fold)
  <2> HIDE DEF Pass
  <2> QED BY <1>6
<1> HIDE DEF fold
<1>8. FoldLeft(AddNew, list, new) = fold[DOMAIN new]
  BY DEF FoldLeft, MapThenFoldSet, fold
<1> DEFINE S == {k \in Nat : k <= n =>
                   /\ fold[1..k] \in V
                   /\ \A y : y \in ToSet(fold[1..k]) <=>
                               y \in ToSet(list) \/ \E i \in 1..k : y = new[i]}
<1>9. 0 \in S
  <2>1. 1..0 = {} /\ fold[{}] = list
    BY <1>7, SMT
  <2> QED BY <2>1
<1>10. ASSUME NEW k \in Nat, k \in S, k + 1 <= n PROVE k + 1 \in S
  <2>1. /\ k <= n /\ k + 1 \in 1..n /\ 1..(k + 1) \in SUBSET (1..n) /\ k + 1 # 0 /\ (k + 1) - 1 = k
        /\ k + 1 \in Nat /\ \A i : i \in 1..(k + 1) <=> i \in 1..k \/ i = k + 1
    BY <1>1, <1>10, SMT
  <2>2. Max(1..(k + 1)) = k + 1 /\ (1..(k + 1)) \ {k + 1} = 1..k /\ 1..(k + 1) # {}
    BY <2>1, MaxOfInterval
  <2>3. fold[1..(k + 1)] = AddNew(fold[1..k], new[k + 1])
    BY <1>1, <1>7, <2>1, <2>2
  <2>4. /\ fold[1..k] \in V
        /\ \A y : y \in ToSet(fold[1..k]) <=> y \in ToSet(list) \/ \E i \in 1..k : y = new[i]
    BY <1>10, <2>1
  <2>5. /\ fold[1..(k + 1)] \in V
        /\ ToSet(fold[1..(k + 1)]) = ToSet(fold[1..k]) \cup {new[k + 1]}
    BY <1>1, <2>1, <2>3, <2>4, AddNewIs
  <2> HIDE DEF V, Pass
  <2>6. \A y : y \in ToSet(fold[1..(k + 1)]) <=>
                 y \in ToSet(list) \/ \E i \in 1..(k + 1) : y = new[i]
    BY <2>1, <2>4, <2>5
  <2> QED BY <2>1, <2>5, <2>6
<1>11. n \in S
  <2> HIDE DEF Pass, V
  <2>1. ASSUME NEW k \in Nat, k \in S PROVE k + 1 \in S
    <3>1. k + 1 \in Nat
      OBVIOUS
    <3>2. CASE k + 1 <= n
      BY <1>10, <2>1, <3>2
    <3>3. CASE ~(k + 1 <= n)
      BY <3>1, <3>3
    <3> QED BY <3>2, <3>3
  <2> HIDE DEF S
  <2> QED BY <1>1, <1>9, <2>1, SetInduction
<1>12. /\ fold[1..n] \in V
       /\ \A y : y \in ToSet(fold[1..n]) <=> y \in ToSet(list) \/ \E i \in 1..n : y = new[i]
  <2> HIDE DEF Pass, V
  <2>1. n <= n
    BY <1>1, SMT
  <2> QED BY <1>11, <2>1
<1> HIDE DEF V
<1>13. ToSet(fold[1..n]) = ToSet(list) \cup ToSet(new)
  BY <1>1, <1>12 DEF ToSet
<1> QED BY <1>1, <1>8, <1>12, <1>13 DEF V

-----------------------------------------------------------------------------
(* What load_config makes of its three files, one after the other.           *)
ConfigFiles(S, P, R) ==
  {File("absent"), File("missing"), File("invalid")} \cup
  {Layer(settings, patterns, rules) : settings \in S, patterns \in Seq(P), rules \in Seq(R)}

Trusted(file, origin) ==
  IF origin = "project" THEN [file EXCEPT !.settings = StripUntrusted(@)] ELSE file
Added(loaded, file, origin) ==
  IF "error" \in DOMAIN loaded \/ file.is = "absent" THEN loaded
  ELSE IF file.is # "layer" THEN Failed(origin)
  ELSE [config |-> Absorb(loaded.config, Trusted(file, origin), origin),
        warnings |-> IF origin = "project" THEN Warnings(file.settings) ELSE {}]
None == [config |-> Nothing, warnings |-> {}]
AllAdded(own, explicit, project) ==
  Added(Added(Added(None, own, "user"), explicit, "explicit"), project, "project")

Own(files, options) == IF options.ignoreUser THEN File("absent") ELSE files.user
Repository(files, options) ==
  IF options.ignoreProject THEN File("absent") ELSE ProjectConfig(files.project)

Checked(loaded) ==
  IF "error" \notin DOMAIN loaded /\ Problems(loaded.config.settings)
  THEN Failed("problems") ELSE loaded
Overridden(loaded, overrides) ==
  IF "error" \in DOMAIN loaded THEN loaded
  ELSE IF Problems(DeepMerge(loaded.config.settings, overrides)) THEN Failed("overrides")
  ELSE [loaded EXCEPT !.config.settings = DeepMerge(@, overrides)]

LEMMA LoadConfigIs ==
  ASSUME NEW files, NEW options, DOMAIN files = {"user", "explicit", "project"}
  PROVE LoadConfig(files, options) =
          Overridden(Checked(AllAdded(Own(files, options), files.explicit,
                                      Repository(files, options))), options.overrides)
<1> DEFINE own == Own(files, options)  project == Repository(files, options)
           chosen == [files EXCEPT !.user = own]
           loaded == AllAdded(own, files.explicit, project)
<1>1. chosen.user = own /\ chosen.explicit = files.explicit /\ chosen.project = files.project
  OBVIOUS
<1> HIDE DEF chosen, own
<1>2. Load(chosen, ~options.ignoreProject) = Checked(loaded)
  <2> DEFINE other == IF ~options.ignoreProject THEN ProjectConfig(chosen.project)
                      ELSE File("absent")
             AddTo(l, source) ==
               LET file == source[1] IN
               IF "error" \in DOMAIN l \/ file.is = "absent" THEN l
               ELSE IF file.is # "layer" THEN Failed(source[2])
               ELSE [config |-> Absorb(l.config, Trusted(file, source[2]), source[2]),
                     warnings |-> IF source[2] = "project" THEN Warnings(file.settings) ELSE {}]
  <2>1. \A l, file, origin : AddTo(l, <<file, origin>>) = Added(l, file, origin)
    BY DEF Added
  <2>2. other = project
    BY <1>1 DEF Repository
  <2> DEFINE all == AddTo(AddTo(AddTo(None, <<chosen.user, "user">>),
                                <<chosen.explicit, "explicit">>), <<other, "project">>)
  <2>3. Load(chosen, ~options.ignoreProject) =
          IF "error" \notin DOMAIN all /\ Problems(all.config.settings)
          THEN Failed("problems") ELSE all
    BY DEF Load, Trusted, None
  <2> HIDE DEF AddTo, other
  <2>4. all = loaded
    BY <1>1, <2>1, <2>2 DEF AllAdded
  <2> HIDE DEF all, loaded
  <2> QED BY <2>3, <2>4 DEF Checked
<1>3. LoadConfig(files, options) =
        Overridden(Load(chosen, ~options.ignoreProject), options.overrides)
  BY DEF LoadConfig, Overridden, chosen, own, Own
<1> QED BY <1>2, <1>3 DEF own

(* A file that was read and is no layer makes it an error.                   *)
Readable(file) == file.is \in {"absent", "layer"}

Under(config, file, origin) ==
  IF file.is = "absent" THEN config ELSE Absorb(config, Trusted(file, origin), origin)
AllUnder(own, explicit, project) ==
  Under(Under(Under(Nothing, own, "user"), explicit, "explicit"), project, "project")

LEMMA NoneIs ==
  /\ DOMAIN None = {"config", "warnings"} /\ None.config = Nothing /\ None.warnings = {}
  /\ \A reason : "error" \in DOMAIN Failed(reason)
  /\ \A c, w : LET l == [config |-> c, warnings |-> w]
               IN DOMAIN l = {"config", "warnings"} /\ l.config = c /\ l.warnings = w
BY DEF None, Failed

LEMMA AddedIs ==
  ASSUME NEW loaded, NEW file, NEW origin
  PROVE  /\ "error" \in DOMAIN loaded => Added(loaded, file, origin) = loaded
         /\ ~Readable(file) => "error" \in DOMAIN Added(loaded, file, origin)
         /\ Readable(file) /\ "error" \notin DOMAIN loaded =>
              LET l == Added(loaded, file, origin) IN
              /\ DOMAIN l = DOMAIN loaded \/ DOMAIN l = {"config", "warnings"}
              /\ l.config = Under(loaded.config, file, origin)
              /\ l.warnings = IF file.is = "absent" THEN loaded.warnings
                              ELSE IF origin = "project" THEN Warnings(file.settings) ELSE {}
BY NoneIs DEF Added, Readable, Under

LEMMA AllAddedIs ==
  ASSUME NEW own, NEW explicit, NEW project
  PROVE LET loaded == AllAdded(own, explicit, project) IN
        /\ "error" \in DOMAIN loaded <=>
             ~(Readable(own) /\ Readable(explicit) /\ Readable(project))
        /\ "error" \notin DOMAIN loaded =>
             /\ DOMAIN loaded = {"config", "warnings"}
             /\ loaded.config = AllUnder(own, explicit, project)
             /\ loaded.warnings = IF project.is = "absent" THEN {} ELSE Warnings(project.settings)
<1> DEFINE a == Added(None, own, "user")  b == Added(a, explicit, "explicit")
           c == Added(b, project, "project")
<1>1. AllAdded(own, explicit, project) = c
  BY DEF AllAdded
<1>2. /\ ~Readable(own) => "error" \in DOMAIN a
      /\ Readable(own) => /\ DOMAIN a = {"config", "warnings"} /\ a.warnings = {}
                          /\ a.config = Under(Nothing, own, "user")
  BY AddedIs, NoneIs
<1> HIDE DEF a
<1>3. /\ "error" \in DOMAIN a => b = a
      /\ ~Readable(explicit) => "error" \in DOMAIN b
      /\ Readable(explicit) /\ DOMAIN a = {"config", "warnings"} =>
           /\ DOMAIN b = {"config", "warnings"}
           /\ a.warnings = {} => b.warnings = {}
           /\ b.config = Under(a.config, explicit, "explicit")
  BY AddedIs
<1> HIDE DEF b
<1>4. /\ "error" \in DOMAIN b => c = b
      /\ ~Readable(project) => "error" \in DOMAIN c
      /\ Readable(project) /\ DOMAIN b = {"config", "warnings"} =>
           /\ DOMAIN c = {"config", "warnings"}
           /\ b.warnings = {} =>
                c.warnings = IF project.is = "absent" THEN {} ELSE Warnings(project.settings)
           /\ c.config = Under(b.config, project, "project")
  BY AddedIs
<1> HIDE DEF c
<1> QED BY <1>1, <1>2, <1>3, <1>4 DEF AllUnder

(* One layer over those before it. *)
Told(file, origin) == [n \in DOMAIN file.suppress |-> <<file.suppress[n], origin>>]

LEMMA FileIs ==
  ASSUME NEW S, NEW P, NEW R, NEW file \in ConfigFiles(S, P, R), NEW origin
  PROVE  /\ file.patterns \in Seq(P) /\ file.suppress \in Seq(R)
         /\ file.is # "layer" => /\ file.patterns = <<>> /\ file.suppress = <<>>
                                 /\ file.settings = [t \in {} |-> 0]
         /\ file.is \in {"absent", "missing", "invalid", "layer"}
         /\ LET trusted == Trusted(file, origin) IN
            /\ trusted.patterns = file.patterns /\ trusted.suppress = file.suppress
            /\ trusted.settings = IF origin = "project" THEN StripUntrusted(file.settings)
                                  ELSE file.settings
<1>1. <<>> \in Seq(P) /\ <<>> \in Seq(R)
  OBVIOUS
<1>2. CASE file \in {File("absent"), File("missing"), File("invalid")}
  <2>1. PICK kind \in {"absent", "missing", "invalid"} : file = File(kind)
    BY <1>2
  <2>2. file = [is |-> kind, settings |-> [t \in {} |-> 0], patterns |-> <<>>, suppress |-> <<>>]
    BY <2>1 DEF File, Nothing, Layer
  <2> QED BY <1>1, <2>2 DEF Trusted
<1>3. CASE \E settings \in S, patterns \in Seq(P), rules \in Seq(R) :
             file = Layer(settings, patterns, rules)
  <2>1. PICK settings \in S, patterns \in Seq(P), rules \in Seq(R) :
          file = [is |-> "layer", settings |-> settings, patterns |-> patterns, suppress |-> rules]
    BY <1>3 DEF Layer
  <2> QED BY <2>1 DEF Trusted
<1> QED BY <1>2, <1>3 DEF ConfigFiles

LEMMA ToldIs ==
  ASSUME NEW S, NEW P, NEW R, NEW file \in ConfigFiles(S, P, R), NEW origin
  PROVE /\ Told(file, origin) \in Seq({<<r, origin>> : r \in R})
        /\ Len(Told(file, origin)) = Len(file.suppress)
<1>1. file.suppress \in Seq(R)
  BY FileIs
<1>2. \A s \in Seq(R) : LET told == [n \in DOMAIN s |-> <<s[n], origin>>]
                        IN told \in Seq({<<r, origin>> : r \in R}) /\ Len(told) = Len(s)
  OBVIOUS
<1> QED BY <1>1, <1>2 DEF Told

Extends(under, config, file, origin, P) ==
  LET allowed == Trusted(file, origin).settings IN
  /\ DOMAIN under = DOMAIN config \/ DOMAIN under = DOMAIN Nothing
  /\ under.patterns \in Lists(P)
  /\ ToSet(under.patterns) = ToSet(config.patterns) \cup ToSet(file.patterns)
  /\ under.suppress = config.suppress \o Told(file, origin)
  /\ \A t, k :
       /\ Has(under.settings, t, k) <=> Has(config.settings, t, k) \/ Has(allowed, t, k)
       /\ Has(under.settings, t, k) =>
            under.settings[t][k] = IF Has(allowed, t, k) THEN allowed[t][k]
                                   ELSE config.settings[t][k]

LEMMA UnderIs ==
  ASSUME NEW S, NEW P, NEW R, NEW file \in ConfigFiles(S, P, R), NEW origin, Readable(file),
         NEW config, config.patterns \in Lists(P), NEW V, config.suppress \in Seq(V)
  PROVE Extends(Under(config, file, origin), config, file, origin, P)
<1>1. CASE file.is = "absent"
  <2>1. Under(config, file, origin) = config
    BY <1>1 DEF Under
  <2>2. ToSet(file.patterns) = {}
    <3>1. file.patterns = <<>>
      BY <1>1, FileIs
    <3> QED BY <3>1 DEF ToSet
  <2>3. config.suppress \o Told(file, origin) = config.suppress
    <3>1. Len(Told(file, origin)) = 0 /\ Told(file, origin) \in Seq({<<r, origin>> : r \in R})
      <4>1. file.suppress = <<>>
        BY <1>1, FileIs
      <4> QED BY <4>1, ToldIs, SMTT(30)
    <3>2. Told(file, origin) = <<>>
      BY <3>1
    <3> QED BY <3>2
  <2>4. \A t, k : ~Has(Trusted(file, origin).settings, t, k)
    <3>1. file.settings = [t \in {} |-> 0]
      BY <1>1, FileIs
    <3>2. \A t, k : ~Has(file.settings, t, k)
      BY <3>1 DEF Has
    <3>3. Trusted(file, origin).settings =
            IF origin = "project" THEN StripUntrusted(file.settings) ELSE file.settings
      BY FileIs
    <3>4. \A t, k : ~Has(StripUntrusted(file.settings), t, k)
      BY <3>2, StripIs
    <3> QED BY <3>2, <3>3, <3>4
  <2> QED BY <2>1, <2>2, <2>3, <2>4 DEF Extends
<1>2. CASE file.is # "absent"
  <2> DEFINE trusted == Trusted(file, origin)
  <2>1. Under(config, file, origin) = Absorb(config, trusted, origin)
    BY <1>2 DEF Under
  <2>2. trusted.patterns = file.patterns /\ trusted.suppress = file.suppress
        /\ file.patterns \in Seq(P)
    BY FileIs
  <2> HIDE DEF trusted
  <2> DEFINE under == Absorb(config, trusted, origin)
  <2>3. /\ under.settings = DeepMerge(config.settings, trusted.settings)
        /\ under.patterns = FoldLeft(AddNew, config.patterns, trusted.patterns)
        /\ under.suppress = config.suppress \o
             [i \in DOMAIN trusted.suppress |-> <<trusted.suppress[i], origin>>]
        /\ DOMAIN under = DOMAIN Nothing
    BY DEF Absorb, Layer, Nothing
  <2> HIDE DEF under
  <2>4. /\ under.patterns \in Lists(P)
        /\ ToSet(under.patterns) = ToSet(config.patterns) \cup ToSet(file.patterns)
    BY <2>2, <2>3, PatternsAre
  <2>5. under.suppress = config.suppress \o Told(file, origin)
    BY <2>2, <2>3 DEF Told
  <2>6. \A t, k :
          /\ Has(under.settings, t, k) <=>
               Has(config.settings, t, k) \/ Has(trusted.settings, t, k)
          /\ Has(under.settings, t, k) =>
               under.settings[t][k] = IF Has(trusted.settings, t, k) THEN trusted.settings[t][k]
                                      ELSE config.settings[t][k]
    BY <2>3, MergeIs
  <2> QED BY <2>1, <2>3, <2>4, <2>5, <2>6 DEF under, trusted, Extends
<1> QED BY <1>1, <1>2

(* The configuration of three layers that can be read. *)
Allowed(own, explicit, project) ==
  <<own.settings, explicit.settings, StripUntrusted(project.settings)>>

AllApply(config, own, explicit, project, P) ==
  LET a == Allowed(own, explicit, project) IN
  /\ DOMAIN config = DOMAIN Nothing
  /\ config.patterns \in Lists(P)
  /\ ToSet(config.patterns) =
       ToSet(own.patterns) \cup ToSet(explicit.patterns) \cup ToSet(project.patterns)
  /\ config.suppress =
       (Told(own, "user") \o Told(explicit, "explicit")) \o Told(project, "project")
  /\ \A t, k :
       /\ Has(config.settings, t, k) <=> Has(a[1], t, k) \/ Has(a[2], t, k) \/ Has(a[3], t, k)
       /\ Has(config.settings, t, k) =>
            config.settings[t][k] = IF Has(a[3], t, k) THEN a[3][t][k]
                                    ELSE IF Has(a[2], t, k) THEN a[2][t][k] ELSE a[1][t][k]

LEMMA AllUnderIs ==
  ASSUME NEW S, NEW P, NEW R, NEW own \in ConfigFiles(S, P, R), Readable(own),
         NEW explicit \in ConfigFiles(S, P, R), Readable(explicit),
         NEW project \in ConfigFiles(S, P, R), Readable(project)
  PROVE AllApply(AllUnder(own, explicit, project), own, explicit, project, P)
<1> DEFINE a == Allowed(own, explicit, project)
           one == Under(Nothing, own, "user")  two == Under(one, explicit, "explicit")
           three == Under(two, project, "project")
           V == {<<r, o>> : r \in R, o \in {"user", "explicit", "project"}}
<1>1. /\ a[1] = Trusted(own, "user").settings /\ a[2] = Trusted(explicit, "explicit").settings
      /\ a[3] = Trusted(project, "project").settings
  <2>1. /\ Trusted(own, "user").settings = own.settings
        /\ Trusted(explicit, "explicit").settings = explicit.settings
        /\ Trusted(project, "project").settings = StripUntrusted(project.settings)
    BY FileIs
  <2> QED BY <2>1 DEF Allowed
<1>2. /\ Nothing.patterns \in Lists(P) /\ ToSet(Nothing.patterns) = {}
      /\ Nothing.suppress \in Seq(V)
      /\ Nothing.suppress = <<>> /\ \A t, k : ~Has(Nothing.settings, t, k)
  <2>1. Nothing.patterns = <<>> /\ Nothing.suppress = <<>> /\ Nothing.settings = [t \in {} |-> 0]
    BY DEF Nothing, Layer
  <2>2. <<>> \in Seq(P) /\ IsInjective(<<>>) /\ ToSet(<<>>) = {} /\ <<>> \in Seq(V)
    BY DEF IsInjective, ToSet
  <2>3. \A t, k : ~Has([u \in {} |-> 0], t, k)
    BY DEF Has
  <2> QED BY <2>1, <2>2, <2>3 DEF Lists
<1>3. /\ Told(own, "user") \in Seq(V) /\ Told(explicit, "explicit") \in Seq(V)
      /\ Told(project, "project") \in Seq(V)
  <2>1. ASSUME NEW file \in ConfigFiles(S, P, R), NEW o \in {"user", "explicit", "project"}
        PROVE Told(file, o) \in Seq(V)
    <3>1. Told(file, o) \in Seq({<<r, o>> : r \in R})
      BY ToldIs
    <3>2. {<<r, o>> : r \in R} \subseteq V
      OBVIOUS
    <3> HIDE DEF V
    <3> QED BY <3>1, <3>2
  <2> QED BY <2>1
<1> HIDE DEF a, V
<1>4. /\ DOMAIN one = DOMAIN Nothing /\ one.patterns \in Lists(P)
      /\ ToSet(one.patterns) = ToSet(own.patterns)
      /\ one.suppress = <<>> \o Told(own, "user")
      /\ \A t, k : /\ Has(one.settings, t, k) <=> Has(a[1], t, k)
                   /\ Has(one.settings, t, k) => one.settings[t][k] = a[1][t][k]
  <2>1. Extends(one, Nothing, own, "user", P)
    BY <1>2, UnderIs
  <2> HIDE DEF one
  <2> QED BY <1>1, <1>2, <2>1 DEF Extends
<1>5. one.suppress = Told(own, "user") /\ one.suppress \in Seq(V)
  BY <1>3, <1>4
<1> HIDE DEF one
<1>6. /\ DOMAIN two = DOMAIN Nothing /\ two.patterns \in Lists(P)
      /\ ToSet(two.patterns) = ToSet(own.patterns) \cup ToSet(explicit.patterns)
      /\ two.suppress = Told(own, "user") \o Told(explicit, "explicit")
      /\ \A t, k : /\ Has(two.settings, t, k) <=> Has(a[1], t, k) \/ Has(a[2], t, k)
                   /\ Has(two.settings, t, k) =>
                        two.settings[t][k] = IF Has(a[2], t, k) THEN a[2][t][k] ELSE a[1][t][k]
  <2>1. Extends(two, one, explicit, "explicit", P)
    <3>1. one.patterns \in Lists(P) /\ one.suppress \in Seq(V)
      BY <1>4, <1>5
    <3> QED BY <3>1, UnderIs
  <2> HIDE DEF two
  <2>2. \A t, k : /\ Has(two.settings, t, k) <=> Has(a[1], t, k) \/ Has(a[2], t, k)
                  /\ Has(two.settings, t, k) =>
                       two.settings[t][k] = IF Has(a[2], t, k) THEN a[2][t][k] ELSE a[1][t][k]
    BY <1>1, <1>4, <2>1 DEF Extends
  <2>3. /\ DOMAIN two = DOMAIN Nothing /\ two.patterns \in Lists(P)
        /\ ToSet(two.patterns) = ToSet(own.patterns) \cup ToSet(explicit.patterns)
        /\ two.suppress = Told(own, "user") \o Told(explicit, "explicit")
    <3>1. DOMAIN one = DOMAIN Nothing /\ ToSet(one.patterns) = ToSet(own.patterns)
      BY <1>4
    <3> QED BY <1>5, <2>1, <3>1 DEF Extends
  <2> QED BY <2>2, <2>3
<1>7. two.suppress \in Seq(V)
  <2>1. \A x, y \in Seq(V) : x \o y \in Seq(V)
    OBVIOUS
  <2>2. two.suppress = Told(own, "user") \o Told(explicit, "explicit")
    BY <1>6
  <2> QED BY <1>3, <2>1, <2>2
<1> HIDE DEF two
<1>8. Extends(three, two, project, "project", P)
  <2>1. two.patterns \in Lists(P)
    BY <1>6
  <2> QED BY <1>7, <2>1, UnderIs
<1>9. AllUnder(own, explicit, project) = three
  BY DEF AllUnder, one, two
<1> HIDE DEF three
<1>10. \A t, k :
         /\ Has(three.settings, t, k) <=> Has(a[1], t, k) \/ Has(a[2], t, k) \/ Has(a[3], t, k)
         /\ Has(three.settings, t, k) =>
              three.settings[t][k] = IF Has(a[3], t, k) THEN a[3][t][k]
                                     ELSE IF Has(a[2], t, k) THEN a[2][t][k] ELSE a[1][t][k]
  BY <1>1, <1>6, <1>8 DEF Extends
<1>11. /\ DOMAIN three = DOMAIN Nothing /\ three.patterns \in Lists(P)
       /\ ToSet(three.patterns) =
            ToSet(own.patterns) \cup ToSet(explicit.patterns) \cup ToSet(project.patterns)
       /\ three.suppress
            = (Told(own, "user") \o Told(explicit, "explicit")) \o Told(project, "project")
  <2>1. /\ DOMAIN two = DOMAIN Nothing
        /\ ToSet(two.patterns) = ToSet(own.patterns) \cup ToSet(explicit.patterns)
        /\ two.suppress = Told(own, "user") \o Told(explicit, "explicit")
    BY <1>6
  <2> QED BY <1>8, <2>1 DEF Extends
<1> QED BY <1>9, <1>10, <1>11 DEF a, AllApply

LEMMA FlattenThree ==
  ASSUME NEW seqs, Len(seqs) = 3
  PROVE FlattenSeq(seqs) = (seqs[1] \o seqs[2]) \o seqs[3]
<1> DEFINE Pass(f) == f = [i \in 1..Len(seqs) |->
                             IF i = 1 THEN seqs[i] ELSE f[i - 1] \o seqs[i]]
           g == [i \in 1..3 |-> IF i = 1 THEN seqs[1]
                                ELSE IF i = 2 THEN seqs[1] \o seqs[2]
                                ELSE (seqs[1] \o seqs[2]) \o seqs[3]]
           flatten == CHOOSE f : Pass(f)
<1>1. 1..3 = {1, 2, 3} /\ 1 \in 1..3 /\ 2 \in 1..3 /\ 3 \in 1..3 /\ 3 - 1 = 2 /\ 2 - 1 = 1
      /\ 3 # 1 /\ 2 # 1 /\ 3 # 2 /\ 3 # 0
  BY SMT
<1>2. \A i \in 1..3 : g[i] = IF i = 1 THEN seqs[i] ELSE g[i - 1] \o seqs[i]
  BY <1>1
<1>3. Pass(g)
  <2> DEFINE One(i) == IF i = 1 THEN seqs[1] ELSE IF i = 2 THEN seqs[1] \o seqs[2]
                       ELSE (seqs[1] \o seqs[2]) \o seqs[3]
             Two(i) == IF i = 1 THEN seqs[i] ELSE g[i - 1] \o seqs[i]
  <2>1. g = [i \in 1..3 |-> One(i)] /\ \A i \in 1..3 : g[i] = One(i)
    OBVIOUS
  <2> HIDE DEF One, g
  <2>2. \A i \in 1..3 : One(i) = Two(i)
    BY <1>2, <2>1
  <2> HIDE DEF Two
  <2>3. g = [i \in 1..3 |-> Two(i)]
    BY <2>1, <2>2
  <2> QED BY <2>3 DEF Two
<1>4. Pass(flatten)
  <2> HIDE DEF Pass, g
  <2> QED BY <1>3
<1> HIDE DEF flatten
<1>5. /\ flatten[1] = seqs[1]
      /\ flatten[2] = flatten[1] \o seqs[2]
      /\ flatten[3] = flatten[2] \o seqs[3]
  <2>1. \A i \in 1..3 : flatten[i] = IF i = 1 THEN seqs[i] ELSE flatten[i - 1] \o seqs[i]
    BY <1>4
  <2> QED BY <1>1, <2>1
<1>6. FlattenSeq(seqs) = flatten[3]
  BY <1>1 DEF FlattenSeq, flatten
<1> QED BY <1>5, <1>6

(* Who may set a value and does, and the last of them.                       *)
SettersOf(source, t, k) ==
  {i \in {j \in 1..3 : source[j].is # "absent"} :
     Has(source[i].settings, t, k) /\ ~(i = 3 /\ Risky(t, k))}
LastOf(source, t, k) ==
  source[CHOOSE i \in SettersOf(source, t, k) : \A j \in SettersOf(source, t, k) : j <= i]
    .settings[t][k]

LEMMA SettersAre ==
  ASSUME NEW S, NEW P, NEW R, NEW own \in ConfigFiles(S, P, R),
         NEW explicit \in ConfigFiles(S, P, R), NEW project \in ConfigFiles(S, P, R), NEW t, NEW k
  PROVE LET source == <<own, explicit, project>>
            a == Allowed(own, explicit, project)
            setters == SettersOf(source, t, k)
        IN  /\ setters # {} <=> Has(a[1], t, k) \/ Has(a[2], t, k) \/ Has(a[3], t, k)
            /\ setters # {} =>
                 /\ LastOf(source, t, k) = IF Has(a[3], t, k) THEN a[3][t][k]
                                           ELSE IF Has(a[2], t, k) THEN a[2][t][k] ELSE a[1][t][k]
                 /\ \E i \in setters : LastOf(source, t, k) = source[i].settings[t][k]
<1> DEFINE source == <<own, explicit, project>>
           a == Allowed(own, explicit, project)
           setters == SettersOf(source, t, k)
<1>1. /\ source[1] = own /\ source[2] = explicit /\ source[3] = project
      /\ a[1] = own.settings /\ a[2] = explicit.settings /\ a[3] = StripUntrusted(project.settings)
  BY DEF Allowed
<1>2. ASSUME NEW file \in ConfigFiles(S, P, R), file.is = "absent" PROVE ~Has(file.settings, t, k)
  <2>1. file.settings = [u \in {} |-> 0]
    BY <1>2, FileIs
  <2> QED BY <2>1 DEF Has
<1>3. /\ Has(a[3], t, k) <=> Has(project.settings, t, k) /\ ~Risky(t, k)
      /\ Has(a[3], t, k) => a[3][t][k] = project.settings[t][k]
  BY <1>1, StripIs
<1>4. /\ 1 \in 1..3 /\ 2 \in 1..3 /\ 3 \in 1..3 /\ 1 # 3 /\ 2 # 3 /\ 1 <= 2 /\ 1 <= 3 /\ 2 <= 3
      /\ 1 <= 1 /\ 2 <= 2 /\ 3 <= 3 /\ \A i \in 1..3 : i = 1 \/ i = 2 \/ i = 3
      /\ ~(2 <= 1) /\ ~(3 <= 1) /\ ~(3 <= 2)
  BY SMT
<1> HIDE DEF source, a
<1>5. /\ 1 \in setters <=> Has(a[1], t, k)
      /\ 2 \in setters <=> Has(a[2], t, k)
      /\ 3 \in setters <=> Has(a[3], t, k)
      /\ setters \subseteq 1..3
  BY <1>1, <1>2, <1>3, <1>4 DEF SettersOf
<1> HIDE DEF setters
<1> DEFINE last == CHOOSE i \in setters : \A j \in setters : j <= i
<1>6. LastOf(source, t, k) = source[last].settings[t][k]
  BY DEF LastOf, setters
<1>7. setters # {} <=> Has(a[1], t, k) \/ Has(a[2], t, k) \/ Has(a[3], t, k)
  BY <1>4, <1>5
<1>8. ASSUME setters # {}
      PROVE last \in setters /\ \A j \in setters : j <= last
  <2>1. \E i \in setters : \A j \in setters : j <= i
    <3>1. CASE 3 \in setters
      BY <1>4, <1>5, <3>1
    <3>2. CASE 3 \notin setters /\ 2 \in setters
      BY <1>4, <1>5, <3>2
    <3>3. CASE 3 \notin setters /\ 2 \notin setters
      BY <1>4, <1>5, <1>8, <3>3
    <3> QED BY <3>1, <3>2, <3>3
  <2> QED BY <2>1
<1> HIDE DEF last
<1>9. ASSUME setters # {}
      PROVE /\ LastOf(source, t, k) = IF Has(a[3], t, k) THEN a[3][t][k]
                                      ELSE IF Has(a[2], t, k) THEN a[2][t][k] ELSE a[1][t][k]
            /\ \E i \in setters : LastOf(source, t, k) = source[i].settings[t][k]
  <2>1. CASE 3 \in setters
    <3>1. last = 3
      BY <1>4, <1>5, <1>8, <1>9, <2>1
    <3> QED BY <1>1, <1>3, <1>5, <1>6, <2>1, <3>1
  <2>2. CASE 3 \notin setters /\ 2 \in setters
    <3>1. last = 2
      BY <1>4, <1>5, <1>8, <1>9, <2>2
    <3> QED BY <1>1, <1>5, <1>6, <2>2, <3>1
  <2>3. CASE 3 \notin setters /\ 2 \notin setters
    <3>1. last = 1
      BY <1>4, <1>5, <1>8, <1>9, <2>3
    <3> QED BY <1>1, <1>5, <1>6, <1>8, <1>9, <2>3, <3>1
  <2> QED BY <2>1, <2>2, <2>3
<1> QED BY <1>7, <1>9 DEF source, a, setters

(* What is warned of is what the repository's file may not set.              *)
LEMMA WarningsAre ==
  ASSUME NEW settings
  PROVE  /\ \A t, k : Has(settings, t, k) /\ Risky(t, k) =>
              {<<t>>, <<t, k>>} \cap Warnings(settings) # {}
         /\ \A warning \in Warnings(settings) : \E t \in DOMAIN settings :
              \/ warning = <<t>> /\ t \in UntrustedTables
              \/ \E k \in DOMAIN settings[t] : warning = <<t, k>> /\ Risky(t, k)
<1>1. ASSUME NEW t, NEW k, Has(settings, t, k), Risky(t, k)
      PROVE \E warning \in Warnings(settings) : warning \in {<<t>>, <<t, k>>}
  <2>1. CASE t \in UntrustedTables
    <3>1. <<t>> \in Warnings(settings)
      BY <1>1, <2>1 DEF Warnings, Has
    <3> QED BY <3>1
  <2>2. CASE t = "privacy" /\ k \in UntrustedPrivacyKeys
    <3>1. <<t, k>> \in Warnings(settings)
      BY <1>1, <2>2 DEF Warnings, Has
    <3> QED BY <3>1
  <2> QED BY <1>1, <2>1, <2>2 DEF Risky
<1>2. ASSUME NEW warning \in Warnings(settings)
      PROVE \E t \in DOMAIN settings :
              \/ warning = <<t>> /\ t \in UntrustedTables
              \/ \E k \in DOMAIN settings[t] : warning = <<t, k>> /\ Risky(t, k)
  <2>1. CASE \E t \in DOMAIN settings \cap UntrustedTables : warning = <<t>>
    BY <2>1
  <2>2. CASE /\ "privacy" \in DOMAIN settings
             /\ \E k \in DOMAIN settings["privacy"] \cap UntrustedPrivacyKeys :
                  warning = <<"privacy", k>>
    BY <2>2 DEF Risky
  <2> QED BY <2>1, <2>2 DEF Warnings
<1> QED BY <1>1, <1>2

(* What SettingsAreLayered asks for, with names for its parts. *)
SourceOf(files, options) ==
  <<IF options.ignoreUser THEN File("absent") ELSE files.user, files.explicit,
    IF options.ignoreProject THEN File("absent") ELSE ProjectConfig(files.project)>>
ReadOf(source) == {i \in 1..3 : source[i].is # "absent"}
AllOf(source, overrides) == {overrides} \cup {source[i].settings : i \in ReadOf(source)}
TablesOf(all) == UNION {DOMAIN settings : settings \in all}
KeysOf(all, t) == UNION {DOMAIN settings[t] : settings \in {s \in all : t \in DOMAIN s}}

FailureIsFounded(source, overrides, all) ==
  \E t \in TablesOf(all) : \E k \in KeysOf(all, t) :
    \/ Has(overrides, t, k) /\ overrides[t][k] = Bad
    \/ \E i \in SettersOf(source, t, k) : source[i].settings[t][k] = Bad

ValuesAreLast(source, overrides, all, settings) ==
  \A t \in TablesOf(all) : \A k \in KeysOf(all, t) :
    LET value == IF Has(overrides, t, k) THEN overrides[t][k] ELSE LastOf(source, t, k)
        set == SettersOf(source, t, k) # {} \/ Has(overrides, t, k)
    IN  /\ Has(settings, t, k) <=> set
        /\ set => settings[t][k] = value /\ value # Bad

AttemptsAreTold(repository, all, warnings) ==
  /\ \A t \in TablesOf(all) : \A k \in KeysOf(all, t) :
       Has(repository.settings, t, k) /\ Risky(t, k) => {<<t>>, <<t, k>>} \cap warnings # {}
  /\ \A warning \in warnings : \E t \in DOMAIN repository.settings :
       \/ warning = <<t>> /\ t \in UntrustedTables
       \/ \E k \in DOMAIN repository.settings[t] : warning = <<t, k>> /\ Risky(t, k)

ListsAreKept(source, config) ==
  /\ IsInjective(config.patterns)
  /\ ToSet(config.patterns) = UNION {ToSet(source[i].patterns) : i \in ReadOf(source)}
  /\ config.suppress =
       FlattenSeq([i \in 1..3 |-> [n \in DOMAIN source[i].suppress |->
         <<source[i].suppress[n], <<"user", "explicit", "project">>[i]>>]])

LEMMA LayeredIs ==
  ASSUME NEW files, NEW options
  PROVE LET result == LoadConfig(files, options)
            source == SourceOf(files, options)
            all == AllOf(source, options.overrides)
        IN SettingsAreLayered(files, options) <=>
             IF \E i \in ReadOf(source) : source[i].is # "layer" THEN "error" \in DOMAIN result
             ELSE IF "error" \in DOMAIN result
             THEN FailureIsFounded(source, options.overrides, all)
             ELSE /\ ValuesAreLast(source, options.overrides, all, result.config.settings)
                  /\ AttemptsAreTold(Repository(files, options), all, result.warnings)
                  /\ ListsAreKept(source, result.config)
BY DEF SettingsAreLayered, SourceOf, ReadOf, AllOf, TablesOf, KeysOf, FailureIsFounded,
       ValuesAreLast, AttemptsAreTold, ListsAreKept, Has, Risky, SettersOf, LastOf, Repository

(* The parts, one by one, for files that can all be read.                    *)
LEMMA ListsAre ==
  ASSUME NEW S, NEW P, NEW R, NEW own \in ConfigFiles(S, P, R),
         NEW explicit \in ConfigFiles(S, P, R), NEW project \in ConfigFiles(S, P, R),
         NEW config, config.patterns \in Lists(P),
         ToSet(config.patterns) =
           ToSet(own.patterns) \cup ToSet(explicit.patterns) \cup ToSet(project.patterns),
         config.suppress =
           (Told(own, "user") \o Told(explicit, "explicit")) \o Told(project, "project")
  PROVE ListsAreKept(<<own, explicit, project>>, config)
<1> DEFINE source == <<own, explicit, project>>
           told == [i \in 1..3 |-> [n \in DOMAIN source[i].suppress |->
                      <<source[i].suppress[n], <<"user", "explicit", "project">>[i]>>]]
<1>1. /\ source[1] = own /\ source[2] = explicit /\ source[3] = project
      /\ 1 \in 1..3 /\ 2 \in 1..3 /\ 3 \in 1..3 /\ \A i \in 1..3 : i = 1 \/ i = 2 \/ i = 3
  BY SMT
<1> HIDE DEF source
<1>2. IsInjective(config.patterns)
  BY DEF Lists
<1>3. ToSet(config.patterns) = UNION {ToSet(source[i].patterns) : i \in ReadOf(source)}
  <2>1. ASSUME NEW i \in 1..3, i \notin ReadOf(source) PROVE ToSet(source[i].patterns) = {}
    <3>1. source[i] \in ConfigFiles(S, P, R) /\ source[i].is = "absent"
      BY <1>1, <2>1 DEF ReadOf
    <3>2. source[i].patterns = <<>>
      BY <3>1, FileIs
    <3> QED BY <3>2 DEF ToSet
  <2>2. \A x : x \in ToSet(config.patterns) <=> \E i \in 1..3 : x \in ToSet(source[i].patterns)
    BY <1>1
  <2>3. ReadOf(source) \subseteq 1..3
    BY DEF ReadOf
  <2>4. \A x : x \in ToSet(config.patterns) <=>
                 \E i \in ReadOf(source) : x \in ToSet(source[i].patterns)
    BY <2>1, <2>2, <2>3
  <2> QED BY <2>4
<1>4. config.suppress = FlattenSeq(told)
  <2>1. /\ <<"user", "explicit", "project">>[1] = "user"
        /\ <<"user", "explicit", "project">>[2] = "explicit"
        /\ <<"user", "explicit", "project">>[3] = "project"
    OBVIOUS
  <2>2. /\ told[1] = Told(own, "user") /\ told[2] = Told(explicit, "explicit")
        /\ told[3] = Told(project, "project")
    BY <1>1, <2>1 DEF Told
  <2>3. Len(told) = 3
    OBVIOUS
  <2> HIDE DEF told
  <2> QED BY <2>2, <2>3, FlattenThree
<1> QED BY <1>2, <1>3, <1>4 DEF ListsAreKept, source

(* For every user's file, one named on the command line, the repository's    *)
(* two, and every options, whatever tables, keys, patterns and rules there   *)
(* are: load_config gives each setting the value of the last layer that may  *)
(* set it, takes nothing of what a repository may not set, and refuses a     *)
(* value only where it uses it; a file that cannot be parsed fails whole.    *)
THEOREM LastLayerWins ==
  ASSUME NEW S, NEW P, NEW R, NEW options,
         NEW files \in [user : ConfigFiles(S, P, R), explicit : ConfigFiles(S, P, R),
                        project : ConfigFiles(S, P, R) \X ConfigFiles(S, P, R)]
  PROVE SettingsAreLayered(files, options)
<1> DEFINE own == Own(files, options)  explicit == files.explicit
           project == Repository(files, options)
           source == SourceOf(files, options)
           result == LoadConfig(files, options)
           overrides == options.overrides
           all == AllOf(source, overrides)
           loaded == AllAdded(own, explicit, project)
           config == AllUnder(own, explicit, project)
           merged == DeepMerge(config.settings, overrides)
<1>1. /\ own \in ConfigFiles(S, P, R) /\ explicit \in ConfigFiles(S, P, R)
      /\ project \in ConfigFiles(S, P, R)
  <2>1. files.user \in ConfigFiles(S, P, R) /\ explicit \in ConfigFiles(S, P, R)
        /\ files.project[1] \in ConfigFiles(S, P, R) /\ files.project[2] \in ConfigFiles(S, P, R)
    OBVIOUS
  <2>2. File("absent") \in ConfigFiles(S, P, R)
    BY DEF ConfigFiles
  <2> QED BY <2>1, <2>2 DEF Own, Repository, ProjectConfig
<1>2. result = Overridden(Checked(loaded), overrides)
  <2>1. DOMAIN files = {"user", "explicit", "project"}
    OBVIOUS
  <2> QED BY <2>1, LoadConfigIs
<1>3. source = <<own, explicit, project>>
  BY DEF SourceOf, Own, Repository
<1> HIDE DEF own, explicit, project, source, result, overrides, all, loaded, config, merged
<1>4. /\ source[1] = own /\ source[2] = explicit /\ source[3] = project
      /\ 1 \in 1..3 /\ 2 \in 1..3 /\ 3 \in 1..3 /\ \A i \in 1..3 : i = 1 \/ i = 2 \/ i = 3
  BY <1>3, SMT
<1>5. (\E i \in ReadOf(source) : source[i].is # "layer") <=>
        ~(Readable(own) /\ Readable(explicit) /\ Readable(project))
  BY <1>4 DEF Readable, ReadOf
<1>6. "error" \in DOMAIN loaded <=> \E i \in ReadOf(source) : source[i].is # "layer"
  BY <1>5, AllAddedIs DEF loaded
<1>7. ASSUME NEW s \in all, NEW t, NEW k, Has(s, t, k)
      PROVE t \in TablesOf(all) /\ k \in KeysOf(all, t)
  BY <1>7 DEF Has, TablesOf, KeysOf
<1>8. CASE \E i \in ReadOf(source) : source[i].is # "layer"
  <2>1. "error" \in DOMAIN result
    BY <1>2, <1>6, <1>8 DEF Checked, Overridden
  <2> QED BY <1>8, <2>1, LayeredIs DEF source, result
<1>9. CASE ~(\E i \in ReadOf(source) : source[i].is # "layer")
  <2>0. Readable(own) /\ Readable(explicit) /\ Readable(project)
    BY <1>5, <1>9
  <2>1. /\ DOMAIN loaded = {"config", "warnings"} /\ loaded.config = config
        /\ loaded.warnings = IF project.is = "absent" THEN {} ELSE Warnings(project.settings)
    BY <1>6, <1>9, AllAddedIs DEF loaded, config
  <2>2. AllApply(config, own, explicit, project, P)
    BY <1>1, <2>0, AllUnderIs DEF config
  <2>3. ASSUME NEW t, NEW k
        PROVE /\ Has(config.settings, t, k) <=> SettersOf(source, t, k) # {}
              /\ Has(config.settings, t, k) =>
                   /\ config.settings[t][k] = LastOf(source, t, k)
                   /\ \E i \in SettersOf(source, t, k) :
                        LastOf(source, t, k) = source[i].settings[t][k]
    <3> DEFINE a == Allowed(own, explicit, project)
    <3>1. /\ Has(config.settings, t, k) <=> Has(a[1], t, k) \/ Has(a[2], t, k) \/ Has(a[3], t, k)
          /\ Has(config.settings, t, k) =>
               config.settings[t][k] = IF Has(a[3], t, k) THEN a[3][t][k]
                                       ELSE IF Has(a[2], t, k) THEN a[2][t][k] ELSE a[1][t][k]
      BY <2>2 DEF AllApply
    <3>2. /\ SettersOf(source, t, k) # {} <=>
               Has(a[1], t, k) \/ Has(a[2], t, k) \/ Has(a[3], t, k)
          /\ SettersOf(source, t, k) # {} =>
               /\ LastOf(source, t, k) = IF Has(a[3], t, k) THEN a[3][t][k]
                                         ELSE IF Has(a[2], t, k) THEN a[2][t][k] ELSE a[1][t][k]
               /\ \E i \in SettersOf(source, t, k) :
                    LastOf(source, t, k) = source[i].settings[t][k]
      BY <1>1, <1>3, SettersAre, SMTT(30)
    <3> HIDE DEF a
    <3> QED BY <3>1, <3>2
  <2>4. ASSUME NEW t, NEW k
        PROVE /\ Has(merged, t, k) <=> Has(config.settings, t, k) \/ Has(overrides, t, k)
              /\ Has(merged, t, k) => merged[t][k] = IF Has(overrides, t, k) THEN overrides[t][k]
                                                     ELSE config.settings[t][k]
    BY MergeIs DEF merged
  <2>5. ASSUME NEW t, NEW k, SettersOf(source, t, k) # {} \/ Has(overrides, t, k)
        PROVE t \in TablesOf(all) /\ k \in KeysOf(all, t)
    <3>1. CASE SettersOf(source, t, k) # {}
      <4>1. PICK i \in ReadOf(source) : Has(source[i].settings, t, k)
        BY <3>1 DEF SettersOf, ReadOf
      <4>2. source[i].settings \in all
        BY <4>1 DEF all, AllOf
      <4> QED BY <1>7, <4>1, <4>2
    <3>2. CASE Has(overrides, t, k)
      <4>1. overrides \in all
        BY DEF all, AllOf
      <4> QED BY <1>7, <3>2, <4>1
    <3> QED BY <2>5, <3>1, <3>2
  <2>6. ASSUME Problems(config.settings) \/ Problems(merged)
        PROVE FailureIsFounded(source, overrides, all)
    <3>1. CASE Problems(config.settings)
      <4>1. PICK t, k : Has(config.settings, t, k) /\ config.settings[t][k] = Bad
        BY <3>1 DEF Problems, Has
      <4>2. \E i \in SettersOf(source, t, k) : source[i].settings[t][k] = Bad
        BY <2>3, <4>1
      <4>3. t \in TablesOf(all) /\ k \in KeysOf(all, t)
        BY <2>5, <4>2
      <4> QED BY <4>2, <4>3 DEF FailureIsFounded
    <3>2. CASE Problems(merged)
      <4>1. PICK t, k : Has(merged, t, k) /\ merged[t][k] = Bad
        BY <3>2 DEF Problems, Has
      <4>2. \/ Has(overrides, t, k) /\ overrides[t][k] = Bad
            \/ \E i \in SettersOf(source, t, k) : source[i].settings[t][k] = Bad
        BY <2>3, <2>4, <4>1
      <4>3. t \in TablesOf(all) /\ k \in KeysOf(all, t)
        BY <2>5, <4>2
      <4> QED BY <4>2, <4>3 DEF FailureIsFounded
    <3> QED BY <2>6, <3>1, <3>2
  <2>7. CASE Problems(config.settings) \/ Problems(merged)
    <3>1. result \in {Failed("problems"), Failed("overrides")}
      <4>1. CASE Problems(config.settings)
        BY <1>2, <2>1, <4>1, NoneIs DEF Checked, Overridden
      <4>2. CASE ~Problems(config.settings) /\ Problems(merged)
        BY <1>2, <2>1, <4>2 DEF merged, Checked, Overridden
      <4> QED BY <2>7, <4>1, <4>2
    <3>2. "error" \in DOMAIN result
      BY <3>1, NoneIs
    <3> QED BY <1>9, <2>6, <2>7, <3>2, LayeredIs DEF source, result, all, overrides
  <2>8. CASE ~Problems(config.settings) /\ ~Problems(merged)
    <3>1. result = [loaded EXCEPT !.config.settings = merged]
      BY <1>2, <2>1, <2>8 DEF merged, Checked, Overridden
    <3>2. /\ DOMAIN result = {"config", "warnings"} /\ result.warnings = loaded.warnings
          /\ result.config = [config EXCEPT !.settings = merged]
      BY <2>1, <3>1
    <3>3. /\ result.config.settings = merged /\ result.config.patterns = config.patterns
          /\ result.config.suppress = config.suppress
      <4>1. DOMAIN config = {"is", "settings", "patterns", "suppress"}
        BY <2>2 DEF AllApply, Nothing, Layer
      <4> QED BY <3>2, <4>1
    <3>4. ValuesAreLast(source, overrides, all, merged)
      <4> SUFFICES ASSUME NEW t \in TablesOf(all), NEW k \in KeysOf(all, t)
                   PROVE LET value == IF Has(overrides, t, k) THEN overrides[t][k]
                                      ELSE LastOf(source, t, k)
                             set == SettersOf(source, t, k) # {} \/ Has(overrides, t, k)
                         IN  /\ Has(merged, t, k) <=> set
                             /\ set => merged[t][k] = value /\ value # Bad
        BY DEF ValuesAreLast
      <4>1. Has(merged, t, k) => merged[t][k] # Bad
        BY <2>8 DEF Problems, Has
      <4> QED BY <2>3, <2>4, <4>1
    <3>5. AttemptsAreTold(project, all, result.warnings)
      <4>1. CASE project.is = "absent"
        <5>1. project.settings = [t \in {} |-> 0] /\ result.warnings = {}
          BY <1>1, <2>1, <3>2, <4>1, FileIs
        <5> QED BY <5>1 DEF AttemptsAreTold, Has
      <4>2. CASE project.is # "absent"
        <5>1. result.warnings = Warnings(project.settings)
          BY <2>1, <3>2, <4>2
        <5> QED BY <5>1, WarningsAre DEF AttemptsAreTold
      <4> QED BY <4>1, <4>2
    <3>6. ListsAreKept(source, result.config)
      <4>1. ListsAreKept(source, config)
        BY <1>1, <1>3, <2>2, ListsAre, SMTT(30) DEF AllApply
      <4> QED BY <3>3, <4>1 DEF ListsAreKept
    <3> QED BY <1>9, <3>2, <3>3, <3>4, <3>5, <3>6, LayeredIs
            DEF source, result, all, overrides, project
  <2> QED BY <2>7, <2>8
<1> QED BY <1>8, <1>9

-----------------------------------------------------------------------------
(* All together, of any years, patterns and settings: paths are sequences of *)
(* names, names of characters, and a pattern has no "**" for a character.    *)
ConfigLayers(S, P, R) ==
  [user : ConfigFiles(S, P, R), explicit : ConfigFiles(S, P, R),
   project : ConfigFiles(S, P, R) \X ConfigFiles(S, P, R)]
Calls(X, Y, S, P, R, O) ==
  {<<"year", y>> : y \in Int}
    \cup {<<"pattern", pattern, paths>> : pattern \in Seq(X), paths \in SUBSET Seq(Seq(Y))}
    \cup {<<"settings", files, options>> : files \in ConfigLayers(S, P, R), options \in O}

(* As long as the core is given years, patterns and paths, or files and      *)
(* options, its dates are those of the calendar, its patterns match what the *)
(* documentation says, and its settings are those of the last layer that may *)
(* set them (core/time.rs, glob.rs and config/load.rs).                      *)
THEOREM CoreStaysExact ==
  ASSUME NEW X, "**" \notin X, "/" \in X, NEW Y, NEW S, NEW P, NEW R, NEW O
  PROVE [](input \in Calls(X, Y, S, P, R, O)) => []CoreIsExact
<1>1. ASSUME input \in Calls(X, Y, S, P, R, O)
      PROVE CoreIsExact
  <2>1. CASE \E y \in Int : input = <<"year", y>>
    <3>1. PICK y \in Int : input = <<"year", y>>
      BY <2>1
    <3>2. input[1] = "year" /\ input[2] = y
      BY <3>1
    <3>3. DatesAreCounted(y) /\ MonthsFollow(y)
      BY DatesAreRight, MonthsAreInOrder
    <3> QED BY <3>2, <3>3 DEF CoreIsExact, Given
  <2>2. CASE \E pattern \in Seq(X), paths \in SUBSET Seq(Seq(Y)) :
               input = <<"pattern", pattern, paths>>
    <3>1. PICK pattern \in Seq(X), paths \in SUBSET Seq(Seq(Y)) :
            input = <<"pattern", pattern, paths>>
      BY <2>2
    <3>2. input[1] = "pattern" /\ input[2] = pattern /\ input[3] = paths
      BY <3>1
    <3>3. \A path \in paths : GlobMatchesAsDocumented(pattern, path)
      BY <1>1, GlobIsAsDocumented
    <3> QED BY <3>2, <3>3 DEF CoreIsExact, Given
  <2>3. CASE \E files \in ConfigLayers(S, P, R), options \in O :
               input = <<"settings", files, options>>
    <3>1. PICK files \in ConfigLayers(S, P, R), options \in O :
            input = <<"settings", files, options>>
      BY <2>3
    <3>2. input[1] = "settings" /\ input[2] = files /\ input[3] = options
      BY <3>1
    <3>3. SettingsAreLayered(files, options)
      BY LastLayerWins DEF ConfigLayers
    <3> QED BY <3>2, <3>3 DEF CoreIsExact, Given
  <2> QED BY <1>1, <2>1, <2>2, <2>3 DEF Calls
<1>2. input \in Calls(X, Y, S, P, R, O) => CoreIsExact
  BY <1>1
<1> QED BY <1>2, PTL

-----------------------------------------------------------------------------
(* engine/scan.rs: what a pass over the files yields is a function of the    *)
(* files alone. A right cache is told by its keys.                           *)

CacheOf(D) == [k \in D |-> [of |-> k[1], language |-> k[2]]]
KeyOf(file) == <<file.content.id, Language(file, Read(file))>>
Fresh(file, stages) == Process(file, stages, CacheOf({}))

(* A file that is analyzed has the analysis of its key; its tokens are those *)
(* of its content, for code that is neither vendored nor generated.          *)
IsFresh(b, file, stages) ==
  /\ b.file.analysis \in {<<>>, <<Analyze(file.content, b.file.language)>>}
  /\ b.file.language = KeyOf(file)[2]
  /\ b.file.tokens \in {<<>>, <<file.content.tokens>>}
  /\ b.file.tokens # <<>> =>
       /\ b.file.analysis # <<>> /\ b.file.category = "source"
       /\ ~b.file.vendored /\ ~b.file.generated
       /\ stages \cap {"duplication", "similarity"} # {}
  /\ b.file.analysis # <<>> /\ b.file.category = "source" /\ ~b.file.vendored
     /\ stages \cap {"duplication", "similarity"} # {} => b.file.tokens # <<>>
  /\ b.file.path = file.path /\ ~b.hit
  /\ DOMAIN b.file = {"path", "category", "language", "generated", "vendored", "read",
                      "analysis", "tokens"}

(* What the cache changes is only whether it was hit. *)
SameItem(p, b, file, D) ==
  /\ p.file = b.file /\ p.secrets = b.secrets /\ p.patterns = b.patterns
  /\ p.hit = (b.file.analysis # <<>> /\ KeyOf(file) \in D)
  /\ p.key = IF b.file.analysis # <<>> /\ KeyOf(file) \notin D THEN <<KeyOf(file)>> ELSE <<>>

LEMMA ProcessIs ==
  ASSUME NEW file, NEW stages, NEW D
  PROVE /\ SameItem(Process(file, stages, CacheOf(D)), Fresh(file, stages), file, D)
        /\ IsFresh(Fresh(file, stages), file, stages)
<1> DEFINE read == Read(file)  language == Language(file, read)
           class == Classify(file, language)
           looksGenerated ==
             /\ read = "text" /\ file.content.looksGenerated
             /\ ~class.generated /\ class.category \in MayBeGenerated
             /\ ~Overrides(file).source
           category == IF looksGenerated THEN "generated" ELSE class.category
           analyzed == read = "text" /\ language \in Lexical /\ "parsing" \in stages
           key == KeyOf(file)
           secured == read = "text" /\ "security" \in stages /\ category # "lockfile"
           generated == class.generated \/ looksGenerated
           tokens == /\ analyzed /\ category = "source" /\ ~class.vendored /\ ~generated
                     /\ stages \cap {"duplication", "similarity"} # {}
           Analysis(E) == IF analyzed /\ key \in E THEN CacheOf(E)[key]
                          ELSE Analyze(file.content, language)
           Item(E) ==
             [file |-> [path |-> file.path, category |-> category, language |-> language,
                        generated |-> generated, vendored |-> class.vendored, read |-> read,
                        analysis |-> IF analyzed THEN <<Analysis(E)>> ELSE <<>>,
                        tokens |-> IF tokens THEN <<file.content.tokens>> ELSE <<>>],
              secrets |-> secured, patterns |-> secured /\ ~class.vendored,
              hit |-> analyzed /\ key \in E,
              key |-> IF analyzed /\ ~(analyzed /\ key \in E) THEN <<key>> ELSE <<>>]
<1>1. ASSUME NEW E PROVE Process(file, stages, CacheOf(E)) = Item(E)
  <2>1. DOMAIN CacheOf(E) = E
    BY DEF CacheOf
  <2>2. CacheKey(file.content, language) = key
    BY DEF CacheKey, KeyOf
  <2> QED BY <2>1, <2>2 DEF Process, ProcessAs, ProcessRead
<1>2. key[1] = file.content.id /\ key[2] = language
  BY DEF KeyOf
<1>3. ASSUME NEW E PROVE Analysis(E) = Analyze(file.content, language)
  BY <1>2 DEF CacheOf, Analyze
<1>4. class.generated => class.category # "source"
  <2> DEFINE over == Overrides(file)
  <2>1. class.generated = (~over.source /\ over.generated)
    BY DEF Classify
  <2>2. class.category =
        CASE over.source -> IF file.category = "test" THEN "test" ELSE "source"
          [] over.docs /\ ~over.source                      -> "documentation"
          [] over.tests /\ ~over.docs /\ ~over.source       -> "test"
          [] over.generated /\ ~(over.tests \/ over.docs \/ over.source) -> "generated"
          [] over.vendor /\ ~(over.generated \/ over.tests \/ over.docs \/ over.source) -> "vendor"
          [] OTHER                                          -> Default(file, language)
    BY DEF Classify
  <2> HIDE DEF over, class
  <2> QED BY <2>1, <2>2
<1>5. CacheOf({}) = CacheOf({}) /\ key \notin {}
  OBVIOUS
<1>6. /\ Process(file, stages, CacheOf(D)) = Item(D)
      /\ Fresh(file, stages) = Item({})
  BY <1>1 DEF Fresh
<1>7. analyzed \in BOOLEAN /\ secured \in BOOLEAN
  OBVIOUS
<1>8. category = "source" => ~generated
  BY <1>4
<1> HIDE DEF class, category, secured, generated
<1>9. tokens => analyzed /\ category = "source" /\ ~class.vendored /\ ~generated
                /\ stages \cap {"duplication", "similarity"} # {}
  OBVIOUS
<1>10. analyzed /\ category = "source" /\ ~class.vendored
       /\ stages \cap {"duplication", "similarity"} # {} => tokens
  BY <1>8
<1> HIDE DEF analyzed, tokens
<1>11. Item(D).file = Item({}).file
  BY <1>3
<1> HIDE DEF Analysis
<1>12. /\ Item(D).secrets = secured /\ Item({}).secrets = secured
       /\ Item(D).patterns = (secured /\ ~class.vendored)
       /\ Item({}).patterns = (secured /\ ~class.vendored)
       /\ Item(D).hit = (analyzed /\ key \in D) /\ ~Item({}).hit
       /\ Item(D).key = IF analyzed /\ ~(analyzed /\ key \in D) THEN <<key>> ELSE <<>>
  OBVIOUS
<1>13. /\ Item({}).file.analysis = IF analyzed THEN <<Analysis({})>> ELSE <<>>
       /\ Item({}).file.language = language /\ Item({}).file.category = category
       /\ Item({}).file.vendored = class.vendored /\ Item({}).file.generated = generated
       /\ Item({}).file.tokens = IF tokens THEN <<file.content.tokens>> ELSE <<>>
       /\ Item({}).file.path = file.path
       /\ DOMAIN Item({}).file = {"path", "category", "language", "generated", "vendored", "read",
                               "analysis", "tokens"}
  OBVIOUS
<1> HIDE DEF Item
<1>14. Analysis({}) = Analyze(file.content, language)
  BY <1>3
<1> DEFINE p == Process(file, stages, CacheOf(D))  b == Fresh(file, stages)
           risky == stages \cap {"duplication", "similarity"} # {}
<1>15. p = Item(D) /\ b = Item({})
  BY <1>6
<1>16. tokens \in BOOLEAN /\ analyzed \in BOOLEAN /\ \A x : <<x>> # <<>>
  BY DEF tokens, analyzed
<1> HIDE DEF p, b, risky
<1>17. (b.file.analysis # <<>> <=> analyzed) /\ (b.file.tokens # <<>> <=> tokens)
  BY <1>13, <1>15, <1>16
<1>18. p.file = b.file /\ p.secrets = b.secrets /\ p.patterns = b.patterns
  BY <1>11, <1>12, <1>15
<1>19. /\ p.hit = (b.file.analysis # <<>> /\ KeyOf(file) \in D)
       /\ ~b.hit
       /\ p.key = IF b.file.analysis # <<>> /\ KeyOf(file) \notin D THEN <<KeyOf(file)>> ELSE <<>>
  <2>1. (analyzed /\ ~(analyzed /\ KeyOf(file) \in D)) <=>
        (b.file.analysis # <<>> /\ KeyOf(file) \notin D)
    BY <1>17
  <2>2. p.key = IF analyzed /\ ~(analyzed /\ KeyOf(file) \in D) THEN <<KeyOf(file)>> ELSE <<>>
    BY <1>12, <1>15
  <2>3. p.hit = (analyzed /\ KeyOf(file) \in D) /\ ~b.hit
    BY <1>12, <1>15
  <2> QED BY <1>16, <1>17, <2>1, <2>2, <2>3
<1>20. /\ b.file.analysis \in {<<>>, <<Analyze(file.content, b.file.language)>>}
       /\ b.file.language = KeyOf(file)[2]
       /\ b.file.tokens \in {<<>>, <<file.content.tokens>>}
       /\ b.file.path = file.path
       /\ DOMAIN b.file = {"path", "category", "language", "generated", "vendored", "read",
                           "analysis", "tokens"}
  BY <1>2, <1>13, <1>14, <1>15
<1>21. /\ b.file.category = category /\ b.file.vendored = class.vendored
       /\ b.file.generated = generated
  BY <1>13, <1>15
<1>22. /\ b.file.tokens # <<>> =>
            /\ b.file.analysis # <<>> /\ b.file.category = "source"
            /\ ~b.file.vendored /\ ~b.file.generated /\ risky
       /\ b.file.analysis # <<>> /\ b.file.category = "source" /\ ~b.file.vendored /\ risky =>
            b.file.tokens # <<>>
  BY <1>9, <1>10, <1>17, <1>21 DEF risky
<1> QED BY <1>18, <1>19, <1>20, <1>22 DEF p, b, risky, SameItem, IsFresh

(* Results are added up in the order of the files. *)
Budgeted(item, fits) == [item.file EXCEPT !.tokens = IF fits THEN @ ELSE <<>>]
FitsAfter(used, item) == item.file.tokens = <<>> \/ used + item.file.tokens[1] <= MaxTokens
UsedAfter(used, item) ==
  IF FitsAfter(used, item) /\ item.file.tokens # <<>> THEN used + item.file.tokens[1] ELSE used

Results(F, P) ==
  [files : Seq(F), secrets : SUBSET P, patterns : SUBSET P, hits : Nat, used : Nat,
   tokensTruncated : BOOLEAN]
IsItem(item, F, P) ==
  /\ \A fits \in BOOLEAN : Budgeted(item, fits) \in F
  /\ item.file.path \in P
  /\ item.file.tokens # <<>> => item.file.tokens[1] \in Nat

LEMMA CollectIs ==
  ASSUME NEW F, NEW P, NEW r \in Results(F, P), NEW item, IsItem(item, F, P)
  PROVE /\ Collect(r, item) \in Results(F, P)
        /\ Collect(r, item).files = Append(r.files, Budgeted(item, FitsAfter(r.used, item)))
        /\ Collect(r, item).used = UsedAfter(r.used, item)
        /\ Collect(r, item).hits = IF item.hit THEN r.hits + 1 ELSE r.hits
        /\ Collect(r, item).tokensTruncated =
             (r.tokensTruncated \/ ~FitsAfter(r.used, item))
<1> DEFINE fits == FitsAfter(r.used, item)  path == {item.file.path}
           told == Budgeted(item, fits)  used == UsedAfter(r.used, item)
           all == [files    |-> Append(r.files, told),
                   secrets  |-> IF item.secrets THEN r.secrets \cup path ELSE r.secrets,
                   patterns |-> IF item.patterns THEN r.patterns \cup path ELSE r.patterns,
                   hits     |-> IF item.hit THEN r.hits + 1 ELSE r.hits,
                   used     |-> used,
                   tokensTruncated |-> r.tokensTruncated \/ ~fits]
<1>1. Collect(r, item) = all
  BY DEF Collect, InBudget, FitsAfter, UsedAfter, Budgeted
<1>2. /\ r.files \in Seq(F) /\ r.secrets \in SUBSET P /\ r.patterns \in SUBSET P /\ r.hits \in Nat
      /\ r.used \in Nat /\ r.tokensTruncated \in BOOLEAN
  BY DEF Results
<1>3. fits \in BOOLEAN
  BY DEF FitsAfter
<1>4. used \in Nat
  BY <1>2 DEF UsedAfter, IsItem
<1>5. told \in F /\ path \subseteq P
  BY <1>3 DEF IsItem
<1> HIDE DEF fits, path, told, used
<1>6. Append(r.files, told) \in Seq(F)
  BY <1>2, <1>5
<1>7. (IF item.hit THEN r.hits + 1 ELSE r.hits) \in Nat
  BY <1>2
<1>8. /\ (IF item.secrets THEN r.secrets \cup path ELSE r.secrets) \in SUBSET P
      /\ (IF item.patterns THEN r.patterns \cup path ELSE r.patterns) \in SUBSET P
  BY <1>2, <1>5
<1>9. (r.tokensTruncated \/ ~fits) \in BOOLEAN
  OBVIOUS
<1>10. all \in Results(F, P)
  BY <1>4, <1>6, <1>7, <1>8, <1>9 DEF Results
<1> QED BY <1>1, <1>10 DEF fits, told, used

LEMMA SameCollected ==
  ASSUME NEW F, NEW P, NEW r \in Results(F, P), NEW q, [r EXCEPT !.hits = 0] = q,
         NEW item, NEW base, item.file = base.file, item.secrets = base.secrets,
         item.patterns = base.patterns, ~base.hit, IsItem(base, F, P)
  PROVE [Collect(r, item) EXCEPT !.hits = 0] = Collect(q, base)
<1> DEFINE fits == FitsAfter(r.used, base)  path == {base.file.path}
           told == Budgeted(base, fits)  used == UsedAfter(r.used, base)
           more == Append(r.files, told)
           secrets == IF base.secrets THEN r.secrets \cup path ELSE r.secrets
           patterns == IF base.patterns THEN r.patterns \cup path ELSE r.patterns
           dropped == r.tokensTruncated \/ ~fits
           All(hits) == [files |-> more, secrets |-> secrets, patterns |-> patterns, hits |-> hits,
                         used |-> used, tokensTruncated |-> dropped]
           hits == IF item.hit THEN r.hits + 1 ELSE r.hits
<1>1. /\ q.files = r.files /\ q.secrets = r.secrets /\ q.patterns = r.patterns /\ q.used = r.used
      /\ q.tokensTruncated = r.tokensTruncated /\ q.hits = 0
  BY DEF Results
<1>2. Collect(r, item) = All(hits)
  BY DEF Collect, InBudget, FitsAfter, UsedAfter, Budgeted
<1>3. Collect(q, base) = All(0)
  BY <1>1 DEF Collect, InBudget, FitsAfter, UsedAfter, Budgeted
<1> HIDE DEF more, secrets, patterns, dropped, used, hits
<1>4. [All(hits) EXCEPT !.hits = 0] = All(0)
  OBVIOUS
<1> HIDE DEF All
<1> QED BY <1>2, <1>3, <1>4

-----------------------------------------------------------------------------
(* What there is after so many files, when nothing is cached. *)
FileSet(files, stages) ==
  {Budgeted(Fresh(files[i], stages), fits) : i \in DOMAIN files, fits \in BOOLEAN}
PathSet(files) == {files[i].path : i \in DOMAIN files}
ResultSet(files, stages) == Results(FileSet(files, stages), PathSet(files))

Counted(files) == \A i \in DOMAIN files : files[i].content.tokens \in Nat

Reference(ref, files, stages) ==
  /\ ref \in [0..Len(files) -> ResultSet(files, stages)] /\ ref[0] = NoFiles
  /\ \A k \in 1..Len(files) : ref[k] = Collect(ref[k - 1], Fresh(files[k], stages))

LEMMA FreshIsItem ==
  ASSUME NEW files, NEW stages, Counted(files), NEW i \in DOMAIN files
  PROVE IsItem(Fresh(files[i], stages), FileSet(files, stages), PathSet(files))
<1> DEFINE b == Fresh(files[i], stages)
<1>1. /\ b.file.tokens \in {<<>>, <<files[i].content.tokens>>} /\ b.file.path = files[i].path
  <2>1. IsFresh(b, files[i], stages)
    BY ProcessIs
  <2> QED BY <2>1 DEF IsFresh
<1>2. files[i].content.tokens \in Nat
  BY DEF Counted
<1>3. \A fits \in BOOLEAN : Budgeted(b, fits) \in FileSet(files, stages)
  BY DEF FileSet
<1> HIDE DEF b
<1>4. b.file.path \in PathSet(files)
  BY <1>1 DEF PathSet
<1>5. b.file.tokens # <<>> => b.file.tokens[1] \in Nat
  BY <1>1, <1>2
<1> QED BY <1>3, <1>4, <1>5 DEF IsItem, b

LEMMA NoFilesIsResult ==
  ASSUME NEW F, NEW P
  PROVE /\ NoFiles \in Results(F, P) /\ NoFiles.files = <<>>
        /\ NoFiles.hits = 0 /\ NoFiles.used = 0
        /\ NoFiles.tokensTruncated = FALSE
<1>1. <<>> \in Seq(F) /\ {} \in SUBSET P /\ 0 \in Nat /\ FALSE \in BOOLEAN
  OBVIOUS
<1> QED BY <1>1 DEF NoFiles, Results

LEMMA ReferenceExists ==
  ASSUME NEW T, NEW files \in Seq(T), NEW stages, Counted(files)
  PROVE \E ref : Reference(ref, files, stages)
<1> DEFINE n == Len(files)  V == ResultSet(files, stages)
           Item(i) == Fresh(files[i], stages)
           step == [p \in V \X (1..n) |-> Collect(p[1], Item(p[2]))]
<1>1. n \in Nat /\ DOMAIN files = 1..n
  OBVIOUS
<1>2. NoFiles \in V
  BY NoFilesIsResult DEF ResultSet
<1>3. \A r \in V, i \in 1..n : Collect(r, Item(i)) \in V
  BY <1>1, FreshIsItem, CollectIs DEF ResultSet
<1> HIDE DEF V, Item
<1>4. step \in [V \X (1..n) -> V]
  BY <1>3
<1>5. \A v \in V, m \in 1..n : step[v, m] = Collect(v, Item(m))
  OBVIOUS
<1> HIDE DEF step, n
<1>6. PICK f \in [SUBSET (1..n) -> V] : IsFold(f, n, NoFiles, step)
  BY <1>1, <1>2, <1>4, FoldExists
<1> DEFINE ref == [k \in 0..n |-> f[1..k]]
<1>7. 1..0 = {} /\ {} \in SUBSET (1..n) /\ \A k \in 0..n : 1..k \in SUBSET (1..n)
  BY <1>1, SMT
<1>8. ref \in [0..n -> V]
  BY <1>6, <1>7
<1>9. f[{}] = NoFiles
  BY <1>6, <1>7 DEF IsFold
<1>10. ref[0] = NoFiles
  <2>1. 0 \in 0..n
    BY <1>1, SMT
  <2> QED BY <1>7, <1>9, <2>1
<1>11. ASSUME NEW k \in 1..n PROVE ref[k] = Collect(ref[k - 1], Item(k))
  <2>1. k \in Nat /\ k # 0 /\ k \in 0..n /\ k - 1 \in 0..n
    BY <1>1, SMT
  <2>2. Max(1..k) = k /\ (1..k) \ {k} = 1..(k - 1) /\ 1..k # {}
    BY <2>1, MaxOfInterval
  <2>3. f[1..k] = step[f[1..(k - 1)], k]
    BY <1>6, <1>7, <2>1, <2>2 DEF IsFold
  <2>4. f[1..(k - 1)] \in V
    BY <1>6, <1>7, <2>1
  <2> QED BY <1>5, <2>1, <2>3, <2>4
<1> HIDE DEF ref
<1>12. Reference(ref, files, stages)
  BY <1>8, <1>10, <1>11 DEF Reference, V, n, Item
<1> QED BY <1>12

FileAt(ref, files, stages, i) ==
  Budgeted(Fresh(files[i], stages), FitsAfter(ref[i - 1].used, Fresh(files[i], stages)))
IsDropped(ref, files, stages, i) == ~FitsAfter(ref[i - 1].used, Fresh(files[i], stages))

(* The files are there in their order, tokens only within the budget. *)
LEMMA ReferenceIs ==
  ASSUME NEW T, NEW files \in Seq(T), NEW stages, Counted(files), NEW ref,
         Reference(ref, files, stages), MaxTokens \in Nat
  PROVE \A n \in 0..Len(files) :
          /\ ref[n] \in ResultSet(files, stages) /\ Len(ref[n].files) = n
          /\ \A i \in 1..n : ref[n].files[i] = FileAt(ref, files, stages, i)
          /\ ref[n].used <= MaxTokens
          /\ ref[n].tokensTruncated <=> \E i \in 1..n : IsDropped(ref, files, stages, i)
<1> DEFINE l == Len(files)  V == ResultSet(files, stages)
           F == FileSet(files, stages)
           Item(i) == Fresh(files[i], stages)
           Made(i) == FileAt(ref, files, stages, i)
           Dropped(i) == IsDropped(ref, files, stages, i)
           Is(n) == /\ ref[n] \in V /\ Len(ref[n].files) = n
                    /\ \A i \in 1..n : ref[n].files[i] = Made(i)
                    /\ ref[n].used <= MaxTokens
                    /\ ref[n].tokensTruncated <=> \E i \in 1..n : Dropped(i)
           S == {n \in Nat : n <= l => Is(n)}
<1>1. l \in Nat /\ DOMAIN files = 1..l
  OBVIOUS
<1>2. ref[0] = NoFiles /\ \A k \in 1..l : ref[k] = Collect(ref[k - 1], Item(k))
  BY DEF Reference
<1>3. \A k \in 1..l : IsItem(Item(k), F, PathSet(files))
  BY <1>1, FreshIsItem
<1>4. \A v \in V : v \in Results(F, PathSet(files)) /\ v.files \in Seq(F) /\ v.used \in Nat
                   /\ v.tokensTruncated \in BOOLEAN
  BY DEF ResultSet, Results
<1>5. 0 \in S
  <2>1. 1..0 = {} /\ 0 <= MaxTokens
    BY SMT
  <2>2. NoFiles \in V
    BY NoFilesIsResult DEF ResultSet
  <2>3. Len(<<>>) = 0
    OBVIOUS
  <2> QED BY <1>2, <2>1, <2>2, <2>3, NoFilesIsResult
<1>6. ASSUME NEW n \in Nat, Is(n), n + 1 <= l PROVE Is(n + 1)
  <2>1. /\ n + 1 \in 1..l /\ (n + 1) - 1 = n /\ n + 1 \in Nat
        /\ \A i : i \in 1..(n + 1) <=> i \in 1..n \/ i = n + 1
    BY <1>1, <1>6, SMT
  <2> DEFINE item == Item(n + 1)  fits == FitsAfter(ref[n].used, item)
  <2>2. ref[n + 1] = Collect(ref[n], item)
    BY <1>2, <2>1
  <2>3. /\ ref[n] \in Results(F, PathSet(files)) /\ ref[n].files \in Seq(F)
        /\ ref[n].used \in Nat /\ IsItem(item, F, PathSet(files))
        /\ Len(ref[n].files) = n /\ ref[n].used <= MaxTokens
        /\ \A i \in 1..n : ref[n].files[i] = Made(i)
    BY <1>3, <1>4, <1>6, <2>1
  <2>5. Made(n + 1) = Budgeted(item, fits)
    BY <2>1 DEF FileAt
  <2>6. fits \in BOOLEAN
    BY DEF FitsAfter
  <2>7. Budgeted(item, fits) \in F
    BY <2>3, <2>6 DEF IsItem
  <2> HIDE DEF Item, item, fits, Made, Dropped, V
  <2>8. /\ ref[n + 1] \in Results(F, PathSet(files))
        /\ ref[n + 1].files = Append(ref[n].files, Budgeted(item, FitsAfter(ref[n].used, item)))
        /\ ref[n + 1].used = UsedAfter(ref[n].used, item)
        /\ ref[n + 1].tokensTruncated = (ref[n].tokensTruncated \/ ~FitsAfter(ref[n].used, item))
    BY <2>2, <2>3, CollectIs
  <2>9. /\ Len(ref[n + 1].files) = n + 1 /\ ref[n + 1].files[n + 1] = Made(n + 1)
        /\ \A i \in 1..n : ref[n + 1].files[i] = ref[n].files[i]
    BY <2>3, <2>5, <2>7, <2>8, AppendIs DEF fits
  <2>10. \A i \in 1..(n + 1) : ref[n + 1].files[i] = Made(i)
    BY <2>1, <2>3, <2>9
  <2>11. ref[n + 1].used <= MaxTokens
    <3>1. item.file.tokens # <<>> => item.file.tokens[1] \in Nat
      BY <2>3 DEF IsItem
    <3> QED BY <2>3, <2>8, <3>1 DEF UsedAfter, FitsAfter
  <2>12. ref[n + 1].tokensTruncated <=> \E i \in 1..(n + 1) : Dropped(i)
    <3>1. ref[n].tokensTruncated <=> \E i \in 1..n : Dropped(i)
      BY <1>6
    <3>2. ref[n + 1].tokensTruncated = (ref[n].tokensTruncated \/ ~fits)
      BY <2>8 DEF fits
    <3>3. Dropped(n + 1) <=> ~fits
      BY <2>1 DEF IsDropped, Dropped, fits, item, Item
    <3> QED BY <2>1, <3>1, <3>2, <3>3
  <2>13. ref[n + 1] \in V
    BY <2>8 DEF V, ResultSet
  <2> QED BY <2>9, <2>10, <2>11, <2>12, <2>13
<1>7. ASSUME NEW n \in Nat, n \in S PROVE n + 1 \in S
  <2> HIDE DEF Is
  <2>1. n + 1 \in Nat /\ (n + 1 <= l => n <= l)
    BY <1>1, SMT
  <2> QED BY <1>6, <1>7, <2>1
<1>8. Nat \subseteq S
  <2> HIDE DEF S
  <2> QED BY <1>5, <1>7, SetInduction
<1>9. \A n \in 0..l : n \in Nat /\ n <= l
  BY <1>1, SMT
<1>10. \A n \in 0..l : Is(n)
  <2> HIDE DEF Is
  <2> QED BY <1>8, <1>9
<1> QED BY <1>10

(* The files that are analyzed, and how many they are. *)
Analyzed(files, stages, n) == {i \in 1..n : Fresh(files[i], stages).file.analysis # <<>>}
Count(files, stages, n) == Cardinality(Analyzed(files, stages, n))

LEMMA CountIs ==
  ASSUME NEW files, NEW stages, NEW n \in Nat
  PROVE /\ Count(files, stages, n) \in Nat /\ Count(files, stages, 0) = 0
        /\ Count(files, stages, n + 1) =
             IF Fresh(files[n + 1], stages).file.analysis # <<>>
             THEN Count(files, stages, n) + 1 ELSE Count(files, stages, n)
<1> DEFINE A(k) == Analyzed(files, stages, k)
           is == Fresh(files[n + 1], stages).file.analysis # <<>>
<1>1. A(0) = {}
  <2>1. 1..0 = {}
    BY SMT
  <2> QED BY <2>1 DEF Analyzed
<1>2. IsFiniteSet(A(n)) /\ Cardinality(A(n)) \in Nat
  <2>1. IsFiniteSet(1..n) /\ A(n) \in SUBSET (1..n)
    BY FS_Interval DEF Analyzed
  <2>2. IsFiniteSet(A(n))
    BY <2>1, FS_Subset
  <2> QED BY <2>2, FS_CardinalityType
<1>3. n + 1 \notin A(n) /\ A(n + 1) = IF is THEN A(n) \cup {n + 1} ELSE A(n)
  <2>1. \A i : i \in 1..(n + 1) <=> i \in 1..n \/ i = n + 1
    BY SMT
  <2>2. n + 1 \notin 1..n
    BY SMT
  <2>3. n + 1 \notin A(n)
    BY <2>2 DEF Analyzed
  <2>4. CASE is
    <3>1. A(n + 1) = A(n) \cup {n + 1}
      BY <2>1, <2>4 DEF Analyzed
    <3> QED BY <2>3, <2>4, <3>1
  <2>5. CASE ~is
    <3>1. A(n + 1) = A(n)
      BY <2>1, <2>5 DEF Analyzed
    <3> QED BY <2>3, <2>5, <3>1
  <2> QED BY <2>4, <2>5
<1> HIDE DEF A, is
<1>4. Cardinality(A(n) \cup {n + 1}) = Cardinality(A(n)) + 1
  BY <1>2, <1>3, FS_AddElement
<1>5. Cardinality({}) = 0
  BY FS_EmptySet
<1>6. Cardinality(A(n + 1)) = IF is THEN Cardinality(A(n)) + 1 ELSE Cardinality(A(n))
  BY <1>3, <1>4
<1> QED BY <1>1, <1>2, <1>5, <1>6 DEF A, is, Count

-----------------------------------------------------------------------------
(* Whatever is cached, the result is that of the reference but for its hits: *)
(* all analyzed files when all their keys are cached, none without a cache.  *)
Cached(files, stages, D) ==
  \A i \in Analyzed(files, stages, Len(files)) : KeyOf(files[i]) \in D
Hits(hits, count, all, none) ==
  /\ hits \in Nat /\ hits <= count
  /\ all => hits = count
  /\ none => hits = 0
Agrees(r, ref, files, stages, n, all, none) ==
  /\ r \in ResultSet(files, stages) /\ [r EXCEPT !.hits = 0] = ref[n]
  /\ Hits(r.hits, Count(files, stages, n), all, none)

LEMMA NextAgrees ==
  ASSUME NEW T, NEW files \in Seq(T), NEW stages, Counted(files), NEW ref,
         Reference(ref, files, stages), NEW n \in 1..Len(files), NEW D, NEW r, NEW all, NEW none,
         Agrees(r, ref, files, stages, n - 1, all, none),
         all => Cached(files, stages, D), none => D = {}
  PROVE Agrees(Collect(r, Process(files[n], stages, CacheOf(D))), ref, files, stages, n,
               all, none)
<1> DEFINE p == Process(files[n], stages, CacheOf(D))  b == Fresh(files[n], stages)
           F == FileSet(files, stages)  P == PathSet(files)
           count == Count(files, stages, n - 1)
           is == b.file.analysis # <<>>
<1>1. n \in DOMAIN files /\ n - 1 \in Nat /\ (n - 1) + 1 = n
  OBVIOUS
<1>2. /\ p.file = b.file /\ p.secrets = b.secrets /\ p.patterns = b.patterns
      /\ p.hit = (is /\ KeyOf(files[n]) \in D) /\ ~b.hit
  <2>1. SameItem(p, b, files[n], D) /\ IsFresh(b, files[n], stages)
    BY ProcessIs
  <2> QED BY <2>1 DEF SameItem, IsFresh
<1>3. IsItem(b, F, P)
  BY <1>1, FreshIsItem
<1>4. IsItem(p, F, P)
  BY <1>2, <1>3 DEF IsItem, Budgeted
<1>5. /\ r \in Results(F, P) /\ [r EXCEPT !.hits = 0] = ref[n - 1]
      /\ Hits(r.hits, count, all, none)
  BY DEF Agrees, ResultSet
<1>6. ref[n] = Collect(ref[n - 1], b)
  BY DEF Reference
<1>7. /\ count \in Nat
      /\ Count(files, stages, n) = IF is THEN count + 1 ELSE count
  <2> DEFINE k == n - 1
  <2>1. k \in Nat /\ k + 1 = n
    BY <1>1
  <2> HIDE DEF k
  <2>2. /\ Count(files, stages, k) \in Nat
        /\ Count(files, stages, k + 1) =
             IF Fresh(files[k + 1], stages).file.analysis # <<>>
             THEN Count(files, stages, k) + 1 ELSE Count(files, stages, k)
    BY <2>1, CountIs
  <2> QED BY <2>1, <2>2 DEF k
<1>8. all /\ is => KeyOf(files[n]) \in D
  <2>1. is => n \in Analyzed(files, stages, Len(files))
    BY DEF Analyzed
  <2> QED BY <2>1 DEF Cached
<1> HIDE DEF p, b, F, P, count, is
<1>9. [Collect(r, p) EXCEPT !.hits = 0] = ref[n]
  BY <1>2, <1>3, <1>5, <1>6, SameCollected
<1>10. /\ Collect(r, p) \in Results(F, P)
       /\ Collect(r, p).hits = IF p.hit THEN r.hits + 1 ELSE r.hits
  BY <1>4, <1>5, CollectIs
<1>11. Hits(Collect(r, p).hits, Count(files, stages, n), all, none)
  <2>1. p.hit <=> is /\ KeyOf(files[n]) \in D
    BY <1>2 DEF is
  <2>2. /\ r.hits \in Nat /\ r.hits <= count /\ (all => r.hits = count) /\ (none => r.hits = 0)
    BY <1>5 DEF Hits
  <2>3. none => ~p.hit
    BY <2>1
  <2>4. all => (p.hit <=> is)
    BY <1>8, <2>1
  <2>5. p.hit => is
    BY <2>1
  <2> DEFINE h == Collect(r, p).hits  c == Count(files, stages, n)
  <2>6. /\ (p.hit => h = r.hits + 1) /\ (~p.hit => h = r.hits)
        /\ (is => c = count + 1) /\ (~is => c = count)
    BY <1>7, <1>10
  <2> HIDE DEF h, c
  <2>7. h \in Nat /\ h <= c
    BY <1>7, <2>2, <2>5, <2>6
  <2>8. all => h = c
    BY <2>2, <2>4, <2>6
  <2>9. none => h = 0
    BY <2>2, <2>3, <2>6
  <2> QED BY <2>7, <2>8, <2>9 DEF Hits, h, c
<1> QED BY <1>9, <1>10, <1>11 DEF Agrees, ResultSet, F, P, p

(* Collect, one result after the other. *)
Collecting(steps, F, P, m, items, r) ==
  /\ steps \in [0..m -> Results(F, P)]
  /\ steps[0] = r /\ steps[m] = FoldLeft(Collect, r, items)
  /\ \A k \in 1..m : steps[k] = Collect(steps[k - 1], items[k])

LEMMA CollectSteps ==
  ASSUME NEW F, NEW P, NEW m \in Nat, NEW items, DOMAIN items = 1..m,
         \A i \in 1..m : IsItem(items[i], F, P), NEW r \in Results(F, P)
  PROVE \E steps : Collecting(steps, F, P, m, items, r)
<1> DEFINE V == Results(F, P)
           step == [p \in V \X (1..m) |-> Collect(p[1], items[p[2]])]
           Pass(f) == f = [s \in SUBSET DOMAIN items |->
                             IF s = {} THEN r ELSE Collect(f[s \ {Max(s)}], items[Max(s)])]
           fold == CHOOSE f : Pass(f)
           steps == [k \in 0..m |-> fold[1..k]]
<1>1. \A v \in V, i \in 1..m : Collect(v, items[i]) \in V
  BY CollectIs
<1>2. r \in V
  OBVIOUS
<1> HIDE DEF V
<1>3. step \in [V \X (1..m) -> V]
  BY <1>1
<1>4. \A v \in V, k \in 1..m : step[v, k] = Collect(v, items[k])
  OBVIOUS
<1> HIDE DEF step
<1>5. PICK f \in [SUBSET (1..m) -> V] : IsFold(f, m, r, step)
  BY <1>2, <1>3, FoldExists
<1>6. Pass(f)
  <2>1. ASSUME NEW s \in SUBSET (1..m), s # {}
        PROVE step[f[s \ {Max(s)}], Max(s)] = Collect(f[s \ {Max(s)}], items[Max(s)])
    <3>1. f[s \ {Max(s)}] \in V /\ Max(s) \in 1..m
      BY <1>5, <2>1, MaxIs
    <3> QED BY <1>4, <3>1
  <2> DEFINE One(s) == IF s = {} THEN r ELSE step[f[s \ {Max(s)}], Max(s)]
             Two(s) == IF s = {} THEN r ELSE Collect(f[s \ {Max(s)}], items[Max(s)])
  <2>2. \A s \in SUBSET (1..m) : One(s) = Two(s)
    BY <2>1
  <2>3. f = [s \in SUBSET (1..m) |-> One(s)]
    BY <1>5 DEF IsFold
  <2> HIDE DEF One, Two
  <2>4. f = [s \in SUBSET (1..m) |-> Two(s)]
    BY <2>2, <2>3
  <2> QED BY <2>4 DEF Two
<1>7. Pass(fold)
  <2> HIDE DEF Pass
  <2> QED BY <1>6
<1> HIDE DEF fold
<1>8. FoldLeft(Collect, r, items) = fold[1..m]
  BY DEF FoldLeft, MapThenFoldSet, fold
<1>9. 1..0 = {} /\ fold[{}] = r /\ 0 \in 0..m /\ m \in 0..m
  BY <1>7, SMT
<1>10. ASSUME NEW k \in 1..m PROVE steps[k] = Collect(steps[k - 1], items[k])
  <2>1. k \in Nat /\ k # 0 /\ 1..k \in SUBSET (1..m) /\ k \in 0..m /\ k - 1 \in 0..m
    BY SMT
  <2>2. Max(1..k) = k /\ (1..k) \ {k} = 1..(k - 1) /\ 1..k # {}
    BY <2>1, MaxOfInterval
  <2>3. fold[1..k] = Collect(fold[1..(k - 1)], items[k])
    BY <1>7, <2>1, <2>2
  <2> QED BY <2>1, <2>3
<1>11. steps[0] = r /\ steps[m] = FoldLeft(Collect, r, items)
  BY <1>8, <1>9
<1>12. steps \in [0..m -> V]
  <2> HIDE DEF steps, Pass
  <2> DEFINE S == {k \in Nat : k <= m => steps[k] \in V}
  <2>1. 0 \in S
    BY <1>2, <1>11
  <2>2. ASSUME NEW k \in Nat, k \in S PROVE k + 1 \in S
    <3>1. k + 1 \in Nat /\ (k + 1 <= m => k <= m /\ k + 1 \in 1..m /\ (k + 1) - 1 = k)
      BY SMT
    <3>2. k + 1 <= m => steps[k + 1] = Collect(steps[k], items[k + 1])
      BY <1>10, <3>1
    <3> QED BY <1>1, <2>2, <3>1, <3>2
  <2>3. Nat \subseteq S
    <3> HIDE DEF S
    <3> QED BY <2>1, <2>2, SetInduction
  <2>4. \A k \in 0..m : k \in Nat /\ k <= m
    BY SMT
  <2>5. \A k \in 0..m : steps[k] \in V
    BY <2>3, <2>4
  <2>6. steps = [k \in 0..m |-> steps[k]]
    BY DEF steps
  <2> QED BY <2>5, <2>6
<1> HIDE DEF steps, Pass
<1>13. Collecting(steps, F, P, m, items, r)
  BY <1>10, <1>11, <1>12 DEF V, Collecting
<1> QED BY <1>13

LEMMA ItemsAre ==
  ASSUME NEW files, NEW stages, Counted(files), NEW D, NEW i \in DOMAIN files
  PROVE IsItem(Process(files[i], stages, CacheOf(D)), FileSet(files, stages), PathSet(files))
<1>1. IsItem(Fresh(files[i], stages), FileSet(files, stages), PathSet(files))
  BY FreshIsItem
<1>2. SameItem(Process(files[i], stages, CacheOf(D)), Fresh(files[i], stages), files[i], D)
  BY ProcessIs
<1> QED BY <1>1, <1>2 DEF SameItem, IsItem, Budgeted

ItemsOf(files, stages, a, m, D) ==
  [i \in 1..m |-> Process(files[a + i], stages, CacheOf(D))]

LEMMA ChunkAgrees ==
  ASSUME NEW T, NEW files \in Seq(T), NEW stages, Counted(files), NEW ref,
         Reference(ref, files, stages), NEW a \in Nat, NEW m \in Nat, a + m <= Len(files), NEW D,
         NEW r, NEW all, NEW none, Agrees(r, ref, files, stages, a, all, none),
         all => Cached(files, stages, D), none => D = {}
  PROVE Agrees(FoldLeft(Collect, r, ItemsOf(files, stages, a, m, D)), ref, files, stages, a + m,
               all, none)
<1> DEFINE items == ItemsOf(files, stages, a, m, D)
           F == FileSet(files, stages)  P == PathSet(files)
           Is(v, n) == Agrees(v, ref, files, stages, n, all, none)
<1>1. /\ DOMAIN items = 1..m /\ \A i \in 1..m : a + i \in 1..Len(files)
      /\ \A i \in 1..m : items[i] = Process(files[a + i], stages, CacheOf(D))
  <2>1. \A i \in 1..m : a + i \in 1..Len(files)
    OBVIOUS
  <2> QED BY <2>1 DEF ItemsOf
<1> HIDE DEF items
<1>2. ASSUME NEW i \in 1..m PROVE IsItem(items[i], F, P)
  <2>1. a + i \in DOMAIN files /\ items[i] = Process(files[a + i], stages, CacheOf(D))
    BY <1>1
  <2>2. IsItem(Process(files[a + i], stages, CacheOf(D)), F, P)
    BY <2>1, ItemsAre
  <2> QED BY <2>1, <2>2
<1>3. r \in Results(F, P)
  BY DEF Agrees, ResultSet
<1> HIDE DEF F, P
<1>4. PICK steps :
        /\ steps[0] = r /\ steps[m] = FoldLeft(Collect, r, items)
        /\ \A k \in 1..m : steps[k] = Collect(steps[k - 1], items[k])
  <2>1. DOMAIN items = 1..m
    BY <1>1
  <2>2. \E steps : Collecting(steps, F, P, m, items, r)
    BY <1>2, <1>3, <2>1, CollectSteps
  <2> QED BY <2>2 DEF Collecting
<1> DEFINE S == {k \in Nat : k <= m => Is(steps[k], a + k)}
<1>5. 0 \in S
  <2>1. a + 0 = a
    BY SMT
  <2> QED BY <1>4, <2>1
<1>6. ASSUME NEW k \in Nat, k \in S, k + 1 <= m PROVE Is(steps[k + 1], a + (k + 1))
  <2>1. k <= m /\ k + 1 \in 1..m /\ (k + 1) - 1 = k /\ (a + (k + 1)) - 1 = a + k
    BY <1>6, SMT
  <2>2. steps[k + 1] = Collect(steps[k], items[k + 1])
    BY <1>4, <2>1
  <2>3. a + (k + 1) \in 1..Len(files) /\ Is(steps[k], (a + (k + 1)) - 1)
    BY <1>1, <1>6, <2>1
  <2>4. items[k + 1] = Process(files[a + (k + 1)], stages, CacheOf(D))
    BY <1>1, <2>1
  <2> DEFINE n == a + (k + 1)  before == steps[k]
  <2>5. n \in 1..Len(files) /\ Agrees(before, ref, files, stages, n - 1, all, none)
    BY <2>3
  <2> HIDE DEF n, before
  <2>6. Agrees(Collect(before, Process(files[n], stages, CacheOf(D))), ref, files,
               stages, n, all, none)
    BY <2>5, NextAgrees
  <2> QED BY <2>2, <2>4, <2>6 DEF n, before
<1>7. ASSUME NEW k \in Nat, k \in S PROVE k + 1 \in S
  <2> HIDE DEF Is
  <2>1. k + 1 \in Nat
    OBVIOUS
  <2> QED BY <1>6, <1>7, <2>1
<1>8. m \in S
  <2> HIDE DEF S
  <2> QED BY <1>5, <1>7, SetInduction
<1>9. m <= m
  BY SMT
<1>10. Is(steps[m], a + m)
  BY <1>8, <1>9
<1> QED BY <1>4, <1>10 DEF items

(* What a chunk had to compute is put into the cache. *)
KeysIn(files, stages, a, m) ==
  {KeyOf(files[j]) : j \in {i \in (a + 1)..(a + m) : Fresh(files[i], stages).file.analysis # <<>>}}

LEMMA PutIs ==
  ASSUME NEW files, NEW stages, NEW a \in Nat, NEW m \in Nat, NEW D
  PROVE Put(CacheOf(D), ItemsOf(files, stages, a, m, D)) =
          CacheOf(D \cup KeysIn(files, stages, a, m))
<1> DEFINE items == ItemsOf(files, stages, a, m, D)
           Fresher(i) == Fresh(files[a + i], stages)
           is(i) == Fresher(i).file.analysis # <<>>
           key(i) == KeyOf(files[a + i])
           misses == {i \in DOMAIN items : items[i].key # <<>>}
           keys == {items[i].key[1] : i \in misses}
           Of(k) == items[CHOOSE i \in misses : items[i].key[1] = k].file.analysis[1]
           Value(k) == [of |-> k[1], language |-> k[2]]
<1>1. DOMAIN items = 1..m
  BY DEF ItemsOf
<1>2. ASSUME NEW i \in 1..m
      PROVE /\ items[i].key = IF is(i) /\ key(i) \notin D THEN <<key(i)>> ELSE <<>>
            /\ is(i) => items[i].file.analysis = <<Value(key(i))>>
  <2>1. items[i] = Process(files[a + i], stages, CacheOf(D))
    BY DEF ItemsOf
  <2>2. /\ items[i].file = Fresher(i).file
        /\ items[i].key = IF is(i) /\ key(i) \notin D THEN <<key(i)>> ELSE <<>>
        /\ is(i) => /\ Fresher(i).file.analysis =
                         <<Analyze(files[a + i].content, Fresher(i).file.language)>>
                    /\ Fresher(i).file.language = key(i)[2]
    <3>1. /\ SameItem(items[i], Fresher(i), files[a + i], D)
          /\ IsFresh(Fresher(i), files[a + i], stages)
      BY <2>1, ProcessIs
    <3> HIDE DEF Fresher
    <3> QED BY <3>1 DEF SameItem, IsFresh
  <2>3. key(i)[1] = files[a + i].content.id
    BY DEF KeyOf
  <2> QED BY <2>2, <2>3 DEF Analyze
<1> HIDE DEF is, key, Fresher, Value
<1>3. misses = {i \in 1..m : is(i) /\ key(i) \notin D}
  <2>1. \A x : <<x>> # <<>>
    OBVIOUS
  <2> QED BY <1>1, <1>2, <2>1
<1>4. ASSUME NEW i \in misses
      PROVE items[i].key[1] = key(i) /\ items[i].file.analysis[1] = Value(key(i))
  <2>1. i \in 1..m /\ is(i) /\ key(i) \notin D
    BY <1>3
  <2>2. items[i].key = <<key(i)>> /\ items[i].file.analysis = <<Value(key(i))>>
    BY <1>2, <2>1
  <2> QED BY <2>2
<1> HIDE DEF misses
<1>5. ASSUME NEW k \in keys PROVE Of(k) = Value(k)
  <2>1. \E i \in misses : items[i].key[1] = k
    OBVIOUS
  <2>2. PICK i \in misses : i = CHOOSE j \in misses : items[j].key[1] = k
    BY <2>1
  <2>3. items[i].key[1] = k
    BY <2>1, <2>2
  <2> QED BY <1>4, <2>2, <2>3
<1>6. D \cup keys = D \cup KeysIn(files, stages, a, m)
  <2>1. keys = {key(i) : i \in misses}
    BY <1>4
  <2>2. \A i : i \in (a + 1)..(a + m) <=> \E j \in 1..m : i = a + j
    <3>1. \A i \in (a + 1)..(a + m) : i - a \in 1..m /\ i = a + (i - a)
      OBVIOUS
    <3> QED BY <3>1
  <2>3. KeysIn(files, stages, a, m) = {key(j) : j \in {i \in 1..m : is(i)}}
    BY <2>2 DEF KeysIn, key, is, Fresher
  <2> QED BY <1>3, <2>1, <2>3
<1> DEFINE E == D \cup keys
<1>7. Put(CacheOf(D), items) = [k \in E |-> IF k \in keys THEN Of(k) ELSE CacheOf(D)[k]]
  BY DEF Put, CacheOf, misses
<1> HIDE DEF keys, Of
<1>8. \A k \in E : (IF k \in keys THEN Of(k) ELSE CacheOf(D)[k]) = Value(k)
  <2>1. \A k \in D : CacheOf(D)[k] = Value(k)
    BY DEF CacheOf, Value
  <2> QED BY <1>5, <2>1
<1> HIDE DEF E
<1>9. Put(CacheOf(D), items) = [k \in E |-> Value(k)]
  BY <1>7, <1>8
<1> QED BY <1>6, <1>9 DEF CacheOf, Value, E

-----------------------------------------------------------------------------
(* The chunks cover the files one after the other. *)
LEMMA ProductsGrow ==
  ASSUME NEW K \in Nat \ {0}, NEW p \in Int, NEW q \in Int, p <= q
  PROVE p * K <= q * K /\ (p < q => p * K + K <= q * K) /\ p * K \in Int /\ q * K \in Int
<1> DEFINE d == q - p
<1>1. d \in Nat /\ q = p + d
  OBVIOUS
<1> HIDE DEF d
<1>2. d * K \in Nat /\ (d # 0 => K <= d * K)
  <2> DEFINE S == {x \in Nat : x * K \in Nat /\ (x # 0 => K <= x * K)}
  <2>1. 0 \in S
    OBVIOUS
  <2>2. \A x \in Nat : x \in S => x + 1 \in S
    <3>1. \A x \in Nat : (x + 1) * K = x * K + K
      BY SMT
    <3> QED BY <3>1
  <2> HIDE DEF S
  <2>3. Nat \subseteq S
    BY <2>1, <2>2, SetInduction
  <2> QED BY <1>1, <2>3 DEF S
<1>3. q * K = p * K + d * K
  BY <1>1
<1>4. p * K \in Int /\ q * K \in Int
  OBVIOUS
<1>5. p < q => d # 0
  BY <1>1
<1> QED BY <1>2, <1>3, <1>4, <1>5

LEMMA QuotientIs ==
  ASSUME NEW K \in Nat \ {0}, NEW x \in Nat, NEW q \in Nat
  PROVE /\ x \div K \in Nat /\ (x \div K) * K <= x /\ x < (x \div K) * K + K
        /\ (x \div K = q <=> q * K <= x /\ x < q * K + K)
<1> DEFINE y == x \div K
<1>1. y \in Int /\ y * K <= x /\ x < y * K + K
  BY SMT
<1> HIDE DEF y
<1>2. y >= 0
  <2> SUFFICES ASSUME y < 0 PROVE FALSE
    BY <1>1
  <2>1. y * K + K <= 0 * K
    BY <1>1, ProductsGrow
  <2> QED BY <1>1, <2>1
<1>3. ASSUME q * K <= x, x < q * K + K PROVE y = q
  <2>1. y < q => y * K + K <= q * K
    BY <1>1, ProductsGrow
  <2>2. q < y => q * K + K <= y * K
    BY <1>1, ProductsGrow
  <2>3. y * K \in Int /\ q * K \in Int
    BY <1>1
  <2> QED BY <1>1, <1>3, <2>1, <2>2, <2>3
<1>4. y = q => q * K <= x /\ x < q * K + K
  BY <1>1
<1> QED BY <1>1, <1>2, <1>3, <1>4 DEF y

End(c, l) == IF c * Chunk <= l THEN c * Chunk ELSE l
Chunks(l) == (l + Chunk - 1) \div Chunk

LEMMA ChunksAre ==
  ASSUME Chunk \in Nat \ {0}, NEW l \in Nat
  PROVE /\ Chunks(l) \in Nat /\ End(0, l) = 0 /\ End(Chunks(l), l) = l
        /\ \A c \in 1..Chunks(l) :
             /\ End(c - 1, l) = (c - 1) * Chunk /\ End(c - 1, l) \in Nat
             /\ End(c, l) \in Nat /\ End(c - 1, l) < End(c, l) /\ End(c, l) <= l
             /\ {i \in 1..l : (i - 1) \div Chunk = c - 1} = (End(c - 1, l) + 1)..End(c, l)
<1> DEFINE n == Chunks(l)
<1>1. l + Chunk - 1 \in Nat /\ Chunk \in Nat /\ 0 \in Nat
  OBVIOUS
<1>2. n \in Nat /\ n * Chunk <= l + Chunk - 1 /\ l + Chunk - 1 < n * Chunk + Chunk
  BY <1>1, QuotientIs DEF Chunks
<1> HIDE DEF n
<1>3. n * Chunk \in Int /\ l <= n * Chunk
  BY <1>1, <1>2
<1>4. End(0, l) = 0
  <2>1. 0 * Chunk = 0
    BY <1>1
  <2> QED BY <2>1 DEF End
<1>5. End(n, l) = l
  BY <1>2, <1>3 DEF End
<1>6. ASSUME NEW c \in 1..n
      PROVE /\ End(c - 1, l) = (c - 1) * Chunk /\ End(c - 1, l) \in Nat
            /\ End(c, l) \in Nat /\ End(c - 1, l) < End(c, l) /\ End(c, l) <= l
            /\ {i \in 1..l : (i - 1) \div Chunk = c - 1} = (End(c - 1, l) + 1)..End(c, l)
  <2> DEFINE a == (c - 1) * Chunk
  <2>1. c - 1 \in Nat /\ c \in Nat /\ c - 1 < n /\ 0 <= c - 1
    BY <1>2
  <2>2. a \in Int /\ c * Chunk = a + Chunk
    BY <1>1, <2>1
  <2>3. a + Chunk <= n * Chunk
    BY <1>2, <2>1, ProductsGrow
  <2>4. 0 * Chunk <= a /\ 0 * Chunk = 0
    BY <1>1, <2>1, ProductsGrow
  <2> HIDE DEF a
  <2>5. a \in Nat /\ a < l
    BY <1>1, <1>2, <1>3, <2>2, <2>3, <2>4
  <2>6. End(c - 1, l) = a
    BY <2>5 DEF End, a
  <2>7. End(c, l) = IF a + Chunk <= l THEN a + Chunk ELSE l
    BY <2>2 DEF End
  <2>8. End(c, l) \in Nat /\ a < End(c, l) /\ End(c, l) <= l
    BY <1>1, <2>5, <2>7
  <2>9. ASSUME NEW i \in 1..l
        PROVE (i - 1) \div Chunk = c - 1 <=> i \in (a + 1)..End(c, l)
    <3>1. i - 1 \in Nat
      OBVIOUS
    <3>2. (i - 1) \div Chunk = c - 1 <=> a <= i - 1 /\ i - 1 < a + Chunk
      BY <2>1, <3>1, QuotientIs DEF a
    <3> QED BY <1>1, <2>5, <2>7, <3>2
  <2>10. (a + 1)..End(c, l) \subseteq 1..l
    BY <2>5, <2>8
  <2>11. {i \in 1..l : (i - 1) \div Chunk = c - 1} = (a + 1)..End(c, l)
    BY <2>9, <2>10
  <2> QED BY <2>5, <2>6, <2>8, <2>11 DEF a
<1> QED BY <1>2, <1>4, <1>5, <1>6 DEF n

(* One chunk after another. *)
NextChunk(before, c, files, stages, cached, caching, cancelAt) ==
  LET items == [i \in 1..Cardinality({i \in DOMAIN files : (i - 1) \div Chunk = c - 1}) |->
                  Process(files[(c - 1) * Chunk + i], stages, before.cache)]
  IN IF ~before.done \/ cancelAt = c THEN [before EXCEPT !.done = FALSE]
     ELSE [result |-> FoldLeft(Collect, before.result, items),
           cache |-> IF caching THEN Put(before.cache, items) ELSE cached,
           done |-> TRUE]
State(r, X, done) == [result |-> r, cache |-> CacheOf(X), done |-> done]
Width(c, l) == End(c, l) - End(c - 1, l)

IsNext(next, r, X, done, c, files, stages, D, caching, cancelAt) ==
  LET a == End(c - 1, Len(files))  m == Width(c, Len(files)) IN
  /\ (~done \/ cancelAt = c) => next = State(r, X, FALSE)
  /\ (done /\ cancelAt # c) =>
       next = State(FoldLeft(Collect, r, ItemsOf(files, stages, a, m, X)),
                    IF caching THEN X \cup KeysIn(files, stages, a, m) ELSE D, TRUE)

LEMMA NextChunkIs ==
  ASSUME NEW T, NEW files \in Seq(T), NEW stages, Chunk \in Nat \ {0},
         NEW c \in 1..Chunks(Len(files)), NEW r, NEW X, NEW D, NEW done \in BOOLEAN,
         NEW caching \in BOOLEAN, NEW cancelAt
  PROVE IsNext(NextChunk(State(r, X, done), c, files, stages, CacheOf(D), caching, cancelAt),
               r, X, done, c, files, stages, D, caching, cancelAt)
<1> DEFINE l == Len(files)  a == End(c - 1, l)  m == Width(c, l)
           items == ItemsOf(files, stages, a, m, X)
           before == State(r, X, done)
           next == NextChunk(before, c, files, stages, CacheOf(D), caching, cancelAt)
           chunk == {i \in DOMAIN files : (i - 1) \div Chunk = c - 1}
<1>1. l \in Nat /\ DOMAIN files = 1..l
  OBVIOUS
<1>2. /\ a = (c - 1) * Chunk /\ a \in Nat /\ End(c, l) \in Nat /\ a < End(c, l)
      /\ {i \in 1..l : (i - 1) \div Chunk = c - 1} = (a + 1)..End(c, l)
  BY <1>1, ChunksAre
<1>3. m \in Nat /\ a + m = End(c, l)
  BY <1>2, SMTT(30) DEF Width
<1> HIDE DEF a, m
<1>4. Cardinality(chunk) = m
  <2>1. chunk = (a + 1)..(a + m)
    BY <1>1, <1>2, <1>3
  <2>2. a + 1 \in Int /\ a + m \in Int
    BY <1>2, <1>3
  <2>3. Cardinality((a + 1)..(a + m)) = IF a + 1 > a + m THEN 0 ELSE (a + m) - (a + 1) + 1
    BY <2>2, FS_Interval
  <2>4. a + 1 <= a + m /\ (a + m) - (a + 1) + 1 = m
    BY <1>2, <1>3
  <2> HIDE DEF chunk
  <2>5. ~(a + 1 > a + m)
    BY <2>2, <2>4
  <2> QED BY <2>1, <2>3, <2>4, <2>5
<1>5. before.done = done /\ before.result = r /\ before.cache = CacheOf(X)
  BY DEF State
<1>6. ASSUME ~done \/ cancelAt = c PROVE next = State(r, X, FALSE)
  <2>1. next = [before EXCEPT !.done = FALSE]
    BY <1>5, <1>6 DEF NextChunk
  <2> QED BY <2>1 DEF State
<1>7. ASSUME done, cancelAt # c
      PROVE next = State(FoldLeft(Collect, r, items),
                         IF caching THEN X \cup KeysIn(files, stages, a, m) ELSE D, TRUE)
  <2> HIDE DEF before, chunk
  <2>1. items = [i \in 1..Cardinality(chunk) |->
                   Process(files[(c - 1) * Chunk + i], stages, before.cache)]
    BY <1>2, <1>4, <1>5 DEF ItemsOf
  <2>2. next = [result |-> FoldLeft(Collect, r, items),
                cache |-> IF caching THEN Put(CacheOf(X), items) ELSE CacheOf(D),
                done |-> TRUE]
    <3> HIDE DEF items
    <3> QED BY <1>5, <1>7, <2>1 DEF NextChunk, chunk
  <2>3. Put(CacheOf(X), items) = CacheOf(X \cup KeysIn(files, stages, a, m))
    <3>1. a \in Nat /\ m \in Nat
      BY <1>2, <1>3
    <3> QED BY <3>1, PutIs
  <2> HIDE DEF items, next
  <2>4. CASE caching
    BY <2>2, <2>3, <2>4 DEF State
  <2>5. CASE ~caching
    BY <2>2, <2>5 DEF State
  <2> QED BY <2>4, <2>5
<1> QED BY <1>6, <1>7 DEF a, m, IsNext

(* The states of a pass, before the first chunk and after each. *)
ScanStates(files, stages, U) ==
  {State(r, X, done) : r \in ResultSet(files, stages), X \in SUBSET U, done \in BOOLEAN}
Scanning(states, files, stages, D, caching, cancelAt) ==
  /\ states[0] = State(NoFiles, D, TRUE)
  /\ states[Chunks(Len(files))] =
       ScanFiles(files, stages, CacheOf(D), caching, cancelAt)
  /\ \A c \in 1..Chunks(Len(files)) :
       states[c] = NextChunk(states[c - 1], c, files, stages, CacheOf(D), caching, cancelAt)

LEMMA ScanSteps ==
  ASSUME NEW T, NEW files \in Seq(T), NEW stages, Counted(files), Chunk \in Nat \ {0},
         NEW D, NEW caching \in BOOLEAN, NEW cancelAt
  PROVE \E states : Scanning(states, files, stages, D, caching, cancelAt)
<1> DEFINE l == Len(files)  n == Chunks(l)
           U == D \cup KeysIn(files, stages, 0, l)
           V == ScanStates(files, stages, U)
           Next(before, c) == NextChunk(before, c, files, stages, CacheOf(D), caching, cancelAt)
           chunks == [c \in 1..n |-> c]
           first == State(NoFiles, D, TRUE)
           step == [p \in V \X (1..n) |-> Next(p[1], p[2])]
           Pass(f) == f = [s \in SUBSET DOMAIN chunks |->
                             IF s = {} THEN first ELSE Next(f[s \ {Max(s)}], chunks[Max(s)])]
           fold == CHOOSE f : Pass(f)
           states == [k \in 0..n |-> fold[1..k]]
<1>0. ASSUME NEW r \in ResultSet(files, stages), NEW X \in SUBSET U, NEW done \in BOOLEAN
      PROVE State(r, X, done) \in V
  BY DEF ScanStates
<1>1. l \in Nat /\ n \in Nat /\ DOMAIN chunks = 1..n /\ \A c \in 1..n : chunks[c] = c
  <2>1. l \in Nat
    OBVIOUS
  <2> QED BY <2>1, ChunksAre
<1>2. ASSUME NEW before \in V, NEW c \in 1..n PROVE Next(before, c) \in V
  <2>1. PICK r \in ResultSet(files, stages), X \in SUBSET U, done \in BOOLEAN :
          before = State(r, X, done)
    BY DEF ScanStates
  <2> DEFINE a == End(c - 1, l)  m == Width(c, l)  items == ItemsOf(files, stages, a, m, X)
             more == IF caching THEN X \cup KeysIn(files, stages, a, m) ELSE D
             result == FoldLeft(Collect, r, items)
  <2>2. a \in Nat /\ End(c, l) \in Nat /\ a < End(c, l) /\ End(c, l) <= l
    BY <1>1, ChunksAre
  <2>3. m \in Nat /\ a + m <= l
    BY <1>1, <2>2 DEF Width
  <2> HIDE DEF a, m
  <2>4. \A i \in 1..m : a + i \in DOMAIN files
    BY <1>1, <2>2, <2>3
  <2>5. result \in ResultSet(files, stages)
    <3> DEFINE F == FileSet(files, stages)  P == PathSet(files)
    <3>1. DOMAIN items = 1..m
      BY DEF ItemsOf
    <3>2. \A i \in 1..m : IsItem(items[i], F, P)
      BY <2>4, ItemsAre DEF ItemsOf
    <3>3. r \in Results(F, P)
      BY DEF ResultSet
    <3> HIDE DEF F, P, items
    <3>4. PICK steps : Collecting(steps, F, P, m, items, r)
      BY <2>3, <3>1, <3>2, <3>3, CollectSteps
    <3>5. m \in 0..m
      BY <2>3
    <3>6. result \in Results(F, P)
      BY <3>4, <3>5 DEF Collecting
    <3> QED BY <3>6 DEF ResultSet, F, P
  <2>6. more \in SUBSET U
    <3>1. (a + 1)..(a + m) \subseteq (0 + 1)..(0 + l)
      BY <1>1, <2>2, <2>3
    <3>2. KeysIn(files, stages, a, m) \subseteq KeysIn(files, stages, 0, l)
      BY <3>1 DEF KeysIn
    <3> QED BY <3>2
  <2>7. Next(before, c) \in {State(r, X, FALSE), State(result, more, TRUE)}
    <3>1. IsNext(Next(before, c), r, X, done, c, files, stages, D, caching, cancelAt)
      BY <2>1, NextChunkIs
    <3> HIDE DEF Next
    <3>2. /\ (~done \/ cancelAt = c) => Next(before, c) = State(r, X, FALSE)
          /\ (done /\ cancelAt # c) => Next(before, c) = State(result, more, TRUE)
      BY <3>1 DEF IsNext, a, m
    <3> QED BY <3>2
  <2> HIDE DEF more, result, Next
  <2>8. State(r, X, FALSE) \in V /\ State(result, more, TRUE) \in V
    BY <1>0, <2>5, <2>6
  <2> QED BY <2>7, <2>8
<1>3. first \in V
  <2>1. NoFiles \in ResultSet(files, stages) /\ D \in SUBSET U
    BY NoFilesIsResult DEF ResultSet
  <2> HIDE DEF V
  <2> QED BY <1>0, <2>1
<1> HIDE DEF V, Next, n
<1>4. step \in [V \X (1..n) -> V]
  BY <1>2
<1>5. \A v \in V, k \in 1..n : step[v, k] = Next(v, k)
  OBVIOUS
<1> HIDE DEF step
<1>6. PICK f \in [SUBSET (1..n) -> V] : IsFold(f, n, first, step)
  BY <1>1, <1>3, <1>4, FoldExists
<1>7. Pass(f)
  <2>1. ASSUME NEW s \in SUBSET (1..n), s # {}
        PROVE step[f[s \ {Max(s)}], Max(s)] = Next(f[s \ {Max(s)}], chunks[Max(s)])
    <3>1. f[s \ {Max(s)}] \in V /\ Max(s) \in 1..n
      BY <1>1, <1>6, <2>1, MaxIs
    <3> QED BY <1>1, <1>5, <3>1
  <2> DEFINE One(s) == IF s = {} THEN first ELSE step[f[s \ {Max(s)}], Max(s)]
             Two(s) == IF s = {} THEN first ELSE Next(f[s \ {Max(s)}], chunks[Max(s)])
  <2>2. \A s \in SUBSET (1..n) : One(s) = Two(s)
    BY <2>1
  <2>3. f = [s \in SUBSET (1..n) |-> One(s)]
    BY <1>6 DEF IsFold
  <2> HIDE DEF One, Two
  <2>4. f = [s \in SUBSET (1..n) |-> Two(s)]
    BY <2>2, <2>3
  <2> QED BY <1>1, <2>4 DEF Two
<1>8. Pass(fold)
  <2> HIDE DEF Pass
  <2> QED BY <1>7
<1>9. ScanFiles(files, stages, CacheOf(D), caching, cancelAt) = fold[DOMAIN chunks]
  BY DEF ScanFiles, FoldLeft, MapThenFoldSet, fold, Next, NextChunk, State, n, Chunks
<1> HIDE DEF fold
<1>10. 1..0 = {} /\ fold[{}] = first /\ 0 \in 0..n /\ n \in 0..n
  BY <1>1, <1>8, SMT
<1>11. ASSUME NEW k \in 1..n PROVE states[k] = Next(states[k - 1], k)
  <2>1. k \in Nat /\ k # 0 /\ 1..k \in SUBSET (1..n) /\ k \in 0..n /\ k - 1 \in 0..n
    BY <1>1, SMT
  <2>2. Max(1..k) = k /\ (1..k) \ {k} = 1..(k - 1) /\ 1..k # {}
    BY <2>1, MaxOfInterval
  <2>3. fold[1..k] = Next(fold[1..(k - 1)], chunks[k])
    <3>1. DOMAIN chunks = 1..n
      BY <1>1
    <3> HIDE DEF chunks, first
    <3> QED BY <1>8, <2>1, <2>2, <3>1
  <2> QED BY <1>1, <2>1, <2>3
<1>12. states[0] = first /\ states[n] = ScanFiles(files, stages, CacheOf(D), caching, cancelAt)
  BY <1>1, <1>9, <1>10
<1> HIDE DEF states, Pass
<1>13. Scanning(states, files, stages, D, caching, cancelAt)
  BY <1>11, <1>12 DEF Scanning, Next, n
<1> QED BY <1>13

(* How far a pass comes, and what it has made of the files until there. *)
Reached(l, cancelAt) == End(IF cancelAt = 0 THEN Chunks(l) ELSE cancelAt - 1, l)
KnownAfter(files, stages, D, caching, n) ==
  IF caching THEN D \cup KeysIn(files, stages, 0, n) ELSE D
IsScan(pass, ref, files, stages, D, caching, n, done, all, none) ==
  /\ pass.done = done /\ pass.cache = CacheOf(KnownAfter(files, stages, D, caching, n))
  /\ Agrees(pass.result, ref, files, stages, n, all, none)

Grown(files, stages, D, caching, a, m) ==
  KnownAfter(files, stages, D, caching, a + m) =
    IF caching THEN KnownAfter(files, stages, D, caching, a) \cup KeysIn(files, stages, a, m) ELSE D

LEMMA KeysGrow ==
  ASSUME NEW files, NEW stages, NEW D, NEW caching, NEW a \in Nat, NEW m \in Nat
  PROVE Grown(files, stages, D, caching, a, m)
<1> DEFINE is(i) == Fresh(files[i], stages).file.analysis # <<>>
           A == {i \in (0 + 1)..(0 + a) : is(i)}
           B == {i \in (a + 1)..(a + m) : is(i)}
           C == {i \in (0 + 1)..(0 + (a + m)) : is(i)}
<1>1. \A i : i \in (0 + 1)..(0 + (a + m)) <=> i \in (0 + 1)..(0 + a) \/ i \in (a + 1)..(a + m)
  BY SMT
<1> HIDE DEF is
<1>2. C = A \cup B
  BY <1>1
<1>3. /\ KeysIn(files, stages, 0, a) = {KeyOf(files[j]) : j \in A}
      /\ KeysIn(files, stages, a, m) = {KeyOf(files[j]) : j \in B}
      /\ KeysIn(files, stages, 0, a + m) = {KeyOf(files[j]) : j \in C}
  BY DEF KeysIn, is
<1> HIDE DEF A, B, C
<1>4. KeysIn(files, stages, 0, a + m) = KeysIn(files, stages, 0, a) \cup KeysIn(files, stages, a, m)
  BY <1>2, <1>3
<1> QED BY <1>4 DEF KnownAfter, Grown

LEMMA ReachedIs ==
  ASSUME Chunk \in Nat \ {0}, NEW l \in Nat, NEW cancelAt \in 0..Chunks(l)
  PROVE Reached(l, cancelAt) \in 0..l /\ (cancelAt = 0 => Reached(l, cancelAt) = l)
<1>1. Chunks(l) \in Nat /\ End(Chunks(l), l) = l
  BY ChunksAre
<1>2. CASE cancelAt = 0
  <2>1. Reached(l, cancelAt) = l
    BY <1>1, <1>2 DEF Reached
  <2> QED BY <2>1
<1>3. CASE cancelAt # 0
  <2>1. cancelAt \in 1..Chunks(l)
    BY <1>1, <1>3
  <2>2. /\ End(cancelAt - 1, l) \in Nat /\ End(cancelAt - 1, l) < End(cancelAt, l)
        /\ End(cancelAt, l) <= l /\ End(cancelAt, l) \in Nat
    BY <2>1, ChunksAre
  <2>3. Reached(l, cancelAt) = End(cancelAt - 1, l)
    BY <1>3 DEF Reached
  <2> QED BY <1>3, <2>2, <2>3
<1> QED BY <1>2, <1>3

LEMMA ScanIs ==
  ASSUME NEW T, NEW files \in Seq(T), NEW stages, Counted(files), Chunk \in Nat \ {0}, NEW ref,
         Reference(ref, files, stages), NEW D, NEW caching \in BOOLEAN,
         NEW cancelAt \in 0..Chunks(Len(files)), NEW all, NEW none,
         all => Cached(files, stages, D), none => D = {} /\ ~caching
  PROVE IsScan(ScanFiles(files, stages, CacheOf(D), caching, cancelAt), ref, files, stages, D,
               caching, Reached(Len(files), cancelAt), cancelAt = 0, all, none)
<1> DEFINE l == Len(files)  n == Chunks(l)
           cancelled(c) == cancelAt # 0 /\ cancelAt <= c
           stop(c) == IF cancelled(c) THEN cancelAt - 1 ELSE c
           e(c) == End(stop(c), l)
           X(c) == KnownAfter(files, stages, D, caching, e(c))
           Is(r, c) == Agrees(r, ref, files, stages, e(c), all, none)
           Next(before, c) == NextChunk(before, c, files, stages, CacheOf(D), caching, cancelAt)
<1>1. PICK states : Scanning(states, files, stages, D, caching, cancelAt)
  BY ScanSteps
<1>2. /\ states[0] = State(NoFiles, D, TRUE)
      /\ states[n] = ScanFiles(files, stages, CacheOf(D), caching, cancelAt)
      /\ \A c \in 1..n : states[c] = Next(states[c - 1], c)
  BY <1>1 DEF Scanning
<1>3. l \in Nat
  OBVIOUS
<1>4. n \in Nat /\ End(0, l) = 0 /\ cancelAt \in 0..n
  BY <1>3, ChunksAre
<1> DEFINE At(c) == \E r : states[c] = State(r, X(c), ~cancelled(c)) /\ Is(r, c)
           S == {c \in Nat : c <= n => At(c)}
<1>5. At(0)
  <2>1. ~cancelled(0) /\ stop(0) = 0 /\ e(0) = 0
    BY <1>4
  <2>2. X(0) = D
    <3>1. (0 + 1)..(0 + 0) = {}
      BY SMT
    <3>2. KeysIn(files, stages, 0, 0) = {}
      BY <3>1 DEF KeysIn
    <3> QED BY <2>1, <3>2 DEF KnownAfter
  <2>3. Agrees(NoFiles, ref, files, stages, 0, all, none)
    <3>1. ref[0] = NoFiles
      BY DEF Reference
    <3>2. NoFiles \in ResultSet(files, stages) /\ NoFiles.hits = 0
      BY NoFilesIsResult DEF ResultSet
    <3>3. [NoFiles EXCEPT !.hits = 0] = NoFiles
      BY DEF NoFiles
    <3>4. Count(files, stages, 0) = 0
      BY CountIs
    <3>5. Hits(NoFiles.hits, Count(files, stages, 0), all, none)
      BY <3>2, <3>4 DEF Hits
    <3> QED BY <3>1, <3>2, <3>3, <3>5 DEF Agrees
  <2> HIDE DEF X, e, cancelled
  <2>4. states[0] = State(NoFiles, X(0), ~cancelled(0)) /\ Is(NoFiles, 0)
    <3>1. (~cancelled(0)) = TRUE
      BY <2>1
    <3> QED BY <1>2, <2>1, <2>2, <2>3, <3>1
  <2> QED BY <2>4
<1>6. ASSUME NEW c \in 1..n, At(c - 1) PROVE At(c)
  <2>1. PICK r : states[c - 1] = State(r, X(c - 1), ~cancelled(c - 1)) /\ Is(r, c - 1)
    BY <1>6
  <2> DEFINE done == ~cancelled(c - 1)  Y == X(c - 1)  a == End(c - 1, l)  m == Width(c, l)
             items == ItemsOf(files, stages, a, m, Y)
  <2>2. done \in BOOLEAN
    OBVIOUS
  <2>3. states[c] = Next(State(r, Y, done), c)
    BY <1>2, <2>1
  <2>4. IsNext(states[c], r, Y, done, c, files, stages, D, caching, cancelAt)
    <3> HIDE DEF done, Y
    <3>1. IsNext(Next(State(r, Y, done), c), r, Y, done, c, files, stages, D, caching, cancelAt)
      BY <2>2, NextChunkIs
    <3> QED BY <2>3, <3>1
  <2>5. CASE ~done \/ cancelAt = c
    <3>1. states[c] = State(r, Y, FALSE)
      BY <2>4, <2>5 DEF IsNext
    <3>2. cancelled(c) /\ stop(c) = stop(c - 1)
      BY <1>4, <2>5
    <3>3. X(c) = Y /\ Is(r, c)
      BY <2>1, <3>2
    <3>4. (~cancelled(c)) = FALSE
      BY <3>2
    <3> HIDE DEF X, Y, cancelled, Is
    <3>5. states[c] = State(r, X(c), ~cancelled(c)) /\ Is(r, c)
      BY <3>1, <3>3, <3>4
    <3> QED BY <3>5
  <2>6. CASE done /\ cancelAt # c
    <3>1. states[c] = State(FoldLeft(Collect, r, items),
                            IF caching THEN Y \cup KeysIn(files, stages, a, m) ELSE D, TRUE)
      BY <2>4, <2>6 DEF IsNext
    <3>2. ~cancelled(c) /\ stop(c) = c /\ stop(c - 1) = c - 1
      BY <1>4, <2>6
    <3>3. /\ a \in Nat /\ End(c, l) \in Nat /\ a < End(c, l) /\ End(c, l) <= l
      BY <1>3, ChunksAre
    <3>4. m \in Nat /\ a + m = End(c, l)
      BY <3>3 DEF Width
    <3>5. e(c - 1) = a /\ e(c) = a + m
      BY <3>2, <3>4
    <3>6. /\ Y = KnownAfter(files, stages, D, caching, a)
          /\ Agrees(r, ref, files, stages, a, all, none)
      BY <2>1, <3>5
    <3>7. X(c) = KnownAfter(files, stages, D, caching, a + m)
      BY <3>5
    <3> HIDE DEF a, m, Y, X, e
    <3>8. X(c) = IF caching THEN Y \cup KeysIn(files, stages, a, m) ELSE D
      <4>1. a \in Nat /\ m \in Nat
        BY <3>3, <3>4
      <4>2. Grown(files, stages, D, caching, a, m)
        BY <4>1, KeysGrow
      <4>3. Y = KnownAfter(files, stages, D, caching, a)
        BY <3>6
      <4> QED BY <3>7, <4>2, <4>3, Zenon DEF Grown
    <3>9. (all => Cached(files, stages, Y)) /\ (none => Y = {})
      <4>1. Y = IF caching THEN D \cup KeysIn(files, stages, 0, a) ELSE D
        BY <3>6 DEF KnownAfter
      <4>2. D \subseteq Y /\ (~caching => Y = D)
        BY <4>1
      <4>3. ASSUME all PROVE Cached(files, stages, Y)
        BY <4>2, <4>3 DEF Cached
      <4>4. ASSUME none PROVE Y = {}
        BY <4>2, <4>4
      <4> QED BY <4>3, <4>4
    <3>10. a + m <= Len(files)
      BY <3>3, <3>4
    <3>11. Agrees(FoldLeft(Collect, r, items), ref, files, stages, a + m, all, none)
      BY <3>3, <3>4, <3>6, <3>9, <3>10, ChunkAgrees
    <3>12. (~cancelled(c)) = TRUE
      BY <3>2
    <3> DEFINE result == FoldLeft(Collect, r, items)
    <3>13. Is(result, c)
      BY <3>5, <3>11
    <3> HIDE DEF result, cancelled, Is
    <3>14. states[c] = State(result, X(c), ~cancelled(c))
      BY <3>1, <3>8, <3>12 DEF result
    <3> QED BY <3>13, <3>14
  <2> QED BY <2>2, <2>5, <2>6
<1>7. ASSUME NEW c \in Nat, c \in S PROVE c + 1 \in S
  <2> HIDE DEF At
  <2>1. c + 1 \in Nat /\ (c + 1 <= n => c <= n /\ c + 1 \in 1..n /\ (c + 1) - 1 = c)
    BY <1>4, SMT
  <2> QED BY <1>6, <1>7, <2>1
<1>8. 0 \in S
  <2> HIDE DEF At
  <2> QED BY <1>5
<1>9. At(n)
  <2> HIDE DEF At
  <2>1. n \in S
    <3> HIDE DEF S
    <3> QED BY <1>4, <1>7, <1>8, SetInduction
  <2> QED BY <1>4, <2>1
<1>10. PICK r : states[n] = State(r, X(n), ~cancelled(n)) /\ Is(r, n)
  BY <1>9
<1>11. (cancelled(n) <=> cancelAt # 0) /\ e(n) = Reached(l, cancelAt)
  BY <1>4 DEF Reached
<1>12. (~cancelled(n)) = (cancelAt = 0)
  BY <1>11
<1> DEFINE pass == ScanFiles(files, stages, CacheOf(D), caching, cancelAt)
<1>13. pass = State(r, X(n), cancelAt = 0)
  <2> HIDE DEF pass, X, cancelled
  <2> QED BY <1>2, <1>10, <1>12 DEF pass
<1> HIDE DEF pass
<1>14. pass.result = r /\ pass.cache = CacheOf(X(n)) /\ pass.done = (cancelAt = 0)
  BY <1>13 DEF State
<1> QED BY <1>10, <1>11, <1>14 DEF IsScan, pass

(* What the tokens kept so far add up to is what the budget has counted.      *)
Adding(found, sum, j) == IF found[j].tokens = <<>> THEN sum ELSE sum + found[j].tokens[1]
KeptIn(found, i) ==
  FoldLeft(LAMBDA sum, j : IF found[j].tokens = <<>> THEN sum ELSE sum + found[j].tokens[1],
           0, [j \in 1..i |-> j])
Summing(sums, found, n) ==
  /\ sums[0] = 0 /\ sums[n] = KeptIn(found, n)
  /\ \A k \in 1..n : sums[k] = Adding(found, sums[k - 1], k)

LEMMA KeptSteps ==
  ASSUME NEW found, NEW n \in Nat,
         \A j \in 1..n : found[j].tokens # <<>> => found[j].tokens[1] \in Nat
  PROVE \E sums : Summing(sums, found, n)
<1> DEFINE order == [j \in 1..n |-> j]
           step == [p \in Nat \X (1..n) |-> Adding(found, p[1], p[2])]
           Pass(f) == f = [s \in SUBSET DOMAIN order |->
                             IF s = {} THEN 0 ELSE Adding(found, f[s \ {Max(s)}], order[Max(s)])]
           fold == CHOOSE f : Pass(f)
           sums == [k \in 0..n |-> fold[1..k]]
<1>1. ASSUME NEW v \in Nat, NEW k \in 1..n PROVE Adding(found, v, k) \in Nat
  <2>1. found[k].tokens # <<>> => found[k].tokens[1] \in Nat
    OBVIOUS
  <2> QED BY <2>1 DEF Adding
<1>2. DOMAIN order = 1..n /\ \A k \in 1..n : order[k] = k
  OBVIOUS
<1>3. step \in [Nat \X (1..n) -> Nat]
  BY <1>1
<1>4. \A v \in Nat, k \in 1..n : step[v, k] = Adding(found, v, k)
  OBVIOUS
<1> HIDE DEF step
<1>5. PICK f \in [SUBSET (1..n) -> Nat] : IsFold(f, n, 0, step)
  BY <1>3, FoldExists
<1>6. Pass(f)
  <2>1. ASSUME NEW s \in SUBSET (1..n), s # {}
        PROVE step[f[s \ {Max(s)}], Max(s)] = Adding(found, f[s \ {Max(s)}], order[Max(s)])
    <3>1. f[s \ {Max(s)}] \in Nat /\ Max(s) \in 1..n
      BY <1>5, <2>1, MaxIs
    <3> QED BY <1>2, <1>4, <3>1
  <2> DEFINE One(s) == IF s = {} THEN 0 ELSE step[f[s \ {Max(s)}], Max(s)]
             Two(s) == IF s = {} THEN 0 ELSE Adding(found, f[s \ {Max(s)}], order[Max(s)])
  <2>2. \A s \in SUBSET (1..n) : One(s) = Two(s)
    BY <2>1
  <2>3. f = [s \in SUBSET (1..n) |-> One(s)]
    BY <1>5 DEF IsFold
  <2> HIDE DEF One, Two
  <2>4. f = [s \in SUBSET (1..n) |-> Two(s)]
    BY <2>2, <2>3
  <2> QED BY <1>2, <2>4 DEF Two
<1>7. Pass(fold)
  <2> HIDE DEF Pass
  <2> QED BY <1>6
<1>8. KeptIn(found, n) = fold[DOMAIN order]
  BY DEF KeptIn, FoldLeft, MapThenFoldSet, fold, Adding
<1> HIDE DEF fold
<1>9. 1..0 = {} /\ fold[{}] = 0 /\ 0 \in 0..n /\ n \in 0..n
  BY <1>2, <1>7, SMT
<1>10. ASSUME NEW k \in 1..n PROVE sums[k] = Adding(found, sums[k - 1], k)
  <2>1. k \in Nat /\ k # 0 /\ 1..k \in SUBSET (1..n) /\ k \in 0..n /\ k - 1 \in 0..n
    BY SMT
  <2>2. Max(1..k) = k /\ (1..k) \ {k} = 1..(k - 1) /\ 1..k # {}
    BY <2>1, MaxOfInterval
  <2>3. fold[1..k] = Adding(found, fold[1..(k - 1)], order[k])
    <3> DEFINE s == 1..k
    <3>1. s \in SUBSET DOMAIN order /\ s # {}
      BY <1>2, <2>1, <2>2
    <3> HIDE DEF order, s
    <3>2. fold[s] = Adding(found, fold[s \ {Max(s)}], order[Max(s)])
      BY <1>7, <3>1
    <3>3. Max(s) = k /\ s \ {k} = 1..(k - 1)
      BY <2>2 DEF s
    <3> QED BY <3>2, <3>3 DEF s
  <2> QED BY <1>2, <2>1, <2>3
<1>11. sums[0] = 0 /\ sums[n] = KeptIn(found, n)
  BY <1>2, <1>8, <1>9
<1> HIDE DEF sums, Pass
<1> QED BY <1>10, <1>11 DEF Summing

(* A file as it is collected is what was made of it, tokens aside. *)
LEMMA FileAtIs ==
  ASSUME NEW ref, NEW files, NEW stages, NEW i, NEW b, b = Fresh(files[i], stages).file,
         NEW f, f = FileAt(ref, files, stages, i)
  PROVE /\ f.analysis = b.analysis /\ f.category = b.category /\ f.language = b.language
        /\ f.vendored = b.vendored /\ f.generated = b.generated
        /\ f.tokens = IF IsDropped(ref, files, stages, i) THEN <<>> ELSE b.tokens
<1> DEFINE fits == FitsAfter(ref[i - 1].used, Fresh(files[i], stages))
           tokens == IF fits THEN b.tokens ELSE <<>>
<1>1. DOMAIN b = {"path", "category", "language", "generated", "vendored", "read",
                  "analysis", "tokens"}
  BY ProcessIs DEF IsFresh
<1>2. f = [b EXCEPT !.tokens = IF fits THEN @ ELSE <<>>]
  BY DEF FileAt, Budgeted
<1>3. IsDropped(ref, files, stages, i) <=> ~fits
  BY DEF IsDropped
<1> HIDE DEF fits
<1>4. f.tokens = IF fits THEN b.tokens ELSE <<>>
  BY <1>1, <1>2
<1>5. /\ f.analysis = b.analysis /\ f.category = b.category /\ f.language = b.language
      /\ f.vendored = b.vendored /\ f.generated = b.generated
  BY <1>1, <1>2
<1> QED BY <1>3, <1>4, <1>5

AreFound(found, ref, files, stages, n) ==
  \A i \in 1..n : found[i] = FileAt(ref, files, stages, i)

LEMMA KeptIs ==
  ASSUME NEW T, NEW files \in Seq(T), NEW stages, Counted(files), NEW ref,
         Reference(ref, files, stages), MaxTokens \in Nat, NEW n \in 0..Len(files), NEW found,
         AreFound(found, ref, files, stages, n)
  PROVE KeptIn(found, n) = ref[n].used
<1> DEFINE l == Len(files)  F == FileSet(files, stages)  P == PathSet(files)
<1>1. l \in Nat /\ n \in Nat /\ n <= l /\ DOMAIN files = 1..l
  OBVIOUS
<1>2. ASSUME NEW j \in 1..n
      PROVE /\ ref[j].used = Adding(found, ref[j - 1].used, j)
            /\ found[j].tokens # <<>> => found[j].tokens[1] \in Nat
  <2> DEFINE b == Fresh(files[j], stages)  k == j - 1
  <2>1. j \in 1..l /\ k \in 0..l
    BY <1>1, SMT
  <2>2. IsItem(b, F, P)
    BY <1>1, <2>1, FreshIsItem
  <2>3. ref[k] \in Results(F, P)
    BY <2>1, ReferenceIs DEF ResultSet
  <2>4. ref[j] = Collect(ref[k], b)
    BY <2>1 DEF Reference
  <2>5. found[j] = FileAt(ref, files, stages, j)
    BY DEF AreFound
  <2>6. IsDropped(ref, files, stages, j) <=> ~FitsAfter(ref[k].used, b)
    BY DEF IsDropped
  <2> HIDE DEF b, k, F, P
  <2>7. ref[j].used = UsedAfter(ref[k].used, b)
    BY <2>2, <2>3, <2>4, CollectIs
  <2>8. found[j].tokens = IF IsDropped(ref, files, stages, j) THEN <<>> ELSE b.file.tokens
    <3>1. b.file = Fresh(files[j], stages).file
      BY DEF b
    <3> QED BY <2>5, <3>1, FileAtIs
  <2>9. b.file.tokens # <<>> => b.file.tokens[1] \in Nat
    BY <2>2 DEF IsItem
  <2>10. ref[j].used = Adding(found, ref[k].used, j)
    <3>1. CASE IsDropped(ref, files, stages, j)
      BY <2>6, <2>7, <2>8, <3>1 DEF UsedAfter, Adding
    <3>2. CASE ~IsDropped(ref, files, stages, j)
      <4>1. found[j].tokens = b.file.tokens /\ FitsAfter(ref[k].used, b)
        BY <2>6, <2>8, <3>2
      <4> QED BY <2>7, <4>1 DEF UsedAfter, Adding
    <3> QED BY <3>1, <3>2
  <2> QED BY <2>8, <2>9, <2>10 DEF k
<1>3. PICK sums : Summing(sums, found, n)
  BY <1>1, <1>2, KeptSteps
<1> DEFINE S == {k \in Nat : k <= n => sums[k] = ref[k].used}
<1>4. 0 \in S
  <2>1. ref[0] = NoFiles /\ sums[0] = 0 /\ NoFiles.used = 0
    BY <1>3, NoFilesIsResult DEF Reference, Summing
  <2> QED BY <2>1
<1>5. ASSUME NEW k \in Nat, k \in S PROVE k + 1 \in S
  <2>1. CASE k + 1 <= n
    <3>1. k + 1 \in 1..n /\ (k + 1) - 1 = k /\ k <= n
      BY <1>1, <2>1, SMT
    <3>2. sums[k + 1] = Adding(found, sums[k], k + 1)
      BY <1>3, <3>1 DEF Summing
    <3>3. ref[k + 1].used = Adding(found, ref[k].used, k + 1)
      BY <1>2, <3>1
    <3>4. sums[k] = ref[k].used
      BY <1>5, <3>1
    <3> QED BY <3>2, <3>3, <3>4
  <2>2. CASE ~(k + 1 <= n)
    BY <2>2
  <2> QED BY <2>1, <2>2
<1>6. n \in S
  <2> HIDE DEF S
  <2> QED BY <1>1, <1>4, <1>5, SetInduction
<1>7. sums[n] = ref[n].used
  BY <1>1, <1>6
<1> QED BY <1>3, <1>7 DEF Summing

PassOf(found, pass, fresh, again, files, stages, cancelAt) ==
  LET analyzed == {i \in DOMAIN found : found[i].analysis # <<>>}
  IN /\ pass.done = fresh.done /\ (pass.done <=> cancelAt = 0)
     /\ [pass.result EXCEPT !.hits = 0] = fresh.result
     /\ pass.result.hits <= Cardinality(analyzed)
     /\ \A i \in analyzed :
          found[i].analysis[1] = Analyze(files[i].content, found[i].language)
     /\ pass.done => again.result.hits = Cardinality(analyzed)
     /\ KeptIn(found, Len(found)) = pass.result.used /\ pass.result.used <= MaxTokens
     /\ \A i \in DOMAIN found :
          found[i].tokens # <<>> =>
            found[i].category = "source" /\ ~found[i].vendored /\ ~found[i].generated
     /\ pass.result.tokensTruncated <=>
          \E i \in analyzed :
            /\ found[i].tokens = <<>> /\ found[i].category = "source"
            /\ ~found[i].vendored /\ stages \cap {"duplication", "similarity"} # {}
            /\ KeptIn(found, i) + files[i].content.tokens > MaxTokens

LEMMA PassIs ==
  ASSUME NEW T, NEW files \in Seq(T), NEW stages, Counted(files), MaxTokens \in Nat, NEW ref,
         Reference(ref, files, stages), NEW cancelAt, NEW n \in 0..Len(files),
         cancelAt = 0 => n = Len(files), NEW pass, NEW fresh, NEW again, NEW D, NEW E,
         IsScan(pass, ref, files, stages, D, TRUE, n, cancelAt = 0, FALSE, FALSE),
         IsScan(fresh, ref, files, stages, {}, FALSE, n, cancelAt = 0, FALSE, TRUE),
         IsScan(again, ref, files, stages, E, TRUE, Len(files), TRUE, cancelAt = 0, FALSE)
  PROVE IsPass(pass, fresh, again, files, stages, cancelAt)
<1> DEFINE found == ref[n].files  b(i) == Fresh(files[i], stages).file
           dropped(i) == IsDropped(ref, files, stages, i)
           analyzed == {i \in DOMAIN found : found[i].analysis # <<>>}
           similar == stages \cap {"duplication", "similarity"} # {}
           cut(i) == /\ found[i].tokens = <<>> /\ found[i].category = "source"
                     /\ ~found[i].vendored /\ similar
                     /\ KeptIn(found, i) + files[i].content.tokens > MaxTokens
<1>1. /\ ref[n] \in ResultSet(files, stages) /\ Len(found) = n
      /\ \A i \in 1..n : found[i] = FileAt(ref, files, stages, i)
      /\ ref[n].used <= MaxTokens
      /\ ref[n].tokensTruncated <=> \E i \in 1..n : dropped(i)
  BY ReferenceIs
<1>2. n \in Nat /\ DOMAIN files = 1..Len(files) /\ DOMAIN found = 1..n
  <2>1. found \in Seq(FileSet(files, stages))
    BY <1>1 DEF ResultSet, Results
  <2> HIDE DEF found
  <2> QED BY <1>1, <2>1
<1>3. /\ pass.done = (cancelAt = 0) /\ pass.result \in ResultSet(files, stages)
      /\ [pass.result EXCEPT !.hits = 0] = ref[n]
      /\ pass.result.hits <= Count(files, stages, n)
  BY DEF IsScan, Agrees, Hits
<1>4. pass.result.files = found /\ pass.result.used = ref[n].used
      /\ (pass.result.tokensTruncated <=> ref[n].tokensTruncated)
  BY <1>3 DEF ResultSet, Results
<1>5. fresh.done = (cancelAt = 0) /\ fresh.result = ref[n]
  <2>1. /\ fresh.result \in ResultSet(files, stages) /\ fresh.result.hits = 0
        /\ [fresh.result EXCEPT !.hits = 0] = ref[n] /\ fresh.done = (cancelAt = 0)
    BY DEF IsScan, Agrees, Hits
  <2> DEFINE r == fresh.result
  <2>2. r \in ResultSet(files, stages) /\ r.hits = 0
    BY <2>1
  <2> HIDE DEF r
  <2>3. [r EXCEPT !.hits = 0] = r
    BY <2>2 DEF ResultSet, Results
  <2> QED BY <2>1, <2>3 DEF r
<1> HIDE DEF found, b, dropped, similar
<1>6. ASSUME NEW i \in 1..n
      PROVE /\ found[i].analysis \in {<<>>, <<Analyze(files[i].content, found[i].language)>>}
            /\ found[i].analysis = b(i).analysis
            /\ found[i].tokens # <<>> => /\ found[i].category = "source"
                                         /\ ~found[i].vendored /\ ~found[i].generated
            /\ dropped(i) <=> i \in analyzed /\ cut(i)
  <2> DEFINE g == Fresh(files[i], stages)  f == found[i]  k == i - 1
  <2>1. IsFresh(g, files[i], stages)
    BY ProcessIs
  <2>2. f = FileAt(ref, files, stages, i)
    BY <1>1 DEF found
  <2>3. i \in 1..Len(files) /\ i \in DOMAIN files /\ k \in 0..Len(files) /\ i \in 0..Len(files)
        /\ \A j \in 1..i : j \in 1..n
    <3>1. Len(files) \in Nat
      OBVIOUS
    <3> DEFINE l == Len(files)
    <3>2. l \in Nat /\ n \in 0..l /\ DOMAIN files = 1..l
      BY <1>2, <3>1
    <3> HIDE DEF l
    <3>3. i \in 1..l /\ k \in 0..l /\ i \in 0..l /\ \A j \in 1..i : j \in 1..n
      BY <3>2, SMT
    <3> QED BY <3>2, <3>3 DEF l
  <2> HIDE DEF k, f, g
  <2>4. /\ f.analysis = g.file.analysis /\ f.category = g.file.category
        /\ f.language = g.file.language
        /\ f.vendored = g.file.vendored /\ f.generated = g.file.generated
        /\ f.tokens = IF dropped(i) THEN <<>> ELSE g.file.tokens
    <3>1. g.file = Fresh(files[i], stages).file
      BY DEF g
    <3> QED BY <2>2, <3>1, FileAtIs DEF dropped
  <2>5. f.analysis \in {<<>>, <<Analyze(files[i].content, f.language)>>}
    BY <2>1, <2>4 DEF IsFresh
  <2>6. f.tokens # <<>> => f.category = "source" /\ ~f.vendored /\ ~f.generated
    <3>1. ASSUME f.tokens # <<>> PROVE g.file.tokens # <<>>
      BY <2>4, <3>1
    <3>2. g.file.tokens # <<>> =>
            g.file.category = "source" /\ ~g.file.vendored /\ ~g.file.generated
      BY <2>1 DEF IsFresh
    <3> QED BY <2>4, <3>1, <3>2
  <2> DEFINE t == files[i].content.tokens
  <2>7. t \in Nat
    BY <2>3 DEF Counted
  <2>8. g.file.tokens \in {<<>>, <<t>>}
    BY <2>1 DEF IsFresh
  <2> HIDE DEF t
  <2>9. dropped(i) <=> g.file.tokens # <<>> /\ ref[k].used + t > MaxTokens
    <3>1. dropped(i) <=> ~FitsAfter(ref[k].used, g)
      BY DEF dropped, IsDropped, k, g
    <3>2. ref[k].used \in Nat
      BY <2>3, ReferenceIs DEF ResultSet, Results
    <3>3. g.file.tokens # <<>> => g.file.tokens[1] = t
      BY <2>8
    <3> QED BY <2>7, <3>1, <3>2, <3>3 DEF FitsAfter
  <2>10. g.file.tokens # <<>> =>
           g.file.analysis # <<>> /\ g.file.category = "source" /\ ~g.file.vendored /\ similar
    BY <2>1 DEF IsFresh, similar
  <2>11. g.file.analysis # <<>> /\ g.file.category = "source" /\ ~g.file.vendored /\ similar
         => g.file.tokens # <<>>
    BY <2>1 DEF IsFresh, similar
  <2>12. KeptIn(found, i) = ref[i].used
    <3>1. AreFound(found, ref, files, stages, i)
      BY <1>1, <2>3 DEF found, AreFound
    <3>2. i \in 0..Len(files)
      BY <2>3
    <3> QED BY <3>1, <3>2, KeptIs
  <2>13. dropped(i) => ref[i].used = ref[k].used
    <3>1. ref[i] = Collect(ref[k], g)
      BY <2>3 DEF Reference, k, g
    <3>2. IsItem(g, FileSet(files, stages), PathSet(files))
      BY <2>3, FreshIsItem DEF g
    <3>3. ref[k] \in Results(FileSet(files, stages), PathSet(files))
      BY <2>3, ReferenceIs DEF ResultSet
    <3>4. ref[i].used = UsedAfter(ref[k].used, g)
      BY <3>1, <3>2, <3>3, CollectIs
    <3>5. dropped(i) <=> ~FitsAfter(ref[k].used, g)
      BY DEF dropped, IsDropped, k, g
    <3> QED BY <3>4, <3>5 DEF UsedAfter
  <2>14. i \in analyzed <=> g.file.analysis # <<>>
    BY <1>2, <2>4 DEF f
  <2>15. cut(i) <=> /\ f.tokens = <<>> /\ f.category = "source" /\ ~f.vendored /\ similar
                    /\ KeptIn(found, i) + t > MaxTokens
    BY DEF f, t
  <2> HIDE DEF cut, analyzed
  <2>16. ASSUME dropped(i) PROVE i \in analyzed /\ cut(i)
    <3>1. f.tokens = <<>> /\ g.file.tokens # <<>>
      BY <2>4, <2>9, <2>16
    <3>2. KeptIn(found, i) + t > MaxTokens
      BY <2>9, <2>12, <2>13, <2>16
    <3> QED BY <2>4, <2>10, <2>14, <2>15, <3>1, <3>2
  <2>17. ASSUME i \in analyzed, cut(i) PROVE dropped(i)
    <3>1. g.file.tokens # <<>>
      BY <2>4, <2>11, <2>14, <2>15, <2>17
    <3>2. f.tokens = <<>>
      BY <2>15, <2>17
    <3> QED BY <2>4, <3>1, <3>2
  <2>18. b(i).analysis = g.file.analysis
    BY DEF b, g
  <2> QED BY <2>4, <2>5, <2>6, <2>16, <2>17, <2>18 DEF f
<1>7. analyzed = Analyzed(files, stages, n)
  BY <1>2, <1>6 DEF Analyzed, b
<1>8. pass.result.hits <= Cardinality(analyzed)
  BY <1>3, <1>7 DEF Count
<1>9. \A i \in analyzed : found[i].analysis[1] = Analyze(files[i].content, found[i].language)
  <2>1. \A i \in analyzed : i \in 1..n /\ found[i].analysis # <<>>
    BY <1>2
  <2>2. \A i \in analyzed :
          found[i].analysis = <<Analyze(files[i].content, found[i].language)>>
    BY <1>6, <2>1
  <2>3. \A x : <<x>>[1] = x
    OBVIOUS
  <2> HIDE DEF analyzed
  <2> QED BY <2>2, <2>3
<1>10. pass.done => again.result.hits = Cardinality(analyzed)
  <2>1. ASSUME cancelAt = 0 PROVE again.result.hits = Count(files, stages, n)
    BY <2>1 DEF IsScan, Agrees, Hits
  <2> QED BY <1>3, <1>7, <2>1 DEF Count
<1>11. KeptIn(found, Len(found)) = ref[n].used
  <2>1. Len(found) = n /\ AreFound(found, ref, files, stages, n)
    BY <1>1 DEF found, AreFound
  <2> QED BY <2>1, KeptIs
<1>12. \A i \in DOMAIN found :
         found[i].tokens # <<>> =>
           found[i].category = "source" /\ ~found[i].vendored /\ ~found[i].generated
  BY <1>2, <1>6
<1>13. ref[n].tokensTruncated <=> \E i \in analyzed : cut(i)
  <2>1. \A i \in analyzed : i \in 1..n
    BY <1>2
  <2> HIDE DEF analyzed, cut
  <2> QED BY <1>1, <1>6, <2>1
<1>14. PassOf(found, pass, fresh, again, files, stages, cancelAt)
  <2>1. pass.done = fresh.done /\ (pass.done <=> cancelAt = 0)
    BY <1>3, <1>5
  <2>2. [pass.result EXCEPT !.hits = 0] = fresh.result
    BY <1>3, <1>5
  <2>3. KeptIn(found, Len(found)) = pass.result.used /\ pass.result.used <= MaxTokens
    BY <1>1, <1>4, <1>11
  <2>4. pass.result.tokensTruncated <=> \E i \in analyzed : cut(i)
    BY <1>4, <1>13
  <2> DEFINE kept == /\ KeptIn(found, Len(found)) = pass.result.used
                     /\ pass.result.used <= MaxTokens
  <2>5. kept
    BY <2>3
  <2> HIDE DEF kept
  <2>6. PassOf(found, pass, fresh, again, files, stages, cancelAt) <=>
          /\ pass.done = fresh.done /\ (pass.done <=> cancelAt = 0)
          /\ [pass.result EXCEPT !.hits = 0] = fresh.result
          /\ pass.result.hits <= Cardinality(analyzed)
          /\ \A i \in analyzed :
               found[i].analysis[1] = Analyze(files[i].content, found[i].language)
          /\ pass.done => again.result.hits = Cardinality(analyzed)
          /\ kept
          /\ \A i \in DOMAIN found :
               found[i].tokens # <<>> =>
                 found[i].category = "source" /\ ~found[i].vendored /\ ~found[i].generated
          /\ pass.result.tokensTruncated <=> \E i \in analyzed : cut(i)
    BY Zenon DEF PassOf, kept, similar
  <2> HIDE DEF analyzed, cut
  <2> QED BY <1>8, <1>9, <1>10, <1>12, <2>1, <2>2, <2>4, <2>5, <2>6
<1>15. IsPass(pass, fresh, again, files, stages, cancelAt) <=>
         PassOf(pass.result.files, pass, fresh, again, files, stages, cancelAt)
  BY DEF IsPass, PassOf, KeptIn
<1>16. pass.result.files = found
  BY <1>4
<1> HIDE DEF analyzed, cut
<1> QED BY <1>14, <1>15, <1>16

(* Whatever the files and the budget, whatever an earlier pass left in the    *)
(* cache and wherever a pass is cancelled: it tells of its files what a pass   *)
(* without a cache tells, leaves a right analysis of each of them behind and   *)
(* keeps within the budget, as MCParts checks it of a few files.               *)
THEOREM PassesAreRepeatable ==
  ASSUME Chunk \in Nat \ {0}, MaxTokens \in Nat, NEW T, NEW files \in Seq(T), Counted(files),
         NEW earlier \in Seq(T), Counted(earlier), NEW stages,
         NEW cancelAt \in 0..Chunks(Len(files))
  PROVE PassIsRepeatable(files, stages, earlier, cancelAt)
<1> DEFINE N == Len(files)  n == Reached(N, cancelAt)  none == CacheOf({})
           before == ScanFiles(earlier, stages, none, TRUE, 0)
           A == KnownAfter(earlier, stages, {}, TRUE, Reached(Len(earlier), 0))
           pass == ScanFiles(files, stages, before.cache, TRUE, cancelAt)
           B == KnownAfter(files, stages, A, TRUE, n)
           fresh == ScanFiles(files, stages, none, FALSE, cancelAt)
           again == ScanFiles(files, stages, pass.cache, TRUE, 0)
<1>1. N \in Nat /\ n \in 0..N /\ (cancelAt = 0 => n = N) /\ Reached(N, 0) = N
  <2>1. N \in Nat
    OBVIOUS
  <2>2. Chunks(N) \in Nat /\ 0 \in 0..Chunks(N)
    BY <2>1, ChunksAre, SMT
  <2> HIDE DEF N
  <2> QED BY <2>1, <2>2, ReachedIs DEF N
<1>2. PICK ref : Reference(ref, files, stages)
  BY ReferenceExists
<1>3. before.cache = CacheOf(A)
  <2>1. PICK first : Reference(first, earlier, stages)
    BY ReferenceExists
  <2>2. 0 \in 0..Chunks(Len(earlier))
    <3>1. Len(earlier) \in Nat
      OBVIOUS
    <3>2. Chunks(Len(earlier)) \in Nat
      BY <3>1, ChunksAre
    <3> QED BY <3>2, SMT
  <2>3. IsScan(before, first, earlier, stages, {}, TRUE, Reached(Len(earlier), 0), 0 = 0,
               FALSE, FALSE)
    BY <2>1, <2>2, ScanIs
  <2> QED BY <2>3 DEF IsScan
<1>4. IsScan(pass, ref, files, stages, A, TRUE, n, cancelAt = 0, FALSE, FALSE)
  <2>1. pass = ScanFiles(files, stages, CacheOf(A), TRUE, cancelAt)
    BY <1>3
  <2> HIDE DEF pass, A
  <2> QED BY <1>2, <2>1, ScanIs
<1>5. pass.cache = CacheOf(B)
  BY <1>4 DEF IsScan
<1>6. IsScan(fresh, ref, files, stages, {}, FALSE, n, cancelAt = 0, FALSE, TRUE)
  BY <1>2, ScanIs
<1>7. IsScan(again, ref, files, stages, B, TRUE, N, TRUE, cancelAt = 0, FALSE)
  <2>1. (cancelAt = 0) => Cached(files, stages, B)
    <3>1. ASSUME cancelAt = 0 PROVE Cached(files, stages, B)
      <4>1. B = A \cup KeysIn(files, stages, 0, N)
        BY <1>1, <3>1 DEF KnownAfter
      <4>2. (0 + 1)..(0 + N) = 1..N
        BY <1>1
      <4>3. \A i \in Analyzed(files, stages, N) : KeyOf(files[i]) \in KeysIn(files, stages, 0, N)
        BY <4>2 DEF Analyzed, KeysIn
      <4> QED BY <4>1, <4>3 DEF Cached
    <3> QED BY <3>1
  <2>2. 0 \in 0..Chunks(N)
    <3>1. Chunks(N) \in Nat
      BY <1>1, ChunksAre
    <3> QED BY <3>1, SMT
  <2> DEFINE all == cancelAt = 0
  <2>3. all => Cached(files, stages, B)
    BY <2>1
  <2>4. again = ScanFiles(files, stages, CacheOf(B), TRUE, 0)
    BY <1>5
  <2> HIDE DEF all, B, again
  <2>5. IsScan(again, ref, files, stages, B, TRUE, Reached(N, 0), 0 = 0, all, FALSE)
    BY <1>2, <2>2, <2>3, <2>4, ScanIs
  <2> QED BY <1>1, <2>5 DEF all
<1> HIDE DEF A, B, n, pass, fresh, again, before
<1>8. IsPass(pass, fresh, again, files, stages, cancelAt)
  BY <1>1, <1>2, <1>4, <1>6, <1>7, PassIs
<1>9. [k \in {} |-> 0] = none
  BY DEF CacheOf
<1> HIDE DEF none
<1> QED BY <1>8, <1>9 DEF PassIsRepeatable, pass, fresh, again, before

-----------------------------------------------------------------------------
(* discovery/archive.rs: what a set of things amounts to is the number of its *)
(* units, whatever the order in which they are added up.                      *)
Units(S, of) == UNION {{x} \X (1..of[x]) : x \in S}
Total(S, of) == Cardinality(Units(S, of))

LEMMA UnitsOfOne ==
  ASSUME NEW x, NEW n \in Nat
  PROVE IsFiniteSet({x} \X (1..n)) /\ Cardinality({x} \X (1..n)) = n
<1>1. IsFiniteSet(1..n) /\ Cardinality(1..n) = n
  BY FS_Interval
<1>2. IsFiniteSet({x}) /\ Cardinality({x}) = 1
  BY FS_Singleton
<1>3. /\ IsFiniteSet({x} \X (1..n))
      /\ Cardinality({x} \X (1..n)) = Cardinality({x}) * Cardinality(1..n)
  BY <1>1, <1>2, FS_Product
<1> QED BY <1>1, <1>2, <1>3

LEMMA UnitsAreFinite ==
  ASSUME NEW S, IsFiniteSet(S), NEW of, \A x \in S : of[x] \in Nat
  PROVE IsFiniteSet(Units(S, of)) /\ Total(S, of) \in Nat
<1> DEFINE T == {{x} \X (1..of[x]) : x \in S}
           f == [x \in S |-> {x} \X (1..of[x])]
<1>1. f \in Surjection(S, T)
  BY DEF Surjection
<1>2. IsFiniteSet(T)
  <2> HIDE DEF T, f
  <2> QED BY <1>1, FS_Surjection
<1>3. \A c \in T : IsFiniteSet(c)
  <2>1. ASSUME NEW x \in S PROVE IsFiniteSet({x} \X (1..of[x]))
    <3>1. of[x] \in Nat
      OBVIOUS
    <3> QED BY <3>1, UnitsOfOne
  <2> QED BY <2>1
<1>4. IsFiniteSet(UNION T)
  <2> HIDE DEF T
  <2> QED BY <1>2, <1>3, FS_UNION
<1> QED BY <1>4, FS_CardinalityType DEF Units, Total

LEMMA TotalOfNone ==
  ASSUME NEW of
  PROVE Total({}, of) = 0
<1>1. Units({}, of) = {}
  BY DEF Units
<1> QED BY <1>1, FS_EmptySet DEF Total

LEMMA TotalOfMore ==
  ASSUME NEW S, IsFiniteSet(S), NEW x, x \notin S, NEW of,
         \A y \in S \cup {x} : of[y] \in Nat
  PROVE Total(S \cup {x}, of) = Total(S, of) + of[x]
<1> DEFINE A == Units(S, of)  n == of[x]  B == {x} \X (1..n)
<1>1. Units(S \cup {x}, of) = A \cup B
  BY DEF Units
<1>2. A \cap B = {}
  BY DEF Units
<1>3. n \in Nat
  OBVIOUS
<1>4. IsFiniteSet(A) /\ Cardinality(A) = Total(S, of) /\ Total(S, of) \in Nat
  BY UnitsAreFinite DEF Total
<1>5. IsFiniteSet(B) /\ Cardinality(B) = n
  <2> HIDE DEF n
  <2> QED BY <1>3, UnitsOfOne
<1> HIDE DEF A, B, n
<1>6. Cardinality(A \cup B) = Cardinality(A) + Cardinality(B) - Cardinality(A \cap B)
  BY <1>4, <1>5, FS_Union
<1>7. Cardinality(A \cap B) = 0
  BY <1>2, FS_EmptySet
<1>8. Cardinality(A \cup B) = Total(S, of) + n
  BY <1>3, <1>4, <1>5, <1>6, <1>7
<1> QED BY <1>1, <1>8 DEF Total, n

(* What overwrites something adds at most its own length. *)
LEMMA TotalOfPut ==
  ASSUME NEW old, IsFiniteSet(DOMAIN old), \A y \in DOMAIN old : old[y] \in Nat,
         NEW x, NEW n \in Nat, NEW new,
         new = [y \in DOMAIN old \cup {x} |-> IF y = x THEN n ELSE old[y]]
  PROVE Total(DOMAIN new, new) <= Total(DOMAIN old, old) + n
<1> DEFINE A == Units(DOMAIN old, old)  B == {x} \X (1..n)  C == Units(DOMAIN new, new)
<1>1. C \subseteq A \cup B
  <2>1. ASSUME NEW y \in DOMAIN new PROVE {y} \X (1..new[y]) \subseteq A \cup B
    <3>1. CASE y = x
      BY <3>1
    <3>2. CASE y # x
      BY <3>2 DEF Units
    <3> QED BY <3>1, <3>2
  <2> QED BY <2>1 DEF Units
<1>2. IsFiniteSet(A) /\ Cardinality(A) = Total(DOMAIN old, old) /\ Total(DOMAIN old, old) \in Nat
  BY UnitsAreFinite DEF Total
<1>3. IsFiniteSet(B) /\ Cardinality(B) = n
  BY UnitsOfOne
<1>4. Cardinality(C) = Total(DOMAIN new, new)
  BY DEF Total
<1> HIDE DEF A, B, C
<1>5. /\ Cardinality(A \cup B) = Cardinality(A) + Cardinality(B) - Cardinality(A \cap B)
      /\ IsFiniteSet(A \cup B)
  BY <1>2, <1>3, FS_Union
<1>6. Cardinality(A \cap B) \in Nat
  BY <1>2, FS_Intersection, FS_CardinalityType
<1>7. IsFiniteSet(C) /\ Cardinality(C) <= Cardinality(A \cup B) /\ Cardinality(C) \in Nat
  BY <1>1, <1>5, FS_Subset, FS_CardinalityType
<1> QED BY <1>2, <1>3, <1>4, <1>5, <1>6, <1>7

SumOf(S, of) ==
  FoldLeft(LAMBDA m, x : m + x, 0, [i \in 1..Cardinality(S) |-> of[SetToSeq(S)[i]]])
SumsUp(sums, S, of) ==
  /\ sums[0] = 0 /\ sums[Cardinality(S)] = SumOf(S, of)
  /\ \A k \in 1..Cardinality(S) : sums[k] = sums[k - 1] + of[SetToSeq(S)[k]]

LEMMA SetToSeqIs ==
  ASSUME NEW S, IsFiniteSet(S)
  PROVE /\ Cardinality(S) \in Nat /\ SetToSeq(S) \in [1..Cardinality(S) -> S]
        /\ \A i, j \in 1..Cardinality(S) : SetToSeq(S)[i] = SetToSeq(S)[j] => i = j
        /\ \A x \in S : \E i \in 1..Cardinality(S) : SetToSeq(S)[i] = x
<1> DEFINE n == Cardinality(S)
<1>1. n \in Nat /\ ExistsBijection(1..n, S)
  BY FS_CardinalityType
<1>2. \E f \in [1..n -> S] : IsInjective(f)
  BY <1>1 DEF ExistsBijection, Bijection, Injection
<1>3. SetToSeq(S) \in [1..n -> S] /\ IsInjective(SetToSeq(S))
  BY <1>2 DEF SetToSeq
<1> DEFINE f == SetToSeq(S)
<1> HIDE DEF f, n
<1>4. f \in Injection(1..n, S)
  BY <1>3 DEF Injection, f
<1>5. \A x \in S : \E i \in 1..n : f[i] = x
  <2> DEFINE R == {f[i] : i \in 1..n}
  <2>1. f \in Surjection(1..n, R)
    BY <1>4 DEF Injection, Surjection
  <2>2. f \in Injection(1..n, R)
    BY <1>4 DEF Injection
  <2>3. IsFiniteSet(1..n) /\ Cardinality(1..n) = n
    BY <1>1, FS_Interval
  <2> HIDE DEF R
  <2>4. Cardinality(R) = n
    BY <2>1, <2>2, <2>3, FS_Surjection
  <2>5. R \subseteq S
    BY <1>4 DEF Injection, R
  <2>6. R = S
    BY <2>4, <2>5, FS_Subset DEF n
  <2> QED BY <2>6 DEF R
<1>6. \A i, j \in 1..n : f[i] = f[j] => i = j
  BY <1>4 DEF Injection, IsInjective
<1> QED BY <1>1, <1>3, <1>5, <1>6 DEF f, n

LEMMA SumSteps ==
  ASSUME NEW S, IsFiniteSet(S), NEW of, \A x \in S : of[x] \in Nat
  PROVE \E sums : SumsUp(sums, S, of)
<1> DEFINE n == Cardinality(S)
           list == [i \in 1..n |-> of[SetToSeq(S)[i]]]
           step == [p \in Nat \X (1..n) |-> p[1] + list[p[2]]]
           Pass(f) == f = [s \in SUBSET DOMAIN list |->
                             IF s = {} THEN 0 ELSE f[s \ {Max(s)}] + list[Max(s)]]
           fold == CHOOSE f : Pass(f)
           sums == [k \in 0..n |-> fold[1..k]]
<1>1. n \in Nat /\ \A i \in 1..n : list[i] \in Nat
  BY SetToSeqIs
<1>2. DOMAIN list = 1..n
  OBVIOUS
<1>3. \A k \in 1..n : list[k] = of[SetToSeq(S)[k]]
  OBVIOUS
<1> HIDE DEF list, n
<1>4. step \in [Nat \X (1..n) -> Nat]
  BY <1>1
<1>5. \A v \in Nat, k \in 1..n : step[v, k] = v + list[k]
  OBVIOUS
<1> HIDE DEF step
<1>6. PICK f \in [SUBSET (1..n) -> Nat] : IsFold(f, n, 0, step)
  BY <1>1, <1>4, FoldExists
<1>7. Pass(f)
  <2>1. ASSUME NEW s \in SUBSET (1..n), s # {}
        PROVE step[f[s \ {Max(s)}], Max(s)] = f[s \ {Max(s)}] + list[Max(s)]
    <3>1. f[s \ {Max(s)}] \in Nat /\ Max(s) \in 1..n
      BY <1>1, <1>6, <2>1, MaxIs
    <3> QED BY <1>5, <3>1
  <2> DEFINE One(s) == IF s = {} THEN 0 ELSE step[f[s \ {Max(s)}], Max(s)]
             Two(s) == IF s = {} THEN 0 ELSE f[s \ {Max(s)}] + list[Max(s)]
  <2>2. \A s \in SUBSET (1..n) : One(s) = Two(s)
    BY <2>1
  <2>3. f = [s \in SUBSET (1..n) |-> One(s)]
    BY <1>6 DEF IsFold
  <2> HIDE DEF One, Two
  <2>4. f = [s \in SUBSET (1..n) |-> Two(s)]
    BY <2>2, <2>3
  <2> QED BY <1>2, <2>4 DEF Two
<1>8. Pass(fold)
  <2> HIDE DEF Pass
  <2> QED BY <1>7
<1>9. SumOf(S, of) = fold[DOMAIN list]
  BY DEF SumOf, FoldLeft, MapThenFoldSet, fold, list, n
<1> HIDE DEF fold
<1>10. 1..0 = {} /\ fold[{}] = 0 /\ 0 \in 0..n /\ n \in 0..n
  BY <1>1, <1>2, <1>8, SMT
<1>11. ASSUME NEW k \in 1..n PROVE sums[k] = sums[k - 1] + list[k]
  <2>1. k \in Nat /\ k # 0 /\ 1..k \in SUBSET (1..n) /\ k \in 0..n /\ k - 1 \in 0..n
    BY <1>1, SMT
  <2>2. Max(1..k) = k /\ (1..k) \ {k} = 1..(k - 1) /\ 1..k # {}
    BY <2>1, MaxOfInterval
  <2>3. fold[1..k] = fold[1..(k - 1)] + list[k]
    <3> DEFINE s == 1..k
    <3>1. s \in SUBSET DOMAIN list /\ s # {}
      BY <1>2, <2>1, <2>2
    <3> HIDE DEF s
    <3>2. fold[s] = fold[s \ {Max(s)}] + list[Max(s)]
      BY <1>8, <3>1
    <3>3. Max(s) = k /\ s \ {k} = 1..(k - 1)
      BY <2>2 DEF s
    <3> QED BY <3>2, <3>3 DEF s
  <2> QED BY <2>1, <2>3
<1>12. sums[0] = 0 /\ sums[n] = SumOf(S, of)
  BY <1>2, <1>9, <1>10
<1> HIDE DEF sums, Pass
<1>13. \A k \in 1..n : sums[k] = sums[k - 1] + of[SetToSeq(S)[k]]
  BY <1>3, <1>11
<1> QED BY <1>12, <1>13 DEF SumsUp, n

LEMMA SumIs ==
  ASSUME NEW S, IsFiniteSet(S), NEW of, \A x \in S : of[x] \in Nat
  PROVE SumOf(S, of) = Total(S, of)
<1> DEFINE n == Cardinality(S)  s == SetToSeq(S)  Part(k) == {s[i] : i \in 1..k}
<1>1. PICK sums : SumsUp(sums, S, of)
  BY SumSteps
<1>2. /\ n \in Nat /\ s \in [1..n -> S]
      /\ \A i, j \in 1..n : s[i] = s[j] => i = j
      /\ \A x \in S : \E i \in 1..n : s[i] = x
  BY SetToSeqIs
<1>3. /\ sums[0] = 0 /\ sums[n] = SumOf(S, of)
      /\ \A k \in 1..n : sums[k] = sums[k - 1] + of[s[k]]
  BY <1>1 DEF SumsUp
<1> HIDE DEF n, s
<1> DEFINE I == {k \in Nat : k <= n => sums[k] = Total(Part(k), of)}
<1>4. 0 \in I
  <2>1. Part(0) = {}
    <3>1. 1..0 = {}
      BY SMT
    <3> QED BY <3>1
  <2> HIDE DEF Part
  <2> QED BY <1>3, <2>1, TotalOfNone
<1>5. ASSUME NEW k \in Nat, k \in I, k + 1 <= n PROVE k + 1 \in I
  <2>1. /\ k + 1 \in 1..n /\ (k + 1) - 1 = k /\ k <= n /\ k + 1 \in Nat
        /\ \A i \in 1..k : i \in 1..n /\ i # k + 1
        /\ \A i : i \in 1..(k + 1) <=> i \in 1..k \/ i = k + 1
    BY <1>2, <1>5, SMT
  <2> DEFINE x == s[k + 1]
  <2>2. Part(k + 1) = Part(k) \cup {x}
    BY <2>1
  <2>3. x \notin Part(k)
    BY <1>2, <2>1
  <2>4. Part(k) \subseteq S /\ x \in S
    BY <1>2, <2>1
  <2>5. IsFiniteSet(Part(k))
    BY <2>4, FS_Subset
  <2>6. sums[k + 1] = sums[k] + of[x]
    BY <1>3, <2>1
  <2>7. sums[k] = Total(Part(k), of)
    BY <1>5, <2>1
  <2> HIDE DEF Part, x
  <2>8. \A y \in Part(k) \cup {x} : of[y] \in Nat
    BY <2>4
  <2>9. Total(Part(k) \cup {x}, of) = Total(Part(k), of) + of[x]
    BY <2>3, <2>5, <2>8, TotalOfMore
  <2> QED BY <2>1, <2>2, <2>6, <2>7, <2>9
<1>6. ASSUME NEW k \in Nat, k \in I PROVE k + 1 \in I
  <2>1. CASE k + 1 <= n
    BY <1>5, <1>6, <2>1
  <2>2. CASE ~(k + 1 <= n)
    BY <2>2
  <2> QED BY <2>1, <2>2
<1>7. sums[n] = Total(Part(n), of)
  <2>1. n \in I
    <3> HIDE DEF I
    <3> QED BY <1>2, <1>4, <1>6, SetInduction
  <2> QED BY <1>2, <2>1
<1>8. Part(n) = S
  BY <1>2
<1> QED BY <1>3, <1>7, <1>8

-----------------------------------------------------------------------------
(* A name is normalized segment by segment; what comes out is a path. *)
NamePaths(Seg) == [inside : BOOLEAN, path : Seq(Seg)]
AlongName(at, segment) ==
  IF ~at.inside \/ segment = "." THEN at
  ELSE IF segment # ".." THEN [at EXCEPT !.path = Append(@, segment)]
  ELSE IF at.path = <<>> THEN [at EXCEPT !.inside = FALSE]
  ELSE [at EXCEPT !.path = Front(@)]

LEMMA AlongNameIs ==
  ASSUME NEW Seg, NEW at \in NamePaths(Seg), NEW segment \in Seg
  PROVE AlongName(at, segment) \in NamePaths(Seg)
<1>1. at.inside \in BOOLEAN /\ at.path \in Seq(Seg)
  BY DEF NamePaths
<1>4. Append(at.path, segment) \in Seq(Seg)
  BY <1>1, AppendIs
<1>5. at.path # <<>> => Front(at.path) \in Seq(Seg)
  <2>1. ASSUME at.path # <<>> PROVE Front(at.path) \in Seq(Seg)
    <3>1. Len(at.path) \in Nat /\ Len(at.path) # 0
      BY <1>1, <2>1
    <3>2. \A i \in 1..(Len(at.path) - 1) : at.path[i] \in Seg
      BY <1>1
    <3>3. Len(at.path) - 1 \in Nat
      BY <3>1
    <3> QED BY <1>1, <3>2, <3>3, SMTT(30) DEF Front
  <2> QED BY <2>1
<1>6. /\ \A p \in Seq(Seg) : [at EXCEPT !.path = p] \in NamePaths(Seg)
      /\ [at EXCEPT !.inside = FALSE] \in NamePaths(Seg)
  BY DEF NamePaths
<1> QED BY <1>4, <1>5, <1>6 DEF AlongName

LEMMA NormalizedIs ==
  ASSUME NEW Seg, NEW name \in Seq(Seg)
  PROVE Normalized(name).inside \in BOOLEAN /\ Normalized(name).path \in Seq(Seg)
<1> DEFINE n == Len(name)  V == NamePaths(Seg)  base == [inside |-> TRUE, path |-> <<>>]
           step == [p \in V \X (1..n) |-> AlongName(p[1], name[p[2]])]
           Pass(f) == f = [s \in SUBSET DOMAIN name |->
                             IF s = {} THEN base
                             ELSE AlongName(f[s \ {Max(s)}], name[Max(s)])]
           fold == CHOOSE f : Pass(f)
<1>1. n \in Nat /\ DOMAIN name = 1..n /\ \A i \in 1..n : name[i] \in Seg
  OBVIOUS
<1>2. base \in V
  BY DEF NamePaths
<1> HIDE DEF n, V, base
<1>3. step \in [V \X (1..n) -> V]
  BY <1>1, AlongNameIs DEF V
<1>4. \A v \in V, k \in 1..n : step[v, k] = AlongName(v, name[k])
  OBVIOUS
<1> HIDE DEF step
<1>5. PICK f \in [SUBSET (1..n) -> V] : IsFold(f, n, base, step)
  BY <1>1, <1>2, <1>3, FoldExists
<1>6. ASSUME NEW s \in SUBSET (1..n), s # {}
      PROVE /\ step[f[s \ {Max(s)}], Max(s)] = AlongName(f[s \ {Max(s)}], name[Max(s)])
  <2>1. f[s \ {Max(s)}] \in V /\ Max(s) \in 1..n
    BY <1>1, <1>5, <1>6, MaxIs
  <2> QED BY <1>4, <2>1
<1>7. Pass(f)
  <2> DEFINE One(s) == IF s = {} THEN base ELSE step[f[s \ {Max(s)}], Max(s)]
             Two(s) == IF s = {} THEN base ELSE AlongName(f[s \ {Max(s)}], name[Max(s)])
  <2>1. \A s \in SUBSET (1..n) : One(s) = Two(s)
    BY <1>6
  <2>2. f = [s \in SUBSET (1..n) |-> One(s)]
    BY <1>5 DEF IsFold
  <2> HIDE DEF One, Two
  <2>3. f = [s \in SUBSET (1..n) |-> Two(s)]
    BY <2>1, <2>2
  <2> QED BY <1>1, <2>3 DEF Two
<1>8. Pass(fold)
  <2> HIDE DEF Pass
  <2> QED BY <1>7
<1>9. Normalized(name) = fold[DOMAIN name]
  BY DEF Normalized, FoldLeft, MapThenFoldSet, AlongName, fold, base
<1> HIDE DEF fold
<1> DEFINE I == {k \in Nat : k <= n => fold[1..k] \in V}
<1>10. 0 \in I
  <2>1. 1..0 = {} /\ fold[{}] = base
    BY <1>1, <1>8, SMT
  <2> QED BY <1>2, <2>1
<1>11. ASSUME NEW k \in Nat, k \in I, k + 1 <= n PROVE k + 1 \in I
  <2>1. k <= n /\ k + 1 \in 1..n /\ 1..(k + 1) \in SUBSET (1..n) /\ k + 1 # 0 /\ k + 1 \in Nat
    BY <1>1, <1>11, SMT
  <2>2. /\ Max(1..(k + 1)) = k + 1 /\ (1..(k + 1)) \ {k + 1} = 1..((k + 1) - 1)
        /\ 1..(k + 1) # {}
    BY <2>1, MaxOfInterval
  <2>3. (k + 1) - 1 = k
    OBVIOUS
  <2>4. fold[1..(k + 1)] = AlongName(fold[1..k], name[k + 1])
    <3> DEFINE s == 1..(k + 1)
    <3>1. s \in SUBSET DOMAIN name /\ s # {}
      BY <1>1, <2>1, <2>2
    <3> HIDE DEF s
    <3>2. fold[s] = AlongName(fold[s \ {Max(s)}], name[Max(s)])
      BY <1>8, <3>1
    <3>3. Max(s) = k + 1 /\ s \ {k + 1} = 1..k
      BY <2>2, <2>3 DEF s
    <3> QED BY <3>2, <3>3 DEF s
  <2>5. fold[1..(k + 1)] \in V
    BY <1>1, <1>11, <2>1, <2>4, AlongNameIs DEF V
  <2> QED BY <2>1, <2>5
<1>12. ASSUME NEW k \in Nat, k \in I PROVE k + 1 \in I
  <2>1. CASE k + 1 <= n
    BY <1>11, <1>12, <2>1
  <2>2. CASE ~(k + 1 <= n)
    BY <2>2
  <2> QED BY <2>1, <2>2
<1>13. n \in I
  <2> HIDE DEF I
  <2> QED BY <1>1, <1>10, <1>12, SetInduction
<1>14. Normalized(name) \in V
  BY <1>1, <1>9, <1>13
<1> QED BY <1>14 DEF V, NamePaths

-----------------------------------------------------------------------------
(* What the extraction keeps, and what one file does to it. *)
ArchiveErrors == {NoError, "io", "per-file size", "total size", "entry count",
                  "path traversal", "compression ratio"}
DiskFiles(Seg) == UNION {[D -> Nat] : D \in SUBSET Seq(Seg)}
ExtractStates(Seg) ==
  [error : ArchiveErrors, entries : Nat, total : Nat, files : Nat, skipped : Nat,
   disk : DiskFiles(Seg)]
Overwritten(disk, path, length) ==
  [p \in DOMAIN disk \cup {path} |-> IF p = path THEN length ELSE disk[p]]

LEMMA DiskFilesAre ==
  ASSUME NEW Seg, NEW d \in DiskFiles(Seg)
  PROVE /\ DOMAIN d \subseteq Seq(Seg) /\ \A p \in DOMAIN d : d[p] \in Nat
        /\ \A path \in Seq(Seg), n \in Nat : Overwritten(d, path, n) \in DiskFiles(Seg)
<1>1. PICK D \in SUBSET Seq(Seg) : d \in [D -> Nat]
  BY DEF DiskFiles
<1>2. ASSUME NEW path \in Seq(Seg), NEW n \in Nat PROVE Overwritten(d, path, n) \in DiskFiles(Seg)
  <2>1. D \cup {path} \in SUBSET Seq(Seg)
    OBVIOUS
  <2>2. Overwritten(d, path, n) \in [D \cup {path} -> Nat]
    BY <1>1 DEF Overwritten
  <2> QED BY <2>1, <2>2 DEF DiskFiles
<1> QED BY <1>1, <1>2

LEMMA StopIs ==
  ASSUME NEW Seg, NEW s \in ExtractStates(Seg), NEW error \in ArchiveErrors
  PROVE /\ Stop(s, error) \in ExtractStates(Seg) /\ Stop(s, error).error = error
        /\ Stop(s, error).entries = s.entries /\ Stop(s, error).total = s.total
        /\ Stop(s, error).files = s.files /\ Stop(s, error).skipped = s.skipped
        /\ Stop(s, error).disk = s.disk
BY DEF ExtractStates, Stop

LEMMA SkipIs ==
  ASSUME NEW Seg, NEW s \in ExtractStates(Seg)
  PROVE /\ Skip(s) \in ExtractStates(Seg) /\ Skip(s).error = s.error
        /\ Skip(s).entries = s.entries /\ Skip(s).total = s.total
        /\ Skip(s).files = s.files /\ Skip(s).skipped = s.skipped + 1
        /\ Skip(s).disk = s.disk
BY DEF ExtractStates, Skip

OneMoreEntry(s) == [s EXCEPT !.entries = @ + 1]
LEMMA OneMoreEntryIs ==
  ASSUME NEW Seg, NEW s \in ExtractStates(Seg)
  PROVE /\ OneMoreEntry(s) \in ExtractStates(Seg) /\ OneMoreEntry(s).error = s.error
        /\ OneMoreEntry(s).entries = s.entries + 1 /\ OneMoreEntry(s).total = s.total
        /\ OneMoreEntry(s).files = s.files /\ OneMoreEntry(s).skipped = s.skipped
        /\ OneMoreEntry(s).disk = s.disk
BY DEF ExtractStates, OneMoreEntry

MoreTotal(s, n) == [s EXCEPT !.total = @ + n]
MoreFiles(s) == [s EXCEPT !.files = @ + 1]
LEMMA MoreTotalIs ==
  ASSUME NEW Seg, NEW s \in ExtractStates(Seg), NEW n \in Nat
  PROVE /\ MoreTotal(s, n) \in ExtractStates(Seg) /\ MoreTotal(s, n).error = s.error
        /\ MoreTotal(s, n).entries = s.entries /\ MoreTotal(s, n).total = s.total + n
        /\ MoreTotal(s, n).files = s.files /\ MoreTotal(s, n).skipped = s.skipped
        /\ MoreTotal(s, n).disk = s.disk
BY DEF ExtractStates, MoreTotal

LEMMA MoreFilesIs ==
  ASSUME NEW Seg, NEW s \in ExtractStates(Seg)
  PROVE /\ MoreFiles(s) \in ExtractStates(Seg) /\ MoreFiles(s).error = s.error
        /\ MoreFiles(s).entries = s.entries /\ MoreFiles(s).total = s.total
        /\ MoreFiles(s).files = s.files + 1 /\ MoreFiles(s).skipped = s.skipped
        /\ MoreFiles(s).disk = s.disk
BY DEF ExtractStates, MoreFiles

LEMMA OnDiskIs ==
  ASSUME NEW Seg, NEW s \in ExtractStates(Seg), NEW path \in Seq(Seg), NEW n \in Nat
  PROVE /\ OnDisk(s, path, n) \in ExtractStates(Seg) /\ OnDisk(s, path, n).error = s.error
        /\ OnDisk(s, path, n).entries = s.entries /\ OnDisk(s, path, n).total = s.total
        /\ OnDisk(s, path, n).files = s.files /\ OnDisk(s, path, n).skipped = s.skipped
        /\ OnDisk(s, path, n).disk = Overwritten(s.disk, path, n)
<1> DEFINE d == Overwritten(s.disk, path, n)
<1>1. d \in DiskFiles(Seg)
  BY DiskFilesAre DEF ExtractStates
<1>2. OnDisk(s, path, n) = [s EXCEPT !.disk = d]
  BY DEF OnDisk, Overwritten
<1> HIDE DEF d
<1>3. LET w == [s EXCEPT !.disk = d] IN
        /\ w \in ExtractStates(Seg) /\ w.error = s.error /\ w.entries = s.entries
        /\ w.total = s.total /\ w.files = s.files /\ w.skipped = s.skipped /\ w.disk = d
  BY <1>1 DEF ExtractStates
<1> QED BY <1>2, <1>3 DEF d

LEMMA FirstIs ==
  ASSUME NEW B \in SUBSET Nat, B # {}
  PROVE LET first == CHOOSE n \in B : \A m \in B : n <= m
        IN first \in B /\ \A m \in B : first <= m
BY Least

(* The chunks before the one that is too much are on disk; it is not. *)
LEMMA BeforeIs ==
  ASSUME NEW first \in Nat, first # 0, NEW chunk \in Nat \ {0}
  PROVE LET w == ((first - 1) \div chunk) * chunk
        IN w \in Nat /\ w < first /\ w % chunk = 0
<1> DEFINE q == (first - 1) \div chunk  r == (first - 1) % chunk
<1>1. first - 1 \in Nat /\ chunk \in Nat /\ chunk > 0
  BY SMT
<1>2. q \in Nat /\ r \in 0..(chunk - 1) /\ first - 1 = chunk * q + r
  <2> DEFINE a == first - 1
  <2>1. \A b \in Nat : /\ b \div chunk \in Nat /\ b % chunk \in 0..(chunk - 1)
                       /\ b = chunk * (b \div chunk) + (b % chunk)
    BY <1>1, SMT
  <2> QED BY <1>1, <2>1
<1> HIDE DEF q, r
<1>3. q * chunk \in Nat /\ q * chunk = chunk * q
  BY <1>1, <1>2, SMT
<1>4. q * chunk < first
  <2> DEFINE w == q * chunk
  <2>1. first - 1 = w + r /\ w \in Nat /\ r \in Nat
    BY <1>1, <1>2, <1>3
  <2> HIDE DEF w
  <2>2. w < first
    BY <2>1
  <2> QED BY <2>2 DEF w
<1>5. (q * chunk) % chunk = 0
  BY <1>1, <1>2, SMTT(30)
<1> QED BY <1>3, <1>4, <1>5 DEF q

Clash(s, path) == (Parents(path) \cap DOMAIN s.disk # {}) \/ path \in Directories(s)
Wrote(s, new, path, size) ==
  /\ new.error = NoError /\ new.total = s.total + size /\ new.files = s.files + 1
  /\ new.disk = Overwritten(s.disk, path, size)
  /\ ~Clash(s, path) /\ size <= MaxEntryBytes /\ s.total + size <= MaxTotalBytes
Refused(s, new, path, size) ==
  /\ new.error # NoError
  /\ Clash(s, path) \/ size > MaxEntryBytes \/ s.total + size > MaxTotalBytes
  /\ \/ new.disk = s.disk
     \/ \E w \in Nat : /\ w <= MaxEntryBytes /\ s.total + w <= MaxTotalBytes
                       /\ new.disk = Overwritten(s.disk, path, w)

(* A file is written whole, or refused for a reason; what is on disk of one that *)
(* is refused is within the limits, too. *)
LEMMA WriteIs ==
  ASSUME MaxEntryBytes \in Nat, MaxTotalBytes \in Nat, NEW Seg, NEW s \in ExtractStates(Seg),
         s.error = NoError, s.total <= MaxTotalBytes,
         NEW path \in Seq(Seg), NEW size \in Nat, NEW chunk \in Nat \ {0}
  PROVE LET new == Write(s, path, size, chunk)
        IN /\ new \in ExtractStates(Seg) /\ new.entries = s.entries /\ new.skipped = s.skipped
           /\ Wrote(s, new, path, size) \/ Refused(s, new, path, size)
<1> DEFINE taken == Taken(size)
           ends == {n \in 1..taken : n % chunk = 0 \/ n = taken}
           TooMuch(n) == n > MaxEntryBytes \/ s.total + n > MaxTotalBytes
           bad == {n \in ends : TooMuch(n)}
           first == CHOOSE n \in bad : \A m \in bad : n <= m
           w == ((first - 1) \div chunk) * chunk
           error == IF first > MaxEntryBytes THEN "per-file size" ELSE "total size"
           new == Write(s, path, size, chunk)
<1>1. taken \in Nat /\ taken <= size /\ (taken = size \/ taken = MaxEntryBytes + 1)
      /\ (taken = size => size <= MaxEntryBytes + 1)
      /\ (size <= MaxEntryBytes => taken = size)
  BY SMT DEF Taken
<1>2. s.total \in Nat /\ s.files \in Nat /\ s.entries \in Nat /\ s.skipped \in Nat
  BY DEF ExtractStates
<1>3. CASE Clash(s, path)
  <2>1. new = Stop(s, "io")
    BY <1>3 DEF Write, Clash
  <2>2. "io" \in ArchiveErrors /\ "io" # NoError
    BY DEF ArchiveErrors, NoError
  <2> HIDE DEF new
  <2>3. /\ new \in ExtractStates(Seg) /\ new.error = "io" /\ new.disk = s.disk
        /\ new.entries = s.entries /\ new.skipped = s.skipped
    BY <2>1, <2>2, StopIs
  <2>4. Refused(s, new, path, size)
    BY <1>3, <2>2, <2>3 DEF Refused
  <2> QED BY <2>3, <2>4 DEF new
<1>4. CASE ~Clash(s, path) /\ bad = {}
  <2> DEFINE disk == OnDisk(s, path, taken)
  <2>1. new = MoreFiles(MoreTotal(disk, taken))
    BY <1>4 DEF Write, Clash, MoreFiles, MoreTotal
  <2>2. taken # 0 => ~TooMuch(taken)
    <3>1. taken # 0 => taken \in ends
      BY <1>1
    <3> QED BY <1>4, <3>1
  <2>3. size <= MaxEntryBytes /\ taken = size /\ s.total + size <= MaxTotalBytes
    <3> HIDE DEF taken
    <3> QED BY <1>1, <1>2, <2>2, SMT
  <2>4. /\ disk \in ExtractStates(Seg) /\ disk.error = s.error /\ disk.entries = s.entries
        /\ disk.total = s.total /\ disk.files = s.files /\ disk.skipped = s.skipped
        /\ disk.disk = Overwritten(s.disk, path, taken)
    <3>1. taken \in Nat
      BY <1>1
    <3> HIDE DEF taken
    <3> QED BY <3>1, OnDiskIs
  <2> HIDE DEF disk, new, taken
  <2>5. /\ new \in ExtractStates(Seg) /\ new.error = disk.error /\ new.entries = disk.entries
        /\ new.total = disk.total + taken /\ new.files = disk.files + 1
        /\ new.skipped = disk.skipped /\ new.disk = disk.disk
    <3>1. disk \in ExtractStates(Seg) /\ taken \in Nat
      BY <1>1, <2>4
    <3> DEFINE more == MoreTotal(disk, taken)
    <3>2. /\ more \in ExtractStates(Seg) /\ more.error = disk.error /\ more.entries = disk.entries
          /\ more.total = disk.total + taken /\ more.files = disk.files
          /\ more.skipped = disk.skipped /\ more.disk = disk.disk
      BY <3>1, MoreTotalIs
    <3>3. new = MoreFiles(more)
      BY <2>1
    <3> HIDE DEF more
    <3> QED BY <3>2, <3>3, MoreFilesIs
  <2>6. Wrote(s, new, path, size)
    BY <1>4, <2>3, <2>4, <2>5 DEF Wrote
  <2> QED BY <2>4, <2>5, <2>6 DEF new
<1>5. CASE ~Clash(s, path) /\ bad # {}
  <2> DEFINE disk == OnDisk(s, path, w)
             stop == Stop(disk, error)
  <2>1. new = MoreTotal(stop, first)
    BY <1>5 DEF Write, Clash, MoreTotal
  <2>2. first \in bad /\ \A m \in bad : first <= m
    <3>1. bad \in SUBSET Nat
      OBVIOUS
    <3> HIDE DEF bad
    <3> QED BY <1>5, <3>1, FirstIs
  <2> HIDE DEF first
  <2>3. /\ first \in Nat /\ first # 0 /\ first <= taken /\ TooMuch(first)
        /\ first \in 1..taken
    <3>1. first \in 1..taken /\ TooMuch(first)
      BY <2>2
    <3> HIDE DEF taken, TooMuch
    <3> QED BY <1>1, <3>1
  <2>4. w \in Nat /\ w < first /\ w % chunk = 0
    BY <2>3, BeforeIs
  <2> HIDE DEF w
  <2>5. w <= MaxEntryBytes /\ s.total + w <= MaxTotalBytes
    <3>1. CASE w = 0
      BY <1>2, <3>1
    <3>2. CASE w # 0
      <4>1. w \in 1..taken
        <5> HIDE DEF taken
        <5> QED BY <1>1, <2>3, <2>4, <3>2
      <4>2. w \notin bad
        <5> HIDE DEF bad
        <5>1. ~(first <= w)
          BY <2>3, <2>4
        <5> QED BY <2>2, <5>1
      <4>3. ~TooMuch(w)
        BY <2>4, <4>1, <4>2
      <4> QED BY <1>2, <2>4, <4>3
    <3> QED BY <3>1, <3>2
  <2>6. size > MaxEntryBytes \/ s.total + size > MaxTotalBytes
    <3>1. first <= size
      <4> HIDE DEF taken
      <4> QED BY <1>1, <2>3
    <3> HIDE DEF taken
    <3> QED BY <1>2, <2>3, <3>1
  <2>7. error \in ArchiveErrors /\ error # NoError
    BY DEF ArchiveErrors, NoError
  <2>8. /\ disk \in ExtractStates(Seg) /\ disk.entries = s.entries
        /\ disk.skipped = s.skipped /\ disk.disk = Overwritten(s.disk, path, w)
    BY <2>4, OnDiskIs
  <2> HIDE DEF disk, error
  <2>9. /\ stop \in ExtractStates(Seg) /\ stop.error = error /\ stop.entries = s.entries
        /\ stop.skipped = s.skipped /\ stop.disk = Overwritten(s.disk, path, w)
    BY <2>7, <2>8, StopIs
  <2> HIDE DEF stop, new, taken
  <2>10. /\ new \in ExtractStates(Seg) /\ new.error = stop.error /\ new.entries = stop.entries
         /\ new.skipped = stop.skipped /\ new.disk = stop.disk
    <3>1. stop \in ExtractStates(Seg) /\ first \in Nat
      BY <2>3, <2>9
    <3> QED BY <2>1, <3>1, MoreTotalIs
  <2>11. Refused(s, new, path, size)
    BY <2>4, <2>5, <2>6, <2>7, <2>9, <2>10 DEF Refused
  <2> QED BY <2>9, <2>10, <2>11 DEF new
<1> QED BY <1>3, <1>4, <1>5

-----------------------------------------------------------------------------
(* The entries up to one of them: which are files, which are told of, and whether *)
(* they are acceptable so far. *)
EntryRecords(Seg) ==
  [name : Seq(Seg), kind : {"file", "directory", "link"}, size : Nat, suspicious : BOOLEAN]
PathAt(entries, i) == Normalized(entries[i].name).path
SafeAt(entries, i) == Normalized(entries[i].name).inside
KeptAt(entries, i) ==
  SafeAt(entries, i) /\ PathAt(entries, i) # <<>> /\ ".git" \notin ToSet(PathAt(entries, i))
IsFileAt(entries, i) == KeptAt(entries, i) /\ entries[i].kind = "file"
ToldAt(entries, i) == \/ PathAt(entries, i) # <<>> /\ ~KeptAt(entries, i)
                      \/ KeptAt(entries, i) /\ entries[i].kind = "link"
FilesTo(entries, k) == {i \in 1..k : IsFileAt(entries, i)}
ToldTo(entries, k) == {i \in 1..k : ToldAt(entries, i)}
Sizes(entries) == [i \in DOMAIN entries |-> entries[i].size]
AmountTo(entries, k) == Total(FilesTo(entries, k), Sizes(entries))
FineAt(kind, entries, i) ==
  IsFileAt(entries, i) => /\ entries[i].size <= MaxEntryBytes
                          /\ kind = "tar" \/ ~entries[i].suspicious
ApartTo(entries, k) ==
  \A i, j \in FilesTo(entries, k) : PathAt(entries, i) \notin Parents(PathAt(entries, j))
FineTo(kind, entries, k) ==
  /\ k <= MaxEntries /\ \A i \in 1..k : SafeAt(entries, i)
  /\ \A i \in 1..k : FineAt(kind, entries, i)
  /\ AmountTo(entries, k) <= MaxTotalBytes
  /\ ApartTo(entries, k)
ApartFrom(entries, k, path) ==
  \A i \in FilesTo(entries, k) : /\ PathAt(entries, i) \notin Parents(path)
                                 /\ path \notin Parents(PathAt(entries, i))

LEMMA EntriesAre ==
  ASSUME NEW Seg, NEW entries \in Seq(EntryRecords(Seg))
  PROVE /\ Len(entries) \in Nat /\ DOMAIN entries = 1..Len(entries)
        /\ \A i \in 1..Len(entries) :
             /\ entries[i] \in EntryRecords(Seg) /\ entries[i].size \in Nat
             /\ entries[i].kind \in {"file", "directory", "link"}
             /\ SafeAt(entries, i) \in BOOLEAN /\ PathAt(entries, i) \in Seq(Seg)
             /\ Sizes(entries)[i] = entries[i].size
<1>1. /\ Len(entries) \in Nat /\ DOMAIN entries = 1..Len(entries)
      /\ \A i \in 1..Len(entries) : entries[i] \in EntryRecords(Seg)
  OBVIOUS
<1>2. \A e \in EntryRecords(Seg) : /\ e.name \in Seq(Seg) /\ e.size \in Nat
                                   /\ e.kind \in {"file", "directory", "link"}
  BY DEF EntryRecords
<1>3. ASSUME NEW i \in 1..Len(entries)
      PROVE SafeAt(entries, i) \in BOOLEAN /\ PathAt(entries, i) \in Seq(Seg)
  BY <1>1, <1>2, <1>3, NormalizedIs DEF SafeAt, PathAt
<1>4. \A i \in 1..Len(entries) : Sizes(entries)[i] = entries[i].size
  BY <1>1 DEF Sizes
<1> QED BY <1>1, <1>2, <1>3, <1>4

Upto(D, m) == {i \in 1..m : i \in D}
LEMMA UptoNext ==
  ASSUME NEW k \in Nat, NEW D
  PROVE /\ k + 1 \in D => Upto(D, k + 1) = Upto(D, k) \cup {k + 1}
        /\ k + 1 \notin D => Upto(D, k + 1) = Upto(D, k)
        /\ k + 1 \notin Upto(D, k) /\ IsFiniteSet(Upto(D, k))
        /\ Cardinality(Upto(D, k)) \in Nat
        /\ k + 1 \in D => Cardinality(Upto(D, k + 1)) = Cardinality(Upto(D, k)) + 1
<1> DEFINE To(m) == Upto(D, m)
<1>1. \A i : i \in 1..(k + 1) <=> i \in 1..k \/ i = k + 1
  BY SMT
<1>2. k + 1 \notin 1..k
  BY SMT
<1>3. IsFiniteSet(To(k))
  <2>1. IsFiniteSet(1..k) /\ To(k) \subseteq 1..k
    BY FS_Interval DEF Upto
  <2> QED BY <2>1, FS_Subset
<1>4. Cardinality(To(k)) \in Nat
  BY <1>3, FS_CardinalityType
<1>5. k + 1 \in D => To(k + 1) = To(k) \cup {k + 1}
  BY <1>1 DEF Upto
<1>6. k + 1 \notin D => To(k + 1) = To(k)
  BY <1>1 DEF Upto
<1>7. k + 1 \notin To(k)
  BY <1>2 DEF Upto
<1> HIDE DEF To
<1>8. k + 1 \in D => Cardinality(To(k + 1)) = Cardinality(To(k)) + 1
  BY <1>3, <1>5, <1>7, FS_AddElement
<1> QED BY <1>3, <1>4, <1>5, <1>6, <1>7, <1>8 DEF To

LEMMA FilesNext ==
  ASSUME NEW Seg, NEW entries \in Seq(EntryRecords(Seg)), NEW k \in Nat, k + 1 <= Len(entries)
  PROVE /\ IsFiniteSet(FilesTo(entries, k)) /\ AmountTo(entries, k) \in Nat
        /\ Cardinality(FilesTo(entries, k)) \in Nat
        /\ IsFileAt(entries, k + 1) =>
             /\ FilesTo(entries, k + 1) = FilesTo(entries, k) \cup {k + 1}
             /\ Cardinality(FilesTo(entries, k + 1)) = Cardinality(FilesTo(entries, k)) + 1
             /\ AmountTo(entries, k + 1) = AmountTo(entries, k) + entries[k + 1].size
        /\ ~IsFileAt(entries, k + 1) =>
             /\ FilesTo(entries, k + 1) = FilesTo(entries, k)
             /\ AmountTo(entries, k + 1) = AmountTo(entries, k)
<1> DEFINE D == {i \in Nat : IsFileAt(entries, i)}
<1>1. k + 1 \in Nat /\ k + 1 \in 1..Len(entries)
  OBVIOUS
<1>2. \A m \in Nat : FilesTo(entries, m) = Upto(D, m)
  BY DEF FilesTo, Upto
<1>3. IsFileAt(entries, k + 1) <=> k + 1 \in D
  BY <1>1
<1>4. FilesTo(entries, k) = Upto(D, k) /\ FilesTo(entries, k + 1) = Upto(D, k + 1)
  BY <1>1, <1>2
<1> HIDE DEF D
<1>5. /\ k + 1 \in D => FilesTo(entries, k + 1) = FilesTo(entries, k) \cup {k + 1}
      /\ k + 1 \notin D => FilesTo(entries, k + 1) = FilesTo(entries, k)
      /\ k + 1 \notin FilesTo(entries, k) /\ IsFiniteSet(FilesTo(entries, k))
      /\ Cardinality(FilesTo(entries, k)) \in Nat
      /\ k + 1 \in D =>
           Cardinality(FilesTo(entries, k + 1)) = Cardinality(FilesTo(entries, k)) + 1
  BY <1>4, UptoNext
<1>6. \A i \in FilesTo(entries, k) \cup {k + 1} : Sizes(entries)[i] \in Nat
  <2>1. \A i \in 1..k : i \in 1..Len(entries)
    BY <1>1, EntriesAre
  <2> QED BY <1>1, <2>1, EntriesAre DEF FilesTo
<1>7. AmountTo(entries, k) \in Nat
  BY <1>5, <1>6, UnitsAreFinite DEF AmountTo
<1>8. Total(FilesTo(entries, k) \cup {k + 1}, Sizes(entries))
        = Total(FilesTo(entries, k), Sizes(entries)) + Sizes(entries)[k + 1]
  BY <1>5, <1>6, TotalOfMore
<1>9. Sizes(entries)[k + 1] = entries[k + 1].size
  BY <1>1, EntriesAre
<1> QED BY <1>3, <1>5, <1>7, <1>8, <1>9 DEF AmountTo

LEMMA ToldNext ==
  ASSUME NEW entries, NEW k \in Nat
  PROVE /\ Cardinality(ToldTo(entries, k)) \in Nat
        /\ ToldAt(entries, k + 1) =>
             Cardinality(ToldTo(entries, k + 1)) = Cardinality(ToldTo(entries, k)) + 1
        /\ ~ToldAt(entries, k + 1) => ToldTo(entries, k + 1) = ToldTo(entries, k)
<1> DEFINE D == {i \in Nat : ToldAt(entries, i)}
<1>1. k + 1 \in Nat
  OBVIOUS
<1>2. \A m \in Nat : ToldTo(entries, m) = Upto(D, m)
  BY DEF ToldTo, Upto
<1>3. ToldAt(entries, k + 1) <=> k + 1 \in D
  BY <1>1
<1>4. ToldTo(entries, k) = Upto(D, k) /\ ToldTo(entries, k + 1) = Upto(D, k + 1)
  BY <1>1, <1>2
<1> HIDE DEF D
<1>5. /\ k + 1 \notin D => ToldTo(entries, k + 1) = ToldTo(entries, k)
      /\ Cardinality(ToldTo(entries, k)) \in Nat
      /\ k + 1 \in D =>
           Cardinality(ToldTo(entries, k + 1)) = Cardinality(ToldTo(entries, k)) + 1
  BY <1>4, UptoNext
<1> QED BY <1>3, <1>5

(* No path is among its own parents. *)
LEMMA ParentsAreShorter ==
  ASSUME NEW Seg, NEW path \in Seq(Seg)
  PROVE path \notin Parents(path)
<1>1. ASSUME NEW m \in 1..(Len(path) - 1) PROVE SubSeq(path, 1, m) # path
  <2>1. Len(path) \in Nat /\ m \in Nat /\ m # Len(path)
    BY SMT
  <2>2. Len(SubSeq(path, 1, m)) = m
    BY <2>1
  <2> QED BY <2>1, <2>2
<1> QED BY <1>1 DEF Parents

LEMMA FineToNext ==
  ASSUME NEW kind, NEW Seg, NEW entries \in Seq(EntryRecords(Seg)), NEW k \in Nat,
         k + 1 <= Len(entries), MaxEntries \in Nat, MaxTotalBytes \in Nat
  PROVE FineTo(kind, entries, k + 1) <=>
          /\ FineTo(kind, entries, k) /\ k + 1 <= MaxEntries /\ SafeAt(entries, k + 1)
          /\ FineAt(kind, entries, k + 1)
          /\ IsFileAt(entries, k + 1) =>
               /\ AmountTo(entries, k) + entries[k + 1].size <= MaxTotalBytes
               /\ ApartFrom(entries, k, PathAt(entries, k + 1))
<1> DEFINE new == k + 1
<1>1. /\ \A i : i \in 1..new <=> i \in 1..k \/ i = new
      /\ new \in Nat /\ new \in 1..Len(entries) /\ (new <= MaxEntries => k <= MaxEntries)
  BY SMT
<1>2. entries[new].size \in Nat /\ PathAt(entries, new) \in Seq(Seg)
  BY <1>1, EntriesAre
<1>3. PathAt(entries, new) \notin Parents(PathAt(entries, new))
  BY <1>2, ParentsAreShorter
<1>4. CASE IsFileAt(entries, new)
  <2>1. /\ FilesTo(entries, new) = FilesTo(entries, k) \cup {new}
        /\ AmountTo(entries, new) = AmountTo(entries, k) + entries[new].size
        /\ AmountTo(entries, k) \in Nat
    BY <1>4, FilesNext
  <2>2. ApartTo(entries, new) <=>
          ApartTo(entries, k) /\ ApartFrom(entries, k, PathAt(entries, new))
    BY <1>3, <2>1 DEF ApartTo, ApartFrom
  <2>3. /\ AmountTo(entries, new) <= MaxTotalBytes => AmountTo(entries, k) <= MaxTotalBytes
    BY <1>2, <2>1
  <2> HIDE DEF new
  <2>4. FineTo(kind, entries, new) <=>
          /\ FineTo(kind, entries, k) /\ new <= MaxEntries /\ SafeAt(entries, new)
          /\ FineAt(kind, entries, new)
          /\ AmountTo(entries, new) <= MaxTotalBytes
          /\ ApartFrom(entries, k, PathAt(entries, new))
    BY <1>1, <2>2, <2>3 DEF FineTo
  <2> QED BY <1>4, <2>1, <2>4 DEF new
<1>5. CASE ~IsFileAt(entries, new)
  <2>1. /\ FilesTo(entries, new) = FilesTo(entries, k)
        /\ AmountTo(entries, new) = AmountTo(entries, k)
    BY <1>5, FilesNext
  <2>2. ApartTo(entries, new) <=> ApartTo(entries, k)
    BY <2>1 DEF ApartTo
  <2> HIDE DEF new
  <2>3. FineTo(kind, entries, new) <=>
          /\ FineTo(kind, entries, k) /\ new <= MaxEntries /\ SafeAt(entries, new)
          /\ FineAt(kind, entries, new)
    BY <1>1, <2>1, <2>2 DEF FineTo
  <2> QED BY <1>5, <2>3 DEF new
<1> QED BY <1>4, <1>5

-----------------------------------------------------------------------------
(* After each entry: what is on disk is within the limits; there is no error so  *)
(* far exactly when the entries so far are acceptable; and then all of them are  *)
(* accounted for.                                                                *)
Limited(s) ==
  /\ IsFiniteSet(DOMAIN s.disk) /\ \A p \in DOMAIN s.disk : s.disk[p] <= MaxEntryBytes
  /\ Total(DOMAIN s.disk, s.disk) <= MaxTotalBytes
PathsTo(entries, k) == {PathAt(entries, i) : i \in FilesTo(entries, k)}
LastAre(disk, entries, k) ==
  \A i \in FilesTo(entries, k) :
    (\A j \in FilesTo(entries, k) : PathAt(entries, j) = PathAt(entries, i) => j <= i) =>
      disk[PathAt(entries, i)] = entries[i].size
WholeTo(s, entries, k) ==
  /\ s.entries = k /\ s.total = AmountTo(entries, k)
  /\ Total(DOMAIN s.disk, s.disk) <= s.total
  /\ DOMAIN s.disk = PathsTo(entries, k)
  /\ s.files = Cardinality(FilesTo(entries, k))
  /\ s.skipped = Cardinality(ToldTo(entries, k))
  /\ LastAre(s.disk, entries, k)
ExtractedTo(s, kind, entries, k) ==
  /\ Limited(s) /\ (s.error = NoError <=> FineTo(kind, entries, k))
  /\ s.error = NoError => WholeTo(s, entries, k)

LEMMA ClashIs ==
  ASSUME NEW s, NEW entries, NEW k, DOMAIN s.disk = PathsTo(entries, k), NEW path
  PROVE Clash(s, path) <=> ~ApartFrom(entries, k, path)
<1>1. Parents(path) \cap DOMAIN s.disk # {} <=>
        \E i \in FilesTo(entries, k) : PathAt(entries, i) \in Parents(path)
  BY DEF PathsTo
<1>2. path \in Directories(s) <=>
        \E i \in FilesTo(entries, k) : path \in Parents(PathAt(entries, i))
  <2>1. path \in Directories(s) <=> \E p \in DOMAIN s.disk : path \in Parents(p)
    BY DEF Directories
  <2> QED BY <2>1 DEF PathsTo
<1> QED BY <1>1, <1>2 DEF Clash, ApartFrom

(* An entry that is no file changes nothing but how many are told of. *)
LEMMA NoFileNext ==
  ASSUME NEW kind, NEW Seg, NEW entries \in Seq(EntryRecords(Seg)), NEW k \in Nat,
         k + 1 <= Len(entries), MaxEntries \in Nat, MaxTotalBytes \in Nat,
         NEW s, ExtractedTo(s, kind, entries, k), s.error = NoError, k + 1 <= MaxEntries,
         SafeAt(entries, k + 1), ~IsFileAt(entries, k + 1),
         NEW new, new.error = NoError, new.entries = s.entries + 1, new.total = s.total,
         new.files = s.files, new.disk = s.disk,
         ToldAt(entries, k + 1) => new.skipped = s.skipped + 1,
         ~ToldAt(entries, k + 1) => new.skipped = s.skipped
  PROVE ExtractedTo(new, kind, entries, k + 1)
<1>1. Limited(s) /\ FineTo(kind, entries, k) /\ WholeTo(s, entries, k)
  BY DEF ExtractedTo
<1>2. FineTo(kind, entries, k + 1)
  BY <1>1, FineToNext DEF FineAt
<1>3. /\ FilesTo(entries, k + 1) = FilesTo(entries, k)
      /\ AmountTo(entries, k + 1) = AmountTo(entries, k)
  BY FilesNext
<1>4. new.skipped = Cardinality(ToldTo(entries, k + 1))
  <2>1. s.skipped = Cardinality(ToldTo(entries, k))
    BY <1>1 DEF WholeTo
  <2> QED BY <2>1, ToldNext
<1>5. WholeTo(new, entries, k + 1)
  <2>1. LastAre(new.disk, entries, k + 1) /\ PathsTo(entries, k + 1) = PathsTo(entries, k)
    BY <1>1, <1>3 DEF WholeTo, LastAre, PathsTo
  <2> QED BY <1>1, <1>3, <1>4, <2>1 DEF WholeTo
<1>6. Limited(new)
  BY <1>1 DEF Limited
<1> QED BY <1>2, <1>5, <1>6 DEF ExtractedTo

(* An entry that is refused leaves what is on disk. *)
LEMMA StopNext ==
  ASSUME NEW kind, NEW entries, NEW k, NEW s, ExtractedTo(s, kind, entries, k),
         ~FineTo(kind, entries, k + 1), NEW new, new.error # NoError, new.disk = s.disk
  PROVE ExtractedTo(new, kind, entries, k + 1)
BY DEF ExtractedTo, Limited

LEMMA OverwrittenIs ==
  ASSUME NEW disk, IsFiniteSet(DOMAIN disk), \A p \in DOMAIN disk : disk[p] \in Nat,
         NEW path, NEW n \in Nat
  PROVE LET new == Overwritten(disk, path, n)
        IN /\ DOMAIN new = DOMAIN disk \cup {path} /\ IsFiniteSet(DOMAIN new)
           /\ new[path] = n /\ \A p \in DOMAIN disk : p # path => new[p] = disk[p]
           /\ Total(DOMAIN new, new) <= Total(DOMAIN disk, disk) + n
           /\ Total(DOMAIN disk, disk) \in Nat /\ Total(DOMAIN new, new) \in Nat
<1> DEFINE new == Overwritten(disk, path, n)
<1>1. new = [p \in DOMAIN disk \cup {path} |-> IF p = path THEN n ELSE disk[p]]
  BY DEF Overwritten
<1>2. /\ DOMAIN new = DOMAIN disk \cup {path} /\ new[path] = n
      /\ \A p \in DOMAIN disk : p # path => new[p] = disk[p]
  BY <1>1
<1>3. IsFiniteSet(DOMAIN new)
  BY <1>2, FS_AddElement
<1> HIDE DEF new
<1>4. Total(DOMAIN new, new) <= Total(DOMAIN disk, disk) + n
  BY <1>1, TotalOfPut
<1>5. \A p \in DOMAIN new : new[p] \in Nat
  BY <1>2
<1>6. Total(DOMAIN disk, disk) \in Nat /\ Total(DOMAIN new, new) \in Nat
  BY <1>3, <1>5, UnitsAreFinite
<1> QED BY <1>2, <1>3, <1>4, <1>6 DEF new

(* What is written of a file keeps the limits. *)
LEMMA OverwrittenIsLimited ==
  ASSUME MaxEntryBytes \in Nat, MaxTotalBytes \in Nat,
         NEW Seg, NEW s \in ExtractStates(Seg), Limited(s), Total(DOMAIN s.disk, s.disk) <= s.total,
         NEW path \in Seq(Seg), NEW n \in Nat, n <= MaxEntryBytes, s.total + n <= MaxTotalBytes,
         NEW new, new.disk = Overwritten(s.disk, path, n)
  PROVE /\ Limited(new) /\ Total(DOMAIN new.disk, new.disk) <= s.total + n
<1>1. /\ IsFiniteSet(DOMAIN s.disk) /\ \A p \in DOMAIN s.disk : s.disk[p] \in Nat
      /\ s.total \in Nat
  BY DiskFilesAre DEF Limited, ExtractStates
<1> DEFINE disk == s.disk  over == Overwritten(s.disk, path, n)
<1>2. /\ DOMAIN over = DOMAIN disk \cup {path} /\ IsFiniteSet(DOMAIN over)
      /\ over[path] = n /\ \A p \in DOMAIN disk : p # path => over[p] = disk[p]
      /\ Total(DOMAIN over, over) <= Total(DOMAIN disk, disk) + n
      /\ Total(DOMAIN disk, disk) \in Nat /\ Total(DOMAIN over, over) \in Nat
  BY <1>1, OverwrittenIs
<1>3. Total(DOMAIN over, over) <= s.total + n /\ Total(DOMAIN over, over) <= MaxTotalBytes
  <2> DEFINE a == Total(DOMAIN over, over)  b == Total(DOMAIN disk, disk)
  <2>1. a <= b + n /\ b <= s.total /\ a \in Nat /\ b \in Nat
    BY <1>2
  <2> HIDE DEF a, b
  <2>2. a <= s.total + n /\ a <= MaxTotalBytes
    BY <1>1, <2>1
  <2> QED BY <2>2 DEF a
<1>4. \A p \in DOMAIN over : over[p] <= MaxEntryBytes
  <2>1. \A p \in DOMAIN disk : disk[p] <= MaxEntryBytes
    BY DEF Limited
  <2> HIDE DEF over, disk
  <2> QED BY <1>2, <2>1
<1>5. new.disk = over
  OBVIOUS
<1> HIDE DEF over
<1> QED BY <1>2, <1>3, <1>4, <1>5 DEF Limited

(* A file that is written is one more, and it is whole. *)
LEMMA WroteNext ==
  ASSUME MaxEntries \in Nat, MaxEntryBytes \in Nat, MaxTotalBytes \in Nat,
         NEW kind, NEW Seg, NEW entries \in Seq(EntryRecords(Seg)), NEW k \in Nat,
         k + 1 <= Len(entries),
         NEW s \in ExtractStates(Seg), ExtractedTo(s, kind, entries, k), s.error = NoError,
         k + 1 <= MaxEntries, SafeAt(entries, k + 1), IsFileAt(entries, k + 1),
         kind = "tar" \/ ~entries[k + 1].suspicious,
         NEW new, Wrote(s, new, PathAt(entries, k + 1), entries[k + 1].size),
         new.entries = s.entries + 1, new.skipped = s.skipped
  PROVE ExtractedTo(new, kind, entries, k + 1)
<1> DEFINE path == PathAt(entries, k + 1)  size == entries[k + 1].size
<1>1. Limited(s) /\ FineTo(kind, entries, k) /\ WholeTo(s, entries, k)
  BY DEF ExtractedTo
<1>2. k + 1 \in 1..Len(entries) /\ k + 1 \in Nat
  OBVIOUS
<1>3. path \in Seq(Seg) /\ size \in Nat
  BY <1>2, EntriesAre
<1>4. /\ new.error = NoError /\ new.total = s.total + size /\ new.files = s.files + 1
      /\ new.disk = Overwritten(s.disk, path, size)
      /\ ~Clash(s, path) /\ size <= MaxEntryBytes /\ s.total + size <= MaxTotalBytes
  BY DEF Wrote
<1>5. /\ s.entries = k /\ s.total = AmountTo(entries, k)
      /\ Total(DOMAIN s.disk, s.disk) <= s.total
      /\ DOMAIN s.disk = PathsTo(entries, k)
      /\ s.files = Cardinality(FilesTo(entries, k))
      /\ s.skipped = Cardinality(ToldTo(entries, k))
      /\ LastAre(s.disk, entries, k)
  BY <1>1 DEF WholeTo
<1>6. /\ FilesTo(entries, k + 1) = FilesTo(entries, k) \cup {k + 1}
      /\ Cardinality(FilesTo(entries, k + 1)) = Cardinality(FilesTo(entries, k)) + 1
      /\ AmountTo(entries, k + 1) = AmountTo(entries, k) + size
  BY FilesNext
<1>7. ApartFrom(entries, k, path)
  BY <1>4, <1>5, ClashIs
<1>8. FineTo(kind, entries, k + 1)
  <2>1. FineAt(kind, entries, k + 1)
    BY <1>4 DEF FineAt
  <2>2. AmountTo(entries, k) + size <= MaxTotalBytes
    BY <1>4, <1>5
  <2> QED BY <1>1, <1>7, <2>1, <2>2, FineToNext
<1>9. ToldTo(entries, k + 1) = ToldTo(entries, k)
  <2>1. ~ToldAt(entries, k + 1)
    BY DEF ToldAt, IsFileAt
  <2> QED BY <2>1, ToldNext
<1>10. Limited(new) /\ Total(DOMAIN new.disk, new.disk) <= s.total + size
  BY <1>1, <1>3, <1>4, <1>5, OverwrittenIsLimited
<1>11. /\ DOMAIN new.disk = DOMAIN s.disk \cup {path} /\ new.disk[path] = size
       /\ \A p \in DOMAIN s.disk : p # path => new.disk[p] = s.disk[p]
  <2>1. IsFiniteSet(DOMAIN s.disk) /\ \A p \in DOMAIN s.disk : s.disk[p] \in Nat
    BY <1>1, DiskFilesAre DEF Limited, ExtractStates
  <2> DEFINE disk == s.disk  over == Overwritten(disk, path, size)
  <2>2. new.disk = over
    BY <1>4
  <2>3. /\ DOMAIN over = DOMAIN disk \cup {path} /\ IsFiniteSet(DOMAIN over)
        /\ over[path] = size /\ \A p \in DOMAIN disk : p # path => over[p] = disk[p]
        /\ Total(DOMAIN over, over) <= Total(DOMAIN disk, disk) + size
        /\ Total(DOMAIN disk, disk) \in Nat /\ Total(DOMAIN over, over) \in Nat
    <3>1. IsFiniteSet(DOMAIN disk) /\ \A p \in DOMAIN disk : disk[p] \in Nat
      BY <2>1
    <3>2. size \in Nat
      BY <1>3
    <3> HIDE DEF path, size, disk
    <3> QED BY <3>1, <3>2, OverwrittenIs
  <2> HIDE DEF over
  <2> QED BY <2>2, <2>3
<1>12. DOMAIN new.disk = PathsTo(entries, k + 1)
  BY <1>5, <1>6, <1>11 DEF PathsTo
<1>13. LastAre(new.disk, entries, k + 1)
  <2>1. ASSUME NEW i \in FilesTo(entries, k),
               \A j \in FilesTo(entries, k + 1) :
                 PathAt(entries, j) = PathAt(entries, i) => j <= i
        PROVE new.disk[PathAt(entries, i)] = entries[i].size
    <3>1. i \in 1..k
      BY DEF FilesTo
    <3>2. ~(k + 1 <= i)
      BY <3>1
    <3>3. path # PathAt(entries, i)
      BY <1>6, <2>1, <3>2
    <3>4. PathAt(entries, i) \in DOMAIN s.disk
      BY <1>5 DEF PathsTo
    <3>5. s.disk[PathAt(entries, i)] = entries[i].size
      BY <1>5, <1>6, <2>1 DEF LastAre
    <3> QED BY <1>11, <3>3, <3>4, <3>5
  <2> QED BY <1>6, <1>11, <2>1 DEF LastAre
<1>14. WholeTo(new, entries, k + 1)
  BY <1>4, <1>5, <1>6, <1>9, <1>10, <1>12, <1>13 DEF WholeTo
<1> QED BY <1>4, <1>8, <1>10, <1>14 DEF ExtractedTo

(* A file that cannot be written is not acceptable. *)
LEMMA RefusedNext ==
  ASSUME MaxEntries \in Nat, MaxEntryBytes \in Nat, MaxTotalBytes \in Nat,
         NEW kind, NEW Seg, NEW entries \in Seq(EntryRecords(Seg)), NEW k \in Nat,
         k + 1 <= Len(entries),
         NEW s \in ExtractStates(Seg), ExtractedTo(s, kind, entries, k), s.error = NoError,
         IsFileAt(entries, k + 1),
         NEW new, Refused(s, new, PathAt(entries, k + 1), entries[k + 1].size)
  PROVE ExtractedTo(new, kind, entries, k + 1)
<1> DEFINE path == PathAt(entries, k + 1)  size == entries[k + 1].size
<1>1. Limited(s) /\ WholeTo(s, entries, k)
  BY DEF ExtractedTo
<1>2. k + 1 \in 1..Len(entries)
  OBVIOUS
<1>3. path \in Seq(Seg) /\ size \in Nat /\ s.total \in Nat
  BY <1>2, EntriesAre DEF ExtractStates
<1>4. ~FineTo(kind, entries, k + 1)
  <2>1. Clash(s, path) \/ size > MaxEntryBytes \/ s.total + size > MaxTotalBytes
    BY DEF Refused
  <2>2. CASE Clash(s, path)
    <3>1. ~ApartFrom(entries, k, path)
      BY <1>1, <2>2, ClashIs DEF WholeTo
    <3> QED BY <3>1, FineToNext
  <2>3. CASE size > MaxEntryBytes
    <3>1. ~FineAt(kind, entries, k + 1)
      BY <1>3, <2>3 DEF FineAt
    <3> QED BY <3>1, FineToNext
  <2>4. CASE s.total + size > MaxTotalBytes
    <3>1. ~(AmountTo(entries, k) + size <= MaxTotalBytes)
      BY <1>1, <1>3, <2>4 DEF WholeTo
    <3> QED BY <3>1, FineToNext
  <2> QED BY <2>1, <2>2, <2>3, <2>4
<1>5. CASE new.disk = s.disk
  <2>1. new.error # NoError
    BY DEF Refused
  <2> QED BY <1>4, <1>5, <2>1, StopNext
<1>6. CASE new.disk # s.disk
  <2>1. PICK w \in Nat : /\ w <= MaxEntryBytes /\ s.total + w <= MaxTotalBytes
                         /\ new.disk = Overwritten(s.disk, path, w)
    BY <1>6 DEF Refused
  <2>2. Limited(new)
    BY <1>1, <1>3, <2>1, OverwrittenIsLimited DEF WholeTo
  <2>3. new.error # NoError
    BY DEF Refused
  <2> QED BY <1>4, <2>2, <2>3 DEF ExtractedTo
<1> QED BY <1>5, <1>6

LEMMA EntryNext ==
  ASSUME MaxEntries \in Nat, MaxEntryBytes \in Nat, MaxTotalBytes \in Nat,
         NEW kind \in {"zip", "tar"}, NEW chunk \in Nat \ {0},
         NEW Seg, NEW entries \in Seq(EntryRecords(Seg)), NEW k \in Nat, k + 1 <= Len(entries),
         NEW s \in ExtractStates(Seg), ExtractedTo(s, kind, entries, k)
  PROVE ExtractedTo(Entry(s, kind, entries[k + 1], chunk), kind, entries, k + 1)
<1> DEFINE e == entries[k + 1]  new == Entry(s, kind, e, chunk)  counted == OneMoreEntry(s)
           path == PathAt(entries, k + 1)
<1> SUFFICES ExtractedTo(new, kind, entries, k + 1)
  OBVIOUS
<1>1. k + 1 \in 1..Len(entries)
  OBVIOUS
<1>2. /\ e.size \in Nat /\ e.kind \in {"file", "directory", "link"} /\ path \in Seq(Seg)
      /\ SafeAt(entries, k + 1) \in BOOLEAN
  BY <1>1, EntriesAre
<1>3. /\ counted \in ExtractStates(Seg) /\ counted.error = s.error
      /\ counted.entries = s.entries + 1 /\ counted.total = s.total
      /\ counted.files = s.files /\ counted.skipped = s.skipped
      /\ counted.disk = s.disk
  BY OneMoreEntryIs
<1>4. CASE s.error # NoError
  <2>1. new = s
    BY <1>4 DEF Entry
  <2>2. ~FineTo(kind, entries, k + 1)
    BY <1>4, FineToNext DEF ExtractedTo
  <2> QED BY <1>4, <2>1, <2>2, StopNext
<1>5. CASE s.error = NoError
  <2>1. new = IF counted.entries > MaxEntries THEN Stop(counted, "entry count")
              ELSE IF ~SafeAt(entries, k + 1) THEN Stop(counted, "path traversal")
              ELSE IF path = <<>> THEN counted
              ELSE IF ToSet(path) \cap VersionControl # {} THEN Skip(counted)
              ELSE IF e.kind = "directory" THEN counted
              ELSE IF e.kind = "link" THEN Skip(counted)
              ELSE IF kind = "zip" /\ e.suspicious THEN Stop(counted, "compression ratio")
              ELSE Write(counted, path, e.size, chunk)
    BY <1>5 DEF Entry, OneMoreEntry, SafeAt, PathAt
  <2>2. counted.entries = k + 1 /\ s.total = AmountTo(entries, k)
    BY <1>3, <1>5 DEF ExtractedTo, WholeTo
  <2>3. ToSet(path) \cap VersionControl # {} <=> ".git" \in ToSet(path)
    BY DEF VersionControl
  <2>4. ASSUME NEW error \in {"entry count", "path traversal", "compression ratio"},
               new = Stop(counted, error), ~FineTo(kind, entries, k + 1)
        PROVE ExtractedTo(new, kind, entries, k + 1)
    <3>1. error \in ArchiveErrors /\ error # NoError
      BY DEF ArchiveErrors, NoError
    <3> HIDE DEF new, counted
    <3>2. Stop(counted, error).error = error /\ Stop(counted, error).disk = counted.disk
      BY <1>3, <3>1, StopIs
    <3>3. new.error = error /\ new.disk = s.disk
      BY <1>3, <2>4, <3>2
    <3> QED BY <2>4, <3>1, <3>3, StopNext
  <2>5. ASSUME new = counted \/ new = Skip(counted), counted.entries <= MaxEntries,
               SafeAt(entries, k + 1), ~IsFileAt(entries, k + 1),
               new = Skip(counted) <=> ToldAt(entries, k + 1)
        PROVE ExtractedTo(new, kind, entries, k + 1)
    <3>1. /\ Skip(counted).error = s.error /\ Skip(counted).entries = s.entries + 1
          /\ Skip(counted).total = s.total /\ Skip(counted).files = s.files
          /\ Skip(counted).skipped = s.skipped + 1 /\ Skip(counted).disk = s.disk
      <4> HIDE DEF counted
      <4> QED BY <1>3, SkipIs
    <3>2. k + 1 <= MaxEntries
      BY <2>2, <2>5
    <3> HIDE DEF new, counted
    <3>3. /\ new.error = NoError /\ new.entries = s.entries + 1 /\ new.total = s.total
          /\ new.files = s.files /\ new.disk = s.disk
          /\ ToldAt(entries, k + 1) => new.skipped = s.skipped + 1
          /\ ~ToldAt(entries, k + 1) => new.skipped = s.skipped
      BY <1>3, <1>5, <2>5, <3>1
    <3> QED BY <1>5, <2>5, <3>2, <3>3, NoFileNext
  <2>6. Skip(counted) # counted
    <3>1. Skip(counted).skipped = counted.skipped + 1 /\ counted.skipped \in Nat
      <4> HIDE DEF counted
      <4> QED BY <1>3, SkipIs DEF ExtractStates
    <3> QED BY <3>1
  <2>7. CASE counted.entries > MaxEntries
    <3>1. ~FineTo(kind, entries, k + 1)
      BY <2>2, <2>7 DEF FineTo
    <3>2. new = Stop(counted, "entry count")
      BY <2>1, <2>7
    <3> QED BY <2>4, <3>1, <3>2
  <2>8. CASE counted.entries <= MaxEntries /\ ~SafeAt(entries, k + 1)
    <3>1. ~FineTo(kind, entries, k + 1)
      BY <2>8, FineToNext
    <3>2. new = Stop(counted, "path traversal")
      <4>1. ~(counted.entries > MaxEntries)
        BY <2>2, <2>8
      <4> QED BY <2>1, <2>8, <4>1
    <3> QED BY <2>4, <3>1, <3>2
  <2>9. CASE counted.entries <= MaxEntries /\ SafeAt(entries, k + 1)
    <3>1. ~(counted.entries > MaxEntries)
      BY <2>2, <2>9
    <3> HIDE DEF new, counted
    <3>2. CASE path = <<>>
      <4>1. new = counted
        BY <2>1, <2>9, <3>1, <3>2
      <4>2. ~ToldAt(entries, k + 1) /\ ~IsFileAt(entries, k + 1)
        BY <3>2 DEF ToldAt, IsFileAt, KeptAt
      <4> QED BY <2>5, <2>6, <2>9, <4>1, <4>2
    <3>3. CASE path # <<>> /\ ".git" \in ToSet(path)
      <4>1. new = Skip(counted)
        BY <2>1, <2>3, <2>9, <3>1, <3>3
      <4>2. ToldAt(entries, k + 1) /\ ~IsFileAt(entries, k + 1)
        BY <3>3 DEF ToldAt, IsFileAt, KeptAt
      <4> QED BY <2>5, <2>9, <4>1, <4>2
    <3>4. CASE path # <<>> /\ ".git" \notin ToSet(path) /\ e.kind = "directory"
      <4>1. new = counted
        BY <2>1, <2>3, <2>9, <3>1, <3>4
      <4>2. ~ToldAt(entries, k + 1) /\ ~IsFileAt(entries, k + 1)
        BY <2>9, <3>4 DEF ToldAt, IsFileAt, KeptAt
      <4> QED BY <2>5, <2>6, <2>9, <4>1, <4>2
    <3>5. CASE path # <<>> /\ ".git" \notin ToSet(path) /\ e.kind = "link"
      <4>1. new = Skip(counted)
        BY <2>1, <2>3, <2>9, <3>1, <3>5
      <4>2. ToldAt(entries, k + 1) /\ ~IsFileAt(entries, k + 1)
        BY <2>9, <3>5 DEF ToldAt, IsFileAt, KeptAt
      <4> QED BY <2>5, <2>9, <4>1, <4>2
    <3>6. CASE path # <<>> /\ ".git" \notin ToSet(path) /\ e.kind = "file"
      <4>1. IsFileAt(entries, k + 1)
        BY <2>9, <3>6 DEF IsFileAt, KeptAt
      <4>2. CASE kind = "zip" /\ e.suspicious
        <5>1. new = Stop(counted, "compression ratio")
          BY <2>1, <2>3, <2>9, <3>1, <3>6, <4>2
        <5>2. ~FineAt(kind, entries, k + 1)
          BY <4>1, <4>2 DEF FineAt
        <5>3. ~FineTo(kind, entries, k + 1)
          BY <5>2, FineToNext
        <5> QED BY <2>4, <5>1, <5>3
      <4>3. CASE ~(kind = "zip" /\ e.suspicious)
        <5>1. new = Write(counted, path, e.size, chunk)
          BY <2>1, <2>3, <2>9, <3>1, <3>6, <4>3
        <5>2. s.total <= MaxTotalBytes
          BY <1>5, <2>2 DEF ExtractedTo, FineTo
        <5>3. /\ new.entries = counted.entries /\ new.skipped = counted.skipped
              /\ \/ Wrote(counted, new, path, e.size)
                 \/ Refused(counted, new, path, e.size)
          <6> HIDE DEF path, e
          <6> QED BY <1>2, <1>3, <1>5, <5>1, <5>2, WriteIs
        <5>4. CASE Wrote(counted, new, path, e.size)
          <6>1. Wrote(s, new, path, e.size)
            BY <1>3, <5>4 DEF Wrote, Clash, Directories
          <6>2. kind = "tar" \/ ~e.suspicious
            BY <4>3
          <6>3. k + 1 <= MaxEntries
            BY <2>2, <2>9
          <6> QED BY <1>3, <1>5, <2>9, <4>1, <5>3, <6>1, <6>2, <6>3, WroteNext
        <5>5. CASE Refused(counted, new, path, e.size)
          <6>1. Refused(s, new, path, e.size)
            BY <1>3, <5>5 DEF Refused, Clash, Directories
          <6> QED BY <1>5, <4>1, <6>1, RefusedNext
        <5> QED BY <5>3, <5>4, <5>5
      <4> QED BY <4>2, <4>3
    <3> QED BY <1>2, <3>2, <3>3, <3>4, <3>5, <3>6
  <2>10. counted.entries <= MaxEntries \/ counted.entries > MaxEntries
    BY <2>2
  <2> QED BY <2>7, <2>8, <2>9, <2>10
<1> QED BY <1>4, <1>5

-----------------------------------------------------------------------------
(* The extraction of a whole archive. *)
Extracts(Seg) == {s \in ExtractStates(Seg) : s.error = NoError => s.total <= MaxTotalBytes}

LEMMA EntryIs ==
  ASSUME MaxEntryBytes \in Nat, MaxTotalBytes \in Nat,
         NEW kind, NEW chunk \in Nat \ {0}, NEW Seg, NEW e \in EntryRecords(Seg),
         NEW s \in Extracts(Seg)
  PROVE Entry(s, kind, e, chunk) \in Extracts(Seg)
<1> DEFINE counted == OneMoreEntry(s)  new == Entry(s, kind, e, chunk)
           path == Normalized(e.name).path
<1> SUFFICES new \in Extracts(Seg)
  OBVIOUS
<1>1. s \in ExtractStates(Seg) /\ (s.error = NoError => s.total <= MaxTotalBytes)
  BY DEF Extracts
<1>2. CASE s.error # NoError
  BY <1>2 DEF Entry
<1>3. CASE s.error = NoError
  <2>1. /\ counted \in ExtractStates(Seg) /\ counted.error = s.error /\ counted.total = s.total
    BY <1>1, OneMoreEntryIs
  <2>2. e.name \in Seq(Seg) /\ e.size \in Nat
    BY DEF EntryRecords
  <2>3. path \in Seq(Seg)
    BY <2>2, NormalizedIs
  <2>4. \/ \E error \in {"entry count", "path traversal", "compression ratio"} :
             new = Stop(counted, error)
        \/ new = counted \/ new = Skip(counted)
        \/ new = Write(counted, path, e.size, chunk)
    BY <1>3 DEF Entry, OneMoreEntry
  <2> HIDE DEF counted, new, path
  <2>5. ASSUME NEW error \in {"entry count", "path traversal", "compression ratio"},
               new = Stop(counted, error)
        PROVE new \in Extracts(Seg)
    <3>1. error \in ArchiveErrors /\ error # NoError
      BY DEF ArchiveErrors, NoError
    <3>2. new \in ExtractStates(Seg) /\ new.error = error
      BY <2>1, <2>5, <3>1, StopIs
    <3> QED BY <3>1, <3>2 DEF Extracts
  <2>6. CASE new = counted
    BY <1>1, <1>3, <2>1, <2>6 DEF Extracts
  <2>7. CASE new = Skip(counted)
    <3>1. new \in ExtractStates(Seg) /\ new.total = counted.total
      BY <2>1, <2>7, SkipIs
    <3> QED BY <1>1, <1>3, <2>1, <3>1 DEF Extracts
  <2>8. CASE new = Write(counted, path, e.size, chunk)
    <3>1. counted.error = NoError /\ counted.total <= MaxTotalBytes
      BY <1>1, <1>3, <2>1
    <3>2. /\ new \in ExtractStates(Seg)
          /\ Wrote(counted, new, path, e.size) \/ Refused(counted, new, path, e.size)
      BY <2>1, <2>2, <2>3, <2>8, <3>1, WriteIs
    <3>3. new.error = NoError => new.total <= MaxTotalBytes
      BY <3>2 DEF Wrote, Refused
    <3> QED BY <3>2, <3>3 DEF Extracts
  <2> QED BY <2>4, <2>5, <2>6, <2>7, <2>8
<1> QED BY <1>2, <1>3

LEMMA StartIs ==
  ASSUME MaxEntries \in Nat, MaxEntryBytes \in Nat, MaxTotalBytes \in Nat,
         NEW kind, NEW Seg, NEW entries \in Seq(EntryRecords(Seg))
  PROVE Start \in Extracts(Seg) /\ ExtractedTo(Start, kind, entries, 0)
<1>1. /\ Start.error = NoError /\ Start.entries = 0 /\ Start.total = 0 /\ Start.files = 0
      /\ Start.skipped = 0 /\ DOMAIN Start.disk = {}
  BY DEF Start
<1>2. Start \in Extracts(Seg)
  <2> DEFINE nothing == [p \in {} |-> 0]
  <2>1. {} \in SUBSET Seq(Seg) /\ nothing \in [{} -> Nat]
    OBVIOUS
  <2>2. nothing \in DiskFiles(Seg)
    <3> HIDE DEF nothing
    <3> QED BY <2>1 DEF DiskFiles
  <2>3. Start = [error |-> NoError, entries |-> 0, total |-> 0, files |-> 0,
                 skipped |-> 0, disk |-> nothing]
    BY DEF Start
  <2> HIDE DEF nothing
  <2>4. NoError \in ArchiveErrors
    BY DEF ArchiveErrors
  <2>5. Start \in ExtractStates(Seg)
    BY <2>2, <2>3, <2>4 DEF ExtractStates
  <2> QED BY <1>1, <2>5 DEF Extracts
<1>3. FilesTo(entries, 0) = {} /\ ToldTo(entries, 0) = {}
  <2>1. 1..0 = {}
    BY SMT
  <2> QED BY <2>1 DEF FilesTo, ToldTo
<1>4. AmountTo(entries, 0) = 0
  BY <1>3, TotalOfNone DEF AmountTo
<1>5. Total(DOMAIN Start.disk, Start.disk) = 0
  BY <1>1, TotalOfNone
<1>6. Cardinality({}) = 0 /\ IsFiniteSet({})
  BY FS_EmptySet
<1>7. FineTo(kind, entries, 0)
  <2>1. \A i \in 1..0 : FALSE
    BY SMT
  <2>2. ApartTo(entries, 0)
    BY <1>3 DEF ApartTo
  <2> QED BY <1>4, <2>1, <2>2 DEF FineTo
<1>8. Limited(Start)
  BY <1>1, <1>5, <1>6 DEF Limited
<1>9. WholeTo(Start, entries, 0)
  <2>1. PathsTo(entries, 0) = {} /\ LastAre(Start.disk, entries, 0)
    BY <1>3 DEF PathsTo, LastAre
  <2>2. Total(DOMAIN Start.disk, Start.disk) <= Start.total
    BY <1>1, <1>5
  <2> QED BY <1>1, <1>3, <1>4, <1>6, <2>1, <2>2 DEF WholeTo
<1> QED BY <1>1, <1>2, <1>7, <1>8, <1>9 DEF ExtractedTo

LEMMA ExtractIs ==
  ASSUME MaxEntries \in Nat, MaxEntryBytes \in Nat, MaxTotalBytes \in Nat,
         NEW kind \in {"zip", "tar"}, NEW chunk \in Nat \ {0},
         NEW Seg, NEW entries \in Seq(EntryRecords(Seg))
  PROVE LET s == Extract(kind, entries, chunk)
        IN s \in ExtractStates(Seg) /\ ExtractedTo(s, kind, entries, Len(entries))
<1> DEFINE n == Len(entries)  V == Extracts(Seg)
           step == [p \in V \X (1..n) |-> Entry(p[1], kind, entries[p[2]], chunk)]
           Pass(f) == f = [s \in SUBSET DOMAIN entries |->
                             IF s = {} THEN Start
                             ELSE Entry(f[s \ {Max(s)}], kind, entries[Max(s)], chunk)]
           fold == CHOOSE f : Pass(f)
<1>1. n \in Nat /\ DOMAIN entries = 1..n /\ \A i \in 1..n : entries[i] \in EntryRecords(Seg)
  BY EntriesAre
<1>2. Start \in V /\ ExtractedTo(Start, kind, entries, 0)
  BY StartIs
<1> HIDE DEF n, V
<1>3. step \in [V \X (1..n) -> V]
  <2>1. \A v \in V, k \in 1..n : Entry(v, kind, entries[k], chunk) \in V
    BY <1>1, EntryIs DEF V
  <2> QED BY <2>1
<1>4. \A v \in V, k \in 1..n : step[v, k] = Entry(v, kind, entries[k], chunk)
  OBVIOUS
<1> HIDE DEF step
<1>5. PICK f \in [SUBSET (1..n) -> V] : IsFold(f, n, Start, step)
  BY <1>1, <1>2, <1>3, FoldExists
<1>6. ASSUME NEW s \in SUBSET (1..n), s # {}
      PROVE step[f[s \ {Max(s)}], Max(s)]
              = Entry(f[s \ {Max(s)}], kind, entries[Max(s)], chunk)
  <2>1. f[s \ {Max(s)}] \in V /\ Max(s) \in 1..n
    BY <1>1, <1>5, <1>6, MaxIs
  <2> QED BY <1>4, <2>1
<1>7. Pass(f)
  <2> DEFINE One(s) == IF s = {} THEN Start ELSE step[f[s \ {Max(s)}], Max(s)]
             Two(s) == IF s = {} THEN Start
                       ELSE Entry(f[s \ {Max(s)}], kind, entries[Max(s)], chunk)
  <2>1. \A s \in SUBSET (1..n) : One(s) = Two(s)
    BY <1>6
  <2>2. f = [s \in SUBSET (1..n) |-> One(s)]
    BY <1>5 DEF IsFold
  <2> HIDE DEF One, Two
  <2>3. f = [s \in SUBSET (1..n) |-> Two(s)]
    BY <2>1, <2>2
  <2> QED BY <1>1, <2>3 DEF Two
<1>8. Pass(fold)
  <2> HIDE DEF Pass
  <2> QED BY <1>7
<1>9. Extract(kind, entries, chunk) = fold[DOMAIN entries]
  BY DEF Extract, FoldLeft, MapThenFoldSet, fold
<1> HIDE DEF fold
<1> DEFINE Good(k) == fold[1..k] \in V /\ ExtractedTo(fold[1..k], kind, entries, k)
           I == {k \in Nat : k <= n => Good(k)}
<1>10. 0 \in I
  <2>1. 1..0 = {} /\ fold[{}] = Start
    BY <1>1, <1>8, SMT
  <2> QED BY <1>2, <2>1
<1>11. ASSUME NEW k \in Nat, Good(k), k + 1 <= n PROVE Good(k + 1)
  <2>1. k + 1 \in 1..n /\ 1..(k + 1) \in SUBSET (1..n) /\ k + 1 # 0 /\ k + 1 \in Nat
    BY <1>1, <1>11, SMT
  <2>2. /\ Max(1..(k + 1)) = k + 1 /\ (1..(k + 1)) \ {k + 1} = 1..((k + 1) - 1)
        /\ 1..(k + 1) # {}
    BY <2>1, MaxOfInterval
  <2>3. (k + 1) - 1 = k
    OBVIOUS
  <2>4. fold[1..(k + 1)] = Entry(fold[1..k], kind, entries[k + 1], chunk)
    <3> DEFINE s == 1..(k + 1)
    <3>1. s \in SUBSET DOMAIN entries /\ s # {}
      BY <1>1, <2>1, <2>2
    <3> HIDE DEF s
    <3>2. fold[s] = Entry(fold[s \ {Max(s)}], kind, entries[Max(s)], chunk)
      BY <1>8, <3>1
    <3>3. Max(s) = k + 1 /\ s \ {k + 1} = 1..k
      BY <2>2, <2>3 DEF s
    <3> QED BY <3>2, <3>3 DEF s
  <2> DEFINE old == fold[1..k]
  <2>5. old \in V /\ ExtractedTo(old, kind, entries, k) /\ entries[k + 1] \in EntryRecords(Seg)
    BY <1>1, <1>11, <2>1
  <2>6. k + 1 <= Len(entries) /\ old \in ExtractStates(Seg)
    BY <1>11, <2>5 DEF n, V, Extracts
  <2> HIDE DEF old
  <2>7. Entry(old, kind, entries[k + 1], chunk) \in V
    BY <2>5, EntryIs DEF V
  <2>8. ExtractedTo(Entry(old, kind, entries[k + 1], chunk), kind, entries, k + 1)
    BY <2>5, <2>6, EntryNext
  <2> QED BY <2>4, <2>7, <2>8 DEF old
<1> HIDE DEF Good
<1>12. ASSUME NEW k \in Nat, k \in I PROVE k + 1 \in I
  <2>1. k + 1 \in Nat /\ (k + 1 <= n => k <= n)
    BY <1>1
  <2>2. k + 1 <= n => Good(k + 1)
    BY <1>11, <1>12, <2>1
  <2> QED BY <2>1, <2>2
<1>13. n \in I
  <2> HIDE DEF I
  <2> QED BY <1>1, <1>10, <1>12, SetInduction
<1>14. Good(n)
  BY <1>1, <1>13
<1>15. Extract(kind, entries, chunk) = fold[1..n]
  BY <1>1, <1>9
<1> QED BY <1>14, <1>15 DEF Good, V, Extracts, n

(* Everything is below the root that is chosen, and the root is none of the files. *)
LEMMA FirstOnly ==
  ASSUME NEW X, NEW p \in Seq(X), Len(p) >= 1
  PROVE SubSeq(p, 1, 1) = <<p[1]>>
<1>1. SubSeq(p, 1, 1) \in Seq(X) /\ Len(SubSeq(p, 1, 1)) = 1 /\ SubSeq(p, 1, 1)[1] = p[1]
  BY SMT
<1>2. p[1] \in X /\ <<p[1]>> \in Seq(X)
  BY SMT
<1>3. \A s, t \in Seq(X) : Len(s) = 1 /\ Len(t) = 1 /\ s[1] = t[1] => s = t
  <2>1. ASSUME NEW s \in Seq(X), NEW t \in Seq(X), Len(s) = 1, Len(t) = 1, s[1] = t[1]
        PROVE s = t
    <3>1. s \in [1..1 -> X] /\ t \in [1..1 -> X]
      BY <2>1
    <3>2. \A i \in 1..1 : s[i] = t[i]
      BY <2>1
    <3> QED BY <3>1, <3>2
  <2> QED BY <2>1
<1>4. Len(<<p[1]>>) = 1 /\ <<p[1]>>[1] = p[1]
  OBVIOUS
<1> QED BY <1>1, <1>2, <1>3, <1>4

LEMMA RootIs ==
  ASSUME NEW Seg, NEW s, IsFiniteSet(DOMAIN s.disk),
         \A path \in DOMAIN s.disk : path \in Seq(Seg) /\ path # <<>>
  PROVE \A path \in DOMAIN s.disk : IsPrefix(Root(s), path) /\ path # Root(s)
<1> DEFINE top == {path[1] : path \in DOMAIN s.disk}
           single == Cardinality(top) = 1 /\ \A path \in DOMAIN s.disk : Len(path) > 1
           chosen == CHOOSE name \in top : TRUE
<1>1. Root(s) = IF single THEN <<chosen>> ELSE <<>>
  BY DEF Root
<1>2. CASE ~single
  <2>1. Root(s) = <<>>
    BY <1>1, <1>2
  <2>2. \A path \in Seq(Seg) : Len(<<>>) <= Len(path) /\ SubSeq(<<>>, 1, Len(<<>>)) = <<>>
                               /\ SubSeq(path, 1, Len(<<>>)) = <<>>
    BY SMT
  <2>3. \A path \in Seq(Seg) : IsPrefix(<<>>, path)
    BY <2>2 DEF IsPrefix
  <2> QED BY <2>1, <2>3
<1>3. CASE single
  <2>1. Root(s) = <<chosen>>
    BY <1>1, <1>3
  <2>2. IsFiniteSet(top)
    <3> DEFINE D == DOMAIN s.disk  f == [path \in D |-> path[1]]
    <3>1. f \in Surjection(D, top)
      BY DEF Surjection
    <3>2. IsFiniteSet(D)
      OBVIOUS
    <3> HIDE DEF f, top, D
    <3> QED BY <3>1, <3>2, FS_Surjection
  <2>3. PICK x : top = {x}
    <3>1. Cardinality(top) = 1
      BY <1>3
    <3> HIDE DEF top
    <3> QED BY <2>2, <3>1, FS_Singleton
  <2>4. chosen = x
    <3> HIDE DEF top
    <3> QED BY <2>3
  <2> HIDE DEF chosen
  <2>5. ASSUME NEW path \in DOMAIN s.disk PROVE IsPrefix(<<x>>, path) /\ path # <<x>>
    <3>1. path[1] \in top
      OBVIOUS
    <3>2. path[1] = x
      <4> HIDE DEF top
      <4> QED BY <2>3, <3>1
    <3>3. path \in Seq(Seg) /\ Len(path) > 1
      BY <1>3
    <3> HIDE DEF top, single
    <3> DEFINE one == <<x>>
    <3> SUFFICES IsPrefix(one, path) /\ path # one
      OBVIOUS
    <3>4. one \in Seq(Seg) /\ Len(one) = 1 /\ one[1] = x /\ Len(path) \in Nat
      BY <3>2, <3>3
    <3>5. SubSeq(path, 1, 1) = one
      BY <3>2, <3>3, <3>4, FirstOnly
    <3>6. <<one[1]>> = one
      BY <3>4
    <3> HIDE DEF one
    <3>7. SubSeq(one, 1, 1) = one
      <4>1. Len(one) >= 1
        BY <3>4
      <4> QED BY <3>4, <3>6, <4>1, FirstOnly
    <3>8. IsPrefix(one, path)
      BY <3>3, <3>4, <3>5, <3>7 DEF IsPrefix
    <3>9. path # one
      <4>1. \A a, b \in Nat : a > 1 /\ b = 1 => a # b
        OBVIOUS
      <4>2. Len(path) # Len(one)
        BY <3>3, <3>4, <4>1
      <4> QED BY <4>2
    <3> QED BY <3>8, <3>9
  <2> QED BY <2>1, <2>4, <2>5
<1> QED BY <1>2, <1>3

LEMMA SumOfSizes ==
  ASSUME NEW Seg, NEW entries \in Seq(EntryRecords(Seg)), NEW S \in SUBSET DOMAIN entries
  PROVE FoldLeft(LAMBDA m, x : m + x, 0,
                 [i \in 1..Cardinality(S) |-> entries[SetToSeq(S)[i]].size])
          = Total(S, Sizes(entries))
<1>1. IsFiniteSet(S)
  <2>1. Len(entries) \in Nat /\ S \subseteq 1..Len(entries)
    BY EntriesAre
  <2>2. IsFiniteSet(1..Len(entries))
    BY <2>1, FS_Interval
  <2> QED BY <2>1, <2>2, FS_Subset
<1>2. \A i \in 1..Cardinality(S) : SetToSeq(S)[i] \in S
  BY <1>1, SetToSeqIs
<1>3. \A x \in S : Sizes(entries)[x] = entries[x].size
  BY DEF Sizes
<1>4. \A x \in S : Sizes(entries)[x] \in Nat
  BY <1>3, EntriesAre
<1>5. [i \in 1..Cardinality(S) |-> entries[SetToSeq(S)[i]].size]
        = [i \in 1..Cardinality(S) |-> Sizes(entries)[SetToSeq(S)[i]]]
  BY <1>2, <1>3
<1>6. SumOf(S, Sizes(entries)) = Total(S, Sizes(entries))
  BY <1>1, <1>4, SumIs
<1> QED BY <1>5, <1>6 DEF SumOf

(* discovery/archive.rs: whatever the limits, the entries and the sizes of the    *)
(* reads, what is on disk is within the limits; the extraction ends without an    *)
(* error exactly when the archive is within all of them; and then every file is   *)
(* there, whole, below the root, and every entry that is left out is counted.     *)
THEOREM ArchivesAreSafe ==
  ASSUME MaxEntries \in Nat, MaxEntryBytes \in Nat, MaxTotalBytes \in Nat,
         NEW kind \in {"zip", "tar"}, NEW chunk \in Nat \ {0}, NEW Segment,
         NEW entries \in Seq([name : Seq(Segment), kind : {"file", "directory", "link"},
                              size : Nat, suspicious : BOOLEAN])
  PROVE ArchivesAreWholeOrRefused(kind, entries, chunk)
<1> DEFINE s == Extract(kind, entries, chunk)
           n == Len(entries)
           Path(i) == Normalized(entries[i].name).path
           Safe(i) == Normalized(entries[i].name).inside
           kept == {i \in DOMAIN entries :
                      Safe(i) /\ Path(i) # <<>> /\ ".git" \notin ToSet(Path(i))}
           files == {i \in kept : entries[i].kind = "file"}
           skipped == {i \in DOMAIN entries : Path(i) # <<>> /\ i \notin kept}
                        \cup {i \in kept : entries[i].kind = "link"}
           amount == FoldLeft(LAMBDA m, x : m + x, 0,
                       [i \in 1..Cardinality(files) |-> entries[SetToSeq(files)[i]].size])
           onDisk == FoldLeft(LAMBDA m, x : m + x, 0,
                       [i \in 1..Cardinality(DOMAIN s.disk) |->
                          s.disk[SetToSeq(DOMAIN s.disk)[i]]])
           acceptable ==
             /\ Len(entries) <= MaxEntries /\ \A i \in DOMAIN entries : Safe(i)
             /\ \A i \in files : /\ entries[i].size <= MaxEntryBytes
                                 /\ kind = "tar" \/ ~entries[i].suspicious
             /\ amount <= MaxTotalBytes
             /\ \A i, j \in files : Path(i) \notin Parents(Path(j))
<1>1. entries \in Seq(EntryRecords(Segment))
  BY DEF EntryRecords
<1>2. s \in ExtractStates(Segment) /\ ExtractedTo(s, kind, entries, n)
  BY <1>1, ExtractIs
<1>3. n \in Nat /\ DOMAIN entries = 1..n /\ \A i \in 1..n : Path(i) \in Seq(Segment)
  BY <1>1, EntriesAre DEF PathAt
<1>4. /\ \A i \in DOMAIN entries : i \in kept <=> KeptAt(entries, i)
      /\ kept \subseteq DOMAIN entries
  BY DEF KeptAt, SafeAt, PathAt
<1>5. files = FilesTo(entries, n)
  BY <1>3, <1>4 DEF FilesTo, IsFileAt
<1>6. skipped = ToldTo(entries, n)
  BY <1>3, <1>4 DEF ToldTo, ToldAt, PathAt
<1>7. amount = AmountTo(entries, n)
  <2>1. files \in SUBSET DOMAIN entries
    OBVIOUS
  <2> HIDE DEF files
  <2> QED BY <1>1, <1>5, <2>1, SumOfSizes DEF AmountTo
<1>8. onDisk = Total(DOMAIN s.disk, s.disk)
  <2> DEFINE disk == s.disk
  <2>1. IsFiniteSet(DOMAIN disk) /\ \A p \in DOMAIN disk : disk[p] \in Nat
    <3> HIDE DEF s
    <3> QED BY <1>2, DiskFilesAre DEF ExtractedTo, Limited, ExtractStates
  <2> HIDE DEF disk
  <2>2. SumOf(DOMAIN disk, disk) = Total(DOMAIN disk, disk)
    BY <2>1, SumIs
  <2> QED BY <2>2 DEF SumOf, disk
<1>9. acceptable <=> FineTo(kind, entries, n)
  <2>1. (\A i \in DOMAIN entries : Safe(i)) <=> \A i \in 1..n : SafeAt(entries, i)
    BY <1>3 DEF SafeAt
  <2>2. (\A i \in files : /\ entries[i].size <= MaxEntryBytes
                          /\ kind = "tar" \/ ~entries[i].suspicious) <=>
          \A i \in 1..n : FineAt(kind, entries, i)
    <3> HIDE DEF files
    <3> QED BY <1>5 DEF FineAt, FilesTo
  <2>3. (\A i, j \in files : Path(i) \notin Parents(Path(j))) <=> ApartTo(entries, n)
    <3> HIDE DEF files
    <3> QED BY <1>5 DEF ApartTo, PathAt
  <2> HIDE DEF files, kept, amount, Safe, Path
  <2> QED BY <1>7, <2>1, <2>2, <2>3 DEF FineTo
<1> HIDE DEF s, amount, onDisk, acceptable
<1>10. /\ Limited(s) /\ (s.error = NoError <=> acceptable)
       /\ s.error = NoError => WholeTo(s, entries, n)
  BY <1>2, <1>9 DEF ExtractedTo
<1>11. (\A path \in DOMAIN s.disk : s.disk[path] <= MaxEntryBytes) /\ onDisk <= MaxTotalBytes
  BY <1>8, <1>10 DEF Limited
<1>12. ASSUME s.error = NoError
       PROVE /\ DOMAIN s.disk = {Path(i) : i \in files} /\ s.files = Cardinality(files)
             /\ \A i \in files : (\A j \in files : Path(j) = Path(i) => j <= i) =>
                  s.disk[Path(i)] = entries[i].size
             /\ \A path \in DOMAIN s.disk : IsPrefix(Root(s), path) /\ path # Root(s)
             /\ s.skipped = Cardinality(skipped)
  <2>1. WholeTo(s, entries, n)
    BY <1>10, <1>12
  <2>2. \A i \in files : Path(i) \in Seq(Segment) /\ Path(i) # <<>>
    BY <1>3
  <2> HIDE DEF files, kept, skipped
  <2>3. DOMAIN s.disk = {Path(i) : i \in files}
    BY <1>5, <2>1 DEF WholeTo, PathsTo, PathAt
  <2>4. s.files = Cardinality(files) /\ s.skipped = Cardinality(skipped)
    BY <1>5, <1>6, <2>1 DEF WholeTo
  <2>5. \A i \in files : (\A j \in files : Path(j) = Path(i) => j <= i) =>
          s.disk[Path(i)] = entries[i].size
    <3>1. LastAre(s.disk, entries, n)
      BY <2>1 DEF WholeTo
    <3> QED BY <1>5, <3>1 DEF LastAre, PathAt
  <2>6. IsFiniteSet(DOMAIN s.disk)
    BY <1>10 DEF Limited
  <2>7. \A path \in DOMAIN s.disk : path \in Seq(Segment) /\ path # <<>>
    <3> HIDE DEF Path
    <3> QED BY <2>2, <2>3
  <2>8. \A path \in DOMAIN s.disk : IsPrefix(Root(s), path) /\ path # Root(s)
    BY <2>6, <2>7, RootIs
  <2> QED BY <2>3, <2>4, <2>5, <2>8
<1> QED BY <1>10, <1>11, <1>12 DEF ArchivesAreWholeOrRefused, s, amount, onDisk, acceptable

-----------------------------------------------------------------------------
(* report/ci.rs: of the findings of one id, one is kept that none is preferred    *)
(* to, whatever their order.                                                      *)
FindingRecords(Id) == [id : Id, severity : Nat, suppressed : BOOLEAN, text : Int]
ById(Id) == UNION {[D -> FindingRecords(Id)] : D \in SUBSET Id}
InsertFinding(byId, f, among) ==
  IF f \notin among THEN byId
  ELSE [id \in DOMAIN byId \cup {f.id} |->
          IF id # f.id THEN byId[id]
          ELSE IF id \notin DOMAIN byId \/ Preferred(f, byId[id]) THEN f ELSE byId[id]]
IsInserted(new, byId, f, among) ==
  /\ f \notin among => new = byId
  /\ f \in among =>
       /\ DOMAIN new = DOMAIN byId \cup {f.id}
       /\ \A id \in DOMAIN byId : id # f.id => new[id] = byId[id]
       /\ f.id \notin DOMAIN byId => new[f.id] = f
       /\ f.id \in DOMAIN byId =>
            new[f.id] = IF Preferred(f, byId[f.id]) THEN f ELSE byId[f.id]
AmongTo(findings, among, k) == {i \in 1..k : findings[i] \in among}
KeptTo(byId, findings, among, k) ==
  /\ DOMAIN byId = {findings[i].id : i \in AmongTo(findings, among, k)}
  /\ \A id \in DOMAIN byId : /\ byId[id].id = id
                             /\ \E i \in AmongTo(findings, among, k) : findings[i] = byId[id]
  /\ \A i \in AmongTo(findings, among, k) : ~Preferred(findings[i], byId[findings[i].id])
IsOneOfEach(kept, given) ==
  /\ kept \subseteq given /\ Ids(kept) = Ids(given)
  /\ \A f, g \in kept : f.id = g.id => f = g
  /\ \A f \in kept, g \in given : g.id = f.id => ~Preferred(g, f)

LEMMA PreferredIs ==
  ASSUME NEW Id, NEW f \in FindingRecords(Id), NEW g \in FindingRecords(Id),
         NEW h \in FindingRecords(Id)
  PROVE /\ ~Preferred(f, f)
        /\ Preferred(f, g) /\ ~Preferred(h, g) => ~Preferred(h, f)
<1>1. \A x \in FindingRecords(Id) : x.severity \in Nat /\ x.text \in Int
  BY DEF FindingRecords
<1> QED BY <1>1 DEF Preferred

LEMMA InsertFindingIs ==
  ASSUME NEW Id, NEW byId \in ById(Id), NEW f \in FindingRecords(Id), NEW among
  PROVE /\ InsertFinding(byId, f, among) \in ById(Id)
        /\ IsInserted(InsertFinding(byId, f, among), byId, f, among)
<1> DEFINE x == f.id
           put == [id \in DOMAIN byId \cup {x} |->
                     IF id # x THEN byId[id]
                     ELSE IF id \notin DOMAIN byId \/ Preferred(f, byId[id]) THEN f ELSE byId[id]]
           new == InsertFinding(byId, f, among)
<1>1. PICK D \in SUBSET Id : byId \in [D -> FindingRecords(Id)]
  BY DEF ById
<1>2. x \in Id
  BY DEF FindingRecords
<1>3. CASE f \notin among
  BY <1>3 DEF InsertFinding, IsInserted
<1>4. CASE f \in among
  <2>1. new = put
    BY <1>4 DEF InsertFinding
  <2> HIDE DEF new, x
  <2>2. /\ DOMAIN put = DOMAIN byId \cup {x}
        /\ \A id \in DOMAIN byId : id # x => put[id] = byId[id]
        /\ x \notin DOMAIN byId => put[x] = f
        /\ x \in DOMAIN byId => put[x] = IF Preferred(f, byId[x]) THEN f ELSE byId[x]
    OBVIOUS
  <2> HIDE DEF put
  <2>3. \A id \in D \cup {x} : put[id] \in FindingRecords(Id)
    BY <1>1, <2>2
  <2>4. put = [id \in DOMAIN put |-> put[id]]
    BY DEF put
  <2>5. put \in [D \cup {x} -> FindingRecords(Id)]
    BY <1>1, <2>2, <2>3, <2>4
  <2>6. D \cup {x} \in SUBSET Id
    BY <1>2
  <2>7. put \in ById(Id)
    BY <2>5, <2>6 DEF ById
  <2> QED BY <1>4, <2>1, <2>2, <2>7 DEF new, x, IsInserted
<1> QED BY <1>3, <1>4

LEMMA KeptNext ==
  ASSUME NEW Id, NEW findings \in Seq(FindingRecords(Id)), NEW among, NEW k \in Nat,
         k + 1 <= Len(findings), NEW byId \in ById(Id), KeptTo(byId, findings, among, k)
  PROVE KeptTo(InsertFinding(byId, findings[k + 1], among), findings, among, k + 1)
<1> DEFINE f == findings[k + 1]  new == InsertFinding(byId, f, among)
           A == AmongTo(findings, among, k)  B == AmongTo(findings, among, k + 1)
<1>1. \A i : i \in 1..(k + 1) <=> i \in 1..k \/ i = k + 1
  BY SMT
<1>2. /\ f \in FindingRecords(Id) /\ \A i \in A : findings[i] \in FindingRecords(Id)
  <2>1. k + 1 \in 1..Len(findings) /\ \A i \in 1..k : i \in 1..Len(findings)
    BY SMT
  <2> QED BY <2>1 DEF AmongTo
<1>3. new \in ById(Id) /\ IsInserted(new, byId, f, among)
  <2>1. f \in FindingRecords(Id)
    BY <1>2
  <2> HIDE DEF f
  <2> QED BY <2>1, InsertFindingIs
<1>4. /\ DOMAIN byId = {findings[i].id : i \in A}
      /\ \A id \in DOMAIN byId : byId[id].id = id /\ \E i \in A : findings[i] = byId[id]
      /\ \A i \in A : ~Preferred(findings[i], byId[findings[i].id])
  BY DEF KeptTo
<1>5. CASE f \notin among
  <2>1. B = A
    BY <1>1, <1>5 DEF AmongTo
  <2>2. new = byId
    BY <1>3, <1>5 DEF IsInserted
  <2> HIDE DEF A, B, new
  <2>3. KeptTo(new, findings, among, k + 1)
    BY <1>4, <2>1, <2>2 DEF KeptTo, A, B
  <2> QED BY <2>3 DEF new
<1>6. CASE f \in among
  <2>1. B = A \cup {k + 1}
    BY <1>1, <1>6 DEF AmongTo
  <2> DEFINE x == f.id
  <2>2. \A id \in DOMAIN byId : byId[id] \in FindingRecords(Id)
    BY DEF ById
  <2>3. /\ DOMAIN new = DOMAIN byId \cup {x}
        /\ \A id \in DOMAIN byId : id # x => new[id] = byId[id]
        /\ new[x] = f \/ (x \in DOMAIN byId /\ new[x] = byId[x] /\ ~Preferred(f, byId[x]))
        /\ x \in DOMAIN byId =>
             new[x] = byId[x] \/ (new[x] = f /\ Preferred(f, byId[x]))
    BY <1>3, <1>6 DEF IsInserted
  <2> HIDE DEF A, B, new
  <2>4. DOMAIN new = {findings[i].id : i \in B}
    BY <1>4, <2>1, <2>3
  <2>5. ASSUME NEW id \in DOMAIN new
        PROVE new[id].id = id /\ \E i \in B : findings[i] = new[id]
    <3>1. CASE id # x
      BY <1>4, <2>1, <2>3, <3>1
    <3>2. CASE id = x /\ new[x] = f
      BY <2>1, <3>2
    <3>3. CASE id = x /\ new[x] # f
      BY <1>4, <2>1, <2>3, <3>3
    <3> QED BY <3>1, <3>2, <3>3
  <2>6. ~Preferred(f, new[x])
    <3>1. ~Preferred(f, f)
      BY <1>2, PreferredIs
    <3> QED BY <2>3, <3>1
  <2>7. ASSUME NEW i \in A PROVE ~Preferred(findings[i], new[findings[i].id])
    <3> DEFINE y == findings[i].id
    <3>1. y \in DOMAIN byId /\ ~Preferred(findings[i], byId[y])
      BY <1>4
    <3> HIDE DEF f, x
    <3>2. CASE y # x
      BY <2>3, <3>1, <3>2
    <3>3. CASE y = x
      <4>1. new[y] = byId[y] \/ (new[y] = f /\ Preferred(f, byId[y]))
        BY <2>3, <3>1, <3>3
      <4>2. findings[i] \in FindingRecords(Id) /\ byId[y] \in FindingRecords(Id)
        BY <1>2, <2>2, <3>1
      <4>3. Preferred(f, byId[y]) => ~Preferred(findings[i], f)
        BY <1>2, <3>1, <4>2, PreferredIs
      <4> QED BY <3>1, <4>1, <4>3
    <3> QED BY <3>2, <3>3
  <2>8. \A i \in B : ~Preferred(findings[i], new[findings[i].id])
    BY <2>1, <2>6, <2>7
  <2>9. KeptTo(new, findings, among, k + 1)
    BY <2>4, <2>5, <2>8 DEF KeptTo, B
  <2> QED BY <2>9 DEF new
<1> QED BY <1>5, <1>6

LEMMA UniqueIs ==
  ASSUME NEW Id, NEW findings \in Seq(FindingRecords(Id)), NEW among
  PROVE IsOneOfEach(UniqueFindings(findings, among), {f \in Records(findings) : f \in among})
<1> DEFINE n == Len(findings)  V == ById(Id)  none == [id \in {} |-> 0]
           step == [p \in V \X (1..n) |-> InsertFinding(p[1], findings[p[2]], among)]
           Pass(f) == f = [s \in SUBSET DOMAIN findings |->
                             IF s = {} THEN none
                             ELSE InsertFinding(f[s \ {Max(s)}], findings[Max(s)], among)]
           fold == CHOOSE f : Pass(f)
           byId == fold[DOMAIN findings]
<1>1. n \in Nat /\ DOMAIN findings = 1..n /\ \A i \in 1..n : findings[i] \in FindingRecords(Id)
  OBVIOUS
<1>2. none \in V /\ KeptTo(none, findings, among, 0)
  <2>1. 1..0 = {} /\ DOMAIN none = {} /\ {} \in SUBSET Id /\ none \in [{} -> FindingRecords(Id)]
    BY SMT
  <2> HIDE DEF none
  <2>2. none \in V
    BY <2>1 DEF ById
  <2>3. AmongTo(findings, among, 0) = {}
    BY <2>1 DEF AmongTo
  <2> QED BY <2>1, <2>2, <2>3 DEF KeptTo
<1> HIDE DEF n, V, none
<1>3. step \in [V \X (1..n) -> V]
  <2>1. \A v \in V, k \in 1..n : InsertFinding(v, findings[k], among) \in V
    BY <1>1, InsertFindingIs DEF V
  <2> QED BY <2>1
<1>4. \A v \in V, k \in 1..n : step[v, k] = InsertFinding(v, findings[k], among)
  OBVIOUS
<1> HIDE DEF step
<1>5. PICK f \in [SUBSET (1..n) -> V] : IsFold(f, n, none, step)
  BY <1>1, <1>2, <1>3, FoldExists
<1>6. ASSUME NEW s \in SUBSET (1..n), s # {}
      PROVE step[f[s \ {Max(s)}], Max(s)]
              = InsertFinding(f[s \ {Max(s)}], findings[Max(s)], among)
  <2>1. f[s \ {Max(s)}] \in V /\ Max(s) \in 1..n
    BY <1>1, <1>5, <1>6, MaxIs
  <2> QED BY <1>4, <2>1
<1>7. Pass(f)
  <2> DEFINE One(s) == IF s = {} THEN none ELSE step[f[s \ {Max(s)}], Max(s)]
             Two(s) == IF s = {} THEN none
                       ELSE InsertFinding(f[s \ {Max(s)}], findings[Max(s)], among)
  <2>1. \A s \in SUBSET (1..n) : One(s) = Two(s)
    BY <1>6
  <2>2. f = [s \in SUBSET (1..n) |-> One(s)]
    BY <1>5 DEF IsFold
  <2> HIDE DEF One, Two
  <2>3. f = [s \in SUBSET (1..n) |-> Two(s)]
    BY <2>1, <2>2
  <2> QED BY <1>1, <2>3 DEF Two
<1>8. Pass(fold)
  <2> HIDE DEF Pass
  <2> QED BY <1>7
<1>9. UniqueFindings(findings, among) = {byId[id] : id \in DOMAIN byId}
  BY DEF UniqueFindings, FoldLeft, MapThenFoldSet, InsertFinding, fold, none
<1> HIDE DEF fold
<1> DEFINE Good(k) == fold[1..k] \in V /\ KeptTo(fold[1..k], findings, among, k)
           I == {k \in Nat : k <= n => Good(k)}
<1>10. 0 \in I
  <2>1. 1..0 = {} /\ fold[{}] = none
    BY <1>1, <1>8, SMT
  <2> QED BY <1>2, <2>1
<1>11. ASSUME NEW k \in Nat, Good(k), k + 1 <= n PROVE Good(k + 1)
  <2>1. k + 1 \in 1..n /\ 1..(k + 1) \in SUBSET (1..n) /\ k + 1 # 0 /\ k + 1 \in Nat
    BY <1>1, <1>11, SMT
  <2>2. /\ Max(1..(k + 1)) = k + 1 /\ (1..(k + 1)) \ {k + 1} = 1..((k + 1) - 1)
        /\ 1..(k + 1) # {}
    BY <2>1, MaxOfInterval
  <2>3. (k + 1) - 1 = k
    OBVIOUS
  <2>4. fold[1..(k + 1)] = InsertFinding(fold[1..k], findings[k + 1], among)
    <3> DEFINE s == 1..(k + 1)
    <3>1. s \in SUBSET DOMAIN findings /\ s # {}
      BY <1>1, <2>1, <2>2
    <3> HIDE DEF s
    <3>2. fold[s] = InsertFinding(fold[s \ {Max(s)}], findings[Max(s)], among)
      BY <1>8, <3>1
    <3>3. Max(s) = k + 1 /\ s \ {k + 1} = 1..k
      BY <2>2, <2>3 DEF s
    <3> QED BY <3>2, <3>3 DEF s
  <2> DEFINE old == fold[1..k]  f1 == findings[k + 1]
  <2>5. old \in V /\ KeptTo(old, findings, among, k) /\ f1 \in FindingRecords(Id)
    BY <1>1, <1>11, <2>1
  <2>6. k + 1 <= Len(findings)
    BY <1>11 DEF n
  <2> HIDE DEF old
  <2>7. KeptTo(InsertFinding(old, f1, among), findings, among, k + 1)
    BY <2>5, <2>6, KeptNext DEF V
  <2> HIDE DEF f1
  <2>8. InsertFinding(old, f1, among) \in V
    BY <2>5, InsertFindingIs DEF V
  <2> QED BY <2>4, <2>7, <2>8 DEF old, f1
<1> HIDE DEF Good
<1>12. ASSUME NEW k \in Nat, k \in I PROVE k + 1 \in I
  <2>1. k + 1 \in Nat /\ (k + 1 <= n => k <= n)
    BY <1>1
  <2>2. k + 1 <= n => Good(k + 1)
    BY <1>11, <1>12, <2>1
  <2> QED BY <2>1, <2>2
<1>13. n \in I
  <2> HIDE DEF I
  <2> QED BY <1>1, <1>10, <1>12, SetInduction
<1>14. KeptTo(byId, findings, among, n)
  <2>1. Good(n)
    BY <1>1, <1>13
  <2> QED BY <1>1, <2>1 DEF Good
<1> DEFINE A == AmongTo(findings, among, n)  given == {f1 \in Records(findings) : f1 \in among}
           kept == {byId[id] : id \in DOMAIN byId}
<1>15. given = {findings[i] : i \in A}
  BY <1>1 DEF AmongTo, Records
<1> HIDE DEF byId, A
<1>16. /\ DOMAIN byId = {findings[i].id : i \in A}
       /\ \A id \in DOMAIN byId : byId[id].id = id /\ \E i \in A : findings[i] = byId[id]
       /\ \A i \in A : ~Preferred(findings[i], byId[findings[i].id])
  BY <1>14 DEF KeptTo, A
<1> HIDE DEF given
<1>17. kept \subseteq given
  BY <1>15, <1>16
<1>18. Ids(kept) = Ids(given)
  <2>1. \A x \in given : byId[x.id] \in kept /\ byId[x.id].id = x.id
    BY <1>15, <1>16
  <2> HIDE DEF kept
  <2> QED BY <1>17, <2>1 DEF Ids
<1>19. \A x, y \in kept : x.id = y.id => x = y
  BY <1>16
<1>20. ASSUME NEW x \in kept, NEW y \in given, y.id = x.id PROVE ~Preferred(y, x)
  <2>1. PICK i \in A : y = findings[i]
    BY <1>15
  <2>2. x = byId[x.id]
    BY <1>16
  <2> QED BY <1>16, <1>20, <2>1, <2>2
<1>21. IsOneOfEach(kept, given)
  <2> HIDE DEF kept
  <2> QED BY <1>17, <1>18, <1>19, <1>20 DEF IsOneOfEach
<1> QED BY <1>9, <1>21 DEF given

(* report/ci.rs: whatever the records of two artifacts and their order, the policy *)
(* fails exactly when some active finding makes it fail, and what is introduced    *)
(* one way is what is resolved the other way, with one finding of each id that no  *)
(* other of the id is preferred to.                                                *)
THEOREM GateIsOfTheRecords ==
  ASSUME NEW Id,
         NEW current \in Seq([id : Id, severity : Nat, suppressed : BOOLEAN, text : Int]),
         NEW baseline \in Seq([id : Id, severity : Nat, suppressed : BOOLEAN, text : Int]),
         NEW baselines \in {<<>>, <<baseline>>}, NEW failOn \in Nat, NEW newOnly \in BOOLEAN
  PROVE /\ GateIgnoresOrder(current, baselines, failOn, newOnly)
        /\ ChangesAreSymmetric(current, baseline)
<1> DEFINE R == FindingRecords(Id)
           among == NotIn(Active(current), Known(baseline))
           new == Introduced(current, baseline)
<1>1. current \in Seq(R) /\ baseline \in Seq(R)
  BY DEF FindingRecords
<1>2. /\ \A f \in Records(current) : f \in R
      /\ \A f \in R : f.severity \in Nat /\ f.text \in Int /\ f.suppressed \in BOOLEAN
  <2>1. \A f \in R : f.severity \in Nat /\ f.text \in Int /\ f.suppressed \in BOOLEAN
    BY DEF FindingRecords
  <2> HIDE DEF R
  <2>2. \A i \in DOMAIN current : current[i] \in R
    BY <1>1
  <2> QED BY <2>1, <2>2 DEF Records
<1>3. /\ \A f : f \in among <=> /\ f \in Records(current) /\ ~f.suppressed
                                /\ \A g \in Records(baseline) : g.id = f.id => g.suppressed
  BY DEF NotIn, Active, Known, Ids
<1>4. {f \in Records(current) : f \in among} = among
  BY <1>3
<1>5. IsOneOfEach(new, among)
  <2> HIDE DEF among
  <2>1. new = UniqueFindings(current, among)
    BY DEF Introduced, among
  <2> QED BY <1>1, <1>4, <2>1, UniqueIs
<1>6. /\ new \subseteq among /\ Ids(new) = Ids(among)
      /\ \A f, g \in new : f.id = g.id => f = g
      /\ \A f \in new, g \in among : g.id = f.id => ~Preferred(g, f)
  BY <1>5 DEF IsOneOfEach
<1> HIDE DEF among, new, R
<1>7. ASSUME NEW f \in among PROVE \E g \in new : g.id = f.id /\ g.severity >= f.severity
  <2>1. f.id \in Ids(among)
    BY <1>7 DEF Ids
  <2>2. PICK g \in new : g.id = f.id
    BY <1>6, <2>1 DEF Ids
  <2>3. ~Preferred(f, g)
    BY <1>6, <1>7, <2>2
  <2>4. g \in R /\ f \in R
    BY <1>2, <1>3, <1>6, <1>7, <2>2
  <2>5. g.severity >= f.severity
    BY <1>2, <2>3, <2>4 DEF Preferred
  <2> QED BY <2>2, <2>5
<1>8. GateIgnoresOrder(current, baselines, failOn, newOnly)
  <2>1. CASE failOn = 0
    BY <2>1 DEF GateIgnoresOrder, Failing
  <2>2. CASE failOn # 0
    <3>1. failOn > 0
      BY <2>2
    <3>2. CASE newOnly /\ baselines # <<>>
      <4>1. baselines = <<baseline>> /\ Head(baselines) = baseline
        BY <3>2
      <4>2. Failing(current, baselines, failOn, newOnly) = {f \in new : f.severity >= failOn}
        BY <2>2, <3>2, <4>1 DEF Failing, new
      <4>3. {f \in new : f.severity >= failOn} # {} <=> \E f \in among : f.severity >= failOn
        <5>1. \A f \in new : f \in among
          BY <1>6
        <5>2. ASSUME NEW f \in among, f.severity >= failOn
              PROVE \E g \in new : g.severity >= failOn
          <6>1. PICK g \in new : g.id = f.id /\ g.severity >= f.severity
            BY <1>7, <5>2
          <6>2. g.severity \in Nat /\ f.severity \in Nat
            BY <1>2, <1>3, <5>1, <5>2, <6>1
          <6> QED BY <5>2, <6>1, <6>2
        <5> QED BY <5>1, <5>2
      <4>4. (\E f \in among : f.severity >= failOn) <=>
              \E f \in Records(current) :
                /\ ~f.suppressed /\ f.severity >= failOn
                /\ \A g \in Records(baseline) : g.id = f.id => g.suppressed
        BY <1>3
      <4> QED BY <3>1, <3>2, <4>1, <4>2, <4>3, <4>4 DEF GateIgnoresOrder
    <3>3. CASE ~(newOnly /\ baselines # <<>>)
      <4>1. Failing(current, baselines, failOn, newOnly)
              = {f \in Active(current) : f.severity >= failOn}
        BY <2>2, <3>3 DEF Failing
      <4>2. {f \in Active(current) : f.severity >= failOn} # {} <=>
              \E f \in Records(current) : ~f.suppressed /\ f.severity >= failOn
        BY DEF Active
      <4> QED BY <3>1, <3>3, <4>1, <4>2 DEF GateIgnoresOrder
    <3> QED BY <3>2, <3>3
  <2> QED BY <2>1, <2>2
<1>9. ChangesAreSymmetric(current, baseline)
  <2>1. new = Resolved(baseline, current)
    BY DEF Resolved, Introduced, Known, new
  <2>2. Ids(new) = Ids({f \in Records(current) : ~f.suppressed})
                     \ Ids({f \in Records(baseline) : ~f.suppressed})
    <3>1. Ids(among) = Ids({f \in Records(current) : ~f.suppressed})
                         \ Ids({f \in Records(baseline) : ~f.suppressed})
      BY <1>3 DEF Ids
    <3> QED BY <1>6, <3>1
  <2>3. ASSUME NEW f \in new, NEW g \in Records(current), g.id = f.id, ~g.suppressed
        PROVE /\ g \in new => g = f
              /\ g.severity <= f.severity
              /\ g.severity = f.severity => f.text <= g.text
    <3>1. f \in among
      BY <1>6
    <3>2. g \in among
      BY <1>3, <2>3, <3>1
    <3>3. ~Preferred(g, f)
      BY <1>6, <2>3, <3>2
    <3>4. f \in R /\ g \in R
      BY <1>2, <1>3, <3>1
    <3>5. /\ f.severity \in Nat /\ g.severity \in Nat /\ f.text \in Int /\ g.text \in Int
      BY <1>2, <3>4
    <3>6. g.severity <= f.severity /\ (g.severity = f.severity => f.text <= g.text)
      BY <3>3, <3>5 DEF Preferred
    <3> QED BY <1>6, <2>3, <3>6
  <2> QED BY <2>1, <2>2, <2>3 DEF ChangesAreSymmetric, new
<1> QED BY <1>8, <1>9

-----------------------------------------------------------------------------
(* report/ci.rs: the hash of a path is the one its records agree on.              *)
FileRecords(Path, Hash) == [path : Path, hash : Hash]
Hashed(Path, Hash) == UNION {[D -> Hash \cup {NoHash}] : D \in SUBSET Path}
InsertHash(hashes, f) ==
  [p \in DOMAIN hashes \cup {f.path} |->
     IF p # f.path THEN hashes[p]
     ELSE IF p \in DOMAIN hashes THEN Contradicted(hashes[p], f.hash) ELSE f.hash]
IsHashed(new, hashes, f) ==
  /\ DOMAIN new = DOMAIN hashes \cup {f.path}
  /\ \A p \in DOMAIN hashes : p # f.path => new[p] = hashes[p]
  /\ f.path \notin DOMAIN hashes => new[f.path] = f.hash
  /\ f.path \in DOMAIN hashes /\ hashes[f.path] = f.hash => new[f.path] = f.hash
  /\ f.path \in DOMAIN hashes /\ hashes[f.path] # f.hash => new[f.path] = NoHash
Agree(files, k, p, h) == \A i \in 1..k : files[i].path = p => files[i].hash = h
HashesTo(hashes, files, k) ==
  /\ DOMAIN hashes = {files[i].path : i \in 1..k}
  /\ \A p \in DOMAIN hashes : hashes[p] # NoHash => Agree(files, k, p, hashes[p])
  /\ \A p \in DOMAIN hashes : \A h : h # NoHash /\ Agree(files, k, p, h) => hashes[p] = h

LEMMA InsertHashIs ==
  ASSUME NEW Path, NEW Hash, NEW hashes \in Hashed(Path, Hash),
         NEW f \in FileRecords(Path, Hash)
  PROVE /\ InsertHash(hashes, f) \in Hashed(Path, Hash)
        /\ IsHashed(InsertHash(hashes, f), hashes, f)
<1> DEFINE x == f.path  y == f.hash
           put == [p \in DOMAIN hashes \cup {x} |->
                     IF p # x THEN hashes[p]
                     ELSE IF p \in DOMAIN hashes THEN Contradicted(hashes[p], y) ELSE y]
<1>1. PICK D \in SUBSET Path : hashes \in [D -> Hash \cup {NoHash}]
  BY DEF Hashed
<1>2. x \in Path /\ y \in Hash
  BY DEF FileRecords
<1>3. InsertHash(hashes, f) = put
  BY DEF InsertHash
<1> HIDE DEF x, y
<1>4. /\ DOMAIN put = DOMAIN hashes \cup {x}
      /\ \A p \in DOMAIN hashes : p # x => put[p] = hashes[p]
      /\ x \notin DOMAIN hashes => put[x] = y
      /\ x \in DOMAIN hashes => put[x] = Contradicted(hashes[x], y)
  OBVIOUS
<1>5. put = [p \in DOMAIN put |-> put[p]]
  OBVIOUS
<1> HIDE DEF put
<1>6. /\ x \in DOMAIN hashes /\ hashes[x] = y => put[x] = y
      /\ x \in DOMAIN hashes /\ hashes[x] # y => put[x] = NoHash
  BY <1>4 DEF Contradicted
<1>7. \A p \in D \cup {x} : put[p] \in Hash \cup {NoHash}
  BY <1>1, <1>2, <1>4, <1>6
<1>8. put \in [D \cup {x} -> Hash \cup {NoHash}]
  BY <1>1, <1>4, <1>5, <1>7
<1>9. D \cup {x} \in SUBSET Path
  BY <1>2
<1>10. put \in Hashed(Path, Hash)
  BY <1>8, <1>9 DEF Hashed
<1>11. IsHashed(put, hashes, f)
  BY <1>4, <1>6 DEF IsHashed, x, y
<1> QED BY <1>3, <1>10, <1>11

LEMMA HashesNext ==
  ASSUME NEW Path, NEW Hash, NEW files \in Seq(FileRecords(Path, Hash)), NEW k \in Nat,
         k + 1 <= Len(files), NEW hashes \in Hashed(Path, Hash), HashesTo(hashes, files, k)
  PROVE HashesTo(InsertHash(hashes, files[k + 1]), files, k + 1)
<1> DEFINE f == files[k + 1]  new == InsertHash(hashes, f)  x == f.path  y == f.hash
<1>1. \A i : i \in 1..(k + 1) <=> i \in 1..k \/ i = k + 1
  BY SMT
<1>2. f \in FileRecords(Path, Hash)
  <2>1. k + 1 \in 1..Len(files)
    BY SMT
  <2> QED BY <2>1
<1>3. IsHashed(new, hashes, f)
  <2> HIDE DEF f
  <2> QED BY <1>2, InsertHashIs
<1>4. /\ DOMAIN new = DOMAIN hashes \cup {x}
      /\ \A p \in DOMAIN hashes : p # x => new[p] = hashes[p]
      /\ x \notin DOMAIN hashes => new[x] = y
      /\ x \in DOMAIN hashes /\ hashes[x] = y => new[x] = y
      /\ x \in DOMAIN hashes /\ hashes[x] # y => new[x] = NoHash
  BY <1>3 DEF IsHashed
<1> HIDE DEF new
<1>5. /\ DOMAIN hashes = {files[i].path : i \in 1..k}
      /\ \A p \in DOMAIN hashes : hashes[p] # NoHash => Agree(files, k, p, hashes[p])
      /\ \A p \in DOMAIN hashes : \A h : h # NoHash /\ Agree(files, k, p, h) => hashes[p] = h
  BY DEF HashesTo
<1>6. \A p, h : Agree(files, k + 1, p, h) <=> Agree(files, k, p, h) /\ (p = x => h = y)
  BY <1>1 DEF Agree
<1>7. \A h : x \notin DOMAIN hashes => Agree(files, k, x, h)
  BY <1>5 DEF Agree
<1>8. DOMAIN new = {files[i].path : i \in 1..(k + 1)}
  BY <1>1, <1>4, <1>5
<1> HIDE DEF x, y, f
<1>9. ASSUME NEW p \in DOMAIN new, new[p] # NoHash PROVE Agree(files, k + 1, p, new[p])
  <2>1. CASE p # x
    BY <1>4, <1>5, <1>6, <1>9, <2>1
  <2>2. CASE p = x
    <3>1. CASE x \notin DOMAIN hashes
      BY <1>4, <1>6, <1>7, <2>2, <3>1
    <3>2. CASE x \in DOMAIN hashes
      <4>1. hashes[x] = y /\ new[x] = y
        BY <1>4, <1>9, <2>2, <3>2
      <4> QED BY <1>5, <1>6, <1>9, <2>2, <3>2, <4>1
    <3> QED BY <3>1, <3>2
  <2> QED BY <2>1, <2>2
<1>10. ASSUME NEW p \in DOMAIN new, NEW h, h # NoHash, Agree(files, k + 1, p, h)
       PROVE new[p] = h
  <2>1. Agree(files, k, p, h) /\ (p = x => h = y)
    BY <1>6, <1>10
  <2> QED BY <1>4, <1>5, <1>10, <2>1
<1>11. HashesTo(new, files, k + 1)
  BY <1>8, <1>9, <1>10 DEF HashesTo
<1> QED BY <1>11 DEF new, f

LEMMA FileHashesAre ==
  ASSUME NEW Path, NEW Hash, NEW files \in Seq(FileRecords(Path, Hash))
  PROVE HashesTo(UnambiguousFileHashes(files), files, Len(files))
<1> DEFINE n == Len(files)  V == Hashed(Path, Hash)  none == [p \in {} |-> 0]
           step == [p \in V \X (1..n) |-> InsertHash(p[1], files[p[2]])]
           Pass(f) == f = [s \in SUBSET DOMAIN files |->
                             IF s = {} THEN none
                             ELSE InsertHash(f[s \ {Max(s)}], files[Max(s)])]
           fold == CHOOSE f : Pass(f)
           hashes == fold[DOMAIN files]
<1>1. /\ n \in Nat /\ DOMAIN files = 1..n
      /\ \A i \in 1..n : files[i] \in FileRecords(Path, Hash)
  OBVIOUS
<1>2. none \in V /\ HashesTo(none, files, 0)
  <2>1. 1..0 = {} /\ DOMAIN none = {} /\ {} \in SUBSET Path
        /\ none \in [{} -> Hash \cup {NoHash}]
    BY SMT
  <2> HIDE DEF none
  <2>2. none \in V
    BY <2>1 DEF Hashed
  <2> QED BY <2>1, <2>2 DEF HashesTo
<1> HIDE DEF n, V, none
<1>3. step \in [V \X (1..n) -> V]
  <2>1. \A v \in V, k \in 1..n : InsertHash(v, files[k]) \in V
    BY <1>1, InsertHashIs DEF V
  <2> QED BY <2>1
<1>4. \A v \in V, k \in 1..n : step[v, k] = InsertHash(v, files[k])
  OBVIOUS
<1> HIDE DEF step
<1>5. PICK f \in [SUBSET (1..n) -> V] : IsFold(f, n, none, step)
  BY <1>1, <1>2, <1>3, FoldExists
<1>6. ASSUME NEW s \in SUBSET (1..n), s # {}
      PROVE step[f[s \ {Max(s)}], Max(s)] = InsertHash(f[s \ {Max(s)}], files[Max(s)])
  <2>1. f[s \ {Max(s)}] \in V /\ Max(s) \in 1..n
    BY <1>1, <1>5, <1>6, MaxIs
  <2> QED BY <1>4, <2>1
<1>7. Pass(f)
  <2> DEFINE One(s) == IF s = {} THEN none ELSE step[f[s \ {Max(s)}], Max(s)]
             Two(s) == IF s = {} THEN none ELSE InsertHash(f[s \ {Max(s)}], files[Max(s)])
  <2>1. \A s \in SUBSET (1..n) : One(s) = Two(s)
    BY <1>6
  <2>2. f = [s \in SUBSET (1..n) |-> One(s)]
    BY <1>5 DEF IsFold
  <2> HIDE DEF One, Two
  <2>3. f = [s \in SUBSET (1..n) |-> Two(s)]
    BY <2>1, <2>2
  <2> QED BY <1>1, <2>3 DEF Two
<1>8. Pass(fold)
  <2> HIDE DEF Pass
  <2> QED BY <1>7
<1>9. UnambiguousFileHashes(files) = hashes
  BY DEF UnambiguousFileHashes, FoldLeft, MapThenFoldSet, InsertHash, fold, none
<1> HIDE DEF fold
<1> DEFINE Good(k) == fold[1..k] \in V /\ HashesTo(fold[1..k], files, k)
           I == {k \in Nat : k <= n => Good(k)}
<1>10. 0 \in I
  <2>1. 1..0 = {} /\ fold[{}] = none
    BY <1>1, <1>8, SMT
  <2> QED BY <1>2, <2>1
<1>11. ASSUME NEW k \in Nat, Good(k), k + 1 <= n PROVE Good(k + 1)
  <2>1. k + 1 \in 1..n /\ 1..(k + 1) \in SUBSET (1..n) /\ k + 1 # 0 /\ k + 1 \in Nat
    BY <1>1, <1>11, SMT
  <2>2. /\ Max(1..(k + 1)) = k + 1 /\ (1..(k + 1)) \ {k + 1} = 1..((k + 1) - 1)
        /\ 1..(k + 1) # {}
    BY <2>1, MaxOfInterval
  <2>3. (k + 1) - 1 = k
    OBVIOUS
  <2>4. fold[1..(k + 1)] = InsertHash(fold[1..k], files[k + 1])
    <3> DEFINE s == 1..(k + 1)
    <3>1. s \in SUBSET DOMAIN files /\ s # {}
      BY <1>1, <2>1, <2>2
    <3> HIDE DEF s
    <3>2. fold[s] = InsertHash(fold[s \ {Max(s)}], files[Max(s)])
      BY <1>8, <3>1
    <3>3. Max(s) = k + 1 /\ s \ {k + 1} = 1..k
      BY <2>2, <2>3 DEF s
    <3> QED BY <3>2, <3>3 DEF s
  <2> DEFINE old == fold[1..k]  f1 == files[k + 1]
  <2>5. old \in V /\ HashesTo(old, files, k) /\ f1 \in FileRecords(Path, Hash)
    BY <1>1, <1>11, <2>1
  <2>6. k + 1 <= Len(files)
    BY <1>11 DEF n
  <2> HIDE DEF old
  <2>7. HashesTo(InsertHash(old, f1), files, k + 1)
    BY <2>5, <2>6, HashesNext DEF V
  <2> HIDE DEF f1
  <2>8. InsertHash(old, f1) \in V
    BY <2>5, InsertHashIs DEF V
  <2> QED BY <2>4, <2>7, <2>8 DEF old, f1
<1> HIDE DEF Good
<1>12. ASSUME NEW k \in Nat, k \in I PROVE k + 1 \in I
  <2>1. k + 1 \in Nat /\ (k + 1 <= n => k <= n)
    BY <1>1
  <2>2. k + 1 <= n => Good(k + 1)
    BY <1>11, <1>12, <2>1
  <2> QED BY <2>1, <2>2
<1>13. n \in I
  <2> HIDE DEF I
  <2> QED BY <1>1, <1>10, <1>12, SetInduction
<1>14. HashesTo(hashes, files, n)
  <2>1. Good(n)
    BY <1>1, <1>13
  <2> QED BY <1>1, <2>1 DEF Good
<1> QED BY <1>9, <1>14 DEF n

HashesOf(files, p) == {f.hash : f \in {f \in Records(files) : f.path = p}}

IsKnown(hashes, files, p, h) ==
  p \in DOMAIN hashes /\ hashes[p] = h <=> HashesOf(files, p) = {h}

(* The known hash of a path is the only one its records have. *)
LEMMA KnownHashIs ==
  ASSUME NEW Path, NEW Hash, NEW files \in Seq(FileRecords(Path, Hash)),
         NEW p, NEW h, h # NoHash
  PROVE IsKnown(UnambiguousFileHashes(files), files, p, h)
<1> DEFINE n == Len(files)  hashes == UnambiguousFileHashes(files)
           At == HashesOf(files, p)
<1>1. HashesTo(hashes, files, n)
  BY FileHashesAre
<1>2. DOMAIN files = 1..n
  OBVIOUS
<1> HIDE DEF hashes, n
<1>3. At = {files[i].hash : i \in {i \in 1..n : files[i].path = p}}
  BY <1>2 DEF Records, HashesOf
<1> HIDE DEF At
<1>4. p \in DOMAIN hashes <=> \E i \in 1..n : files[i].path = p
  BY <1>1 DEF HashesTo
<1>5. At = {h} <=> Agree(files, n, p, h) /\ \E i \in 1..n : files[i].path = p
  BY <1>3 DEF Agree
<1>6. p \in DOMAIN hashes /\ h # NoHash => (hashes[p] = h <=> Agree(files, n, p, h))
  BY <1>1 DEF HashesTo
<1> QED BY <1>4, <1>5, <1>6 DEF hashes, At, IsKnown

(* report/ci.rs: whatever the records of two artifacts, their order and what the   *)
(* modules are, a path is modified exactly when each artifact knows one hash of it *)
(* and they differ, and what is swapped is swapped.                                *)
THEOREM ChangesAreOfTheRecords ==
  ASSUME NEW Path, NEW Hash,
         NEW baseline \in Seq([path : Path, hash : Hash]),
         NEW current \in Seq([path : Path, hash : Hash])
  PROVE FileChangesIgnoreOrder(baseline, current)
<1> DEFINE before == UnambiguousFileHashes(baseline)  after == UnambiguousFileHashes(current)
           changes == FileChanges(baseline, current)  back == FileChanges(current, baseline)
           all == Records(baseline) \cup Records(current)
           known == {f.hash : f \in all} \ {NoHash}
<1>1. baseline \in Seq(FileRecords(Path, Hash)) /\ current \in Seq(FileRecords(Path, Hash))
  BY DEF FileRecords
<1> HIDE DEF before, after
<1>2. /\ changes.added = back.removed /\ changes.removed = back.added
      /\ \A p : p \in changes.modified <=>
           /\ p \in DOMAIN before /\ before[p] # NoHash
           /\ p \in DOMAIN after /\ after[p] # NoHash /\ before[p] # after[p]
  BY DEF FileChanges, before, after
<1> HIDE DEF changes, back, all
<1>3. \A p, h : h # NoHash =>
        /\ p \in DOMAIN before /\ before[p] = h <=> HashesOf(baseline, p) = {h}
        /\ p \in DOMAIN after /\ after[p] = h <=> HashesOf(current, p) = {h}
  <2>1. ASSUME NEW p, NEW h, h # NoHash
        PROVE IsKnown(before, baseline, p, h)
    BY <1>1, <2>1, KnownHashIs DEF before
  <2>2. ASSUME NEW p, NEW h, h # NoHash
        PROVE IsKnown(after, current, p, h)
    BY <1>1, <2>2, KnownHashIs DEF after
  <2> QED BY <2>1, <2>2 DEF IsKnown
<1>4. \A p, h : HashesOf(baseline, p) = {h} \/ HashesOf(current, p) = {h} => \E f \in all : f.hash = h
  BY DEF all, HashesOf
<1>5. \A h : h \in known <=> h # NoHash /\ \E f \in all : f.hash = h
  OBVIOUS
<1> HIDE DEF known
<1>6. ASSUME NEW p
      PROVE p \in changes.modified <=>
              \E h, k \in known : h # k /\ HashesOf(baseline, p) = {h} /\ HashesOf(current, p) = {k}
  <2>1. ASSUME p \in changes.modified
        PROVE \E h, k \in known : h # k /\ HashesOf(baseline, p) = {h} /\ HashesOf(current, p) = {k}
    <3> DEFINE h == before[p]  k == after[p]
    <3>1. h # k /\ h # NoHash /\ k # NoHash /\ HashesOf(baseline, p) = {h} /\ HashesOf(current, p) = {k}
      BY <1>2, <1>3, <2>1
    <3> HIDE DEF h, k
    <3>2. h \in known /\ k \in known
      BY <1>4, <1>5, <3>1
    <3> QED BY <3>1, <3>2
  <2>2. ASSUME NEW h \in known, NEW k \in known, h # k,
               HashesOf(baseline, p) = {h}, HashesOf(current, p) = {k}
        PROVE p \in changes.modified
    <3>1. h # NoHash /\ k # NoHash
      BY <1>5
    <3>2. p \in DOMAIN before /\ before[p] = h
      BY <1>3, <2>2, <3>1
    <3>3. p \in DOMAIN after /\ after[p] = k
      BY <1>3, <2>2, <3>1
    <3> QED BY <1>2, <2>2, <3>1, <3>2, <3>3
  <2> QED BY <2>1, <2>2
<1>7. /\ changes.added = back.removed /\ changes.removed = back.added
      /\ \A p \in {f.path : f \in all} :
           p \in changes.modified <=>
             \E h, k \in known : h # k /\ HashesOf(baseline, p) = {h} /\ HashesOf(current, p) = {k}
  BY <1>2, <1>6
<1> QED BY <1>7 DEF FileChangesIgnoreOrder, changes, back, all, known, HashesOf

(* Of any artifacts, with whatever files, owners and edges, the impact on the      *)
(* modules is the same both ways.                                                  *)
THEOREM ImpactGoesBothWays ==
  ASSUME NEW baseline, NEW current
  PROVE ImpactIsSymmetric(baseline, current)
<1> DEFINE there == FileChanges(baseline.files, current.files)
           back == FileChanges(current.files, baseline.files)
           touched == Touched(there, baseline, current)
           again == Touched(back, current, baseline)
           edges == baseline.edges \cup current.edges
<1>1. /\ there.added = back.removed /\ there.removed = back.added
      /\ there.modified = back.modified
  BY DEF FileChanges
<1>2. touched = again
  <2> HIDE DEF there, back
  <2> QED BY <1>1 DEF Touched
<1>3. current.edges \cup baseline.edges = edges
  OBVIOUS
<1> HIDE DEF touched, again, edges
<1> DEFINE From(t) == {e[1] : e \in {e \in edges : e[2] \in t /\ e[1] \notin t}}
<1>4. ArchitectureImpact(baseline, current)
        = [touched |-> touched, dependents |-> From(touched),
           added |-> current.edges \ baseline.edges, removed |-> baseline.edges \ current.edges]
  BY DEF ArchitectureImpact, touched, edges
<1>5. ArchitectureImpact(current, baseline)
        = [touched |-> again, dependents |-> From(again),
           added |-> baseline.edges \ current.edges, removed |-> current.edges \ baseline.edges]
  BY <1>3 DEF ArchitectureImpact, again
<1> HIDE DEF From
<1> QED BY <1>2, <1>4, <1>5 DEF ImpactIsSymmetric
=============================================================================
