------------------------ MODULE CommandServiceProof ------------------------
(***************************************************************************)
(* Proofs about the command service: every request of a known command that *)
(* is not lost is answered once, none is lost while few are under way, the *)
(* setting read last shows what was written last, the clock reads as the   *)
(* true date, and the interface works with the addresses the tool reads.   *)
(*                                                                         *)
(* Two things here need induction over data: what ParseDebugCommMsg does   *)
(* with the frames of a segment, one after the other, and the days before  *)
(* a month.  The induction is on a set of numbers (Induct), from the fact  *)
(* that < is well founded on Nat.                                          *)
(***************************************************************************)
EXTENDS CommandService, FiniteSetTheorems, WellFoundedInduction, TLAPS

-----------------------------------------------------------------------------
(* Numbers: the least, induction, the greatest, and folds.                  *)
(* A non-empty set of natural numbers has a least element.                  *)
LEMMA Least ==
  ASSUME NEW T, T \subseteq Nat, T # {}
  PROVE  \E m \in T : \A k \in T : m <= k
<1> DEFINE R == {ss \in Nat \X Nat : ss[1] < ss[2]}
<1>1. IsWellFoundedOn(R, Nat)
  BY NatLessThanWellFounded DEF OpToRel
<1>2. \A x, y \in Nat : <<y, x>> \in R <=> y < x
  OBVIOUS
<1> HIDE DEF R
<1>3. PICK m \in T : \A k \in T : ~ (<<k, m>> \in R)
  BY <1>1, WFMin
<1>4. ASSUME NEW k \in T PROVE m <= k
  <2>1. ~ (<<k, m>> \in R)
    BY <1>3
  <2> QED BY <2>1, <1>2
<1> QED BY <1>4

(* Induction up to a number, for a set in place of a predicate.             *)
LEMMA Induct ==
  ASSUME NEW n \in Nat, NEW T, 0 \in T, \A k \in 0 .. n - 1 : k \in T => k + 1 \in T
  PROVE  0 .. n \subseteq T
<1> SUFFICES ASSUME (0 .. n) \ T # {} PROVE FALSE
  OBVIOUS
<1>1. PICK m \in (0 .. n) \ T : \A k \in (0 .. n) \ T : m <= k
  BY Least, (0 .. n) \ T \subseteq Nat
<1>2. m # 0
  BY <1>1
<1>3. m - 1 \in 0 .. n - 1 /\ m - 1 \in T
  BY <1>1, <1>2
<1> QED BY <1>1, <1>3

(* A non-empty set of numbers up to n has a greatest element.               *)
LEMMA Greatest ==
  ASSUME NEW n \in Nat, NEW s \in SUBSET (1 .. n), s # {}
  PROVE  Max(s) \in s /\ \A k \in s : k <= Max(s)
<1>0. \A k \in s : k \in 1 .. n /\ k \in Int
  OBVIOUS
<1> DEFINE T == {n - k : k \in s}
<1>1. T \subseteq Nat /\ T # {}
  <2>1. \A k \in s : n - k \in Nat
    BY <1>0
  <2>2. PICK k \in s : TRUE
    OBVIOUS
  <2>3. n - k \in T
    BY <2>2
  <2> QED BY <2>1, <2>3
<1>2. PICK d \in T : \A e \in T : d <= e
  BY <1>1, Least
<1>3. n - d \in s /\ \A k \in s : n - d >= k
  <2>1. PICK j \in s : d = n - j
    BY <1>2
  <2>2. ASSUME NEW k \in s PROVE j >= k
    <3>1. n - j <= n - k
      BY <2>1, <1>2
    <3>2. j \in Int /\ k \in Int
      BY <1>0
    <3> QED BY <3>1, <3>2
  <2> QED BY <2>1, <2>2
<1>4. \E m \in s : \A k \in s : m >= k
  BY <1>3
<1>5. Max(s) \in s /\ \A k \in s : Max(s) >= k
  BY <1>4 DEF Max
<1> QED BY <1>5

(* The greatest of 1 .. k.                                                  *)
LEMMA MaxOfInterval ==
  ASSUME NEW n \in Nat, NEW k \in 1 .. n
  PROVE  Max(1 .. k) = k /\ (1 .. k) \ {k} = 1 .. k - 1
<1>1. Max(1 .. k) \in 1 .. k /\ \A j \in 1 .. k : j <= Max(1 .. k)
  BY Greatest, 1 .. k \in SUBSET (1 .. n), k \in 1 .. k
<1> QED BY <1>1

(* A fold over the numbers up to n exists: there is a function on the sets  *)
(* of numbers that takes the greatest element of each of them last.  F[k]   *)
(* is what the k-th step does with a value of A.                            *)
FoldOf(it, n, A, base, F) ==
  /\ it \in [SUBSET (1 .. n) -> A]
  /\ \A s \in SUBSET (1 .. n) : it[s] = IF s = {} THEN base ELSE F[Max(s)][it[s \ {Max(s)}]]

(* Such a function exists, for every n.                                     *)
LEMMA FoldExists ==
  ASSUME NEW n \in Nat, NEW A, NEW base \in A, NEW F \in [1 .. n -> [A -> A]]
  PROVE  \E it : FoldOf(it, n, A, base, F)
<1> DEFINE Good(m, it) == \A s \in SUBSET (1 .. m) :
                            it[s] = IF s = {} THEN base ELSE F[Max(s)][it[s \ {Max(s)}]]
           T == {m \in 0 .. n : \E it \in [SUBSET (1 .. m) -> A] : Good(m, it)}
<1>1. 0 \in T
  <2>1. SUBSET (1 .. 0) = {{}}
    OBVIOUS
  <2> DEFINE it == [s \in SUBSET (1 .. 0) |-> base]
  <2>2. it \in [SUBSET (1 .. 0) -> A] /\ Good(0, it)
    BY <2>1
  <2> HIDE DEF it, Good
  <2>3. \E g \in [SUBSET (1 .. 0) -> A] : Good(0, g)
    BY <2>2
  <2>4. 0 \in 0 .. n
    OBVIOUS
  <2> QED BY <2>3, <2>4
<1>2. ASSUME NEW m \in 0 .. n - 1, m \in T PROVE m + 1 \in T
  <2>1. PICK it \in [SUBSET (1 .. m) -> A] : Good(m, it)
    BY <1>2
  <2> DEFINE next == [s \in SUBSET (1 .. m + 1) |->
                        IF m + 1 \in s THEN F[m + 1][it[s \ {m + 1}]] ELSE it[s]]
  <2>2. \A s \in SUBSET (1 .. m + 1) : s \ {m + 1} \in SUBSET (1 .. m)
    OBVIOUS
  <2>3. \A s \in SUBSET (1 .. m + 1) : m + 1 \notin s => s \in SUBSET (1 .. m)
    OBVIOUS
  <2>4. next \in [SUBSET (1 .. m + 1) -> A]
    BY <2>2, <2>3
  <2>5. ASSUME NEW s \in SUBSET (1 .. m + 1)
        PROVE  next[s] = IF s = {} THEN base ELSE F[Max(s)][next[s \ {Max(s)}]]
    <3>1. CASE m + 1 \in s
      <4>1. Max(s) = m + 1
        <5>1. Max(s) \in s /\ \A k \in s : k <= Max(s)
          BY <3>1, Greatest, m + 1 \in Nat
        <5>2. Max(s) \in 1 .. m + 1
          BY <5>1
        <5> QED BY <5>1, <5>2, <3>1
      <4>2. next[s \ {m + 1}] = it[s \ {m + 1}]
        BY <2>2, s \ {m + 1} \in SUBSET (1 .. m + 1)
      <4> QED BY <3>1, <4>1, <4>2
    <3>2. CASE m + 1 \notin s /\ s # {}
      <4>1. s \in SUBSET (1 .. m) /\ next[s] = it[s]
        BY <3>2, <2>3
      <4>2. it[s] = F[Max(s)][it[s \ {Max(s)}]]
        BY <4>1, <3>2, <2>1
      <4>3. next[s \ {Max(s)}] = it[s \ {Max(s)}]
        BY <3>2
      <4> QED BY <4>1, <4>2, <4>3, <3>2
    <3>3. CASE s = {}
      BY <3>3, <2>1, s \in SUBSET (1 .. m)
    <3> QED BY <3>1, <3>2, <3>3
  <2> HIDE DEF next
  <2>6. Good(m + 1, next)
    BY <2>5
  <2> HIDE DEF Good
  <2>7. m + 1 \in 0 .. n
    OBVIOUS
  <2> QED BY <2>4, <2>6, <2>7
<1> HIDE DEF T
<1>3. n \in T
  <2>1. 0 .. n \subseteq T
    BY <1>1, <1>2, Induct
  <2> QED BY <2>1
<1>4. PICK it \in [SUBSET (1 .. n) -> A] : Good(n, it)
  BY <1>3 DEF T
<1>5. FoldOf(it, n, A, base, F)
  BY <1>4 DEF FoldOf
<1> QED BY <1>5

-----------------------------------------------------------------------------
(* The calendar.                                                            *)
\* The years of the calendar, and with the year in which the last one ends.
Years == 2000 .. 2099
YearsEnd == 2000 .. 2100

(* The years the proofs name, and those a year is followed by.              *)
LEMMA YearsIn ==
  /\ 2012 \in Years /\ 2023 \in Years
  /\ 2001 \in YearsEnd /\ 2012 \in YearsEnd /\ 2023 \in YearsEnd
  /\ \A year \in Years : year \in YearsEnd /\ year + 1 \in YearsEnd
BY DEF Years, YearsEnd

\* The leap years from 2000 on.
LeapsBefore(year) == Cardinality({y \in START_YEAR .. year - 1 : Leap(y)})

(* How many years before one were leap years; 2100 is none.                 *)
LEMMA LeapYears ==
  ASSUME NEW year \in YearsEnd
  PROVE  LeapsBefore(year) = (year - 1997) \div 4
<1> DEFINE S(k) == {y \in START_YEAR .. 1999 + k : Leap(y)}
           T == {k \in 0 .. 100 : IsFiniteSet(S(k)) /\ Cardinality(S(k)) = (k + 3) \div 4}
<1>1. 0 \in T
  <2>1. S(0) = {}
    BY DEF START_YEAR
  <2> QED BY <2>1, FS_EmptySet
<1>2. ASSUME NEW k \in 0 .. 99, k \in T PROVE k + 1 \in T
  <2>1. k + 1 \in 0 .. 100 /\ 2000 + k \in Years
    BY DEF Years, YearsEnd
  <2>2. Leap(2000 + k) <=> k % 4 = 0
    BY <2>1 DEF Leap
  <2>3. CASE k % 4 = 0
    <3>1. S(k + 1) = S(k) \cup {2000 + k} /\ 2000 + k \notin S(k)
      BY <2>2, <2>3 DEF START_YEAR
    <3>2. (k + 1 + 3) \div 4 = (k + 3) \div 4 + 1
      BY <2>3
    <3> HIDE DEF S
    <3>3. IsFiniteSet(S(k + 1)) /\ Cardinality(S(k + 1)) = Cardinality(S(k)) + 1
      BY <1>2, <3>1, FS_AddElement
    <3> QED BY <1>2, <2>1, <3>2, <3>3
  <2>4. CASE k % 4 # 0
    <3>1. S(k + 1) = S(k)
      BY <2>2, <2>4 DEF START_YEAR
    <3>2. (k + 1 + 3) \div 4 = (k + 3) \div 4
      BY <2>4
    <3> HIDE DEF S
    <3> QED BY <1>2, <2>1, <3>1, <3>2
  <2> QED BY <2>3, <2>4
<1> HIDE DEF T
<1>3. 0 .. 100 \subseteq T
  BY <1>1, <1>2, Induct, 100 \in Nat
<1>4. year - 2000 \in T
  BY <1>3 DEF Years, YearsEnd
<1> QED
  <2> DEFINE Q == {y \in START_YEAR .. year - 1 : Leap(y)}
  <2>1. S(year - 2000) = Q
    BY DEF Years, YearsEnd
  <2> HIDE DEF S, Q
  <2>2. Cardinality(S(year - 2000)) = (year - 2000 + 3) \div 4
    BY <1>4 DEF T
  <2>3. year - 2000 + 3 = year - 1997
    BY DEF Years, YearsEnd
  <2>4. Cardinality(Q) = (year - 1997) \div 4
    BY <2>1, <2>2, <2>3
  <2> QED BY <2>4 DEF Q, LeapsBefore

(* The days of the months in a set of months, of the first eleven.          *)
DaysIn(d, s) ==
  LET Days(m) == IF m \in s THEN d[m] ELSE 0
  IN  Days(1) + Days(2) + Days(3) + Days(4) + Days(5) + Days(6) + Days(7) + Days(8)
        + Days(9) + Days(10) + Days(11)

(* Taking a month out of a set takes its days out of the sum.               *)
LEMMA DaysInRemove ==
  ASSUME NEW d \in [1 .. 11 -> Nat], NEW s \in SUBSET (1 .. 11), NEW x \in s
  PROVE  DaysIn(d, s) = d[x] + DaysIn(d, s \ {x})
<1> DEFINE Days(m, q) == IF m \in q THEN d[m] ELSE 0
<1>1. x \in 1 .. 11
  OBVIOUS
<1>2. \A m \in 1 .. 11 : d[m] \in Nat
  OBVIOUS
<1>3. \A m \in 1 .. 11 : m # x => Days(m, s) = Days(m, s \ {x})
  OBVIOUS
<1>4. Days(x, s) = d[x] /\ Days(x, s \ {x}) = 0
  OBVIOUS
<1>5. \A m \in 1 .. 11 : Days(m, s) \in Nat /\ Days(m, s \ {x}) \in Nat
  OBVIOUS
<1>6. \A q : DaysIn(d, q) = Days(1, q) + Days(2, q) + Days(3, q) + Days(4, q) + Days(5, q)
                             + Days(6, q) + Days(7, q) + Days(8, q) + Days(9, q)
                             + Days(10, q) + Days(11, q)
  BY DEF DaysIn
<1> HIDE DEF Days
<1> QED BY <1>1, <1>2, <1>3, <1>4, <1>5, <1>6, SMTT(20)

(* The size of 1 .. n.                                                      *)
LEMMA IntervalSize ==
  ASSUME NEW n \in Nat
  PROVE  IsFiniteSet(1 .. n) /\ Cardinality(1 .. n) = n
<1>1. 1 \in Int /\ n \in Int
  OBVIOUS
<1>2. IsFiniteSet(1 .. n) /\ Cardinality(1 .. n) = IF 1 > n THEN 0 ELSE n - 1 + 1
  BY <1>1, FS_Interval
<1> QED BY <1>2

MonthSum(year, n) == MapThenSumSet(LAMBDA m : DaysOfMonth(year, m), 1 .. n)

MonthDays(year) == [m \in 1 .. 11 |-> DaysOfMonth(year, m)]

DaysTo(year, n) == DaysIn(MonthDays(year), 1 .. n)

(* The sum of the months is the one written out, as far as December.        *)
LEMMA SumOfMonths ==
  ASSUME NEW year \in Nat, NEW n \in 0 .. 11
  PROVE  MonthSum(year, n) = DaysTo(year, n)
<1> DEFINE S == 1 .. n
           d == MonthDays(year)
           Sums(J) == J = [s \in SUBSET S |->
                             IF s = {} THEN 0
                             ELSE LET x == CHOOSE x \in s : TRUE
                                  IN  DaysOfMonth(year, x) + J[s \ {x}]]
           J == CHOOSE J : Sums(J)
           G == [s \in SUBSET S |-> DaysIn(d, s)]
<1>1. d \in [1 .. 11 -> Nat]
  BY DEF DaysOfMonth, MonthDays
<1>2. MonthSum(year, n) = J[S]
  BY DEF MonthSum, MapThenSumSet, MapThenFoldSet
<1>3. \A s \in SUBSET S : s # {} => (CHOOSE x \in s : TRUE) \in s
  OBVIOUS
<1>4. \A s \in SUBSET S : s \in SUBSET (1 .. 11) /\ \A x \in s : s \ {x} \in SUBSET S
  OBVIOUS
<1>5. \A x \in 1 .. 11 : d[x] = DaysOfMonth(year, x)
  BY DEF MonthDays
<1> HIDE DEF d
<1>6. DaysIn(d, {}) = 0
  BY DEF DaysIn
<1>7. Sums(G)
  <2>1. ASSUME NEW s \in SUBSET S, s # {}
        PROVE  LET x == CHOOSE x \in s : TRUE
               IN  G[s] = DaysOfMonth(year, x) + G[s \ {x}]
    <3> DEFINE x == CHOOSE x \in s : TRUE
    <3>1. x \in s /\ x \in 1 .. 11 /\ s \ {x} \in SUBSET S
      BY <2>1, <1>3, <1>4
    <3> HIDE DEF x
    <3>2. DaysIn(d, s) = d[x] + DaysIn(d, s \ {x})
      BY <1>1, <1>4, <3>1, DaysInRemove
    <3> QED BY <3>1, <3>2, <1>5 DEF x
  <2>2. G[{}] = 0
    BY <1>6
  <2> HIDE DEF G
  <2> QED BY <2>1, <2>2 DEF G
<1>8. Sums(J)
  BY <1>7
<1> HIDE DEF J
<1> DEFINE T == {k \in 0 .. 11 : \A s \in SUBSET S : Cardinality(s) <= k => J[s] = DaysIn(d, s)}
<1>9. \A s \in SUBSET S : IsFiniteSet(s)
  <2>1. IsFiniteSet(S) /\ Cardinality(S) \in 0 .. 11
    BY IntervalSize, n \in Nat
  <2> HIDE DEF S
  <2> QED BY <2>1, FS_Subset
<1>10. 0 \in T
  <2>1. ASSUME NEW s \in SUBSET S, Cardinality(s) <= 0 PROVE s = {}
    BY <2>1, <1>9, FS_EmptySet, FS_CardinalityType
  <2>2. J[{}] = DaysIn(d, {})
    BY <1>6, <1>8
  <2>3. \A s \in SUBSET S : Cardinality(s) <= 0 => J[s] = DaysIn(d, s)
    BY <2>1, <2>2
  <2> QED BY <2>3
<1>11. ASSUME NEW k \in 0 .. 10, k \in T PROVE k + 1 \in T
  <2>1. ASSUME NEW s \in SUBSET S, Cardinality(s) <= k + 1, s # {}
        PROVE  J[s] = DaysIn(d, s)
    <3> DEFINE x == CHOOSE x \in s : TRUE
    <3>1. x \in s /\ x \in 1 .. 11 /\ s \ {x} \in SUBSET S
      BY <2>1, <1>3, <1>4
    <3>2. J[s] = DaysOfMonth(year, x) + J[s \ {x}]
      BY <2>1, <1>8
    <3> HIDE DEF x
    <3>3. Cardinality(s \ {x}) = Cardinality(s) - 1 /\ Cardinality(s) \in Nat
      BY <3>1, <1>9, FS_RemoveElement, FS_CardinalityType
    <3>4. J[s \ {x}] = DaysIn(d, s \ {x})
      BY <1>11, <2>1, <3>1, <3>3
    <3> QED BY <1>1, <1>4, <1>5, <3>1, <3>2, <3>4, DaysInRemove
  <2>2. J[{}] = DaysIn(d, {})
    BY <1>6, <1>8
  <2>3. \A s \in SUBSET S : Cardinality(s) <= k + 1 => J[s] = DaysIn(d, s)
    BY <2>1, <2>2
  <2> QED BY <2>3
<1>12. 0 .. 11 \subseteq T
  <2> HIDE DEF T
  <2> QED BY <1>10, <1>11, Induct, 11 \in Nat
<1>13. Cardinality(S) <= 11 /\ S \in SUBSET S
  <2>1. Cardinality(S) \in 0 .. 11
    BY IntervalSize, n \in Nat
  <2> QED BY <2>1
<1>14. 11 \in T
  BY <1>12
<1>15. J[S] = DaysIn(d, S)
  <2> HIDE DEF S
  <2> QED BY <1>13, <1>14
<1> QED BY <1>2, <1>15 DEF d, DaysTo

At(accu, k) == accu[k]

Accu(year) == IF year % 4 = 0 THEN Month_Secs_Accu_L ELSE Month_Secs_Accu_C

(* Up to 2099 every fourth year is a leap year.                             *)
LEMMA LeapYear ==
  ASSUME NEW year \in Years
  PROVE  Leap(year) <=> year % 4 = 0
BY DEF Leap, Years

(* The tables hold the seconds up to the ends of the months.                *)
LEMMA DaysInMonths ==
  ASSUME NEW year \in Years, NEW mon \in 1 .. 12
  PROVE  DaysTo(year, mon - 1) \in Nat
         /\ SecsPerDay * DaysTo(year, mon - 1) = Before(Accu(year), mon)
<1> DEFINE d == MonthDays(year)
<1>1. /\ d[1] = 31 /\ d[3] = 31 /\ d[4] = 30 /\ d[5] = 31 /\ d[6] = 30 /\ d[7] = 31
      /\ d[8] = 31 /\ d[9] = 30 /\ d[10] = 31 /\ d[11] = 30
      /\ d[2] = IF year % 4 = 0 THEN 29 ELSE 28
  BY LeapYear DEF DaysOfMonth, MonthDays
<1> HIDE DEF d
<1>2. \A m \in 1 .. 11 : m \in 1 .. mon - 1 <=> m < mon
  OBVIOUS
<1> DEFINE Days(m) == IF m < mon THEN d[m] ELSE 0
           sum == DaysIn(d, 1 .. mon - 1)
           feb == d[2]
<1>3. sum = Days(1) + Days(2) + Days(3) + Days(4) + Days(5) + Days(6)
              + Days(7) + Days(8) + Days(9) + Days(10) + Days(11)
  BY <1>2 DEF DaysIn
<1> HIDE DEF sum
<1>4. /\ mon = 1 => sum = 0
      /\ mon = 2 => sum = 31
      /\ mon = 3 => sum = 31 + feb
      /\ mon = 4 => sum = 62 + feb
      /\ mon = 5 => sum = 92 + feb
      /\ mon = 6 => sum = 123 + feb
      /\ mon = 7 => sum = 153 + feb
      /\ mon = 8 => sum = 184 + feb
      /\ mon = 9 => sum = 215 + feb
      /\ mon = 10 => sum = 245 + feb
      /\ mon = 11 => sum = 276 + feb
      /\ mon = 12 => sum = 306 + feb
  BY <1>1, <1>3
<1>7. sum \in Nat
  BY <1>1, <1>4
<1>8. sum = DaysTo(year, mon - 1)
  BY DEF sum, d, DaysTo
<1> HIDE DEF feb
<1>5. CASE year % 4 = 0
  <2>1. feb = 29
    BY <1>1, <1>5 DEF feb
  <2> QED BY <1>4, <1>5, <1>7, <1>8, <2>1, SMT DEF Accu, Before, Month_Secs_Accu_L, SecsPerDay
<1>6. CASE year % 4 # 0
  <2>1. feb = 28
    BY <1>1, <1>6 DEF feb
  <2> QED BY <1>4, <1>6, <1>7, <1>8, <2>1, SMT DEF Accu, Before, Month_Secs_Accu_C, SecsPerDay
<1> QED BY <1>5, <1>6

\* What the tables say of a month: its first second and the first of the next.
MonthRow(year, mon) ==
  /\ Before(Accu(year), mon) \in Nat
  /\ At(Accu(year), mon) = Before(Accu(year), mon) + SecsPerDay * DaysOfMonth(year, mon)
  /\ DaysOfMonth(year, mon) \in 28 .. 31
  /\ Before(Accu(year), mon) <= 335 * SecsPerDay
  /\ mon < 12 => At(Accu(year), mon) = Before(Accu(year), mon + 1)
  /\ At(Accu(year), 12) = IF year % 4 = 0 THEN 366 * SecsPerDay ELSE 365 * SecsPerDay

(* Month_Secs_Accu_L and Month_Secs_Accu_C have the lengths of the months.   *)
LEMMA MonthTable ==
  ASSUME NEW year \in Years, NEW mon \in 1 .. 12
  PROVE  MonthRow(year, mon)
<1>1. DaysOfMonth(year, mon) = IF mon = 2 THEN (IF year % 4 = 0 THEN 29 ELSE 28)
                               ELSE IF mon \in {4, 6, 9, 11} THEN 30 ELSE 31
  BY LeapYear DEF DaysOfMonth
<1> QED BY <1>1, SMT DEF MonthRow, At, Accu, Before, Month_Secs_Accu_L, Month_Secs_Accu_C, SecsPerDay

(* A month has 28 to 31 days.                                               *)
LEMMA MonthLength ==
  ASSUME NEW year \in Years, NEW mon \in 1 .. 12
  PROVE  DaysOfMonth(year, mon) \in 28 .. 31
BY MonthTable, SMTT(20) DEF MonthRow

(* The seconds before a month: so many days a year, the leap days before    *)
(* the year, and what the table has for the months before.                  *)
YearStart(year) == SecsPerDay * (365 * (year - 2000) + (year - 1997) \div 4)

(* The days before a month, in seconds.                                     *)
LEMMA MonthStart ==
  ASSUME NEW year \in Years, NEW mon \in 1 .. 12
  PROVE  DaysBefore(year, mon) \in Nat
         /\ DaysBefore(year, mon) * SecsPerDay = YearStart(year) + Before(Accu(year), mon)
<1> DEFINE sum == DaysTo(year, mon - 1)
           leaps == (year - 1997) \div 4
<1>2. DaysBefore(year, mon) = 365 * (year - 2000) + leaps + sum
  <2>1. mon - 1 \in 0 .. 11 /\ year \in Nat /\ year \in YearsEnd
    BY DEF Years, YearsEnd
  <2>2. MonthSum(year, mon - 1) = sum
    BY <2>1, SumOfMonths
  <2>3. LeapsBefore(year) = leaps
    BY <2>1, LeapYears
  <2>4. DaysBefore(year, mon) = 365 * (year - START_YEAR) + LeapsBefore(year) + MonthSum(year, mon - 1)
    BY DEF DaysBefore, LeapsBefore, MonthSum
  <2> QED BY <2>2, <2>3, <2>4 DEF START_YEAR
<1>3. SecsPerDay * sum = Before(Accu(year), mon) /\ sum \in Nat
  BY DaysInMonths
<1>5. leaps \in Nat /\ year - 2000 \in Nat
  BY DEF Years, YearsEnd
<1> HIDE DEF sum, leaps
<1> QED
  <2>1. DaysBefore(year, mon) \in Nat
    BY <1>2, <1>3, <1>5
  <2>2. YearStart(year) = SecsPerDay * (365 * (year - 2000) + leaps)
    BY DEF YearStart, leaps
  <2> QED BY <1>2, <1>3, <1>5, <2>1, <2>2 DEF SecsPerDay

(* The first part that does not end before the second at hand.              *)
LEMMA PartIs ==
  ASSUME NEW accu \in Seq(Nat), accu # <<>>, NEW secs \in Nat, secs <= At(accu, Len(accu))
  PROVE  /\ Part(accu, secs) \in Nat /\ 1 <= Part(accu, secs) /\ Part(accu, secs) <= Len(accu)
         /\ secs <= At(accu, Part(accu, secs))
         /\ Part(accu, secs) # 1 => At(accu, Part(accu, secs) - 1) < secs
<1> DEFINE n == Len(accu)
           T == {k \in 1 .. n : secs <= accu[k]}
<1>0. n \in Nat \ {0} /\ DOMAIN accu = 1 .. n /\ \A k \in 1 .. n : accu[k] \in Nat
  OBVIOUS
<1> HIDE DEF n
<1>1. PICK m \in T : \A k \in T : m <= k
  <2>1. T \subseteq Nat /\ n \in T
    BY <1>0 DEF n, At
  <2> HIDE DEF T
  <2> QED BY <2>1, Least
<1>2. m \in 1 .. n /\ secs <= accu[m]
  OBVIOUS
<1>3. ASSUME NEW j \in 1 .. m - 1 PROVE accu[j] < secs
  <2>1. j \in 1 .. n /\ j \notin T
    BY <1>0, <1>1, <1>2
  <2> QED BY <1>0, <2>1
<1>4. \E k \in DOMAIN accu : secs <= accu[k] /\ \A j \in 1 .. k - 1 : accu[j] < secs
  BY <1>0, <1>2, <1>3
<1>5. /\ Part(accu, secs) \in DOMAIN accu /\ secs <= accu[Part(accu, secs)]
      /\ \A j \in 1 .. Part(accu, secs) - 1 : accu[j] < secs
  BY <1>4 DEF Part
<1>6. Part(accu, secs) \in 1 .. n
  BY <1>0, <1>5
<1>7. secs <= At(accu, Part(accu, secs))
  BY <1>5 DEF At
<1>8. ASSUME Part(accu, secs) # 1 PROVE At(accu, Part(accu, secs) - 1) < secs
  <2>1. Part(accu, secs) - 1 \in 1 .. Part(accu, secs) - 1
    <3>1. Part(accu, secs) \in Nat /\ 1 <= Part(accu, secs)
      BY <1>0, <1>6
    <3> QED BY <1>8, <3>1
  <2> QED BY <1>5, <2>1 DEF At
<1>9. Part(accu, secs) \in Nat /\ 1 <= Part(accu, secs) /\ Part(accu, secs) <= n
  BY <1>0, <1>6
<1> QED BY <1>7, <1>8, <1>9 DEF n

(* datetime_convert in its two halves: the year and the second in it, the   *)
(* month and the second in that.                                            *)
YearPart(t) == Part(Year_Secs_Accu, t % SecsPerFourYear)
YearOf(t)   == START_YEAR + 4 * (t \div SecsPerFourYear) + YearPart(t) - 1
InYear(t)   == (t % SecsPerFourYear) - Before(Year_Secs_Accu, YearPart(t))
MonthOf(t)  == Part(Accu(YearOf(t)), InYear(t))
InMonth(t)  == InYear(t) - Before(Accu(YearOf(t)), MonthOf(t))
InDay(t)    == InMonth(t) % SecsPerDay

(* datetime_convert by its parts.                                           *)
LEMMA Converted ==
  ASSUME NEW t
  PROVE  datetime_convert(t) =
           IF InYear(t) = 0 THEN <<YearOf(t), 0, 0, 0, 0, 0>>
           ELSE <<YearOf(t), MonthOf(t), InMonth(t) \div SecsPerDay + 1,
                  InDay(t) \div 3600, (InDay(t) % 3600) \div 60, InDay(t) % 60>>
BY Zenon DEF datetime_convert, InDay, InMonth, MonthOf, InYear, YearOf, YearPart, Accu

To2100 == 25 * SecsPerFourYear

(* datetime_convert finds the year and the second of the year.              *)
LEMMA YearRight ==
  ASSUME NEW t \in Nat, t < To2100
  PROVE  /\ YearOf(t) \in Years
         /\ t = YearStart(YearOf(t)) + InYear(t)
         /\ InYear(t) \in Nat
         /\ InYear(t) <= At(Accu(YearOf(t)), 12)
<1> DEFINE q == t \div SecsPerFourYear
           off == t % SecsPerFourYear
           y == YearPart(t)
<1>1. /\ q \in 0 .. 24 /\ off \in Nat /\ off < SecsPerFourYear
      /\ t = SecsPerFourYear * q + off
  <2>1. t < 25 * 126230400
    BY SMT DEF To2100, SecsPerFourYear
  <2>2. q = t \div 126230400 /\ off = t % 126230400
    BY SMT DEF SecsPerFourYear
  <2>3. t = 126230400 * (t \div 126230400) + (t % 126230400)
    BY SMT
  <2>4. t \div 126230400 \in Nat /\ t % 126230400 \in Nat /\ t % 126230400 < 126230400
    BY SMT
  <2> HIDE DEF q, off
  <2> QED BY <2>1, <2>2, <2>3, <2>4, SMT DEF SecsPerFourYear
<1>2. /\ Year_Secs_Accu \in Seq(Nat) /\ Len(Year_Secs_Accu) = 4
      /\ At(Year_Secs_Accu, 4) = SecsPerFourYear /\ Year_Secs_Accu # <<>>
  BY SMT DEF At, Year_Secs_Accu, SecsPerFourYear
<1>3. /\ y \in 1 .. 4 /\ off <= At(Year_Secs_Accu, y)
      /\ y # 1 => At(Year_Secs_Accu, y - 1) < off
  <2>1. off \in Nat /\ off <= At(Year_Secs_Accu, 4)
    BY <1>1, <1>2, SMT DEF SecsPerFourYear
  <2> HIDE DEF off
  <2>2. /\ Part(Year_Secs_Accu, off) \in Nat
        /\ 1 <= Part(Year_Secs_Accu, off) /\ Part(Year_Secs_Accu, off) <= 4
        /\ off <= At(Year_Secs_Accu, Part(Year_Secs_Accu, off))
        /\ Part(Year_Secs_Accu, off) # 1 => At(Year_Secs_Accu, Part(Year_Secs_Accu, off) - 1) < off
    BY <1>2, <2>1, PartIs
  <2>3. y = Part(Year_Secs_Accu, off)
    BY DEF YearPart, off
  <2> QED BY <2>2, <2>3
<1> HIDE DEF q, off, y
<1>4. YearOf(t) = 2000 + 4 * q + y - 1
  BY DEF YearOf, q, y, START_YEAR
<1>5. InYear(t) = off - Before(Year_Secs_Accu, y)
  BY DEF InYear, off, y
<1>6. YearOf(t) \in Years /\ (YearOf(t) % 4 = 0 <=> y = 1)
  BY <1>1, <1>3, <1>4 DEF Years
<1>7. (YearOf(t) - 1997) \div 4 = q + (y + 2) \div 4
  BY <1>1, <1>3, <1>4
<1>8. YearStart(YearOf(t)) = SecsPerFourYear * q + Before(Year_Secs_Accu, y)
  <2>1. YearStart(YearOf(t)) = 86400 * (365 * (4 * q + y - 1) + q + (y + 2) \div 4)
    BY <1>1, <1>3, <1>4, <1>7, SMT DEF YearStart, SecsPerDay
  <2>2. CASE y = 1
    BY <1>1, <2>1, <2>2, SMT DEF SecsPerFourYear, Before, Year_Secs_Accu
  <2>3. CASE y = 2
    BY <1>1, <2>1, <2>3, SMT DEF SecsPerFourYear, Before, Year_Secs_Accu
  <2>4. CASE y = 3
    BY <1>1, <2>1, <2>4, SMT DEF SecsPerFourYear, Before, Year_Secs_Accu
  <2>5. CASE y = 4
    BY <1>1, <2>1, <2>5, SMT DEF SecsPerFourYear, Before, Year_Secs_Accu
  <2> QED BY <1>3, <2>2, <2>3, <2>4, <2>5
<1>9. InYear(t) \in Nat /\ Before(Year_Secs_Accu, y) \in Nat
  BY <1>1, <1>3, <1>5, SMT DEF At, Before, Year_Secs_Accu
<1>10. t = YearStart(YearOf(t)) + InYear(t)
  <2> DEFINE b == Before(Year_Secs_Accu, y)
             p == SecsPerFourYear * q
  <2>1. p \in Nat
    BY <1>1, SMT DEF SecsPerFourYear
  <2>2. t = p + off /\ InYear(t) = off - b /\ YearStart(YearOf(t)) = p + b /\ b \in Nat
    BY <1>1, <1>5, <1>8, <1>9
  <2> HIDE DEF b, p
  <2> QED BY <1>1, <2>1, <2>2
<1>11. At(Accu(YearOf(t)), 12) = IF y = 1 THEN 366 * SecsPerDay ELSE 365 * SecsPerDay
  <2>1. At(Accu(YearOf(t)), 12) = IF YearOf(t) % 4 = 0 THEN 366 * SecsPerDay ELSE 365 * SecsPerDay
    BY SMT DEF At, Accu, Month_Secs_Accu_C, Month_Secs_Accu_L, SecsPerDay
  <2> QED BY <1>6, <2>1
<1>12. InYear(t) <= At(Accu(YearOf(t)), 12)
  BY <1>1, <1>3, <1>5, <1>11, SMT DEF At, Before, Year_Secs_Accu, SecsPerDay
<1> QED BY <1>6, <1>9, <1>10, <1>12

(* datetime_convert finds the month and the second of the month.            *)
LEMMA MonthRight ==
  ASSUME NEW t \in Nat, t < To2100
  PROVE  /\ MonthOf(t) \in 1 .. 12
         /\ InYear(t) = Before(Accu(YearOf(t)), MonthOf(t)) + InMonth(t)
         /\ InMonth(t) \in Nat
         /\ InMonth(t) <= SecsPerDay * DaysOfMonth(YearOf(t), MonthOf(t))
         /\ InYear(t) # 0 => InMonth(t) # 0
<1> DEFINE y == YearOf(t)
           m == MonthOf(t)
           accu == Accu(y)
<1>1. y \in Years /\ InYear(t) \in Nat /\ InYear(t) <= At(accu, 12)
  BY YearRight
<1>2. accu \in Seq(Nat) /\ Len(accu) = 12 /\ accu # <<>>
  BY SMT DEF Accu, Month_Secs_Accu_C, Month_Secs_Accu_L
<1>3. m = Part(accu, InYear(t))
  BY DEF MonthOf
<1>4. InMonth(t) = InYear(t) - Before(accu, m)
  BY DEF InMonth
<1> HIDE DEF y, m, accu
<1>5. m \in 1 .. 12 /\ InYear(t) <= At(accu, m) /\ (m # 1 => At(accu, m - 1) < InYear(t))
  <2>1. /\ Part(accu, InYear(t)) \in Nat
        /\ 1 <= Part(accu, InYear(t)) /\ Part(accu, InYear(t)) <= 12
        /\ InYear(t) <= At(accu, Part(accu, InYear(t)))
        /\ Part(accu, InYear(t)) # 1 => At(accu, Part(accu, InYear(t)) - 1) < InYear(t)
    <3>1. InYear(t) \in Nat /\ InYear(t) <= At(accu, Len(accu))
      BY <1>1, <1>2
    <3> QED BY <3>1, <1>2, PartIs
  <2> QED BY <2>1, <1>3
<1>6. Before(accu, m) \in Nat /\ At(accu, m) = Before(accu, m) + SecsPerDay * DaysOfMonth(y, m)
      /\ DaysOfMonth(y, m) \in 28 .. 31
  <2>1. /\ Before(Accu(y), m) \in Nat
        /\ At(Accu(y), m) = Before(Accu(y), m) + SecsPerDay * DaysOfMonth(y, m)
        /\ DaysOfMonth(y, m) \in 28 .. 31
    <3>1. MonthRow(y, m)
      BY <1>1, <1>5, MonthTable
    <3> QED BY <3>1 DEF MonthRow
  <2> QED BY <2>1 DEF accu
<1>7. Before(accu, m) <= InYear(t) /\ (InYear(t) # 0 => Before(accu, m) < InYear(t))
  <2>1. m # 1 => Before(accu, m) = At(accu, m - 1)
    BY DEF Before, At
  <2>2. m = 1 => Before(accu, m) = 0
    BY DEF Before
  <2> QED BY <1>1, <1>5, <1>6, <2>1, <2>2
<1>8. SecsPerDay * DaysOfMonth(y, m) \in Nat
  BY <1>6 DEF SecsPerDay
<1> DEFINE b == Before(accu, m)
           len == SecsPerDay * DaysOfMonth(y, m)
<1> HIDE DEF b, len
<1>9. b \in Nat /\ len \in Nat /\ InMonth(t) = InYear(t) - b /\ b <= InYear(t) /\ InYear(t) <= b + len
      /\ (InYear(t) # 0 => b < InYear(t))
  BY <1>4, <1>5, <1>6, <1>7, <1>8 DEF b, len
<1>10. InYear(t) = b + InMonth(t) /\ InMonth(t) \in Nat /\ InMonth(t) <= len
       /\ (InYear(t) # 0 => InMonth(t) # 0)
  BY <1>1, <1>9
<1> QED BY <1>5, <1>10 DEF y, m, accu, b, len

(* A year is as long as the last entry of its table.                        *)
LEMMA NextYear ==
  ASSUME NEW year \in Years
  PROVE  YearStart(year + 1) = YearStart(year) + At(Accu(year), 12)
<1> DEFINE n == (year - 1997) \div 4
           m == (year - 1996) \div 4
<1>1. /\ year % 4 = 0 => m = n + 1
      /\ year % 4 # 0 => m = n
      /\ m \in Nat /\ n \in Nat
  BY DEF Years
<1>2. At(Accu(year), 12) = IF year % 4 = 0 THEN 366 * SecsPerDay ELSE 365 * SecsPerDay
  <2>1. MonthRow(year, 12)
    BY MonthTable, 12 \in 1 .. 12
  <2> QED BY <2>1 DEF MonthRow
<1>3. year + 1 - 1997 = year - 1996 /\ year + 1 - 2000 = year - 1999
  BY DEF Years
<1>4. YearStart(year + 1) = SecsPerDay * (365 * (year - 1999) + m)
  BY <1>3 DEF YearStart, Years
<1>5. YearStart(year) = SecsPerDay * (365 * (year - 2000) + n)
  BY DEF YearStart
<1> HIDE DEF m, n
<1> QED BY <1>1, <1>2, <1>4, <1>5, SMT DEF SecsPerDay, Years

(* The first second of a month is one that StartsMonth finds.               *)
LEMMA FirstSecond ==
  ASSUME NEW year \in Years, NEW mon \in 1 .. 12, NEW t \in Nat,
         t = YearStart(year) + Before(Accu(year), mon)
  PROVE  StartsMonth(t)
<1> DEFINE y == START_YEAR + t \div Month_Secs_Accu_L[12]
           b == Before(Accu(year), mon)
           n == (year - 1997) \div 4
<1>1. b \in Nat /\ b <= 335 * SecsPerDay
  <2>1. MonthRow(year, mon)
    BY MonthTable
  <2> QED BY <2>1 DEF MonthRow
<1>2. DaysBefore(year, mon) \in Nat /\ DaysBefore(year, mon) * SecsPerDay = t
  BY MonthStart
<1>3. t % SecsPerDay = 0
  BY <1>2, SMT DEF SecsPerDay
<1>4. y = 2000 + (t \div 31622400)
  BY SMT DEF START_YEAR, Month_Secs_Accu_L
<1>5. n \in Nat /\ 4 * n <= year - 1997 /\ year - 2000 < 4 * n + 1
  BY DEF Years
<1>6. t = 86400 * (365 * (year - 2000) + n) + b
  BY SMT DEF YearStart, SecsPerDay
<1> HIDE DEF y, b, n
<1>7. t < 31622400 * (year - 1999) /\ t >= 31622400 * (year - 2001)
  BY <1>1, <1>5, <1>6, SMT DEF SecsPerDay, Years
<1>8. year \in {y, y + 1}
  BY <1>4, <1>7, SMT DEF Years
<1> QED BY <1>2, <1>3, <1>8 DEF StartsMonth, y

(* A second that starts no month is not the first of one.                   *)
LEMMA NotFirst ==
  ASSUME NEW t \in Nat, t < To2100, ~ StartsMonth(t)
  PROVE  /\ InYear(t) # 0
         /\ InMonth(t) < SecsPerDay * DaysOfMonth(YearOf(t), MonthOf(t))
<1> DEFINE y == YearOf(t)
           m == MonthOf(t)
           b == Before(Accu(y), m)
           len == SecsPerDay * DaysOfMonth(y, m)
<1>1. y \in Years /\ m \in 1 .. 12
  BY YearRight, MonthRight
<1>2. t = YearStart(y) + InYear(t) /\ InYear(t) = b + InMonth(t) /\ InMonth(t) \in Nat
      /\ InMonth(t) <= len
  BY YearRight, MonthRight
<1>3. b \in Nat /\ At(Accu(y), m) = b + len /\ DaysOfMonth(y, m) \in 28 .. 31
      /\ (m < 12 => At(Accu(y), m) = Before(Accu(y), m + 1))
  <2>1. MonthRow(y, m)
    BY <1>1, MonthTable
  <2> QED BY <2>1 DEF MonthRow
<1>4. len \in Nat /\ len > 0
  BY <1>3, SMT DEF SecsPerDay
<1>5. YearStart(y) \in Nat /\ y + 1 \in Nat
  BY <1>1, SMT DEF YearStart, SecsPerDay, Years
<1> HIDE DEF y, m, b, len
<1>6. InYear(t) # 0
  <2> SUFFICES ASSUME InYear(t) = 0 PROVE FALSE
    OBVIOUS
  <2>1. t = YearStart(y) + Before(Accu(y), 1)
    BY <1>2, <1>5 DEF Before
  <2> QED BY <1>1, <2>1, FirstSecond, 1 \in 1 .. 12
<1>7. InMonth(t) # len
  <2> SUFFICES ASSUME InMonth(t) = len PROVE FALSE
    OBVIOUS
  <2>1. t = YearStart(y) + At(Accu(y), m)
    BY <1>2, <1>3
  <2>2. CASE m < 12
    BY <1>1, <1>3, <2>1, <2>2, FirstSecond, m + 1 \in 1 .. 12
  <2>3. CASE m = 12
    <3>1. t = YearStart(y + 1)
      BY <1>1, <2>1, <2>3, NextYear
    <3>2. YearStart(2100) = To2100
      BY SMT DEF YearStart, To2100, SecsPerFourYear, SecsPerDay
    <3>3. y # 2099
      BY <3>1, <3>2, SMT DEF To2100, SecsPerFourYear
    <3>4. y + 1 \in Years
      BY <1>1, <3>3 DEF Years
    <3>5. t = YearStart(y + 1) + Before(Accu(y + 1), 1)
      BY <3>1 DEF Before
    <3> QED BY <3>4, <3>5, FirstSecond, 1 \in 1 .. 12
  <2> QED BY <1>1, <2>2, <2>3
<1> QED BY <1>2, <1>4, <1>6, <1>7 DEF y, m, len

(* A count outside the first second of a month is converted to the date it  *)
(* is the count of.                                                         *)
LEMMA ConvertRight ==
  ASSUME NEW t \in Nat, t < To2100, ~ StartsMonth(t)
  PROVE  /\ IsDate(datetime_convert(t))
         /\ Seconds(datetime_convert(t)) = t
         /\ datetime_convert(t)[1] = YearOf(t)
<1> DEFINE y == YearOf(t)
           m == MonthOf(t)
           s == InMonth(t)
           d == s \div SecsPerDay
           r == s % SecsPerDay
           date == <<y, m, d + 1, r \div 3600, (r % 3600) \div 60, r % 60>>
<1>1. datetime_convert(t) = date
  BY NotFirst, Converted DEF InDay
<1>2. y \in Years /\ m \in 1 .. 12 /\ s \in Nat /\ s < SecsPerDay * DaysOfMonth(y, m)
      /\ t = YearStart(y) + (Before(Accu(y), m) + s)
  BY NotFirst, YearRight, MonthRight
<1>3. DaysOfMonth(y, m) \in 28 .. 31 /\ Before(Accu(y), m) \in Nat
  <2>1. MonthRow(y, m)
    BY <1>2, MonthTable
  <2> QED BY <2>1 DEF MonthRow
<1>4. DaysBefore(y, m) \in Nat /\ DaysBefore(y, m) * SecsPerDay = YearStart(y) + Before(Accu(y), m)
  BY <1>2, MonthStart
<1> HIDE DEF y, m, s
<1>5. s = SecsPerDay * d + r /\ d \in Nat /\ r \in Nat /\ r < SecsPerDay
  <2>1. s = 86400 * (s \div 86400) + (s % 86400)
    BY <1>2, SMT
  <2>2. s \div 86400 \in Nat /\ s % 86400 \in Nat /\ s % 86400 < 86400
    BY <1>2, SMT
  <2> QED BY <2>1, <2>2 DEF SecsPerDay
<1> HIDE DEF d, r
<1>6. d < DaysOfMonth(y, m)
  BY <1>2, <1>3, <1>5, SMT DEF SecsPerDay
<1>7. r = 3600 * (r \div 3600) + (r % 3600) /\ r \div 3600 \in Nat /\ r % 3600 \in Nat
      /\ r \div 3600 < 24 /\ r % 3600 < 3600
  BY <1>5, SMT DEF SecsPerDay
<1>8. (r % 3600) = 60 * ((r % 3600) \div 60) + (r % 60) /\ (r % 3600) \div 60 \in Nat
      /\ (r % 3600) \div 60 < 60 /\ r % 60 \in Nat /\ r % 60 < 60
  BY <1>5, <1>7, SMT
<1>9. IsDate(date)
  BY <1>2, <1>3, <1>5, <1>6, <1>7, <1>8, SMT DEF IsDate
<1>10. Seconds(date) = t
  <2> DEFINE h == r \div 3600
             mi == (r % 3600) \div 60
             se == r % 60
             D == DaysBefore(y, m)
             Y == YearStart(y) + Before(Accu(y), m)
  <2>1. Seconds(date) = (D + (d + 1) - 1) * SecsPerDay + h * 3600 + mi * 60 + se
    BY DEF Seconds
  <2>2. h \in Nat /\ mi \in Nat /\ se \in Nat /\ r = 3600 * h + (60 * mi + se)
    BY <1>7, <1>8
  <2>3. D \in Nat /\ D * SecsPerDay = Y
    BY <1>4
  <2>4. t = Y + s
    <3>1. YearStart(y) \in Int
      BY <1>2, SMT DEF YearStart, SecsPerDay, Years
    <3> QED BY <1>2, <1>3, <3>1
  <2> HIDE DEF h, mi, se, D, Y
  <2> QED BY <1>5, <2>1, <2>2, <2>3, <2>4, SMT DEF SecsPerDay
<1>11. date[1] = y
  OBVIOUS
<1> HIDE DEF date
<1> QED BY <1>1, <1>9, <1>10, <1>11 DEF y

(* The days datetime_mktime counts up to the last of the month before.      *)
MonthCounted(mon) == (mon + 254) % 256

DaysCounted(year, mon) ==
  IF MonthCounted(mon) = 0
    THEN (year - 1) \div 4 - (year - 1) \div 100 + (year - 1) \div 400 + (367 * 12) \div 12
           + (year - 1) * 365 - 730456
    ELSE year \div 4 - year \div 100 + year \div 400 + (367 * MonthCounted(mon)) \div 12
           + year * 365 - 730456

(* From February on datetime_mktime counts all days but the last.           *)
LEMMA DaysCountedRight ==
  ASSUME NEW year \in 2012 .. 2022, NEW mon \in 2 .. 12
  PROVE  DaysCounted(year, mon) = DaysBefore(year, mon) - 1
<1> DEFINE n == (year - 1997) \div 4
           b == Before(Accu(year), mon)
           D == DaysBefore(year, mon)
           c == DaysCounted(year, mon)
           k == (year - 1) \div 4
<1>1. D \in Nat /\ D * SecsPerDay = YearStart(year) + b
  BY MonthStart DEF Years
<1>2. YearStart(year) = SecsPerDay * (365 * (year - 2000) + n)
  BY DEF YearStart
<1>3. /\ year \div 100 = 20 /\ year \div 400 = 5 /\ (year - 1) \div 100 = 20
      /\ (year - 1) \div 400 = 5
  OBVIOUS
<1>4. n = k - 499 /\ k \in Nat
  OBVIOUS
<1>5. year \div 4 = IF year % 4 = 0 THEN k + 1 ELSE k
  OBVIOUS
<1>6. c = IF mon = 2 THEN k - 15 + 367 + (year - 1) * 365 - 730456
          ELSE (year \div 4) - 15 + (367 * (mon - 2)) \div 12 + year * 365 - 730456
  <2>1. MonthCounted(mon) = mon - 2
    BY DEF MonthCounted
  <2> QED BY <1>3, <2>1, SMT DEF DaysCounted
<1> DEFINE l == IF year % 4 = 0 THEN 1 ELSE 0
<1>7. b = SecsPerDay * (IF mon = 2 THEN 31 ELSE (367 * (mon - 2)) \div 12 + 29 + l)
  BY SMT DEF Before, Accu, Month_Secs_Accu_L, Month_Secs_Accu_C, SecsPerDay
<1>8. l \in 0 .. 1 /\ (year \div 4) = k + l /\ (367 * (mon - 2)) \div 12 \in Nat
  BY <1>5
<1> DEFINE x == (367 * (mon - 2)) \div 12
           a == IF mon = 2 THEN 31 ELSE x + 29 + l
<1> HIDE DEF n, b, D, c, k, l, x
<1>9. D = 365 * (year - 2000) + n + a
  <2>1. D * 86400 = 86400 * (365 * (year - 2000) + n) + 86400 * a
    BY <1>1, <1>2, <1>7, SMT DEF SecsPerDay, x
  <2>2. a \in Nat /\ n \in Int
    BY <1>4, <1>8, SMT DEF x
  <2> HIDE DEF a
  <2> QED BY <1>1, <2>1, <2>2
<1>10. x \in Nat /\ c = IF mon = 2 THEN k - 15 + 367 + (year - 1) * 365 - 730456
                         ELSE k + l - 15 + x + year * 365 - 730456
  BY <1>4, <1>6, <1>8, SMT DEF x
<1>11. c = D - 1
  BY <1>4, <1>8, <1>9, <1>10, SMT
<1> QED BY <1>11 DEF c, D

(* Later years begin later.                                                 *)
LEMMA YearsGrow ==
  ASSUME NEW a \in YearsEnd, NEW b \in YearsEnd, a <= b
  PROVE  YearStart(a) \in Nat /\ YearStart(b) \in Nat /\ YearStart(a) <= YearStart(b)
<1> DEFINE x == (a - 1997) \div 4
           y == (b - 1997) \div 4
<1>1. x \in Nat /\ y \in Nat /\ x <= y
  BY DEF YearsEnd
<1>2. YearStart(a) = SecsPerDay * (365 * (a - 2000) + x)
      /\ YearStart(b) = SecsPerDay * (365 * (b - 2000) + y)
  BY DEF YearStart
<1> HIDE DEF x, y
<1> QED BY <1>1, <1>2, SMT DEF SecsPerDay, YearsEnd

(* A year begins at a natural number of seconds.                            *)
LEMMA YearStartNat ==
  ASSUME NEW year \in Years
  PROVE  YearStart(year) \in Nat
<1>1. year \in YearsEnd /\ year <= year
  BY DEF Years, YearsEnd
<1> QED BY <1>1, YearsGrow

(* The years the proof names begin at a natural number of seconds.          *)
LEMMA NamedYears ==
  YearStart(2001) \in Nat /\ YearStart(2012) \in Nat /\ YearStart(2023) \in Nat
BY SMT DEF YearStart, SecsPerDay

\* A date the clock may be set to.
Settable(e) == IsDate(e) /\ e[1] \in 2012 .. 2022

(* Outside January datetime_mktime counts the seconds of a date.            *)
LEMMA MktimeRight ==
  ASSUME NEW e, Settable(e), e[2] # 1
  PROVE  datetime_mktime(e) = Seconds(e)
<1> DEFINE D == DaysBefore(e[1], e[2])
           c == DaysCounted(e[1], e[2])
<1>1. e[1] \in 2012 .. 2022 /\ e[2] \in 2 .. 12
  BY DEF Settable, IsDate
<1>2. DaysOfMonth(e[1], e[2]) \in 28 .. 31
  <2>1. e[1] \in Years /\ e[2] \in 1 .. 12
    BY <1>1 DEF Years
  <2> QED BY <2>1, MonthLength
<1>3. e[3] \in Nat /\ e[4] \in Nat /\ e[5] \in Nat /\ e[6] \in Nat
  BY <1>2 DEF Settable, IsDate
<1>4. D \in Nat
  <2>1. e[1] \in Years /\ e[2] \in 1 .. 12
    BY <1>1 DEF Years
  <2> QED BY <2>1, MonthStart
<1>5. c = D - 1
  BY <1>1, DaysCountedRight
<1> DEFINE y == e[1]
           m == e[2]
<1> HIDE DEF y, m
<1>8. /\ (y - 1) \div 4 \in Int /\ (y - 1) \div 100 \in Int /\ (y - 1) \div 400 \in Int
      /\ y \div 4 \in Int /\ y \div 100 \in Int /\ y \div 400 \in Int
      /\ (367 * MonthCounted(m)) \div 12 \in Int /\ (367 * 12) \div 12 \in Int
      /\ MonthCounted(m) \in Int /\ y \in Int
  BY <1>1 DEF MonthCounted, y, m
<1>6. datetime_mktime(e) = (((c + e[3]) * 24 + e[4]) * 60 + e[5]) * 60 + e[6]
  <2> DEFINE days == IF MonthCounted(m) = 0
                     THEN (y - 1) \div 4 - (y - 1) \div 100 + (y - 1) \div 400
                            + (367 * 12) \div 12 + e[3] + (y - 1) * 365 - 730456
                     ELSE y \div 4 - y \div 100 + y \div 400
                            + (367 * MonthCounted(m)) \div 12 + e[3] + y * 365 - 730456
  <2>1. datetime_mktime(e) = ((days * 24 + e[4]) * 60 + e[5]) * 60 + e[6]
    BY SMT DEF datetime_mktime, MonthCounted, y, m
  <2>2. c = IF MonthCounted(m) = 0
            THEN (y - 1) \div 4 - (y - 1) \div 100 + (y - 1) \div 400
                   + (367 * 12) \div 12 + (y - 1) * 365 - 730456
            ELSE y \div 4 - y \div 100 + y \div 400
                   + (367 * MonthCounted(m)) \div 12 + y * 365 - 730456
    BY SMT DEF DaysCounted, y, m
  <2> HIDE DEF c
  <2>3. days = c + e[3]
    BY <1>3, <1>8, <2>2, SMT
  <2> QED BY <2>1, <2>3
<1>7. Seconds(e) = (D + e[3] - 1) * 86400 + e[4] * 3600 + e[5] * 60 + e[6]
  BY DEF Seconds, SecsPerDay
<1> DEFINE n == D + e[3] - 1
<1> HIDE DEF c, D
<1>9. n \in Int /\ c + e[3] = n
  BY <1>3, <1>4, <1>5
<1> HIDE DEF n
<1>10. ((n * 24 + e[4]) * 60 + e[5]) * 60 + e[6] = n * 86400 + e[4] * 3600 + e[5] * 60 + e[6]
  BY <1>3, <1>9, SMT
<1> QED BY <1>6, <1>7, <1>9, <1>10 DEF n

(* A date that may be set lies in its year.                                 *)
LEMMA SecondsIn ==
  ASSUME NEW e, Settable(e)
  PROVE  Seconds(e) \in Nat /\ YearStart(2012) <= Seconds(e) /\ Seconds(e) < YearStart(2023)
<1> DEFINE y == e[1]
           m == e[2]
           D == DaysBefore(y, m)
           b == Before(Accu(y), m)
           len == DaysOfMonth(y, m)
<1>1. y \in 2012 .. 2022 /\ y \in Years /\ m \in 1 .. 12
  BY DEF Settable, IsDate, Years
<1>2. /\ len \in 28 .. 31 /\ b \in Nat
      /\ At(Accu(y), m) = b + SecsPerDay * len
      /\ m < 12 => At(Accu(y), m) = Before(Accu(y), m + 1)
      /\ b <= 335 * SecsPerDay
      /\ At(Accu(y), 12) = IF y % 4 = 0 THEN 366 * SecsPerDay ELSE 365 * SecsPerDay
  <2>1. MonthRow(y, m)
    BY <1>1, MonthTable
  <2> QED BY <2>1 DEF MonthRow
<1>3. b + SecsPerDay * len <= At(Accu(y), 12)
  <2>1. CASE m < 12
    <3>1. m + 1 \in 1 .. 12
      BY <1>1, <2>1
    <3>2. Before(Accu(y), m + 1) <= 335 * SecsPerDay
      <4>1. MonthRow(y, m + 1)
        BY <1>1, <3>1, MonthTable
      <4> QED BY <4>1 DEF MonthRow
    <3> QED BY <1>2, <2>1, <3>2, SMT DEF SecsPerDay
  <2>2. CASE m = 12
    BY <1>2, <2>2, SMT DEF SecsPerDay
  <2> QED BY <1>1, <2>1, <2>2
<1>4. D \in Nat /\ D * SecsPerDay = YearStart(y) + b
  BY <1>1, MonthStart
<1>5. YearStart(y + 1) = YearStart(y) + At(Accu(y), 12)
  BY <1>1, NextYear
<1>6. /\ YearStart(2012) \in Nat /\ YearStart(y) \in Nat /\ YearStart(2012) <= YearStart(y)
      /\ YearStart(y + 1) \in Nat /\ YearStart(2023) \in Nat
      /\ YearStart(y + 1) <= YearStart(2023)
  <2>1. 2012 \in YearsEnd /\ 2023 \in YearsEnd /\ y \in YearsEnd /\ y + 1 \in YearsEnd
        /\ 2012 <= y /\ y + 1 <= 2023
    BY <1>1 DEF Years, YearsEnd
  <2>2. YearStart(2012) \in Nat /\ YearStart(y) \in Nat /\ YearStart(2012) <= YearStart(y)
    BY <2>1, YearsGrow
  <2>3. YearStart(y + 1) \in Nat /\ YearStart(2023) \in Nat /\ YearStart(y + 1) <= YearStart(2023)
    BY <2>1, YearsGrow
  <2> QED BY <2>2, <2>3
<1>7. e[3] \in 1 .. len /\ e[4] \in 0 .. 23 /\ e[5] \in 0 .. 59 /\ e[6] \in 0 .. 59
  BY DEF Settable, IsDate
<1>8. Seconds(e) = (D + e[3] - 1) * SecsPerDay + e[4] * 3600 + e[5] * 60 + e[6]
  BY DEF Seconds
<1> DEFINE whole == At(Accu(y), 12)
           start == YearStart(y)
<1> HIDE DEF y, m, D, b, len, whole, start
<1>9. Seconds(e) = start + b + (e[3] - 1) * 86400 + e[4] * 3600 + e[5] * 60 + e[6]
  BY <1>2, <1>4, <1>6, <1>7, <1>8, SMT DEF SecsPerDay, start
<1>10. Seconds(e) \in Nat /\ start <= Seconds(e) /\ Seconds(e) < start + b + 86400 * len
  <2>1. e[3] \in Int /\ 1 <= e[3] /\ e[3] <= len
    BY <1>2, <1>7
  <2>2. e[4] \in Int /\ 0 <= e[4] /\ e[4] <= 23 /\ e[5] \in Int /\ 0 <= e[5] /\ e[5] <= 59
        /\ e[6] \in Int /\ 0 <= e[6] /\ e[6] <= 59
    BY <1>7
  <2> DEFINE n == e[3]
             h == e[4]
             i == e[5]
             k == e[6]
  <2>3. Seconds(e) = start + b + (n - 1) * 86400 + h * 3600 + i * 60 + k
    BY <1>9
  <2>4. start \in Nat /\ b \in Nat /\ len \in Nat
    BY <1>2, <1>6 DEF start
  <2> HIDE DEF n, h, i, k
  <2>5. n \in Int /\ 1 <= n /\ n <= len /\ h \in Int /\ 0 <= h /\ h <= 23
        /\ i \in Int /\ 0 <= i /\ i <= 59 /\ k \in Int /\ 0 <= k /\ k <= 59
    BY <2>1, <2>2 DEF n, h, i, k
  <2> QED BY <2>3, <2>4, <2>5, SMT
<1>11. start + b + 86400 * len <= YearStart(2023)
  BY <1>2, <1>3, <1>5, <1>6, SMT DEF SecsPerDay, start, whole
<1> QED BY <1>2, <1>6, <1>10, <1>11, SMT DEF start

(* A date that may be set comes back from its zipped form.                  *)
LEMMA UnzipZip ==
  ASSUME NEW d, Settable(d)
  PROVE  /\ datetime_unzip(datetime_zip(d)) = <<d[1], d[2], d[3], d[4], d[5], d[6]>>
         /\ Settable(datetime_unzip(datetime_zip(d)))
<1> DEFINE e == <<d[1], d[2], d[3], d[4], d[5], d[6]>>
<1>1. d[1] \in 2012 .. 2022 /\ d[2] \in 1 .. 12
  BY DEF Settable, IsDate
<1>2. DaysOfMonth(d[1], d[2]) \in 28 .. 31
  <2>1. d[1] \in Years
    BY <1>1 DEF Years
  <2> QED BY <1>1, <2>1, MonthLength
<1>3. d[3] \in 1 .. DaysOfMonth(d[1], d[2]) /\ d[4] \in 0 .. 23 /\ d[5] \in 0 .. 59 /\ d[6] \in 0 .. 59
  BY DEF Settable, IsDate
<1>6. d[3] \in 1 .. 31
  BY <1>2, <1>3
<1>4. datetime_zip(d) = <<d[1] - 2000, d[2], d[3], d[4], d[5], d[6]>>
  <2>1. (d[1] - 2000) % 64 = d[1] - 2000
    BY <1>1
  <2>2. d[2] % 16 = d[2] /\ d[3] % 32 = d[3] /\ d[4] % 32 = d[4]
    BY <1>1, <1>3, <1>6
  <2>3. d[5] % 64 = d[5] /\ d[6] % 64 = d[6]
    BY <1>3
  <2> QED BY <2>1, <2>2, <2>3 DEF datetime_zip
<1>5. datetime_unzip(datetime_zip(d)) = e
  <2>1. d[1] - 2000 + 2000 = d[1]
    BY <1>1
  <2> QED BY <1>4, <2>1 DEF datetime_unzip
<1>7. Settable(e)
  BY <1>1, <1>3 DEF Settable, IsDate
<1> HIDE DEF e
<1> QED BY <1>5, <1>7 DEF e

(* Between 2012 and 2022, outside the first second of a month, a count      *)
(* is converted to a date check_rtc_exist accepts.                          *)
LEMMA ConvertValid ==
  ASSUME NEW t \in Nat, YearStart(2012) <= t, t < YearStart(2023), ~ StartsMonth(t)
  PROVE  valid_datetime(datetime_convert(t))
<1> DEFINE y == YearOf(t)
           e == datetime_convert(t)
<1>1. t < To2100
  BY SMT DEF YearStart, To2100, SecsPerDay, SecsPerFourYear
<1>2. IsDate(e) /\ e[1] = y
  BY <1>1, ConvertRight
<1>3. /\ y \in Years /\ t = YearStart(y) + InYear(t)
      /\ InYear(t) \in Nat /\ InYear(t) <= At(Accu(y), 12)
  BY <1>1, YearRight
<1>4. YearStart(y + 1) = YearStart(y) + At(Accu(y), 12)
  BY <1>3, NextYear
<1>5. DaysOfMonth(y, e[2]) \in 28 .. 31
  <2>1. e[2] \in 1 .. 12
    BY <1>2 DEF IsDate
  <2> QED BY <1>3, <2>1, MonthLength
<1> HIDE DEF y, e
<1>6. y <= 2022
  <2> SUFFICES ASSUME y >= 2023 PROVE FALSE
    BY <1>3 DEF Years
  <2>1. YearStart(2023) <= YearStart(y) /\ YearStart(2023) \in Nat /\ YearStart(y) \in Nat
    <3>1. 2023 \in YearsEnd /\ y \in YearsEnd /\ 2023 <= y
      BY <1>3 DEF Years, YearsEnd
    <3> QED BY <3>1, YearsGrow
  <2> QED BY <1>3, <2>1
<1>7. y >= 2012
  <2> SUFFICES ASSUME y <= 2011 PROVE FALSE
    BY <1>3 DEF Years, YearsEnd
  <2>1. y + 1 \in YearsEnd /\ y + 1 <= 2012 /\ y \in YearsEnd /\ y <= 2012
    BY <1>3 DEF Years, YearsEnd
  <2>2. YearStart(y + 1) <= YearStart(2012) /\ YearStart(2012) \in Nat
        /\ YearStart(y + 1) \in Nat /\ YearStart(y) \in Nat
    <3>1. YearStart(y + 1) <= YearStart(2012) /\ YearStart(y + 1) \in Nat
      BY <2>1, YearsGrow, YearsIn
    <3>2. YearStart(y) \in Nat
      BY <2>1, YearsGrow, YearsIn
    <3> QED BY <3>1, <3>2, NamedYears
  <2>3. At(Accu(y), 12) \in Int
    <3>1. MonthRow(y, 12)
      BY <1>3, MonthTable, 12 \in 1 .. 12
    <3> QED BY <3>1 DEF MonthRow, SecsPerDay
  <2>4. t = YearStart(2012)
    BY <1>3, <1>4, <2>2, <2>3 DEF Years
  <2>5. t = YearStart(2012) + Before(Accu(2012), 1)
    BY <2>2, <2>4 DEF Before
  <2> QED BY <2>5, FirstSecond, YearsIn, 1 \in 1 .. 12
<1>8. e[3] <= 31 /\ e[4] <= 24 /\ e[5] <= 60 /\ e[6] <= 59 /\ e[2] \in 1 .. 12
  BY <1>2, <1>5 DEF IsDate
<1>9. y \in Nat
  BY <1>3 DEF Years
<1> QED BY <1>2, <1>6, <1>7, <1>8, <1>9 DEF valid_datetime, e

(* What check_rtc_exist sets is the default date.                           *)
LEMMA DefaultDateRight ==
  Settable(DefaultDate) /\ datetime_mktime(DefaultDate) = Seconds(DefaultDate)
<1>1. DaysOfMonth(2012, 5) \in 28 .. 31
  BY MonthLength, YearsIn, 5 \in 1 .. 12
<1>2. Settable(DefaultDate)
  BY <1>1 DEF Settable, IsDate, DefaultDate
<1>3. DefaultDate[2] # 1
  BY DEF DefaultDate
<1> QED BY <1>2, <1>3, MktimeRight

(* The first second after 2022.                                             *)
LEMMA After2022 == Seconds(<<2023, 1, 1, 0, 0, 0>>) = YearStart(2023)
<1>1. DaysBefore(2023, 1) \in Nat
      /\ DaysBefore(2023, 1) * SecsPerDay = YearStart(2023) + Before(Accu(2023), 1)
  BY MonthStart, YearsIn, 1 \in 1 .. 12
<1>2. Seconds(<<2023, 1, 1, 0, 0, 0>>) = DaysBefore(2023, 1) * SecsPerDay
  BY <1>1, SMT DEF Seconds, SecsPerDay
<1>3. YearStart(2023) \in Nat
  BY NamedYears
<1> QED BY <1>1, <1>2, <1>3 DEF Before

(* In January it counts 255 months for the month before the last, which is  *)
(* still a number.                                                          *)
LEMMA MktimeNat ==
  ASSUME NEW e, Settable(e)
  PROVE  datetime_mktime(e) \in Nat
<1> DEFINE y == e[1]
<1>1. y \in 2012 .. 2022 /\ e[2] \in 1 .. 12
  BY DEF Settable, IsDate
<1>2. DaysOfMonth(y, e[2]) \in 28 .. 31
  <2>1. y \in Years
    BY <1>1 DEF Years
  <2> QED BY <1>1, <2>1, MonthLength
<1>3. e[3] \in Nat /\ e[3] >= 1 /\ e[4] \in Nat /\ e[5] \in Nat /\ e[6] \in Nat
  BY <1>2 DEF Settable, IsDate
<1>4. CASE e[2] # 1
  BY <1>4, MktimeRight, SecondsIn
<1>5. CASE e[2] = 1
  <2>1. /\ y \div 4 \in Int /\ y \div 4 >= 503 /\ y \div 100 = 20 /\ y \div 400 = 5
        /\ (367 * 255) \div 12 = 7798 /\ (1 + 254) % 256 = 255
    BY <1>1
  <2> DEFINE days == y \div 4 - y \div 100 + y \div 400 + (367 * 255) \div 12 + e[3]
                       + y * 365 - 730456
  <2>2. datetime_mktime(e) = ((days * 24 + e[4]) * 60 + e[5]) * 60 + e[6]
    BY <1>5, <2>1, SMT DEF datetime_mktime
  <2> HIDE DEF y
  <2>3. days \in Nat
    BY <1>1, <1>3, <2>1, SMT
  <2> HIDE DEF days
  <2> QED BY <1>3, <2>2, <2>3, SMT
<1> QED BY <1>4, <1>5

-----------------------------------------------------------------------------
(* The values the state is made of.                                         *)
Param ==
  {<<n>> : n \in Numbers} \cup {<<0>>, Torn, Unknown} \cup {Default[c] : c \in DOMAIN Default}
    \cup {datetime_zip(d) : d \in Dates} \cup {datetime_zip(datetime_convert(r)) : r \in Nat}

Answer == [dir : 0 .. 2, cmd : Cmds \cup {"none"}, param : Param]

Pieces == {w \in [from : Int, to : Nat, says : Answer] : w.from < w.to}

Boards == [memory : [Variables -> Param], fram : [Settings -> Param], rtc : Nat,
           answer : Answer, refused : Nat, queued : Nat, sent : Nat, sent1 : Nat,
           wire : SUBSET Pieces]

Board ==
  {s \in Boards : /\ s.sent1 <= s.sent /\ s.sent <= s.queued /\ (s.sent1 = 0 => s.sent = 0)
                  /\ \A w \in s.wire : w.to <= s.queued}

(* The four settings, each with a variable of its own.                      *)
LEMMA SettingsAre ==
  /\ Settings = {"CMD_READ_INT1", "CMD_LOCAL_IP", "CMD_GATEWAY", "CMD_NETMASK"}
  /\ VarOf \in [Settings -> Variables]
  /\ \A c, e \in Settings : VarOf[c] = VarOf[e] => c = e
  /\ Variables = {"int_var1", "ip", "netmask", "gateway"}
<1>1. Settings = {"CMD_READ_INT1", "CMD_LOCAL_IP", "CMD_GATEWAY", "CMD_NETMASK"}
  BY DEF Settings, VarOf
<1>2. /\ VarOf["CMD_READ_INT1"] = "int_var1" /\ VarOf["CMD_LOCAL_IP"] = "ip"
      /\ VarOf["CMD_GATEWAY"] = "netmask" /\ VarOf["CMD_NETMASK"] = "gateway"
  BY DEF VarOf
<1>3. VarOf \in [Settings -> Variables]
  BY DEF Settings, Variables, VarOf
<1>4. Variables = {"int_var1", "ip", "netmask", "gateway"}
  BY <1>1, <1>2 DEF Variables
<1> QED BY <1>1, <1>2, <1>3, <1>4

(* A frame: what it may carry.                                              *)
LEMMA FrameFields ==
  ASSUME NEW f \in Frame
  PROVE  /\ f.dir \in {DIR_READ, DIR_WRITE} /\ f.cmd \in Cmds /\ f.param \in Param
         /\ f = [dir |-> f.dir, cmd |-> f.cmd, param |-> f.param]
         /\ f.dir = DIR_WRITE /\ f.cmd = "CMD_READ_DATE"
              => \E d \in Dates : f.param = datetime_zip(d)
         /\ f \in Answer /\ f # NoFrame
<1>1. CASE f \in [dir : {DIR_READ}, cmd : Cmds, param : {<<0>>}]
  BY <1>1 DEF Param, Answer, NoFrame, DIR_READ, DIR_WRITE
<1>2. ASSUME NEW c \in Cmds, f \in [dir : {DIR_WRITE}, cmd : {c}, param : Params(c)]
      PROVE  /\ f.dir = DIR_WRITE /\ f.cmd \in Cmds /\ f.param \in Param
             /\ f = [dir |-> f.dir, cmd |-> f.cmd, param |-> f.param]
             /\ f.cmd = "CMD_READ_DATE" => \E d \in Dates : f.param = datetime_zip(d)
  BY <1>2 DEF Param, Params
<1>3. CASE \E c \in Cmds : f \in [dir : {DIR_WRITE}, cmd : {c}, param : Params(c)]
  <2>1. /\ f.dir = DIR_WRITE /\ f.cmd \in Cmds /\ f.param \in Param
        /\ f = [dir |-> f.dir, cmd |-> f.cmd, param |-> f.param]
        /\ f.cmd = "CMD_READ_DATE" => \E d \in Dates : f.param = datetime_zip(d)
    BY <1>2, <1>3
  <2> QED BY <2>1 DEF Answer, NoFrame, DIR_WRITE
<1> QED BY <1>1, <1>3 DEF Frame

(* The seconds of a date the tool writes.                                   *)
LEMMA DateSet ==
  ASSUME NEW d \in Dates
  PROVE  /\ datetime_mktime(datetime_unzip(datetime_zip(d))) \in Nat
         /\ Settable(datetime_unzip(datetime_zip(d)))
         /\ d[2] # 1 => datetime_mktime(datetime_unzip(datetime_zip(d)))
                          = Seconds(datetime_unzip(datetime_zip(d)))
<1> DEFINE e == datetime_unzip(datetime_zip(d))
<1>1. Settable(d)
  BY CommandServiceAssumption DEF Settable
<1>2. Settable(e) /\ e = <<d[1], d[2], d[3], d[4], d[5], d[6]>>
  BY <1>1, UnzipZip
<1>3. e[2] = d[2]
  BY <1>2
<1> HIDE DEF e
<1>4. d[2] # 1 => datetime_mktime(e) = Seconds(e)
  BY <1>2, <1>3, MktimeRight
<1>5. datetime_mktime(e) \in Nat
  BY <1>2, MktimeNat
<1> QED BY <1>2, <1>4, <1>5 DEF e

(* A board whose settings, clock and buffer are those of another.           *)
SameData(s, t) == t.memory = s.memory /\ t.fram = s.fram /\ t.rtc = s.rtc /\ t.answer = s.answer

(* Emit puts what is queued into a segment that reads as the buffer does.   *)
LEMMA Emitted ==
  ASSUME NEW s \in Board
  PROVE  LET t == Emit(s)
         IN  /\ t \in Board /\ SameData(s, t) /\ t.queued = s.queued /\ t.refused = s.refused
             /\ t.sent = s.queued /\ t.sent1 \in {s.sent1, s.queued}
             /\ s.sent1 = s.sent /\ s.sent = 0 => t.sent1 = t.sent
             /\ \A w \in t.wire : w \in s.wire \/ (w.to = t.queued /\ w.says = t.answer)
             /\ \A w \in s.wire : w \in t.wire
<1> DEFINE t == Emit(s)
           w == [from |-> s.sent, to |-> s.queued, says |-> s.answer]
<1>1. /\ s.memory \in [Variables -> Param] /\ s.fram \in [Settings -> Param] /\ s.rtc \in Nat
      /\ s.answer \in Answer /\ s.refused \in Nat /\ s.queued \in Nat /\ s.sent \in Nat
      /\ s.sent1 \in Nat /\ s.wire \in SUBSET Pieces
      /\ s = [memory |-> s.memory, fram |-> s.fram, rtc |-> s.rtc, answer |-> s.answer,
              refused |-> s.refused, queued |-> s.queued, sent |-> s.sent, sent1 |-> s.sent1,
              wire |-> s.wire]
  BY DEF Board, Boards
<1>2. s.sent1 <= s.sent /\ s.sent <= s.queued /\ (s.sent1 = 0 => s.sent = 0)
      /\ \A x \in s.wire : x.to <= s.queued
  BY DEF Board
<1>3. CASE s.queued = s.sent
  <2>1. t = s
    BY <1>3 DEF Emit
  <2> HIDE DEF t
  <2> QED BY <1>3, <2>1 DEF t, SameData
<1>4. CASE s.queued # s.sent
  <2> DEFINE n == IF s.sent = 0 THEN s.queued ELSE s.sent1
             y == s.wire \cup {w}
  <2>1. t = [memory |-> s.memory, fram |-> s.fram, rtc |-> s.rtc, answer |-> s.answer,
             refused |-> s.refused, queued |-> s.queued, sent |-> s.queued, sent1 |-> n,
             wire |-> y]
    BY <1>1, <1>4 DEF Emit
  <2>2. w \in Pieces /\ w.to = s.queued /\ w.says = s.answer
    BY <1>1, <1>2, <1>4 DEF Pieces
  <2>3. n \in Nat /\ n <= s.queued /\ n \in {s.sent1, s.queued}
        /\ (s.sent = 0 => n = s.queued) /\ (n = 0 => s.queued = 0)
    BY <1>1, <1>2
  <2> HIDE DEF w, n
  <2>4. y \in SUBSET Pieces /\ \A x \in y : x.to <= s.queued
    BY <1>1, <1>2, <2>2
  <2>5. \A x \in y : x \in s.wire \/ (x.to = s.queued /\ x.says = s.answer)
    BY <2>2
  <2>6. \A x \in s.wire : x \in y
    OBVIOUS
  <2> HIDE DEF t, y
  <2>7. /\ t.memory = s.memory /\ t.fram = s.fram /\ t.rtc = s.rtc /\ t.answer = s.answer
        /\ t.refused = s.refused /\ t.queued = s.queued /\ t.sent = s.queued /\ t.sent1 = n
        /\ t.wire = y
    BY <2>1
  <2>8. t \in Boards
    BY <1>1, <2>1, <2>3, <2>4 DEF Boards
  <2>9. t \in Board
    BY <1>1, <2>3, <2>4, <2>7, <2>8 DEF Board
  <2> QED BY <2>3, <2>5, <2>6, <2>7, <2>9 DEF t, SameData
<1> QED BY <1>3, <1>4

(* tcp_output emits or leaves the board as it is.                           *)
LEMMA OutputIs ==
  ASSUME NEW s
  PROVE  \/ s.sent = 0 /\ tcp_output(s) = Emit(s)
         \/ s.sent # 0 /\ tcp_output(s) = s
BY DEF tcp_output

(* An answer handed to TCP is queued or refused; queued it is the last one, *)
(* and a segment that ends with it reads as the buffer does.                *)
Handed(s, t) ==
  \/ /\ t.queued = s.queued + 1 /\ t.refused = s.refused
     /\ \A w \in t.wire : w.to = t.queued => w.says = t.answer
  \/ t.queued = s.queued /\ t.refused = s.refused + 1

(* With room for two pbufs an answer is queued; it goes out at once if      *)
(* nothing is under way.                                                    *)
LEMMA Queued ==
  ASSUME NEW s \in Board, snd_queuelen(s) + 2 <= TCP_SND_QUEUELEN
  PROVE  LET t == send_data(s)
         IN  /\ t \in Board /\ SameData(s, t)
             /\ t.queued = s.queued + 1 /\ t.refused = s.refused
             /\ \A w \in t.wire : w.to = t.queued => w.says = t.answer
             /\ s.sent # 0 => t.sent = s.sent /\ t.sent1 = s.sent1 /\ t.wire = s.wire
             /\ s.sent = 0 => t.sent = t.queued /\ (s.sent1 = s.sent => t.sent1 = t.sent)
<1> DEFINE u == [s EXCEPT !.queued = s.queued + 1]
           t == send_data(s)
<1>1. /\ s \in Boards /\ s.queued \in Nat /\ s.sent \in Nat /\ s.sent1 \in Nat
      /\ \A w \in s.wire : w.to \in Nat
      /\ s.sent1 <= s.sent /\ s.sent <= s.queued /\ (s.sent1 = 0 => s.sent = 0)
      /\ \A w \in s.wire : w.to <= s.queued
  BY DEF Board, Boards, Pieces
<1>2. /\ u \in Boards /\ u.queued = s.queued + 1 /\ u.sent = s.sent /\ u.sent1 = s.sent1
      /\ u.wire = s.wire /\ u.refused = s.refused
      /\ u.memory = s.memory /\ u.fram = s.fram /\ u.rtc = s.rtc /\ u.answer = s.answer
  BY <1>1 DEF Boards
<1>3. t = tcp_output(u)
  BY DEF send_data
<1> HIDE DEF u, t
<1>4. u \in Board /\ \A w \in u.wire : w.to # u.queued
  BY <1>1, <1>2 DEF Board
<1>5. CASE s.sent # 0
  <2>1. t = u
    BY <1>2, <1>3, <1>5, OutputIs
  <2> QED BY <1>2, <1>4, <1>5, <2>1 DEF t, SameData
<1>6. CASE s.sent = 0
  <2>1. t = Emit(u)
    BY <1>2, <1>3, <1>6, OutputIs
  <2>2. /\ t \in Board /\ SameData(u, t) /\ t.queued = u.queued /\ t.refused = u.refused
        /\ t.sent = u.queued /\ (u.sent1 = u.sent => t.sent1 = t.sent)
        /\ \A w \in t.wire : w \in u.wire \/ (w.to = t.queued /\ w.says = t.answer)
    BY <1>2, <1>4, <1>6, <2>1, Emitted
  <2> QED BY <1>2, <1>4, <1>6, <2>2 DEF t, SameData
<1> QED BY <1>5, <1>6

(* send_data leaves a board one, and changes neither settings nor buffer.   *)
LEMMA SendIs ==
  ASSUME NEW s \in Board
  PROVE  send_data(s) \in Board /\ SameData(s, send_data(s)) /\ Handed(s, send_data(s))
<1> DEFINE t == send_data(s)
           u == Emit(s)
<1>1. CASE snd_queuelen(s) + 2 <= TCP_SND_QUEUELEN
  BY <1>1, Queued DEF Handed
<1>2. CASE ~ (snd_queuelen(s) + 2 <= TCP_SND_QUEUELEN)
  <2>1. t = [u EXCEPT !.refused = s.refused + 1]
    BY <1>2 DEF send_data
  <2>2. u \in Board /\ SameData(s, u) /\ u.queued = s.queued
    BY Emitted
  <2>3. s.refused + 1 \in Nat
    BY DEF Board, Boards
  <2> HIDE DEF u
  <2>4. u \in Boards /\ u.sent1 <= u.sent /\ u.sent <= u.queued /\ (u.sent1 = 0 => u.sent = 0)
        /\ \A w \in u.wire : w.to <= u.queued
    BY <2>2 DEF Board
  <2>5. /\ t \in Boards /\ t.refused = s.refused + 1 /\ t.queued = u.queued /\ t.sent = u.sent
        /\ t.sent1 = u.sent1 /\ t.wire = u.wire /\ SameData(u, t)
    BY <2>1, <2>3, <2>4 DEF Boards, SameData
  <2> HIDE DEF t
  <2>6. t \in Board
    BY <2>4, <2>5 DEF Board
  <2> QED BY <2>2, <2>5, <2>6 DEF t, SameData, Handed
<1> QED BY <1>1, <1>2

(* What a frame does to the board: t is the board after it.                 *)
Effect(s, f, t) ==
  /\ ~ Registered(f.cmd) => t = s
  /\ Registered(f.cmd) => t.answer.cmd = f.cmd /\ Handed(s, t)
  /\ t.rtc = IF f.cmd = "CMD_READ_DATE" /\ f.dir = DIR_WRITE
               THEN datetime_mktime(datetime_unzip(f.param)) ELSE s.rtc
  /\ f.cmd \in Settings /\ f.dir = DIR_READ => t.answer.param = t.memory[VarOf[f.cmd]]
  /\ \A c \in Settings :
       /\ t.memory[VarOf[c]] =
            IF c = f.cmd /\ f.dir = DIR_WRITE THEN f.param ELSE s.memory[VarOf[c]]
       /\ t.fram[c] = IF c = f.cmd /\ f.dir = DIR_WRITE THEN f.param ELSE s.fram[c]

(* The handler of a frame: the board before its answer is handed to TCP.    *)
Handler(s, f) == IF f.cmd \in Settings THEN Var_Auto_Update_Service(s, f) ELSE test_cmd_parse(s, f)

(* What a handler does.                                                     *)
HandlerEffect(s, f, t) ==
  /\ t.answer.cmd = f.cmd
  /\ t.queued = s.queued /\ t.refused = s.refused /\ t.sent = s.sent /\ t.sent1 = s.sent1
  /\ t.wire = s.wire
  /\ t.rtc = IF f.cmd = "CMD_READ_DATE" /\ f.dir = DIR_WRITE
               THEN datetime_mktime(datetime_unzip(f.param)) ELSE s.rtc
  /\ f.cmd \in Settings /\ f.dir = DIR_READ => t.answer.param = t.memory[VarOf[f.cmd]]
  /\ \A c \in Settings :
       /\ t.memory[VarOf[c]] =
            IF c = f.cmd /\ f.dir = DIR_WRITE THEN f.param ELSE s.memory[VarOf[c]]
       /\ t.fram[c] = IF c = f.cmd /\ f.dir = DIR_WRITE THEN f.param ELSE s.fram[c]

(* A board with other settings, clock and buffer is one.                    *)
LEMMA Changed ==
  ASSUME NEW s \in Board, NEW m \in [Variables -> Param], NEW r \in [Settings -> Param],
         NEW c \in Nat, NEW a \in Answer, NEW t,
         t = [memory |-> m, fram |-> r, rtc |-> c, answer |-> a, refused |-> s.refused,
              queued |-> s.queued, sent |-> s.sent, sent1 |-> s.sent1, wire |-> s.wire]
  PROVE  /\ t \in Board /\ t.memory = m /\ t.fram = r /\ t.rtc = c /\ t.answer = a
         /\ t.queued = s.queued /\ t.refused = s.refused /\ t.sent = s.sent /\ t.sent1 = s.sent1
         /\ t.wire = s.wire
<1>1. s \in Boards
  BY DEF Board
<1>2. /\ t \in Boards /\ t.memory = m /\ t.fram = r /\ t.rtc = c /\ t.answer = a
      /\ t.queued = s.queued /\ t.refused = s.refused /\ t.sent = s.sent /\ t.sent1 = s.sent1
      /\ t.wire = s.wire
  BY <1>1 DEF Boards
<1> QED BY <1>2 DEF Board

(* The handler of a known command has its effect.                           *)
LEMMA Handled ==
  ASSUME NEW s \in Board, NEW f \in Frame, Registered(f.cmd)
  PROVE  Handler(s, f) \in Board /\ HandlerEffect(s, f, Handler(s, f))
<1> DEFINE t == Handler(s, f)
           With(m, r, c, a) ==
             [memory |-> m, fram |-> r, rtc |-> c, answer |-> a, refused |-> s.refused,
              queued |-> s.queued, sent |-> s.sent, sent1 |-> s.sent1, wire |-> s.wire]
<1>0. /\ f.dir \in {DIR_READ, DIR_WRITE} /\ f.cmd \in Cmds /\ f.param \in Param
      /\ f = [dir |-> f.dir, cmd |-> f.cmd, param |-> f.param] /\ f \in Answer
      /\ f.dir = DIR_WRITE /\ f.cmd = "CMD_READ_DATE" => \E d \in Dates : f.param = datetime_zip(d)
  BY FrameFields
<1>1. DIR_READ # DIR_WRITE /\ "CMD_READ_DATE" \notin Settings
  BY SettingsAre DEF DIR_READ, DIR_WRITE
<1>2. /\ s.memory \in [Variables -> Param] /\ s.fram \in [Settings -> Param] /\ s.rtc \in Nat
      /\ s \in Boards
  BY DEF Board, Boards
<1>4. CASE f.cmd \in Settings /\ f.dir = DIR_READ
  <2> DEFINE a == [dir |-> f.dir, cmd |-> f.cmd, param |-> s.memory[VarOf[f.cmd]]]
  <2>1. VarOf[f.cmd] \in Variables
    BY <1>4, SettingsAre
  <2>2. a \in Answer /\ a = [f EXCEPT !.param = s.memory[VarOf[f.cmd]]]
    BY <1>0, <1>2, <2>1 DEF Answer, DIR_READ, DIR_WRITE
  <2>3. t = [s EXCEPT !.answer = a]
    BY <1>4, <2>2 DEF Handler, Var_Auto_Update_Service
  <2>4. a.cmd = f.cmd /\ a.param = s.memory[VarOf[f.cmd]]
    OBVIOUS
  <2> HIDE DEF a, t
  <2>5. t = With(s.memory, s.fram, s.rtc, a)
    BY <1>2, <2>3 DEF Boards
  <2>6. /\ t \in Board /\ t.memory = s.memory /\ t.fram = s.fram /\ t.rtc = s.rtc /\ t.answer = a
        /\ t.queued = s.queued /\ t.refused = s.refused /\ t.sent = s.sent /\ t.sent1 = s.sent1
        /\ t.wire = s.wire
    BY <1>2, <2>2, <2>5, Changed
  <2> QED BY <1>1, <1>4, <2>4, <2>6 DEF t, HandlerEffect
<1>5. CASE f.cmd \in Settings /\ f.dir = DIR_WRITE
  <2> DEFINE m == [s.memory EXCEPT ![VarOf[f.cmd]] = f.param]
             r == [s.fram EXCEPT ![f.cmd] = f.param]
  <2>1. VarOf[f.cmd] \in Variables
    BY <1>5, SettingsAre
  <2>2. m \in [Variables -> Param] /\ r \in [Settings -> Param]
    BY <1>0, <1>2, <2>1
  <2>3. t = [s EXCEPT !.answer = f, !.memory = m, !.fram = r]
    BY <1>1, <1>5 DEF Handler, Var_Auto_Update_Service
  <2>4. \A c \in Settings : /\ m[VarOf[c]] = IF c = f.cmd THEN f.param ELSE s.memory[VarOf[c]]
                            /\ r[c] = IF c = f.cmd THEN f.param ELSE s.fram[c]
    BY <1>2, <1>5, <2>1, SettingsAre
  <2> HIDE DEF m, r, t
  <2>5. t = With(m, r, s.rtc, f)
    BY <1>2, <2>3 DEF Boards
  <2>6. /\ t \in Board /\ t.memory = m /\ t.fram = r /\ t.rtc = s.rtc /\ t.answer = f
        /\ t.queued = s.queued /\ t.refused = s.refused /\ t.sent = s.sent /\ t.sent1 = s.sent1
        /\ t.wire = s.wire
    BY <1>0, <1>2, <2>2, <2>5, Changed
  <2> QED BY <1>1, <1>5, <2>4, <2>6 DEF t, HandlerEffect
<1>6. CASE f.cmd = "CMD_READ_DATE" /\ f.dir = DIR_READ
  <2> DEFINE a == [dir |-> f.dir, cmd |-> f.cmd,
                   param |-> datetime_zip(datetime_convert(s.rtc))]
  <2>1. a \in Answer /\ a = [f EXCEPT !.param = datetime_zip(datetime_convert(s.rtc))]
    <3>1. datetime_zip(datetime_convert(s.rtc)) \in Param
      BY <1>2 DEF Param
    <3> QED BY <1>0, <3>1 DEF Answer, DIR_READ, DIR_WRITE
  <2>2. t = [s EXCEPT !.answer = a]
    BY <1>1, <1>6, <2>1 DEF Handler, test_cmd_parse
  <2>4. a.cmd = f.cmd
    OBVIOUS
  <2> HIDE DEF a, t
  <2>5. t = With(s.memory, s.fram, s.rtc, a)
    BY <1>2, <2>2 DEF Boards
  <2>6. /\ t \in Board /\ t.memory = s.memory /\ t.fram = s.fram /\ t.rtc = s.rtc /\ t.answer = a
        /\ t.queued = s.queued /\ t.refused = s.refused /\ t.sent = s.sent /\ t.sent1 = s.sent1
        /\ t.wire = s.wire
    BY <1>2, <2>1, <2>5, Changed
  <2> QED BY <1>1, <1>6, <2>4, <2>6 DEF t, HandlerEffect
<1>7. CASE f.cmd = "CMD_READ_DATE" /\ f.dir = DIR_WRITE
  <2> DEFINE r == datetime_mktime(datetime_unzip(f.param))
  <2>1. r \in Nat
    BY <1>0, <1>7, DateSet
  <2>2. t = [s EXCEPT !.answer = f, !.rtc = r]
    BY <1>1, <1>7 DEF Handler, test_cmd_parse
  <2> HIDE DEF r, t
  <2>5. t = With(s.memory, s.fram, r, f)
    BY <1>2, <2>2 DEF Boards
  <2>6. /\ t \in Board /\ t.memory = s.memory /\ t.fram = s.fram /\ t.rtc = r /\ t.answer = f
        /\ t.queued = s.queued /\ t.refused = s.refused /\ t.sent = s.sent /\ t.sent1 = s.sent1
        /\ t.wire = s.wire
    BY <1>0, <1>2, <2>1, <2>5, Changed
  <2> QED BY <1>1, <1>7, <2>6 DEF t, r, HandlerEffect
<1> QED BY <1>0, <1>4, <1>5, <1>6, <1>7 DEF Registered

(* Cmd_Service has the effect of a frame, and leaves the board one.         *)
LEMMA Served ==
  ASSUME NEW s \in Board, NEW f \in Frame
  PROVE  Cmd_Service(s, f) \in Board /\ Effect(s, f, Cmd_Service(s, f))
<1> DEFINE t == Cmd_Service(s, f)
           u == Handler(s, f)
<1>1. DIR_READ # DIR_WRITE /\ "CMD_READ_DATE" \notin Settings
  BY SettingsAre DEF DIR_READ, DIR_WRITE
<1>2. CASE ~ Registered(f.cmd)
  <2>1. t = s /\ f.cmd \notin Settings /\ f.cmd # "CMD_READ_DATE"
    BY <1>2 DEF Cmd_Service, Registered
  <2> HIDE DEF t
  <2> QED BY <1>1, <1>2, <2>1 DEF t, Effect
<1>3. CASE Registered(f.cmd)
  <2>1. t = send_data(u)
    BY <1>3 DEF Cmd_Service, Handler
  <2>2. u \in Board /\ HandlerEffect(s, f, u)
    BY <1>3, Handled
  <2> HIDE DEF t, u
  <2>3. t \in Board /\ SameData(u, t) /\ Handed(u, t)
    BY <2>1, <2>2, SendIs
  <2>4. u.queued = s.queued /\ u.refused = s.refused
    BY <2>2 DEF HandlerEffect
  <2>5. Handed(s, t)
    BY <2>3, <2>4 DEF Handed
  <2> QED BY <1>3, <2>2, <2>3, <2>5 DEF t, Effect, HandlerEffect, SameData
<1> QED BY <1>2, <1>3

(* A write changes what was written last to its setting, and an answer what *)
(* the tool shows of it.                                                    *)
LEMMA WroteType ==
  ASSUME NEW e \in [Settings -> Param], NEW f \in Frame
  PROVE  /\ Wrote(e, f) \in [Settings -> Param]
         /\ \A c \in Settings : Wrote(e, f)[c] = IF c = f.cmd /\ f.dir = DIR_WRITE THEN f.param ELSE e[c]
BY FrameFields DEF Wrote

(* DealData shows the parameter of an answer, and nothing else.             *)
LEMMA DealType ==
  ASSUME NEW sh \in [Settings -> Param], NEW f \in Answer
  PROVE  /\ DealData(sh, f) \in [Settings -> Param]
         /\ \A c \in Settings : DealData(sh, f)[c] = IF c = f.cmd THEN f.param ELSE sh[c]
BY DEF DealData, Answer

(* The board while the frames of a segment are taken one after the other:   *)
(* h[k] is what it is after the first k.                                    *)
Serving(h, b, q) ==
  /\ h \in [0 .. Len(q) -> Board]
  /\ h[0] = b
  /\ \A k \in 1 .. Len(q) : h[k] = Cmd_Service(h[k - 1], q[k])
  /\ h[Len(q)] = ParseDebugCommMsg(b, q)

(* There is such a sequence of boards.                                      *)
LEMMA ServingExists ==
  ASSUME NEW b \in Board, NEW q \in Seq(Frame)
  PROVE  \E h : Serving(h, b, q)
<1> DEFINE n == Len(q)
           F == [k \in 1 .. n |-> [v \in Board |-> Cmd_Service(v, q[k])]]
           Iter(it) == it = [s \in SUBSET (1 .. n) |->
                               IF s = {} THEN b
                               ELSE LET x == Max(s) IN Cmd_Service(it[s \ {x}], q[x])]
           it == CHOOSE it : Iter(it)
           h == [k \in 0 .. n |-> it[1 .. k]]
<1>1. n \in Nat /\ DOMAIN q = 1 .. n /\ \A k \in 1 .. n : q[k] \in Frame
  OBVIOUS
<1>2. \A v \in Board, x \in Frame : Cmd_Service(v, x) \in Board
  BY Served
<1>3. F \in [1 .. n -> [Board -> Board]]
  BY <1>1, <1>2
<1>4. ParseDebugCommMsg(b, q) = it[1 .. n]
  BY <1>1 DEF ParseDebugCommMsg, FoldLeft, MapThenFoldSet
<1> HIDE DEF n
<1>5. \E g : Iter(g)
  <2> HIDE DEF F
  <2>0. PICK g : FoldOf(g, n, Board, b, F)
    BY <1>1, <1>3, FoldExists
  <2>1. /\ g \in [SUBSET (1 .. n) -> Board]
        /\ \A s \in SUBSET (1 .. n) :
             g[s] = IF s = {} THEN b ELSE F[Max(s)][g[s \ {Max(s)}]]
    BY <2>0 DEF FoldOf
  <2>2. ASSUME NEW s \in SUBSET (1 .. n), s # {}
        PROVE  g[s] = Cmd_Service(g[s \ {Max(s)}], q[Max(s)])
    <3>1. Max(s) \in 1 .. n /\ s \ {Max(s)} \in SUBSET (1 .. n)
      BY <1>1, <2>2, Greatest
    <3>2. g[s \ {Max(s)}] \in Board
      BY <2>1, <3>1
    <3>3. F[Max(s)][g[s \ {Max(s)}]] = Cmd_Service(g[s \ {Max(s)}], q[Max(s)])
      BY <3>1, <3>2 DEF F
    <3> QED BY <2>1, <2>2, <3>3
  <2>3. g[{}] = b
    BY <2>1
  <2>4. g = [s \in SUBSET (1 .. n) |-> g[s]]
    BY <2>1
  <2>5. Iter(g)
    BY <2>2, <2>3, <2>4
  <2> HIDE DEF Iter
  <2> QED BY <2>5
<1>6. Iter(it)
  <2> HIDE DEF Iter
  <2> QED BY <1>5
<1> HIDE DEF F, it
<1>7. it[1 .. 0] = b
  BY <1>6, 1 .. 0 = {}
<1>8. ASSUME NEW k \in 1 .. n PROVE it[1 .. k] = Cmd_Service(it[1 .. k - 1], q[k])
  <2>1. Max(1 .. k) = k /\ (1 .. k) \ {k} = 1 .. k - 1
    BY <1>1, MaxOfInterval
  <2>2. 1 .. k \subseteq 1 .. n /\ 1 \in 1 .. k
    BY <1>1
  <2> QED BY <1>6, <2>1, <2>2
<1> DEFINE T == {k \in 0 .. n : it[1 .. k] \in Board}
<1>9. 0 .. n \subseteq T
  <2>1. 0 \in T
    BY <1>1, <1>7
  <2>2. ASSUME NEW k \in 0 .. n - 1, k \in T PROVE k + 1 \in T
    <3>1. k + 1 \in 1 .. n /\ k + 1 - 1 = k
      BY <1>1
    <3>2. it[1 .. k + 1] = Cmd_Service(it[1 .. k], q[k + 1])
      BY <1>8, <3>1
    <3>3. it[1 .. k + 1] \in Board
      BY <1>1, <1>2, <2>2, <3>1, <3>2
    <3> QED BY <3>1, <3>3
  <2> HIDE DEF T
  <2> QED BY <1>1, <2>1, <2>2, Induct
<1>10. h \in [0 .. n -> Board]
  BY <1>9
<1>11. \A k \in 1 .. n : h[k] = Cmd_Service(h[k - 1], q[k])
  <2>1. ASSUME NEW k \in 1 .. n PROVE h[k] = Cmd_Service(h[k - 1], q[k])
    <3>1. k \in 0 .. n /\ k - 1 \in 0 .. n
      BY <1>1
    <3> QED BY <1>8, <3>1
  <2> QED BY <2>1
<1>12. h[0] = b /\ h[n] = it[1 .. n]
  BY <1>1, <1>7
<1> HIDE DEF h
<1>13. Serving(h, b, q)
  BY <1>4, <1>10, <1>11, <1>12 DEF Serving, n
<1> QED BY <1>13

(* What was written last to each setting, frame by frame.                   *)
Writing(h, b, q) ==
  /\ h \in [0 .. Len(q) -> [Settings -> Param]]
  /\ h[0] = b
  /\ \A k \in 1 .. Len(q) : h[k] = Wrote(h[k - 1], q[k])
  /\ h[Len(q)] = FoldLeft(Wrote, b, q)

(* There is such a sequence.                                                *)
LEMMA WritingExists ==
  ASSUME NEW b \in [Settings -> Param], NEW q \in Seq(Frame)
  PROVE  \E h : Writing(h, b, q)
<1> DEFINE n == Len(q)
           F == [k \in 1 .. n |-> [v \in [Settings -> Param] |-> Wrote(v, q[k])]]
           Iter(it) == it = [s \in SUBSET (1 .. n) |->
                               IF s = {} THEN b
                               ELSE LET x == Max(s) IN Wrote(it[s \ {x}], q[x])]
           it == CHOOSE it : Iter(it)
           h == [k \in 0 .. n |-> it[1 .. k]]
<1>1. n \in Nat /\ DOMAIN q = 1 .. n /\ \A k \in 1 .. n : q[k] \in Frame
  OBVIOUS
<1>2. \A v \in [Settings -> Param], x \in Frame : Wrote(v, x) \in [Settings -> Param]
  BY WroteType
<1>3. F \in [1 .. n -> [[Settings -> Param] -> [Settings -> Param]]]
  BY <1>1, <1>2
<1>4. FoldLeft(Wrote, b, q) = it[1 .. n]
  BY <1>1 DEF FoldLeft, MapThenFoldSet
<1> HIDE DEF n
<1>5. \E g : Iter(g)
  <2> HIDE DEF F
  <2>0. PICK g : FoldOf(g, n, [Settings -> Param], b, F)
    BY <1>1, <1>3, FoldExists
  <2>1. /\ g \in [SUBSET (1 .. n) -> [Settings -> Param]]
        /\ \A s \in SUBSET (1 .. n) :
             g[s] = IF s = {} THEN b ELSE F[Max(s)][g[s \ {Max(s)}]]
    BY <2>0 DEF FoldOf
  <2>2. ASSUME NEW s \in SUBSET (1 .. n), s # {}
        PROVE  g[s] = Wrote(g[s \ {Max(s)}], q[Max(s)])
    <3>1. Max(s) \in 1 .. n /\ s \ {Max(s)} \in SUBSET (1 .. n)
      BY <1>1, <2>2, Greatest
    <3>2. g[s \ {Max(s)}] \in [Settings -> Param]
      BY <2>1, <3>1
    <3>3. F[Max(s)][g[s \ {Max(s)}]] = Wrote(g[s \ {Max(s)}], q[Max(s)])
      BY <3>1, <3>2 DEF F
    <3> QED BY <2>1, <2>2, <3>3
  <2>3. g[{}] = b
    BY <2>1
  <2>4. g = [s \in SUBSET (1 .. n) |-> g[s]]
    BY <2>1
  <2>5. Iter(g)
    BY <2>2, <2>3, <2>4
  <2> HIDE DEF Iter
  <2> QED BY <2>5
<1>6. Iter(it)
  <2> HIDE DEF Iter
  <2> QED BY <1>5
<1> HIDE DEF F, it
<1>7. it[1 .. 0] = b
  BY <1>6, 1 .. 0 = {}
<1>8. ASSUME NEW k \in 1 .. n PROVE it[1 .. k] = Wrote(it[1 .. k - 1], q[k])
  <2>1. Max(1 .. k) = k /\ (1 .. k) \ {k} = 1 .. k - 1
    BY <1>1, MaxOfInterval
  <2>2. 1 .. k \subseteq 1 .. n /\ 1 \in 1 .. k
    BY <1>1
  <2> QED BY <1>6, <2>1, <2>2
<1> DEFINE T == {k \in 0 .. n : it[1 .. k] \in [Settings -> Param]}
<1>9. 0 .. n \subseteq T
  <2>1. 0 \in T
    BY <1>1, <1>7
  <2>2. ASSUME NEW k \in 0 .. n - 1, k \in T PROVE k + 1 \in T
    <3>1. k + 1 \in 1 .. n /\ k + 1 - 1 = k
      BY <1>1
    <3>2. it[1 .. k + 1] = Wrote(it[1 .. k], q[k + 1])
      BY <1>8, <3>1
    <3>3. it[1 .. k + 1] \in [Settings -> Param]
      BY <1>1, <1>2, <2>2, <3>1, <3>2
    <3> QED BY <3>1, <3>3
  <2> HIDE DEF T
  <2> QED BY <1>1, <2>1, <2>2, Induct
<1>10. h \in [0 .. n -> [Settings -> Param]]
  BY <1>9
<1>11. \A k \in 1 .. n : h[k] = Wrote(h[k - 1], q[k])
  <2>1. ASSUME NEW k \in 1 .. n PROVE h[k] = Wrote(h[k - 1], q[k])
    <3>1. k \in 0 .. n /\ k - 1 \in 0 .. n
      BY <1>1
    <3> QED BY <1>8, <3>1
  <2> QED BY <2>1
<1>12. h[0] = b /\ h[n] = it[1 .. n]
  BY <1>1, <1>7
<1> HIDE DEF h
<1>13. Writing(h, b, q)
  BY <1>4, <1>10, <1>11, <1>12 DEF Writing, n
<1> QED BY <1>13

(* The requests to be answered among the first k.                           *)
AwaitedOf(q, k) == {j \in 1 .. k : Registered(q[j].cmd)}

Counted(q, k) == Cardinality(AwaitedOf(q, k))

(* One more request is one more to be answered, if its command is known.    *)
LEMMA CountStep ==
  ASSUME NEW q, NEW k \in Nat
  PROVE  /\ IsFiniteSet(AwaitedOf(q, k)) /\ Counted(q, k) \in Nat
         /\ Counted(q, 0) = 0
         /\ Counted(q, k + 1) = Counted(q, k) + IF Registered(q[k + 1].cmd) THEN 1 ELSE 0
<1>1. IsFiniteSet(AwaitedOf(q, k)) /\ Counted(q, k) \in Nat
  <2>1. IsFiniteSet(1 .. k)
    BY IntervalSize
  <2>2. AwaitedOf(q, k) \subseteq 1 .. k
    BY DEF AwaitedOf
  <2>3. IsFiniteSet(AwaitedOf(q, k))
    BY <2>1, <2>2, FS_Subset
  <2> QED BY <2>3, FS_CardinalityType DEF Counted
<1>2. Counted(q, 0) = 0
  <2>1. AwaitedOf(q, 0) = {}
    BY DEF AwaitedOf
  <2> QED BY <2>1, FS_EmptySet DEF Counted
<1>3. CASE Registered(q[k + 1].cmd)
  <2>1. AwaitedOf(q, k + 1) = AwaitedOf(q, k) \cup {k + 1} /\ k + 1 \notin AwaitedOf(q, k)
    BY <1>3 DEF AwaitedOf
  <2> QED BY <1>1, <1>2, <1>3, <2>1, FS_AddElement DEF Counted
<1>4. CASE ~ Registered(q[k + 1].cmd)
  <2>1. AwaitedOf(q, k + 1) = AwaitedOf(q, k)
    BY <1>4 DEF AwaitedOf
  <2> QED BY <1>1, <1>2, <1>4, <2>1 DEF Counted
<1> QED BY <1>1, <1>2, <1>3, <1>4

(* The awaited requests are those counted to the end.                       *)
LEMMA CountAll ==
  ASSUME NEW A, NEW q \in Seq(A)
  PROVE  Cardinality(Awaited(q)) = Counted(q, Len(q)) /\ Counted(q, Len(q)) \in Nat
<1>1. Awaited(q) = AwaitedOf(q, Len(q))
  BY DEF Awaited, AwaitedOf
<1> QED BY <1>1, CountStep, Len(q) \in Nat DEF Counted

(* One request more; and the requests up to one and those after it.         *)
LEMMA CountAppend ==
  ASSUME NEW q \in Seq(Frame), NEW f \in Frame
  PROVE  Cardinality(Awaited(Append(q, f)))
           = Cardinality(Awaited(q)) + IF Registered(f.cmd) THEN 1 ELSE 0
<1> DEFINE n == Len(q)
           p == Append(q, f)
<1>1. p \in Seq(Frame) /\ Len(p) = n + 1 /\ n \in Nat /\ p[n + 1] = f
  OBVIOUS
<1>2. \A j \in 1 .. n : p[j] = q[j]
  OBVIOUS
<1>3. AwaitedOf(p, n) = AwaitedOf(q, n)
  BY <1>2 DEF AwaitedOf
<1> HIDE DEF n, p
<1>4. Cardinality(Awaited(p)) = Counted(p, n + 1)
  BY <1>1, CountAll
<1>5. Cardinality(Awaited(q)) = Counted(q, n)
  BY CountAll DEF n
<1>6. Counted(p, n + 1) = Counted(p, n) + IF Registered(f.cmd) THEN 1 ELSE 0
  BY <1>1, CountStep
<1>7. Counted(p, n) = Counted(q, n)
  BY <1>3 DEF Counted
<1> QED BY <1>4, <1>5, <1>6, <1>7 DEF p

(* The awaited requests of a queue and of its two parts.                    *)
LEMMA CountSplit ==
  ASSUME NEW q \in Seq(Frame), NEW n \in 0 .. Len(q)
  PROVE  Cardinality(Awaited(q)) = Cardinality(Awaited(SubSeq(q, 1, n)))
                                     + Cardinality(Awaited(SubSeq(q, n + 1, Len(q))))
<1> DEFINE m == Len(q)
           a == SubSeq(q, 1, n)
           b == SubSeq(q, n + 1, m)
<1>1. n \in Nat /\ m \in Nat /\ n <= m /\ m - n \in Nat
  OBVIOUS
<1>2. a \in Seq(Frame) /\ Len(a) = n /\ \A j \in 1 .. n : a[j] = q[j]
  OBVIOUS
<1>3. b \in Seq(Frame) /\ Len(b) = m - n /\ \A j \in 1 .. m - n : b[j] = q[n + j]
  BY <1>1
<1> HIDE DEF m, a, b
<1> DEFINE T == {k \in 0 .. m - n : Counted(q, n + k) = Counted(q, n) + Counted(b, k)}
<1>4. 0 \in T
  <2>1. Counted(b, 0) = 0 /\ Counted(q, n) \in Nat /\ n + 0 = n
    BY <1>1, CountStep
  <2> QED BY <1>1, <2>1
<1>5. ASSUME NEW k \in 0 .. m - n - 1, k \in T PROVE k + 1 \in T
  <2>1. k \in Nat /\ n + k \in Nat /\ k + 1 \in 1 .. m - n /\ k + 1 \in 0 .. m - n
        /\ n + (k + 1) = (n + k) + 1
    BY <1>1
  <2>2. Counted(q, (n + k) + 1) = Counted(q, n + k) + IF Registered(q[(n + k) + 1].cmd) THEN 1 ELSE 0
    BY <2>1, CountStep
  <2>3. Counted(b, k + 1) = Counted(b, k) + IF Registered(b[k + 1].cmd) THEN 1 ELSE 0
    BY <2>1, CountStep
  <2>4. b[k + 1] = q[(n + k) + 1]
    BY <1>3, <2>1
  <2>5. Counted(q, n + k) = Counted(q, n) + Counted(b, k)
    BY <1>5
  <2>6. Counted(q, n) \in Nat /\ Counted(b, k) \in Nat
    BY <1>1, <2>1, CountStep
  <2>7. Counted(q, n + (k + 1)) = Counted(q, n) + Counted(b, k + 1)
    BY <2>1, <2>2, <2>3, <2>4, <2>5, <2>6
  <2> QED BY <2>1, <2>7
<1> HIDE DEF T
<1>6. 0 .. m - n \subseteq T
  BY <1>1, <1>4, <1>5, Induct
<1>7. Counted(q, m) = Counted(q, n) + Counted(b, m - n)
  <2>1. m - n \in T
    BY <1>1, <1>6
  <2>2. n + (m - n) = m
    BY <1>1
  <2> QED BY <2>1, <2>2 DEF T
<1>8. Counted(a, n) = Counted(q, n)
  <2>1. AwaitedOf(a, n) = AwaitedOf(q, n)
    BY <1>2 DEF AwaitedOf
  <2> QED BY <2>1 DEF Counted
<1>9. Cardinality(Awaited(q)) = Counted(q, m)
  BY CountAll DEF m
<1>10. Cardinality(Awaited(a)) = Counted(a, n)
  BY <1>2, CountAll
<1>11. Cardinality(Awaited(b)) = Counted(b, m - n)
  BY <1>3, CountAll
<1> QED BY <1>7, <1>8, <1>9, <1>10, <1>11 DEF a, b, m

-----------------------------------------------------------------------------
(* Not more requests are to be answered among the first than among all.     *)
LEMMA CountBelow ==
  ASSUME NEW q, NEW n \in Nat, NEW k \in 0 .. n
  PROVE  Counted(q, k) <= Counted(q, n) /\ Counted(q, k) \in Nat /\ Counted(q, n) \in Nat
<1>1. AwaitedOf(q, k) \subseteq AwaitedOf(q, n)
  BY DEF AwaitedOf
<1>2. IsFiniteSet(AwaitedOf(q, n)) /\ Counted(q, k) \in Nat /\ Counted(q, n) \in Nat
  BY CountStep
<1> QED BY <1>1, <1>2, FS_Subset DEF Counted

(* The parts of a part of a queue.                                          *)
LEMMA PartOfPart ==
  ASSUME NEW A, NEW q \in Seq(A), NEW n \in 0 .. Len(q), NEW k \in 0 .. n
  PROVE  /\ SubSeq(SubSeq(q, 1, n), 1, k) = SubSeq(q, 1, k)
         /\ SubSeq(SubSeq(q, 1, n), k + 1, n) = SubSeq(q, k + 1, n)
<1> DEFINE p == SubSeq(q, 1, n)
<1>1. n \in Nat /\ k \in Nat /\ k <= n /\ n <= Len(q) /\ Len(q) \in Nat
  OBVIOUS
<1>2. p \in Seq(A) /\ Len(p) = n /\ \A j \in 1 .. n : p[j] = q[j]
  BY <1>1
<1> HIDE DEF p
<1>3. SubSeq(p, 1, k) = SubSeq(q, 1, k)
  <2>1. SubSeq(p, 1, k) = [j \in 1 .. k |-> p[j]] /\ SubSeq(q, 1, k) = [j \in 1 .. k |-> q[j]]
    BY <1>1, <1>2
  <2>2. \A j \in 1 .. k : p[j] = q[j]
    BY <1>1, <1>2
  <2> QED BY <2>1, <2>2
<1>4. SubSeq(p, k + 1, n) = SubSeq(q, k + 1, n)
  <2>1. /\ SubSeq(p, k + 1, n) \in Seq(A) /\ Len(SubSeq(p, k + 1, n)) = n - k
        /\ \A j \in 1 .. n - k : SubSeq(p, k + 1, n)[j] = p[k + j]
    BY <1>1, <1>2
  <2>2. /\ SubSeq(q, k + 1, n) \in Seq(A) /\ Len(SubSeq(q, k + 1, n)) = n - k
        /\ \A j \in 1 .. n - k : SubSeq(q, k + 1, n)[j] = q[k + j]
    BY <1>1
  <2>3. \A j \in 1 .. n - k : p[k + j] = q[k + j]
    BY <1>1, <1>2
  <2> DEFINE x == SubSeq(p, k + 1, n)
             y == SubSeq(q, k + 1, n)
  <2>4. x \in Seq(A) /\ y \in Seq(A) /\ Len(x) = n - k /\ Len(y) = n - k
        /\ \A j \in 1 .. n - k : x[j] = y[j]
    BY <2>1, <2>2, <2>3
  <2> HIDE DEF x, y
  <2>5. x = y
    BY <2>4
  <2> QED BY <2>5 DEF x, y
<1> QED BY <1>3, <1>4 DEF p

(* An answer more is queued or refused.                                     *)
LEMMA OneMore ==
  ASSUME NEW a \in Nat, NEW b \in Nat, NEW c, NEW d,
         (c = a + 1 /\ d = b) \/ (c = a /\ d = b + 1)
  PROVE  c + d = (a + b) + 1 /\ a <= c
OBVIOUS

-----------------------------------------------------------------------------
(* The frames of a segment: an answer is queued or refused for every frame  *)
(* of a known command.                                                      *)
LEMMA SegmentAnswers ==
  ASSUME NEW s \in Board, NEW q \in Seq(Frame)
  PROVE  LET t == ParseDebugCommMsg(s, q)
         IN  /\ t \in Board
             /\ t.queued + t.refused = s.queued + s.refused + Cardinality(Awaited(q))
             /\ s.queued <= t.queued
             /\ q = <<>> => t = s
<1> DEFINE n == Len(q)
           t == ParseDebugCommMsg(s, q)
<1>1. n \in Nat /\ \A k \in 1 .. n : q[k] \in Frame
  OBVIOUS
<1>2. q = <<>> => n = 0
  OBVIOUS
<1>3. PICK h : Serving(h, s, q)
  BY ServingExists
<1>4. /\ h \in [0 .. n -> Board] /\ h[0] = s /\ h[n] = t
      /\ \A k \in 1 .. n : h[k] = Cmd_Service(h[k - 1], q[k])
  BY <1>3 DEF Serving
<1>0. \A b \in Board : b.queued \in Nat /\ b.refused \in Nat
  BY DEF Board, Boards
<1> HIDE DEF n, t
<1> DEFINE T == {k \in 0 .. n :
                   /\ h[k].queued + h[k].refused = s.queued + s.refused + Counted(q, k)
                   /\ s.queued <= h[k].queued}
<1>5. 0 \in T
  BY <1>0, <1>1, <1>4, CountStep
<1>6. ASSUME NEW k \in 0 .. n - 1, k \in T PROVE k + 1 \in T
  <2>1. k \in Nat /\ k + 1 \in 1 .. n /\ k + 1 - 1 = k /\ k + 1 \in 0 .. n /\ k \in 0 .. n
    BY <1>1
  <2>2. h[k + 1] = Cmd_Service(h[k], q[k + 1]) /\ h[k] \in Board /\ q[k + 1] \in Frame
        /\ h[k + 1] \in Board
    BY <1>1, <1>4, <2>1
  <2>3. /\ Counted(q, k + 1) = Counted(q, k) + IF Registered(q[k + 1].cmd) THEN 1 ELSE 0
        /\ Counted(q, k) \in Nat
    BY <2>1, CountStep
  <2>4. h[k].queued + h[k].refused = s.queued + s.refused + Counted(q, k)
        /\ s.queued <= h[k].queued
    BY <1>6
  <2>5. Effect(h[k], q[k + 1], h[k + 1])
    BY <2>2, Served
  <2>7. /\ ~ Registered(q[k + 1].cmd) => h[k + 1] = h[k]
        /\ Registered(q[k + 1].cmd) => Handed(h[k], h[k + 1])
    BY <2>5 DEF Effect
  <2>8. /\ h[k].queued \in Nat /\ h[k].refused \in Nat /\ s.queued \in Nat /\ s.refused \in Nat
    BY <1>0, <2>2
  <2>6. h[k + 1].queued + h[k + 1].refused = s.queued + s.refused + Counted(q, k + 1)
        /\ s.queued <= h[k + 1].queued
    <3>1. CASE Registered(q[k + 1].cmd)
      <4>1. h[k + 1].queued + h[k + 1].refused = (h[k].queued + h[k].refused) + 1
            /\ h[k].queued <= h[k + 1].queued
        <5>1. \/ h[k + 1].queued = h[k].queued + 1 /\ h[k + 1].refused = h[k].refused
              \/ h[k + 1].queued = h[k].queued /\ h[k + 1].refused = h[k].refused + 1
          BY <2>7, <3>1 DEF Handed
        <5> QED BY <2>8, <5>1, OneMore
      <4>3. h[k + 1].queued \in Nat
        BY <1>0, <2>2
      <4>2. Counted(q, k + 1) = Counted(q, k) + 1
        BY <2>3, <3>1
      <4> HIDE DEF n
      <4>4. h[k + 1].queued + h[k + 1].refused = s.queued + s.refused + Counted(q, k + 1)
        BY <2>3, <2>4, <2>8, <4>1, <4>2
      <4>5. s.queued <= h[k + 1].queued
        BY <2>4, <2>8, <4>1, <4>3
      <4> QED BY <4>4, <4>5
    <3>2. CASE ~ Registered(q[k + 1].cmd)
      BY <2>3, <2>4, <2>7, <3>2
    <3> QED BY <3>1, <3>2
  <2> QED BY <2>1, <2>6
<1> HIDE DEF T
<1>7. n \in T
  <2>1. 0 .. n \subseteq T
    BY <1>1, <1>5, <1>6, Induct
  <2> QED BY <1>1, <2>1
<1>8. t.queued + t.refused = s.queued + s.refused + Counted(q, n) /\ s.queued <= t.queued
  BY <1>4, <1>7 DEF T
<1>9. Cardinality(Awaited(q)) = Counted(q, n)
  BY CountAll DEF n
<1>10. t \in Board /\ (q = <<>> => t = s)
  BY <1>1, <1>2, <1>4
<1> QED BY <1>8, <1>9, <1>10 DEF t

(* The answer to the last frame, when it reads a setting, is what the       *)
(* variable holds when the segment has been taken; unless answers were      *)
(* refused, it is queued last, and a segment that ends with it reads so.    *)
LEMMA SegmentLast ==
  ASSUME NEW s \in Board, NEW q \in Seq(Frame), q # <<>>,
         q[Len(q)].cmd \in Settings, q[Len(q)].dir = DIR_READ
  PROVE  LET t == ParseDebugCommMsg(s, q)
         IN  /\ t.answer.cmd = q[Len(q)].cmd /\ t.answer.param = t.memory[VarOf[q[Len(q)].cmd]]
             /\ t.refused = 0 => \A w \in t.wire : w.to = t.queued => w.says = t.answer
<1> DEFINE n == Len(q)
           t == ParseDebugCommMsg(s, q)
<1>1. n \in 1 .. n /\ n - 1 \in 0 .. n /\ q[n] \in Frame
  OBVIOUS
<1>3. PICK h : Serving(h, s, q)
  BY ServingExists
<1>4. /\ h \in [0 .. n -> Board] /\ h[n] = t
      /\ \A k \in 1 .. n : h[k] = Cmd_Service(h[k - 1], q[k])
  BY <1>3 DEF Serving
<1>5. Registered(q[n].cmd)
  BY DEF Registered
<1> HIDE DEF n, t
<1>6. t = Cmd_Service(h[n - 1], q[n]) /\ h[n - 1] \in Board
  BY <1>1, <1>4
<1>7. q[n].cmd \in Settings /\ q[n].dir = DIR_READ
  BY DEF n
<1>8. /\ t.answer.cmd = q[n].cmd /\ t.answer.param = t.memory[VarOf[q[n].cmd]]
      /\ Handed(h[n - 1], t)
  <2>1. Effect(h[n - 1], q[n], t)
    BY <1>1, <1>6, Served
  <2> QED BY <1>1, <1>5, <1>7, <2>1 DEF Effect
<1>9. t.refused = 0 => \A w \in t.wire : w.to = t.queued => w.says = t.answer
  <2>1. h[n - 1].refused \in Nat
    BY <1>6 DEF Board, Boards
  <2>2. h[n - 1].refused + 1 # 0
    BY <2>1
  <2> QED BY <1>8, <2>2 DEF Handed
<1> QED BY <1>8, <1>9 DEF t, n

(* The output that ends a segment.                                          *)
LEMMA OutputType ==
  ASSUME NEW s \in Board
  PROVE  LET t == tcp_output(s)
         IN  /\ t \in Board /\ SameData(s, t) /\ t.queued = s.queued /\ t.refused = s.refused
             /\ (\A w \in s.wire : w.to = s.queued => w.says = s.answer)
                  => \A w \in t.wire : w.to = t.queued => w.says = t.answer
<1>1. CASE tcp_output(s) = s
  BY <1>1 DEF SameData
<1>2. CASE tcp_output(s) = Emit(s)
  <2> DEFINE t == Emit(s)
  <2>1. /\ t \in Board /\ SameData(s, t) /\ t.queued = s.queued /\ t.refused = s.refused
        /\ \A w \in t.wire : w \in s.wire \/ (w.to = t.queued /\ w.says = t.answer)
    BY Emitted
  <2> HIDE DEF t
  <2>2. tcp_output(s) = t
    BY <1>2 DEF t
  <2> QED BY <2>1, <2>2 DEF SameData
<1> QED BY <1>1, <1>2, OutputIs

(* A setting that was the same in its variable, in the FRAM and in what was *)
(* written last still is after a segment.                                   *)
Kept(m, r, e, c) ==
  /\ m[VarOf[c]] = r[c]
  /\ e[c] # Unknown => r[c] = e[c]

(* A segment keeps a setting in step with what was written last.            *)
LEMMA SegmentKeeps ==
  ASSUME NEW s \in Board, NEW q \in Seq(Frame), NEW e \in [Settings -> Param],
         NEW c \in Settings, Kept(s.memory, s.fram, e, c)
  PROVE  LET t == ParseDebugCommMsg(s, q)
         IN  /\ Kept(t.memory, t.fram, FoldLeft(Wrote, e, q), c)
             /\ FoldLeft(Wrote, e, q) \in [Settings -> Param]
<1> DEFINE n == Len(q)
           t == ParseDebugCommMsg(s, q)
           w == FoldLeft(Wrote, e, q)
<1>1. n \in Nat /\ \A k \in 1 .. n : q[k] \in Frame
  OBVIOUS
<1>2. PICK h : Serving(h, s, q)
  BY ServingExists
<1>3. PICK g : Writing(g, e, q)
  BY WritingExists
<1>4. /\ h \in [0 .. n -> Board] /\ h[0] = s /\ h[n] = t
      /\ \A k \in 1 .. n : h[k] = Cmd_Service(h[k - 1], q[k])
  BY <1>2 DEF Serving
<1>5. /\ g \in [0 .. n -> [Settings -> Param]] /\ g[0] = e /\ g[n] = w
      /\ \A k \in 1 .. n : g[k] = Wrote(g[k - 1], q[k])
  BY <1>3 DEF Writing
<1> HIDE DEF n, t, w
<1> DEFINE T == {k \in 0 .. n : Kept(h[k].memory, h[k].fram, g[k], c)}
<1>6. 0 \in T
  BY <1>1, <1>4, <1>5
<1>7. ASSUME NEW k \in 0 .. n - 1, k \in T PROVE k + 1 \in T
  <2>1. k \in Nat /\ k + 1 \in 1 .. n /\ k + 1 - 1 = k /\ k + 1 \in 0 .. n /\ k \in 0 .. n
    BY <1>1
  <2> DEFINE f == q[k + 1]
             x == h[k]
             y == h[k + 1]
             u == g[k]
             v == g[k + 1]
  <2>2. y = Cmd_Service(x, f) /\ x \in Board /\ f \in Frame
    BY <1>1, <1>4, <2>1
  <2>3. v = Wrote(u, f) /\ u \in [Settings -> Param]
    BY <1>5, <2>1
  <2>4. Kept(x.memory, x.fram, u, c)
    BY <1>7
  <2> HIDE DEF f, x, y, u, v
  <2>5. /\ y.memory[VarOf[c]] = IF c = f.cmd /\ f.dir = DIR_WRITE THEN f.param ELSE x.memory[VarOf[c]]
        /\ y.fram[c] = IF c = f.cmd /\ f.dir = DIR_WRITE THEN f.param ELSE x.fram[c]
    <3>1. Effect(x, f, y)
      BY <2>2, Served
    <3> QED BY <3>1 DEF Effect
  <2>6. v[c] = IF c = f.cmd /\ f.dir = DIR_WRITE THEN f.param ELSE u[c]
    BY <2>2, <2>3, WroteType
  <2>7. Kept(y.memory, y.fram, v, c)
    BY <2>4, <2>5, <2>6 DEF Kept
  <2> QED BY <2>1, <2>7 DEF y, v
<1> HIDE DEF T
<1>8. n \in T
  <2>1. 0 .. n \subseteq T
    BY <1>1, <1>6, <1>7, Induct
  <2> QED BY <1>1, <2>1
<1>9. Kept(t.memory, t.fram, w, c) /\ w \in [Settings -> Param]
  BY <1>1, <1>4, <1>5, <1>8 DEF T
<1> QED BY <1>9 DEF t, w

(* The counter of the RTC after a segment: what the last date written says. *)
DateWritesOf(q, k) ==
  {j \in 1 .. k : q[j].cmd = "CMD_READ_DATE" /\ q[j].dir = DIR_WRITE}

(* The clock after a segment: the date written last, if there is one.       *)
LEMMA SegmentDate ==
  ASSUME NEW s \in Board, NEW q \in Seq(Frame)
  PROVE  LET t == ParseDebugCommMsg(s, q)
         IN  /\ DateWrites(q) = {} => t.rtc = s.rtc
             /\ DateWrites(q) # {} =>
                  /\ Max(DateWrites(q)) \in DateWrites(q) /\ DateWrites(q) \subseteq 1 .. Len(q)
                  /\ t.rtc = datetime_mktime(datetime_unzip(q[Max(DateWrites(q))].param))
                  /\ \E d \in Dates : q[Max(DateWrites(q))].param = datetime_zip(d)
<1> DEFINE n == Len(q)
           t == ParseDebugCommMsg(s, q)
           Set(k) == datetime_mktime(datetime_unzip(q[k].param))
           Dw(k) == DateWritesOf(q, k)
<1>1. n \in Nat /\ \A k \in 1 .. n : q[k] \in Frame
  OBVIOUS
<1>2. PICK h : Serving(h, s, q)
  BY ServingExists
<1>4. /\ h \in [0 .. n -> Board] /\ h[0] = s /\ h[n] = t
      /\ \A k \in 1 .. n : h[k] = Cmd_Service(h[k - 1], q[k])
  BY <1>2 DEF Serving
<1>5. DateWrites(q) = Dw(n)
  BY DEF DateWrites, DateWritesOf
<1> HIDE DEF n, t
<1> DEFINE T == {k \in 0 .. n : h[k].rtc = IF Dw(k) = {} THEN s.rtc ELSE Set(Max(Dw(k)))}
<1>6. 0 \in T
  <2>1. Dw(0) = {}
    BY DEF DateWritesOf
  <2> QED BY <1>1, <1>4, <2>1
<1>7. ASSUME NEW k \in 0 .. n - 1, k \in T PROVE k + 1 \in T
  <2>1. k \in Nat /\ k + 1 \in Nat /\ k + 1 \in 1 .. n /\ k + 1 - 1 = k /\ k + 1 \in 0 .. n /\ k \in 0 .. n
    BY <1>1
  <2>2. h[k + 1] = Cmd_Service(h[k], q[k + 1]) /\ h[k] \in Board /\ q[k + 1] \in Frame
    BY <1>1, <1>4, <2>1
  <2>3. h[k + 1].rtc = IF q[k + 1].cmd = "CMD_READ_DATE" /\ q[k + 1].dir = DIR_WRITE
                       THEN Set(k + 1) ELSE h[k].rtc
    <3>1. Effect(h[k], q[k + 1], h[k + 1])
      BY <2>2, Served
    <3> QED BY <3>1 DEF Effect
  <2>4. CASE q[k + 1].cmd = "CMD_READ_DATE" /\ q[k + 1].dir = DIR_WRITE
    <3>1. k + 1 \in Dw(k + 1) /\ Dw(k + 1) \in SUBSET (1 .. k + 1)
      BY <2>1, <2>4 DEF DateWritesOf
    <3> HIDE DEF Dw
    <3>2. Max(Dw(k + 1)) \in Dw(k + 1) /\ \A j \in Dw(k + 1) : j <= Max(Dw(k + 1))
      BY <2>1, <3>1, Greatest
    <3>3. Max(Dw(k + 1)) \in 1 .. k + 1 /\ k + 1 <= Max(Dw(k + 1))
      BY <3>1, <3>2
    <3>4. Max(Dw(k + 1)) = k + 1
      BY <2>1, <3>3
    <3> QED BY <2>1, <2>3, <2>4, <3>1, <3>4
  <2>5. CASE ~ (q[k + 1].cmd = "CMD_READ_DATE" /\ q[k + 1].dir = DIR_WRITE)
    <3>1. Dw(k + 1) = Dw(k)
      BY <2>1, <2>5 DEF DateWritesOf
    <3> HIDE DEF Dw
    <3>2. h[k + 1].rtc = h[k].rtc
      BY <2>3, <2>5
    <3> QED BY <1>7, <2>1, <3>1, <3>2
  <2> QED BY <2>4, <2>5
<1> HIDE DEF T
<1>8. n \in T
  <2>1. 0 .. n \subseteq T
    BY <1>1, <1>6, <1>7, Induct
  <2> QED BY <1>1, <2>1
<1>9. t.rtc = IF Dw(n) = {} THEN s.rtc ELSE Set(Max(Dw(n)))
  BY <1>4, <1>8 DEF T
<1>10. Dw(n) \in SUBSET (1 .. n)
  BY DEF DateWritesOf
<1>11. \A k \in Dw(n) : \E d \in Dates : q[k].param = datetime_zip(d)
  BY <1>1, FrameFields DEF DateWritesOf
<1> HIDE DEF Dw
<1>12. Dw(n) # {} => Max(Dw(n)) \in Dw(n)
  BY <1>1, <1>10, Greatest
<1> QED BY <1>5, <1>9, <1>10, <1>11, <1>12 DEF t, n

-----------------------------------------------------------------------------
(* The inductive invariant of the delivery: the types; what the tool has    *)
(* and what is in segments is queued; the last request is the last one on   *)
(* its way; and every request that is not lost is answered once.            *)
BoardTypes ==
  /\ memory \in [Variables -> Param] /\ fram \in [Settings -> Param]
  /\ expected \in [Settings -> Param] /\ shown \in [Settings -> Param]
  /\ rtc \in Nat /\ trueTime \in Nat /\ ticks \in 0 .. MaxTicks /\ cnt_net_restore \in 0 .. 4
  /\ m_send_buf \in Answer

QueueTypes ==
  /\ queued \in Nat /\ sent \in Nat /\ sent1 \in Nat /\ received \in Nat
  /\ received <= queued /\ sent1 <= sent /\ sent <= queued /\ (sent1 = 0 => sent = 0)
  /\ wire \in SUBSET Pieces /\ \A w \in wire : w.to <= queued
  /\ requests \in Seq(Frame) /\ Len(requests) <= MaxPending
  /\ unanswered \in Nat /\ unanswered <= MaxPending /\ missed \in BOOLEAN
  /\ last \in Frame \cup {NoFrame}

Types == BoardTypes /\ QueueTypes

Delivery ==
  /\ requests # <<>> => requests[Len(requests)] = last
  /\ last = NoFrame => requests = <<>>

DeliveryInv == Types /\ Delivery /\ OneAnswerEach

(* A setting that is stored where it is loaded from, in the FRAM and in its *)
(* variable, is what was written last to it, unless that cannot be told.    *)
(* The netmask and the gateway are loaded from each other's place.          *)
Swapped == {"CMD_NETMASK", "CMD_GATEWAY"}

Stored == \A c \in Settings \ Swapped : Kept(memory, fram, expected, c)

(* When the last request reads a setting and has been taken, the buffer     *)
(* holds its answer; the segments that end with it read like the buffer;    *)
(* and if the tool has it, it shows what the buffer says.                   *)
Answered ==
  requests = <<>> /\ ~ missed /\ last.dir = DIR_READ /\ last.cmd \in Settings =>
    /\ m_send_buf.cmd = last.cmd /\ m_send_buf.param = memory[VarOf[last.cmd]]
    /\ \A w \in wire : w.to = queued => w.says = m_send_buf
    /\ received = queued => shown[last.cmd] = m_send_buf.param

(* Before the first request the interface has the addresses of the          *)
(* variables.                                                               *)
Started == last = NoFrame => netif = LwIP_Init(memory)

(* The counter of the RTC is the true time, which is in the years a date    *)
(* may be set to, or goes on from them.                                     *)
Clock ==
  /\ rtc = trueTime
  /\ YearStart(2012) <= trueTime /\ trueTime < YearStart(2023) + ticks

-----------------------------------------------------------------------------
(* The state a start or a restart makes.                                    *)
LEMMA LoadedType ==
  ASSUME NEW m \in [Settings -> Param]
  PROVE  /\ Loaded(m) \in [Variables -> Param]
         /\ \A c \in Settings \ Swapped : Loaded(m)[VarOf[c]] = m[c]
<1>1. Loaded(m) = [v \in Variables |->
                     IF v = "int_var1" THEN m["CMD_READ_INT1"]
                     ELSE IF v = "ip" THEN m["CMD_LOCAL_IP"]
                     ELSE IF v = "netmask" THEN m["CMD_NETMASK"]
                     ELSE m["CMD_GATEWAY"]]
  BY SettingsAre DEF Loaded
<1>2. Loaded(m) \in [Variables -> Param]
  BY <1>1, SettingsAre
<1>3. VarOf["CMD_READ_INT1"] = "int_var1" /\ VarOf["CMD_LOCAL_IP"] = "ip"
  BY DEF VarOf
<1>4. \A c \in Settings \ Swapped : c = "CMD_READ_INT1" \/ c = "CMD_LOCAL_IP"
  BY SettingsAre DEF Swapped
<1>5. "int_var1" \in Variables /\ "ip" \in Variables
  BY SettingsAre
<1> QED BY <1>1, <1>2, <1>3, <1>4, <1>5

(* The defaults have their types.                                           *)
LEMMA DefaultType ==
  /\ Factory \in [Settings -> Param]
  /\ \A m \in [Settings -> Param], n \in 0 .. 3 : network_restore_def(m, n) \in [Settings -> Param]
  /\ Restored[1] \in Settings /\ Restored[2] \in Settings /\ Restored[3] \in Settings
  /\ Unknown \in Param /\ Torn \in Param /\ NoFrame \in Answer
<1>1. \A c \in DOMAIN Default : Default[c] \in Param
  BY DEF Param
<1>2. <<0>> \in Param /\ Unknown \in Param /\ Torn \in Param
  BY DEF Param
<1>3. NoFrame \in Answer
  BY <1>2 DEF Answer, NoFrame
<1>4. Restored[1] = "CMD_LOCAL_IP" /\ Restored[2] = "CMD_NETMASK" /\ Restored[3] = "CMD_GATEWAY"
  BY DEF Restored
<1>5. DOMAIN Default = {"CMD_LOCAL_IP", "CMD_NETMASK", "CMD_GATEWAY"}
  BY DEF Default
<1>6. ASSUME NEW m \in [Settings -> Param], NEW n \in 0 .. 3
      PROVE  network_restore_def(m, n) \in [Settings -> Param]
  <2> SUFFICES ASSUME NEW c \in Settings
               PROVE  (IF \E k \in 1 .. n : Restored[k] = c THEN Default[c] ELSE m[c]) \in Param
    BY DEF network_restore_def
  <2>1. CASE c \in DOMAIN Default
    BY <1>1, <2>1
  <2>2. CASE c \notin DOMAIN Default
    <3>1. \A k \in 1 .. n : k = 1 \/ k = 2 \/ k = 3
      OBVIOUS
    <3>2. ~ \E k \in 1 .. n : Restored[k] = c
      BY <1>4, <1>5, <2>2, <3>1
    <3> QED BY <3>2
  <2> QED BY <2>1, <2>2
<1> QED BY <1>1, <1>2, <1>3, <1>4, <1>5, <1>6, SettingsAre DEF Factory

(* check_rtc_exist leaves the counter or sets the default date.             *)
LEMMA RtcChecked ==
  ASSUME NEW r \in Nat
  PROVE  /\ check_rtc_exist(r) \in Nat
         /\ check_rtc_exist(r) = r
              \/ (check_rtc_exist(r) = Seconds(DefaultDate)
                  /\ ~ valid_datetime(datetime_convert(r)))
<1>1. datetime_mktime(DefaultDate) = Seconds(DefaultDate) /\ Seconds(DefaultDate) \in Nat
  BY DefaultDateRight, SecondsIn
<1> QED BY <1>1 DEF check_rtc_exist

(* An empty queue has no request to be answered.                            *)
LEMMA EmptyAwaited == Cardinality(Awaited(<<>>)) = 0
<1>1. Awaited(<<>>) = {}
  BY DEF Awaited
<1> QED BY <1>1, FS_EmptySet

(* DeliveryInv holds at first.                                              *)
LEMMA DeliveryInit == Init => DeliveryInv
<1> SUFFICES ASSUME Init PROVE DeliveryInv
  OBVIOUS
<1>1. Factory \in [Settings -> Param] /\ Loaded(Factory) \in [Variables -> Param]
      /\ Unknown \in Param /\ NoFrame \in Answer
  BY DefaultType, LoadedType
<1>2. check_rtc_exist(0) \in Nat /\ Seconds(DefaultDate) \in Nat
  BY RtcChecked, DefaultDateRight, SecondsIn
<1>3. MaxPending \in Nat /\ MaxTicks \in Nat
  BY CommandServiceAssumption
<1>4. Types
  <2>1. /\ fram = Factory /\ memory = Loaded(Factory) /\ expected = Factory
        /\ shown = [c \in Settings |-> Unknown] /\ rtc = check_rtc_exist(0)
        /\ trueTime = Seconds(DefaultDate) /\ ticks = 0 /\ cnt_net_restore = 0
        /\ m_send_buf = NoFrame
    BY DEF Init
  <2>2. /\ queued = 0 /\ sent = 0 /\ sent1 = 0 /\ wire = {} /\ received = 0
        /\ requests = <<>> /\ unanswered = 0 /\ missed = FALSE /\ last = NoFrame
    BY DEF Init
  <2>3. BoardTypes
    BY <1>1, <1>2, <1>3, <2>1 DEF BoardTypes
  <2>4. QueueTypes
    <3>1. requests \in Seq(Frame) /\ Len(requests) <= MaxPending
      BY <1>3, <2>2
    <3>2. wire \in SUBSET Pieces /\ \A w \in wire : w.to <= queued
      BY <2>2
    <3>3. /\ queued \in Nat /\ sent \in Nat /\ sent1 \in Nat /\ received \in Nat
          /\ received <= queued /\ sent1 <= sent /\ sent <= queued /\ (sent1 = 0 => sent = 0)
          /\ unanswered \in Nat /\ unanswered <= MaxPending
      BY <1>3, <2>2
    <3> QED BY <2>2, <3>1, <3>2, <3>3 DEF QueueTypes
  <2> QED BY <2>3, <2>4 DEF Types
<1>5. Delivery
  BY DEF Init, Delivery
<1>6. OneAnswerEach
  BY EmptyAwaited DEF Init, OneAnswerEach
<1> QED BY <1>4, <1>5, <1>6 DEF DeliveryInv

(* A restart, with m in the FRAM.                                           *)
LEMMA DeliveryRestart ==
  ASSUME DeliveryInv, NEW m \in [Settings -> Param], Restart(m),
         expected' \in [Settings -> Param]
  PROVE  DeliveryInv'
<1>1. Loaded(m) \in [Variables -> Param] /\ NoFrame \in Answer
  BY DefaultType, LoadedType
<1>2. rtc' \in Nat /\ trueTime' \in Nat
  <2>1. rtc' \in Nat
    BY RtcChecked DEF Restart, DeliveryInv, Types, BoardTypes
  <2>2. Seconds(DefaultDate) \in Nat
    BY DefaultDateRight, SecondsIn
  <2> QED BY <2>1, <2>2 DEF Restart, DeliveryInv, Types, BoardTypes
<1>3. MaxPending \in Nat /\ MaxTicks \in Nat
  BY CommandServiceAssumption
<1>4. Types'
  <2>1. BoardTypes'
    BY <1>1, <1>2 DEF Restart, DeliveryInv, Types, BoardTypes
  <2>2. /\ queued' = 0 /\ sent' = 0 /\ sent1' = 0 /\ wire' = {} /\ received' = 0
        /\ requests' = <<>> /\ unanswered' = 0 /\ missed' = FALSE /\ last' = NoFrame
    BY DEF Restart
  <2>3. QueueTypes'
    <3>1. requests' \in Seq(Frame) /\ Len(requests') <= MaxPending
      BY <1>3, <2>2
    <3>2. wire' \in SUBSET Pieces /\ \A w \in wire' : w.to <= queued'
      BY <2>2
    <3>3. /\ queued' \in Nat /\ sent' \in Nat /\ sent1' \in Nat /\ received' \in Nat
          /\ received' <= queued' /\ sent1' <= sent' /\ sent' <= queued' /\ (sent1' = 0 => sent' = 0)
          /\ unanswered' \in Nat /\ unanswered' <= MaxPending
      BY <1>3, <2>2
    <3> QED BY <2>2, <3>1, <3>2, <3>3 DEF QueueTypes
  <2> QED BY <2>1, <2>3 DEF Types
<1>5. Delivery'
  BY DEF Restart, Delivery
<1>6. OneAnswerEach'
  BY EmptyAwaited DEF Restart, OneAnswerEach
<1> QED BY <1>4, <1>5, <1>6 DEF DeliveryInv

(* What an acknowledgement frees: whole segments, not more than it covers.  *)
LEMMA FreedIs ==
  ASSUME Types, NEW a \in 0 .. received
  PROVE  /\ Freed(a) \in {0, sent1, sent, queued} /\ Freed(a) \in 0 .. a /\ a \in Nat
         /\ Freed(a) \in Nat /\ Freed(a) <= received /\ received \in Nat /\ queued \in Nat
BY DEF Types, QueueTypes, Freed

(* The board after an acknowledgement has its type.                         *)
LEMMA AcknowledgedType ==
  ASSUME Types, NEW a \in 0 .. received
  PROVE  LET b == Acknowledged(a)
         IN  /\ b \in Board /\ b.memory = memory /\ b.fram = fram /\ b.rtc = rtc
             /\ b.answer = m_send_buf /\ b.refused = 0 /\ b.queued = queued - Freed(a)
             /\ Freed(a) = 0 => b.sent = sent /\ b.sent1 = sent1
             /\ Freed(a) # 0 /\ Freed(a) >= sent => b.sent = 0 /\ b.sent1 = 0
             /\ \A x \in b.wire : \E w \in wire : /\ w.to > Freed(a) /\ x.says = w.says
                                                  /\ x.to = w.to - Freed(a)
<1> DEFINE k == Freed(a)
           left == IF k >= sent THEN 0 ELSE sent - k
           first == IF k = 0 THEN sent1 ELSE left
           Moved(w) == [from |-> w.from - k, to |-> w.to - k, says |-> w.says]
           y == {Moved(w) : w \in {v \in wire : v.to > k}}
           b == Acknowledged(a)
<1>1. /\ k \in {0, sent1, sent, queued} /\ k \in Nat /\ k <= received
  BY FreedIs
<1>2. /\ queued \in Nat /\ sent \in Nat /\ sent1 \in Nat /\ received \in Nat
      /\ received <= queued /\ sent1 <= sent /\ sent <= queued /\ (sent1 = 0 => sent = 0)
      /\ wire \in SUBSET Pieces /\ \A w \in wire : w.to <= queued
  BY DEF Types, QueueTypes
<1>3. b = [memory |-> memory, fram |-> fram, rtc |-> rtc, answer |-> m_send_buf, refused |-> 0,
           queued |-> queued - k, sent |-> left, sent1 |-> first, wire |-> y]
  BY DEF Acknowledged
<1> HIDE DEF k
<1>4. left \in Nat /\ first \in Nat /\ queued - k \in Nat /\ first <= left /\ left <= queued - k
      /\ (first = 0 => left = 0)
  BY <1>1, <1>2
<1>5. (k = 0 => left = sent /\ first = sent1) /\ (k # 0 /\ k >= sent => left = 0 /\ first = 0)
  BY <1>1, <1>2
<1> HIDE DEF left, first
<1>6. ASSUME NEW w \in wire, w.to > k
      PROVE  Moved(w) \in Pieces /\ Moved(w).to = w.to - k /\ Moved(w).says = w.says
             /\ Moved(w).to <= queued - k
  <2>1. w \in [from : Int, to : Nat, says : Answer] /\ w.from < w.to /\ w.to <= queued
    BY <1>2 DEF Pieces
  <2>2. w.from \in Int /\ w.to \in Nat /\ w.says \in Answer
    BY <2>1
  <2>3. w.from - k \in Int /\ w.to - k \in Nat /\ w.from - k < w.to - k /\ w.to - k <= queued - k
    BY <1>1, <1>2, <1>6, <2>1, <2>2
  <2> QED BY <2>2, <2>3 DEF Pieces
<1>7. \A x \in y : \E w \in wire : w.to > k /\ x = Moved(w)
  OBVIOUS
<1> HIDE DEF Moved, y, b
<1>8. \A x \in y : /\ x \in Pieces /\ x.to <= queued - k
                   /\ \E w \in wire : w.to > k /\ x.says = w.says /\ x.to = w.to - k
  BY <1>6, <1>7
<1>9. /\ b.memory = memory /\ b.fram = fram /\ b.rtc = rtc
      /\ b.answer = m_send_buf /\ b.refused = 0 /\ b.queued = queued - k
      /\ b.sent = left /\ b.sent1 = first /\ b.wire = y
  BY <1>3
<1>10. b \in Boards
  <2>1. /\ memory \in [Variables -> Param] /\ fram \in [Settings -> Param] /\ rtc \in Nat
        /\ m_send_buf \in Answer
    BY DEF Types, BoardTypes
  <2>2. y \in SUBSET Pieces
    BY <1>8
  <2> QED BY <1>3, <1>4, <2>1, <2>2 DEF Boards
<1>11. b \in Board
  BY <1>4, <1>8, <1>9, <1>10 DEF Board
<1> QED BY <1>5, <1>8, <1>9, <1>11 DEF b, k

(* The requests of a segment: those that fit into recv_buf, those cut off,  *)
(* and those after it.                                                      *)
Fitting(n) == IF n <= RecvFrames THEN n ELSE RecvFrames
Taken(n) == SubSeq(requests, 1, Fitting(n))
CutOff(n) == SubSeq(requests, Fitting(n) + 1, n)
Rest(n) == SubSeq(requests, n + 1, Len(requests))

(* The board after the frames of a segment, and at its end.                 *)
Parsed(n, a) == ParseDebugCommMsg(Acknowledged(a), Taken(n))
Ended(n, a) == tcp_output(Parsed(n, a))

(* The three parts make up the queue.                                       *)
LEMMA Parts ==
  ASSUME Types, NEW n \in 0 .. Len(requests)
  PROVE  /\ Fitting(n) \in 0 .. n /\ n \in Nat /\ Len(requests) \in Nat
         /\ Taken(n) \in Seq(Frame) /\ Len(Taken(n)) = Fitting(n)
         /\ \A j \in 1 .. Fitting(n) : Taken(n)[j] = requests[j]
         /\ CutOff(n) \in Seq(Frame) /\ Len(CutOff(n)) = n - Fitting(n)
         /\ \A j \in 1 .. n - Fitting(n) : CutOff(n)[j] = requests[Fitting(n) + j]
         /\ Rest(n) \in Seq(Frame) /\ Len(Rest(n)) = Len(requests) - n
         /\ \A j \in 1 .. Len(requests) - n : Rest(n)[j] = requests[n + j]
         /\ Cardinality(Awaited(requests)) = Cardinality(Awaited(Taken(n)))
              + Cardinality(Awaited(CutOff(n))) + Cardinality(Awaited(Rest(n)))
         /\ Cardinality(Awaited(Taken(n))) \in Nat /\ Cardinality(Awaited(CutOff(n))) \in Nat
         /\ Cardinality(Awaited(Rest(n))) \in Nat
<1> DEFINE k == Fitting(n)
           p == SubSeq(requests, 1, n)
<1>1. requests \in Seq(Frame) /\ Len(requests) \in Nat /\ n \in Nat /\ n <= Len(requests)
  BY DEF Types, QueueTypes
<1>2. k \in 0 .. n
  BY <1>1, CommandServiceAssumption DEF Fitting
<1>3. p \in Seq(Frame) /\ Len(p) = n
  BY <1>1
<1>4. SubSeq(p, 1, k) = Taken(n) /\ SubSeq(p, k + 1, n) = CutOff(n)
  <2> HIDE DEF k
  <2>1. SubSeq(p, 1, k) = SubSeq(requests, 1, k) /\ SubSeq(p, k + 1, n) = SubSeq(requests, k + 1, n)
    BY <1>1, <1>2, PartOfPart
  <2> QED BY <2>1 DEF k, Taken, CutOff
<1> HIDE DEF p
<1>5. /\ Taken(n) \in Seq(Frame) /\ Len(Taken(n)) = k
      /\ \A j \in 1 .. k : Taken(n)[j] = requests[j]
  <2> HIDE DEF k
  <2> QED BY <1>1, <1>2 DEF k, Taken
<1>6. /\ CutOff(n) \in Seq(Frame) /\ Len(CutOff(n)) = n - k
      /\ \A j \in 1 .. n - k : CutOff(n)[j] = requests[k + j]
  <2> DEFINE c == SubSeq(requests, k + 1, n)
  <2> HIDE DEF k
  <2>1. k \in Nat /\ k <= n
    BY <1>2
  <2>2. c \in Seq(Frame) /\ Len(c) = n - k /\ \A j \in 1 .. n - k : c[j] = requests[k + j]
    BY <1>1, <2>1
  <2> QED BY <2>2 DEF k, CutOff
<1>7. /\ Rest(n) \in Seq(Frame) /\ Len(Rest(n)) = Len(requests) - n
      /\ \A j \in 1 .. Len(requests) - n : Rest(n)[j] = requests[n + j]
  BY <1>1 DEF Rest
<1>8. Cardinality(Awaited(requests)) = Cardinality(Awaited(p)) + Cardinality(Awaited(Rest(n)))
  BY <1>1, CountSplit DEF p, Rest
<1>9. Cardinality(Awaited(p)) = Cardinality(Awaited(Taken(n))) + Cardinality(Awaited(CutOff(n)))
  <2>1. Cardinality(Awaited(p)) = Cardinality(Awaited(SubSeq(p, 1, k)))
                                    + Cardinality(Awaited(SubSeq(p, k + 1, Len(p))))
    BY <1>2, <1>3, CountSplit
  <2> QED BY <1>3, <1>4, <2>1
<1>10. /\ Cardinality(Awaited(Taken(n))) \in Nat /\ Cardinality(Awaited(CutOff(n))) \in Nat
       /\ Cardinality(Awaited(Rest(n))) \in Nat
  BY <1>5, <1>6, <1>7, CountAll
<1> QED BY <1>1, <1>2, <1>5, <1>6, <1>7, <1>8, <1>9, <1>10

(* What a segment does, in terms of the board after its frames.             *)
LEMMA SegmentIs ==
  ASSUME Types, NEW n \in 0 .. Len(requests), NEW a \in 0 .. received, Segment(n, a)
  PROVE  LET u == Parsed(n, a)
             t == Ended(n, a)
             lost == Cardinality(Awaited(CutOff(n)))
         IN  /\ u \in Board /\ t \in Board /\ SameData(u, t)
             /\ t.queued = u.queued /\ t.refused = u.refused
             /\ t.queued + t.refused = queued - Freed(a) + Cardinality(Awaited(Taken(n)))
             /\ queued - Freed(a) <= t.queued
             /\ Taken(n) = <<>> => u = Acknowledged(a)
             /\ memory' = t.memory /\ fram' = t.fram /\ rtc' = t.rtc /\ m_send_buf' = t.answer
             /\ queued' = t.queued /\ sent' = t.sent /\ sent1' = t.sent1 /\ wire' = t.wire
             /\ received' = received - Freed(a)
             /\ unanswered' = unanswered - (lost + t.refused)
             /\ missed' = IF n = 0 THEN missed ELSE lost + t.refused > 0
             /\ requests' = Rest(n) /\ (n > 0 \/ a > 0)
             /\ UNCHANGED <<netif, cnt_net_restore, shown, last>>
             /\ TimeSet(Taken(n)) /\ expected' = FoldLeft(Wrote, expected, Taken(n))
<1> DEFINE u == Parsed(n, a)
           t == Ended(n, a)
           b == Acknowledged(a)
<1>1. Taken(n) \in Seq(Frame)
  BY Parts
<1>2. b \in Board /\ b.refused = 0 /\ b.queued = queued - Freed(a)
  BY AcknowledgedType
<1>3. /\ u \in Board
      /\ u.queued + u.refused = b.queued + b.refused + Cardinality(Awaited(Taken(n)))
      /\ b.queued <= u.queued
      /\ Taken(n) = <<>> => u = b
  <2> HIDE DEF b
  <2> QED BY <1>1, <1>2, SegmentAnswers DEF b, Parsed
<1>4. /\ t \in Board /\ SameData(u, t) /\ t.queued = u.queued /\ t.refused = u.refused
  <2> HIDE DEF u
  <2> QED BY <1>3, OutputType DEF u, Ended
<1>5. t.queued + t.refused = queued - Freed(a) + Cardinality(Awaited(Taken(n)))
      /\ queued - Freed(a) <= t.queued
  <2>1. Freed(a) \in Nat /\ queued \in Nat /\ Cardinality(Awaited(Taken(n))) \in Nat
    BY FreedIs, Parts
  <2> HIDE DEF b, t, u
  <2> QED BY <1>2, <1>3, <1>4, <2>1
<1>6. /\ memory' = t.memory /\ fram' = t.fram /\ rtc' = t.rtc /\ m_send_buf' = t.answer
      /\ queued' = t.queued /\ sent' = t.sent /\ sent1' = t.sent1 /\ wire' = t.wire
      /\ received' = received - Freed(a)
      /\ unanswered' = unanswered - (Cardinality(Awaited(CutOff(n))) + t.refused)
      /\ missed' = IF n = 0 THEN missed ELSE Cardinality(Awaited(CutOff(n))) + t.refused > 0
  BY DEF Segment, Ended, Parsed, Taken, CutOff, Fitting
<1>7. /\ requests' = Rest(n) /\ (n > 0 \/ a > 0)
      /\ UNCHANGED <<netif, cnt_net_restore, shown, last>>
      /\ TimeSet(Taken(n)) /\ expected' = FoldLeft(Wrote, expected, Taken(n))
  BY DEF Segment, Rest, Taken, Fitting
<1> HIDE DEF t, u
<1> QED BY <1>3, <1>4, <1>5, <1>6, <1>7 DEF t, u

(* Of c + lost + held requests and q - r answers, lost requests and t       *)
(* answers are given up, and k answers leave the queue.                     *)
LEMMA Balance ==
  ASSUME NEW c \in Nat, NEW lost \in Nat, NEW held \in Nat, NEW q \in Nat, NEW r \in Nat,
         NEW k \in Nat, NEW x \in Nat, NEW t \in Nat, NEW u \in Nat, NEW m \in Nat,
         r <= q, k <= r, u = (c + lost + held) + (q - r), x + t = q - k + c, q - k <= x, u <= m
  PROVE  /\ u - (lost + t) = held + (x - (r - k))
         /\ r - k \in Nat /\ r - k <= x
         /\ u - (lost + t) \in Nat /\ u - (lost + t) <= m
<1>1. r - k \in Nat /\ r - k <= x
  OBVIOUS
<1>2. u - (lost + t) = held + (x - (r - k))
  OBVIOUS
<1> QED BY <1>1, <1>2

(* A segment keeps DeliveryInv.                                             *)
LEMMA DeliverySegment ==
  ASSUME DeliveryInv, NEW n \in 0 .. Len(requests), NEW a \in 0 .. received, Segment(n, a)
  PROVE  DeliveryInv'
<1> DEFINE q == Taken(n)
           t == Ended(n, a)
           k == Freed(a)
           lost == Cardinality(Awaited(CutOff(n)))
           held == Cardinality(Awaited(Rest(n)))
<1>1. Types /\ Delivery /\ OneAnswerEach
  BY DEF DeliveryInv
<1>2. /\ t \in Board /\ t.queued + t.refused = queued - k + Cardinality(Awaited(q))
      /\ queued - k <= t.queued
      /\ memory' = t.memory /\ fram' = t.fram /\ rtc' = t.rtc /\ m_send_buf' = t.answer
      /\ queued' = t.queued /\ sent' = t.sent /\ sent1' = t.sent1 /\ wire' = t.wire
      /\ received' = received - k
      /\ unanswered' = unanswered - (lost + t.refused)
      /\ missed' = IF n = 0 THEN missed ELSE lost + t.refused > 0
      /\ requests' = Rest(n)
      /\ UNCHANGED <<netif, cnt_net_restore, shown, last>>
      /\ TimeSet(q) /\ expected' = FoldLeft(Wrote, expected, q)
  BY <1>1, SegmentIs
<1>3. /\ q \in Seq(Frame) /\ Rest(n) \in Seq(Frame) /\ Len(Rest(n)) = Len(requests) - n
      /\ \A j \in 1 .. Len(requests) - n : Rest(n)[j] = requests[n + j]
      /\ Cardinality(Awaited(requests)) = Cardinality(Awaited(q)) + lost + held
      /\ Cardinality(Awaited(q)) \in Nat /\ lost \in Nat /\ held \in Nat
      /\ Len(requests) \in Nat /\ n \in Nat
  BY <1>1, Parts
<1>4. Rest(n) # <<>> => requests # <<>> /\ Rest(n)[Len(Rest(n))] = requests[Len(requests)]
  <2> DEFINE r == Rest(n)
  <2> HIDE DEF r
  <2>1. r \in Seq(Frame) /\ Len(r) = Len(requests) - n
        /\ \A j \in 1 .. Len(requests) - n : r[j] = requests[n + j]
    BY <1>3 DEF r
  <2>2. ASSUME r # <<>> PROVE requests # <<>> /\ r[Len(r)] = requests[Len(requests)]
    <3>1. Len(r) \in 1 .. Len(r) /\ Len(r) \in Nat
      BY <2>1, <2>2
    <3>2. n + Len(r) = Len(requests) /\ Len(requests) # 0
      BY <1>3, <2>1, <3>1
    <3> QED BY <2>1, <3>1, <3>2
  <2> QED BY <2>2 DEF r
<1>5. expected' \in [Settings -> Param]
  <2> HIDE DEF q
  <2>1. PICK g : Writing(g, expected, q)
    BY <1>1, <1>3, WritingExists DEF Types, BoardTypes
  <2>2. Len(q) \in 0 .. Len(q)
    BY <1>3
  <2> QED BY <1>2, <2>1, <2>2 DEF Writing
<1>6. trueTime' \in Nat /\ ticks' \in 0 .. MaxTicks
  <2>1. CASE DateWrites(q) = {}
    BY <1>1, <1>2, <2>1 DEF TimeSet, Types, BoardTypes
  <2>2. CASE DateWrites(q) # {}
    <3>1. PICK d \in Dates : q[Max(DateWrites(q))].param = datetime_zip(d)
      <4>1. Acknowledged(a) \in Board
        BY <1>1, AcknowledgedType
      <4> HIDE DEF q
      <4> QED BY <1>3, <2>2, <4>1, SegmentDate
    <3>2. trueTime' = Seconds(datetime_unzip(datetime_zip(d))) /\ ticks' = 0
      BY <1>2, <2>2, <3>1 DEF TimeSet
    <3> QED BY <3>2, DateSet, SecondsIn, CommandServiceAssumption
  <2> QED BY <2>1, <2>2
<1>7. k \in Nat /\ k <= received
  BY <1>1, FreedIs
<1>8. /\ queued \in Nat /\ received \in Nat /\ received <= queued
      /\ unanswered \in Nat /\ unanswered <= MaxPending /\ MaxPending \in Nat
      /\ unanswered = Cardinality(Awaited(requests)) + (queued - received)
      /\ requests \in Seq(Frame) /\ Len(requests) <= MaxPending /\ missed \in BOOLEAN
      /\ last \in Frame \cup {NoFrame}
  BY <1>1, CommandServiceAssumption DEF Types, QueueTypes, OneAnswerEach
<1> HIDE DEF q, t, k, lost, held
<1>9. /\ t.memory \in [Variables -> Param] /\ t.fram \in [Settings -> Param]
      /\ t.rtc \in Nat /\ t.answer \in Answer
      /\ t.queued \in Nat /\ t.refused \in Nat /\ t.sent \in Nat /\ t.sent1 \in Nat
      /\ t.wire \in SUBSET Pieces /\ t.sent1 <= t.sent /\ t.sent <= t.queued
      /\ (t.sent1 = 0 => t.sent = 0)
      /\ \A w \in t.wire : w.to <= t.queued
  BY <1>2 DEF Board, Boards
<1>10. BoardTypes'
  BY <1>1, <1>2, <1>5, <1>6, <1>9 DEF Types, BoardTypes
<1>11. /\ unanswered' = held + (queued' - received')
       /\ received' \in Nat /\ received' <= queued'
       /\ unanswered' \in Nat /\ unanswered' <= MaxPending
  <2>1. /\ queued' = t.queued /\ received' = received - k
        /\ unanswered' = unanswered - (lost + t.refused)
        /\ t.queued + t.refused = queued - k + Cardinality(Awaited(q)) /\ queued - k <= t.queued
    BY <1>2
  <2>2. unanswered = (Cardinality(Awaited(q)) + lost + held) + (queued - received)
    BY <1>3, <1>8
  <2>3. /\ t.queued \in Nat /\ t.refused \in Nat /\ Cardinality(Awaited(q)) \in Nat
        /\ lost \in Nat /\ held \in Nat /\ queued \in Nat /\ received \in Nat /\ k \in Nat
        /\ received <= queued /\ k <= received /\ unanswered <= MaxPending
        /\ unanswered \in Nat /\ MaxPending \in Nat
    BY <1>3, <1>7, <1>8, <1>9
  <2> DEFINE c == Cardinality(Awaited(q))
             x == t.queued
             y == t.refused
  <2>4. /\ c \in Nat /\ x \in Nat /\ y \in Nat /\ x + y = queued - k + c /\ queued - k <= x
        /\ unanswered = (c + lost + held) + (queued - received)
    BY <2>1, <2>2, <2>3
  <2> HIDE DEF c, x, y
  <2>5. /\ unanswered - (lost + y) = held + (x - (received - k))
        /\ received - k \in Nat /\ received - k <= x
        /\ unanswered - (lost + y) \in Nat /\ unanswered - (lost + y) <= MaxPending
    BY <2>3, <2>4, Balance
  <2> QED BY <2>1, <2>5 DEF x, y
<1>14. missed' \in BOOLEAN
  <2>1. missed' = IF n = 0 THEN missed ELSE lost + t.refused > 0
    BY <1>2
  <2>2. (lost + t.refused > 0) \in BOOLEAN
    OBVIOUS
  <2> QED BY <1>8, <2>1, <2>2
<1>15. requests' \in Seq(Frame) /\ Len(requests') <= MaxPending
  BY <1>2, <1>3, <1>8
<1>16. QueueTypes'
  BY <1>2, <1>8, <1>9, <1>11, <1>14, <1>15 DEF QueueTypes
<1>17. Delivery'
  <2>1. requests = <<>> => Rest(n) = <<>>
    BY <1>4
  <2> QED BY <1>1, <1>2, <1>4, <2>1 DEF Delivery
<1>18. OneAnswerEach'
  BY <1>2, <1>11 DEF OneAnswerEach, held
<1> QED BY <1>10, <1>16, <1>17, <1>18 DEF DeliveryInv, Types

(* A request keeps DeliveryInv.                                             *)
LEMMA DeliveryRequest ==
  ASSUME DeliveryInv, Request
  PROVE  DeliveryInv'
<1>1. PICK f \in Frame :
        /\ Registered(f.cmd) => unanswered < MaxPending
        /\ requests' = Append(requests, f) /\ last' = f
        /\ unanswered' = IF Registered(f.cmd) THEN unanswered + 1 ELSE unanswered
  BY DEF Request
<1>2. /\ Len(requests) < MaxPending
      /\ UNCHANGED <<store, clock, cnt_net_restore, m_send_buf, tcp, shown, missed, expected>>
  BY DEF Request
<1>3. BoardTypes /\ QueueTypes /\ Delivery /\ OneAnswerEach
  BY DEF DeliveryInv, Types
<1>4. /\ requests \in Seq(Frame) /\ unanswered \in Nat /\ unanswered <= MaxPending
      /\ MaxPending \in Nat /\ queued \in Nat /\ received \in Nat
  BY <1>3, CommandServiceAssumption DEF QueueTypes
<1>5. /\ requests' \in Seq(Frame) /\ Len(requests') = Len(requests) + 1
      /\ requests'[Len(requests')] = f
  BY <1>1, <1>4
<1>6. unanswered' \in Nat /\ unanswered' <= MaxPending
  <2>1. CASE Registered(f.cmd)
    BY <1>1, <1>4, <2>1
  <2>2. CASE ~ Registered(f.cmd)
    BY <1>1, <1>4, <2>2
  <2> QED BY <2>1, <2>2
<1>7. BoardTypes'
  BY <1>2, <1>3 DEF BoardTypes, store, clock
<1>8. QueueTypes'
  <2>1. Len(requests') <= MaxPending
    BY <1>2, <1>4, <1>5
  <2> QED BY <1>1, <1>2, <1>3, <1>5, <1>6, <2>1 DEF QueueTypes, tcp
<1>9. Delivery'
  <2>1. last' # NoFrame
    BY <1>1, FrameFields
  <2> QED BY <1>1, <1>2, <1>3, <1>5, <2>1 DEF Delivery
<1>10. OneAnswerEach'
  <2>1. Cardinality(Awaited(requests'))
          = Cardinality(Awaited(requests)) + IF Registered(f.cmd) THEN 1 ELSE 0
    BY <1>1, <1>4, CountAppend
  <2>2. Cardinality(Awaited(requests)) \in Nat
    BY <1>4, CountAll
  <2>3. queued' = queued /\ received' = received
    BY <1>2 DEF tcp
  <2> QED BY <1>1, <1>3, <1>4, <2>1, <2>2, <2>3 DEF OneAnswerEach
<1> QED BY <1>7, <1>8, <1>9, <1>10 DEF DeliveryInv, Types

(* The answers the tool receives keep DeliveryInv.                          *)
LEMMA DeliveryReceives ==
  ASSUME DeliveryInv, ToolReceives
  PROVE  DeliveryInv'
<1>1. PICK w \in wire :
        /\ w.from <= received
        /\ wire' = wire \ {w}
        /\ IF w.to <= received THEN UNCHANGED <<received, unanswered, shown>>
           ELSE /\ received' = w.to /\ unanswered' = unanswered - (w.to - received)
                /\ shown' = DealData(shown, w.says)
        /\ UNCHANGED <<store, clock, cnt_net_restore, m_send_buf, queued, sent, sent1, requests,
                       missed, last, expected>>
  BY DEF ToolReceives
<1>2. BoardTypes /\ QueueTypes /\ Delivery /\ OneAnswerEach
  BY DEF DeliveryInv, Types
<1>3. /\ w.to \in Nat /\ w.to <= queued /\ w.says \in Answer
      /\ wire' \in SUBSET Pieces /\ \A x \in wire' : x.to <= queued
  BY <1>1, <1>2 DEF QueueTypes, Pieces
<1>4. /\ requests \in Seq(Frame) /\ unanswered \in Nat /\ unanswered <= MaxPending
      /\ MaxPending \in Nat /\ queued \in Nat /\ received \in Nat /\ received <= queued
  BY <1>2, CommandServiceAssumption DEF QueueTypes
<1>5. Cardinality(Awaited(requests)) \in Nat
  BY <1>4, CountAll
<1>6. unanswered = Cardinality(Awaited(requests)) + (queued - received)
  BY <1>2 DEF OneAnswerEach
<1>7. /\ received' \in Nat /\ received' <= queued
      /\ unanswered' = Cardinality(Awaited(requests)) + (queued - received')
      /\ unanswered' \in Nat /\ unanswered' <= MaxPending
      /\ shown' \in [Settings -> Param]
  <2>0. shown \in [Settings -> Param]
    BY <1>2 DEF BoardTypes
  <2>1. CASE w.to <= received
    BY <1>1, <1>4, <1>6, <2>0, <2>1
  <2>2. CASE ~ (w.to <= received)
    <3>1. DealData(shown, w.says) \in [Settings -> Param]
      BY <1>3, <2>0, DealType
    <3>2. /\ received' = w.to /\ unanswered' = unanswered - (w.to - received)
          /\ shown' = DealData(shown, w.says)
      BY <1>1, <2>2
    <3>3. unanswered' = Cardinality(Awaited(requests)) + (queued - w.to)
      BY <1>3, <1>4, <1>5, <1>6, <3>2
    <3>4. unanswered' \in Nat /\ unanswered' <= MaxPending
      BY <1>3, <1>4, <1>5, <1>6, <2>2, <3>3
    <3> QED BY <1>3, <3>1, <3>2, <3>3, <3>4
  <2> QED BY <2>1, <2>2
<1>8. BoardTypes'
  BY <1>1, <1>2, <1>7 DEF BoardTypes, store, clock
<1>9. QueueTypes'
  BY <1>1, <1>2, <1>3, <1>7 DEF QueueTypes
<1>10. Delivery'
  BY <1>1, <1>2 DEF Delivery
<1>11. OneAnswerEach'
  BY <1>1, <1>7 DEF OneAnswerEach
<1> QED BY <1>8, <1>9, <1>10, <1>11 DEF DeliveryInv, Types

(* A lost segment keeps DeliveryInv.                                        *)
LEMMA DeliveryLost ==
  ASSUME DeliveryInv, SegmentLost
  PROVE  DeliveryInv'
<1>1. BoardTypes /\ QueueTypes /\ Delivery /\ OneAnswerEach
  BY DEF DeliveryInv, Types
<1>2. PICK w \in wire :
        /\ wire' = wire \ {w}
        /\ UNCHANGED <<store, clock, cnt_net_restore, m_send_buf, queued, sent, sent1, received,
                       requests, shown, history>>
  BY DEF SegmentLost
<1>3. BoardTypes'
  BY <1>1, <1>2 DEF BoardTypes, store, clock, history
<1>4. QueueTypes'
  BY <1>1, <1>2 DEF QueueTypes, history
<1>5. Delivery'
  BY <1>1, <1>2 DEF Delivery, history
<1>6. OneAnswerEach'
  BY <1>1, <1>2 DEF OneAnswerEach, history
<1> QED BY <1>3, <1>4, <1>5, <1>6 DEF DeliveryInv, Types

(* A segment sent again keeps DeliveryInv.                                  *)
LEMMA DeliveryRetransmit ==
  ASSUME DeliveryInv, Retransmit
  PROVE  DeliveryInv'
<1> DEFINE w == [from |-> 0, to |-> sent1, says |-> m_send_buf]
<1>1. BoardTypes /\ QueueTypes /\ Delivery /\ OneAnswerEach
  BY DEF DeliveryInv, Types
<1>2. /\ wire' = wire \cup {w} /\ sent' = sent1
      /\ UNCHANGED <<store, clock, cnt_net_restore, m_send_buf, queued, sent1, received, requests,
                     shown, history>>
      /\ received < sent
  BY DEF Retransmit
<1>3. /\ sent1 \in Nat /\ sent \in Nat /\ queued \in Nat /\ sent1 <= queued /\ m_send_buf \in Answer
      /\ sent1 # 0
  BY <1>1, <1>2 DEF QueueTypes, BoardTypes
<1>4. w \in Pieces /\ w.to = sent1
  BY <1>3 DEF Pieces
<1> HIDE DEF w
<1>5. BoardTypes'
  BY <1>1, <1>2 DEF BoardTypes, store, clock, history
<1>6. QueueTypes'
  BY <1>1, <1>2, <1>3, <1>4 DEF QueueTypes, history
<1>7. Delivery'
  BY <1>1, <1>2 DEF Delivery, history
<1>8. OneAnswerEach'
  BY <1>1, <1>2 DEF OneAnswerEach, history
<1> QED BY <1>5, <1>6, <1>7, <1>8 DEF DeliveryInv, Types

(* A second keeps DeliveryInv.                                              *)
LEMMA DeliverySecond ==
  ASSUME DeliveryInv, Second
  PROVE  DeliveryInv'
<1>1. BoardTypes /\ QueueTypes /\ Delivery /\ OneAnswerEach
  BY DEF DeliveryInv, Types
<1>2. BoardTypes'
  <2>1. rtc + 1 \in Nat /\ trueTime + 1 \in Nat /\ ticks + 1 \in 0 .. MaxTicks
    BY <1>1, CommandServiceAssumption DEF Second, BoardTypes
  <2> QED BY <1>1, <2>1 DEF Second, BoardTypes, store, history
<1>3. QueueTypes'
  BY <1>1 DEF Second, QueueTypes, tcp, history
<1>4. Delivery'
  BY <1>1 DEF Second, Delivery, history
<1>5. OneAnswerEach'
  BY <1>1 DEF Second, OneAnswerEach, tcp, history
<1> QED BY <1>2, <1>3, <1>4, <1>5 DEF DeliveryInv, Types

(* The three ways to a restart: with the FRAM as it is, with a write that   *)
(* power cut short, and with the defaults.                                  *)
LEMMA PowerFailureIs ==
  ASSUME Types, PowerFailure
  PROVE  \/ Restart(fram) /\ expected' = expected
         \/ \E c \in Settings : /\ Restart([fram EXCEPT ![c] = Torn])
                                /\ expected' = [expected EXCEPT ![c] = Unknown]
BY DEF PowerFailure

(* A power failure keeps DeliveryInv.                                       *)
LEMMA DeliveryPower ==
  ASSUME DeliveryInv, PowerFailure
  PROVE  DeliveryInv'
<1>1. Types /\ fram \in [Settings -> Param] /\ expected \in [Settings -> Param]
  BY DEF DeliveryInv, Types, BoardTypes
<1>2. CASE Restart(fram) /\ expected' = expected
  BY <1>1, <1>2, DeliveryRestart
<1>3. ASSUME NEW c \in Settings, Restart([fram EXCEPT ![c] = Torn]),
             expected' = [expected EXCEPT ![c] = Unknown]
      PROVE  DeliveryInv'
  <2>1. [fram EXCEPT ![c] = Torn] \in [Settings -> Param]
        /\ [expected EXCEPT ![c] = Unknown] \in [Settings -> Param]
    BY <1>1, DefaultType
  <2> QED BY <1>3, <2>1, DeliveryRestart
<1> QED BY <1>1, <1>2, <1>3, PowerFailureIs

(* The restore key keeps DeliveryInv.                                       *)
LEMMA DeliveryRestore ==
  ASSUME DeliveryInv, NetConfig_Restore_Check
  PROVE  DeliveryInv'
<1>1. BoardTypes /\ QueueTypes /\ Delivery /\ OneAnswerEach
  BY DEF DeliveryInv, Types
<1>2. CASE cnt_net_restore < 4
  <2>1. /\ cnt_net_restore' = cnt_net_restore + 1
        /\ UNCHANGED <<store, clock, m_send_buf, tcp, requests, shown, history>>
    BY <1>2 DEF NetConfig_Restore_Check
  <2>2. BoardTypes'
    BY <1>1, <1>2, <2>1 DEF BoardTypes, store, clock, history
  <2>3. QueueTypes'
    BY <1>1, <2>1 DEF QueueTypes, tcp, history
  <2>4. Delivery'
    BY <1>1, <2>1 DEF Delivery, history
  <2>5. OneAnswerEach'
    BY <1>1, <2>1 DEF OneAnswerEach, tcp, history
  <2> QED BY <2>2, <2>3, <2>4, <2>5 DEF DeliveryInv, Types
<1>3. CASE ~ (cnt_net_restore < 4)
  <2>1. Restart(network_restore_def(fram, 3)) /\ expected' = network_restore_def(expected, 3)
    BY <1>3 DEF NetConfig_Restore_Check
  <2>2. network_restore_def(fram, 3) \in [Settings -> Param]
        /\ network_restore_def(expected, 3) \in [Settings -> Param]
    BY <1>1, DefaultType, 3 \in 0 .. 3 DEF BoardTypes
  <2> QED BY <2>1, <2>2, DeliveryRestart
<1> QED BY <1>2, <1>3

(* What a restore that power cuts short leaves.                             *)
LEMMA RestoreCutIs ==
  ASSUME Types, RestoreCut
  PROVE  \E n \in 0 .. 2 :
           \/ /\ Restart(network_restore_def(fram, n))
              /\ expected' = network_restore_def(expected, n)
           \/ \E c \in Settings :
                /\ Restart([network_restore_def(fram, n) EXCEPT ![c] = Torn])
                /\ expected' = [network_restore_def(expected, n) EXCEPT ![c] = Unknown]
<1>1. PICK n \in 0 .. 2 :
        \/ /\ Restart(network_restore_def(fram, n))
           /\ expected' = network_restore_def(expected, n)
        \/ /\ Restart([network_restore_def(fram, n) EXCEPT ![Restored[n + 1]] = Torn])
           /\ expected' = [network_restore_def(expected, n) EXCEPT ![Restored[n + 1]] = Unknown]
  BY DEF RestoreCut
<1>2. Restored[n + 1] \in Settings
  <2>1. n + 1 = 1 \/ n + 1 = 2 \/ n + 1 = 3
    OBVIOUS
  <2> QED BY <2>1, DefaultType
<1> QED BY <1>1, <1>2

(* A restore that power cuts short keeps DeliveryInv.                       *)
LEMMA DeliveryRestoreCut ==
  ASSUME DeliveryInv, RestoreCut
  PROVE  DeliveryInv'
<1>1. Types /\ fram \in [Settings -> Param] /\ expected \in [Settings -> Param]
  BY DEF DeliveryInv, Types, BoardTypes
<1>2. PICK n \in 0 .. 2 :
        \/ /\ Restart(network_restore_def(fram, n))
           /\ expected' = network_restore_def(expected, n)
        \/ \E c \in Settings :
             /\ Restart([network_restore_def(fram, n) EXCEPT ![c] = Torn])
             /\ expected' = [network_restore_def(expected, n) EXCEPT ![c] = Unknown]
  BY <1>1, RestoreCutIs
<1>3. network_restore_def(fram, n) \in [Settings -> Param]
      /\ network_restore_def(expected, n) \in [Settings -> Param]
  BY <1>1, DefaultType
<1>4. CASE Restart(network_restore_def(fram, n)) /\ expected' = network_restore_def(expected, n)
  BY <1>3, <1>4, DeliveryRestart
<1>5. ASSUME NEW c \in Settings, Restart([network_restore_def(fram, n) EXCEPT ![c] = Torn]),
             expected' = [network_restore_def(expected, n) EXCEPT ![c] = Unknown]
      PROVE  DeliveryInv'
  <2>1. [network_restore_def(fram, n) EXCEPT ![c] = Torn] \in [Settings -> Param]
        /\ [network_restore_def(expected, n) EXCEPT ![c] = Unknown] \in [Settings -> Param]
    BY <1>3, DefaultType
  <2> QED BY <1>5, <2>1, DeliveryRestart
<1> QED BY <1>2, <1>4, <1>5

(* Every step keeps DeliveryInv.                                            *)
LEMMA DeliveryStep == DeliveryInv /\ [Next]_vars => DeliveryInv'
<1> SUFFICES ASSUME DeliveryInv, [Next]_vars PROVE DeliveryInv'
  OBVIOUS
<1>1. CASE Request
  BY <1>1, DeliveryRequest
<1>2. CASE NetworkSrv
  <2>1. PICK n \in 0 .. Len(requests), a \in 0 .. received : Segment(n, a)
    BY <1>2 DEF NetworkSrv
  <2> QED BY <2>1, DeliverySegment
<1>3. CASE Second
  BY <1>3, DeliverySecond
<1>4. CASE NetConfig_Restore_Check
  BY <1>4, DeliveryRestore
<1>5. CASE PowerFailure
  BY <1>5, DeliveryPower
<1>6. CASE ToolReceives
  BY <1>6, DeliveryReceives
<1>7. CASE SegmentLost
  BY <1>7, DeliveryLost
<1>8. CASE Retransmit
  BY <1>8, DeliveryRetransmit
<1>9. CASE UNCHANGED vars
  BY <1>9 DEF DeliveryInv, Types, BoardTypes, QueueTypes, Delivery, OneAnswerEach, vars, store,
              tcp, clock, history
<1>10. CASE RestoreCut
  BY <1>10, DeliveryRestoreCut
<1> QED BY <1>1, <1>2, <1>3, <1>4, <1>5, <1>6, <1>7, <1>8, <1>9, <1>10 DEF Next

(* DeliveryInv is an invariant.                                             *)
LEMMA DeliveryAlways == Spec => []DeliveryInv
<1> QED BY DeliveryInit, DeliveryStep, PTL DEF Spec

(* TypeOK: the types; what the tool has and what is in segments is queued,  *)
(* and the tool never waits for less than nothing.                          *)
THEOREM TypeCorrect == Spec => []TypeOK
<1>1. DeliveryInv => TypeOK
  <2> SUFFICES ASSUME DeliveryInv PROVE TypeOK
    OBVIOUS
  <2>1. BoardTypes /\ QueueTypes
    BY DEF DeliveryInv, Types
  <2>2. DOMAIN memory = Variables /\ DOMAIN fram = Settings /\ DOMAIN shown = Settings
        /\ m_send_buf.dir \in 0 .. 2 /\ cnt_net_restore \in 0 .. 4
    BY <2>1 DEF BoardTypes, Answer
  <2>3. \A w \in wire : w.from < w.to /\ w.to <= queued
    BY <2>1 DEF QueueTypes, Pieces
  <2>4. unanswered \in 0 .. MaxPending
    BY <2>1, CommandServiceAssumption DEF QueueTypes
  <2> QED BY <2>1, <2>2, <2>3, <2>4 DEF TypeOK, BoardTypes, QueueTypes
<1> QED BY <1>1, DeliveryAlways, PTL

(* OneAnswerEach: a request is answered once unless the end of a segment    *)
(* was cut off (network.c:119-139) or TCP's queue was full (86-95), for any *)
(* commands, numbers and dates, any size of buffer and queue, however the   *)
(* requests fall into segments, whatever is lost, sent again or             *)
(* acknowledged late.                                                       *)
THEOREM AnsweredOnce == Spec => []OneAnswerEach
<1>1. DeliveryInv => OneAnswerEach
  BY DEF DeliveryInv
<1> QED BY <1>1, DeliveryAlways, PTL

-----------------------------------------------------------------------------
(* With up to nine requests without an answer nothing is cut off and TCP's  *)
(* queue does not get full (RecvFrames = 11, TCP_SND_QUEUELEN = 22).        *)
Roomy == MaxPending <= RecvFrames /\ 2 * MaxPending + 3 <= TCP_SND_QUEUELEN

(* At most one segment is under way, the tool has no answer that is not     *)
(* sent, and none was refused; r of the answers are with the tool.          *)
Steady(s, r) ==
  /\ s.sent1 = s.sent /\ s.sent <= MaxPending /\ r <= s.sent
  /\ s.refused = 0
  /\ \A w \in s.wire : w.to <= s.sent

NoLoss ==
  /\ ~ missed
  /\ sent1 = sent /\ sent <= MaxPending /\ received <= sent
  /\ \A w \in wire : w.to <= sent

(* The fields of a board.                                                   *)
LEMMA BoardFields ==
  ASSUME NEW s \in Board
  PROVE  /\ s.queued \in Nat /\ s.sent \in Nat /\ s.sent1 \in Nat /\ s.refused \in Nat
         /\ s.sent <= s.queued /\ s.wire \in SUBSET Pieces
         /\ \A w \in s.wire : w.to \in Nat /\ w.to <= s.queued
BY DEF Board, Boards, Pieces

(* One answer more finds room in TCP's queue.                               *)
LEMMA SteadySend ==
  ASSUME Roomy, NEW r \in Nat, NEW s \in Board, Steady(s, r), s.queued + 1 <= MaxPending + r
  PROVE  Steady(send_data(s), r) /\ send_data(s).queued = s.queued + 1
<1> DEFINE t == send_data(s)
<1>1. /\ s.queued \in Nat /\ s.sent \in Nat /\ s.sent1 \in Nat /\ MaxPending \in Nat
      /\ TCP_SND_QUEUELEN \in Nat
  BY BoardFields, CommandServiceAssumption
<1>2. s.sent1 = s.sent /\ s.sent <= MaxPending /\ r <= s.sent /\ s.refused = 0
      /\ \A w \in s.wire : w.to <= s.sent
  BY DEF Steady
<1>3. snd_queuelen(s) + 2 <= TCP_SND_QUEUELEN
  <2>1. snd_queuelen(s) \in Nat /\ snd_queuelen(s) <= s.queued + 2
    BY <1>1, <1>2 DEF snd_queuelen
  <2>2. s.queued + 4 <= 2 * MaxPending + 3
    BY <1>1, <1>2
  <2> QED BY <1>1, <2>1, <2>2 DEF Roomy
<1>4. /\ t \in Board /\ t.queued = s.queued + 1 /\ t.refused = s.refused
      /\ s.sent # 0 => t.sent = s.sent /\ t.sent1 = s.sent1 /\ t.wire = s.wire
      /\ s.sent = 0 => t.sent = t.queued /\ (s.sent1 = s.sent => t.sent1 = t.sent)
  BY <1>3, Queued
<1> HIDE DEF t
<1>5. CASE s.sent # 0
  BY <1>2, <1>4, <1>5 DEF Steady, t
<1>6. CASE s.sent = 0
  <2>1. t.sent = t.queued /\ t.sent1 = t.sent /\ t.refused = 0 /\ t.queued = s.queued + 1
    BY <1>2, <1>4, <1>6
  <2>2. t.sent <= MaxPending /\ r <= t.sent
    BY <1>1, <1>2, <1>6, <2>1
  <2>3. \A w \in t.wire : w.to <= t.sent
    BY <1>4, <2>1, BoardFields
  <2> QED BY <2>1, <2>2, <2>3 DEF Steady, t
<1> QED BY <1>5, <1>6

(* A frame is taken without loss.                                           *)
LEMMA SteadyServed ==
  ASSUME Roomy, NEW r \in Nat, NEW s \in Board, NEW f \in Frame, Steady(s, r),
         Registered(f.cmd) => s.queued + 1 <= MaxPending + r
  PROVE  LET t == Cmd_Service(s, f)
         IN  Steady(t, r) /\ t.queued = s.queued + IF Registered(f.cmd) THEN 1 ELSE 0
<1> DEFINE t == Cmd_Service(s, f)
           u == Handler(s, f)
<1>1. CASE ~ Registered(f.cmd)
  <2>1. t = s /\ s.queued \in Nat
    BY <1>1, BoardFields DEF Cmd_Service
  <2> HIDE DEF t
  <2> QED BY <1>1, <2>1 DEF t
<1>2. CASE Registered(f.cmd)
  <2>1. t = send_data(u)
    BY <1>2 DEF Cmd_Service, Handler
  <2>2. u \in Board /\ HandlerEffect(s, f, u)
    BY <1>2, Handled
  <2> HIDE DEF t, u
  <2>3. u.queued = s.queued /\ Steady(u, r)
    BY <2>2 DEF HandlerEffect, Steady
  <2>4. Steady(t, r) /\ t.queued = u.queued + 1
    BY <1>2, <2>1, <2>2, <2>3, SteadySend
  <2> QED BY <1>2, <2>3, <2>4 DEF t
<1> QED BY <1>1, <1>2

(* All the frames of a segment are.                                         *)
LEMMA SteadyParsed ==
  ASSUME Roomy, NEW r \in Nat, NEW s \in Board, NEW q \in Seq(Frame), Steady(s, r),
         s.queued + Cardinality(Awaited(q)) <= MaxPending + r
  PROVE  LET t == ParseDebugCommMsg(s, q)
         IN  Steady(t, r) /\ t.queued = s.queued + Cardinality(Awaited(q))
<1> DEFINE n == Len(q)
           t == ParseDebugCommMsg(s, q)
<1>1. n \in Nat /\ \A k \in 1 .. n : q[k] \in Frame
  OBVIOUS
<1>2. Cardinality(Awaited(q)) = Counted(q, n)
  BY CountAll
<1>3. PICK h : Serving(h, s, q)
  BY ServingExists
<1>4. /\ h \in [0 .. n -> Board] /\ h[0] = s /\ h[n] = t
      /\ \A k \in 1 .. n : h[k] = Cmd_Service(h[k - 1], q[k])
  BY <1>3 DEF Serving
<1> HIDE DEF n, t
<1>5. s.queued + Counted(q, n) <= MaxPending + r /\ s.queued \in Nat /\ MaxPending \in Nat
  <2>1. s.queued \in Nat
    BY BoardFields
  <2>2. MaxPending \in Nat
    BY CommandServiceAssumption
  <2> QED BY <1>2, <2>1, <2>2
<1> DEFINE T == {k \in 0 .. n : Steady(h[k], r) /\ h[k].queued = s.queued + Counted(q, k)}
<1>6. 0 \in T
  BY <1>1, <1>4, <1>5, CountStep
<1>7. ASSUME NEW k \in 0 .. n - 1, k \in T PROVE k + 1 \in T
  <2>1. k \in Nat /\ k + 1 \in 1 .. n /\ k + 1 - 1 = k /\ k + 1 \in 0 .. n /\ k \in 0 .. n
    BY <1>1
  <2>2. h[k + 1] = Cmd_Service(h[k], q[k + 1]) /\ h[k] \in Board /\ q[k + 1] \in Frame
    BY <1>1, <1>4, <2>1
  <2>3. /\ Counted(q, k + 1) = Counted(q, k) + IF Registered(q[k + 1].cmd) THEN 1 ELSE 0
        /\ Counted(q, k) \in Nat
    BY <2>1, CountStep
  <2>4. Counted(q, k + 1) <= Counted(q, n) /\ Counted(q, n) \in Nat
    BY <1>1, <2>1, CountBelow
  <2>5. Steady(h[k], r) /\ h[k].queued = s.queued + Counted(q, k)
    BY <1>7
  <2>6. Registered(q[k + 1].cmd) => h[k].queued + 1 <= MaxPending + r
    BY <1>5, <2>3, <2>4, <2>5
  <2>7. /\ Steady(h[k + 1], r)
        /\ h[k + 1].queued = h[k].queued + IF Registered(q[k + 1].cmd) THEN 1 ELSE 0
    BY <2>2, <2>5, <2>6, SteadyServed
  <2>8. h[k + 1].queued = s.queued + Counted(q, k + 1)
    <3>1. CASE Registered(q[k + 1].cmd)
      <4>1. /\ h[k + 1].queued = h[k].queued + 1 /\ h[k].queued = s.queued + Counted(q, k)
            /\ Counted(q, k + 1) = Counted(q, k) + 1 /\ Counted(q, k) \in Nat
        BY <2>3, <2>5, <2>7, <3>1
      <4> QED BY <1>5, <4>1
    <3>2. CASE ~ Registered(q[k + 1].cmd)
      <4>1. /\ h[k + 1].queued = h[k].queued + 0 /\ h[k].queued = s.queued + Counted(q, k)
            /\ Counted(q, k + 1) = Counted(q, k) + 0 /\ Counted(q, k) \in Nat
        BY <2>3, <2>5, <2>7, <3>2
      <4> QED BY <1>5, <4>1
    <3> QED BY <3>1, <3>2
  <2> QED BY <2>1, <2>7, <2>8
<1> HIDE DEF T
<1>8. n \in T
  <2>1. 0 .. n \subseteq T
    BY <1>1, <1>6, <1>7, Induct
  <2> QED BY <1>1, <2>1
<1> QED BY <1>2, <1>4, <1>8 DEF T, t

(* The output that ends the segment.                                        *)
LEMMA SteadyOutput ==
  ASSUME NEW r \in Nat, NEW s \in Board, Steady(s, r), s.queued <= MaxPending + r
  PROVE  Steady(tcp_output(s), r)
<1> DEFINE t == tcp_output(s)
<1>1. /\ s.queued \in Nat /\ s.sent \in Nat /\ s.sent <= s.queued /\ MaxPending \in Nat
      /\ s.sent1 = s.sent /\ s.sent <= MaxPending /\ r <= s.sent /\ s.refused = 0
  BY BoardFields, CommandServiceAssumption DEF Steady
<1>2. CASE s.sent # 0
  BY <1>2, OutputIs
<1>3. CASE s.sent = 0
  <2>1. t = Emit(s)
    BY <1>3, OutputIs
  <2>2. /\ t \in Board /\ t.queued = s.queued /\ t.refused = s.refused /\ t.sent = s.queued
        /\ t.sent1 = t.sent
    BY <1>1, <1>3, <2>1, Emitted
  <2> HIDE DEF t
  <2>3. \A w \in t.wire : w.to <= t.sent
    BY <2>2, BoardFields
  <2> QED BY <1>1, <1>3, <2>2, <2>3 DEF Steady, t
<1> QED BY <1>2, <1>3

(* An acknowledgement frees the segment or nothing.                         *)
LEMMA SteadyFreed ==
  ASSUME Types, NoLoss, NEW a \in 0 .. received
  PROVE  Steady(Acknowledged(a), received - Freed(a))
<1> DEFINE k == Freed(a)
           b == Acknowledged(a)
<1>1. /\ queued \in Nat /\ sent \in Nat /\ received \in Nat /\ a \in Nat /\ a <= received
      /\ sent <= queued /\ sent1 = sent /\ received <= sent /\ sent <= MaxPending
      /\ MaxPending \in Nat /\ \A w \in wire : w.to <= sent
  BY CommandServiceAssumption DEF Types, QueueTypes, NoLoss
<1>2. k = 0 \/ k = sent
  BY <1>1 DEF Freed
<1>3. /\ b \in Board /\ b.refused = 0
      /\ k = 0 => b.sent = sent /\ b.sent1 = sent1
      /\ k # 0 /\ k >= sent => b.sent = 0 /\ b.sent1 = 0
      /\ \A x \in b.wire : \E w \in wire : w.to > k /\ x.to = w.to - k
  BY AcknowledgedType
<1>4. \A w \in wire : w.to \in Nat
  BY DEF Types, QueueTypes, Pieces
<1> HIDE DEF k, b
<1>5. CASE k = 0
  <2>1. b.sent = sent /\ b.sent1 = sent /\ received - k = received
    BY <1>1, <1>3, <1>5
  <2>2. \A x \in b.wire : x.to <= b.sent
    <3>1. ASSUME NEW x \in b.wire PROVE x.to <= b.sent
      <4>1. PICK w \in wire : x.to = w.to - k
        BY <1>3
      <4> QED BY <1>1, <1>4, <1>5, <2>1, <4>1
    <3> QED BY <3>1
  <2> QED BY <1>1, <1>3, <2>1, <2>2 DEF Steady, k, b
<1>6. CASE k # 0
  <2>1. k = sent /\ k \in Nat
    BY <1>1, <1>2, <1>6
  <2>2. b.sent = 0 /\ b.sent1 = 0
    BY <1>1, <1>3, <1>6, <2>1
  <2>3. received - k <= 0
    BY <1>1, <2>1
  <2>4. b.wire = {}
    <3>1. ASSUME NEW x \in b.wire PROVE FALSE
      <4>1. PICK w \in wire : w.to > k
        BY <1>3
      <4> QED BY <1>1, <1>4, <2>1, <4>1
    <3> QED BY <3>1
  <2> QED BY <1>1, <1>3, <2>2, <2>3, <2>4 DEF Steady, k, b
<1> QED BY <1>5, <1>6

(* Of c + held requests and q - r answers; k answers leave the queue.       *)
LEMMA Shifted ==
  ASSUME NEW c \in Nat, NEW held \in Nat, NEW q \in Nat, NEW r \in Nat, NEW k \in Nat,
         NEW m \in Nat, r <= q, k <= r, (c + held) + (q - r) <= m
  PROVE  (q - k) + c <= m + (r - k)
OBVIOUS

(* A segment loses nothing.                                                 *)
LEMMA NoLossSegment ==
  ASSUME Roomy, DeliveryInv, NoLoss, NEW n \in 0 .. Len(requests), NEW a \in 0 .. received,
         Segment(n, a)
  PROVE  NoLoss'
<1> DEFINE q == Taken(n)
           b == Acknowledged(a)
           u == Parsed(n, a)
           t == Ended(n, a)
           r == received - Freed(a)
           lost == Cardinality(Awaited(CutOff(n)))
           held == Cardinality(Awaited(Rest(n)))
           c == Cardinality(Awaited(q))
<1>1. Types /\ OneAnswerEach
  BY DEF DeliveryInv
<1>2. /\ u \in Board /\ sent' = t.sent /\ sent1' = t.sent1 /\ wire' = t.wire
      /\ received' = r /\ missed' = IF n = 0 THEN missed ELSE lost + t.refused > 0
  BY <1>1, SegmentIs
<1>3. /\ q \in Seq(Frame) /\ CutOff(n) \in Seq(Frame) /\ Len(CutOff(n)) = n - Fitting(n)
      /\ Cardinality(Awaited(requests)) = c + lost + held
      /\ c \in Nat /\ lost \in Nat /\ held \in Nat /\ n \in Nat /\ Len(requests) \in Nat
  BY <1>1, Parts
<1>4. lost = 0
  <2>1. Len(requests) <= MaxPending /\ MaxPending \in Nat /\ RecvFrames \in Nat
    BY <1>1, CommandServiceAssumption DEF Types, QueueTypes
  <2>2. Fitting(n) = n
    BY <1>3, <2>1 DEF Roomy, Fitting
  <2>3. CutOff(n) = <<>>
    BY <1>3, <2>2
  <2> QED BY <2>3, EmptyAwaited
<1>5. /\ queued \in Nat /\ received \in Nat /\ received <= queued /\ MaxPending \in Nat
      /\ unanswered = Cardinality(Awaited(requests)) + (queued - received)
      /\ unanswered <= MaxPending
  BY <1>1, CommandServiceAssumption DEF Types, QueueTypes, OneAnswerEach
<1>6. Freed(a) \in Nat /\ Freed(a) <= received /\ r \in Nat
  BY <1>1, FreedIs
<1>7. b \in Board /\ b.queued = queued - Freed(a) /\ Steady(b, r)
  BY <1>1, AcknowledgedType, SteadyFreed
<1>8. u = ParseDebugCommMsg(b, q) /\ t = tcp_output(u)
  BY DEF Parsed, Ended
<1>12. r = received - Freed(a)
  OBVIOUS
<1> HIDE DEF q, b, u, t, r, lost, held, c
<1>9. b.queued + c <= MaxPending + r
  <2>1. (c + held) + (queued - received) <= MaxPending
    BY <1>3, <1>4, <1>5
  <2>2. b.queued = queued - Freed(a)
    BY <1>7
  <2> QED BY <1>3, <1>5, <1>6, <1>12, <2>1, <2>2, Shifted
<1>10. Steady(u, r) /\ u.queued = b.queued + c
  BY <1>3, <1>6, <1>7, <1>8, <1>9, SteadyParsed DEF c
<1>11. Steady(t, r)
  BY <1>2, <1>6, <1>8, <1>9, <1>10, SteadyOutput
<1>13. /\ t.sent1 = t.sent /\ t.sent <= MaxPending /\ r <= t.sent /\ t.refused = 0
       /\ \A w \in t.wire : w.to <= t.sent
  BY <1>11 DEF Steady
<1>14. ~ missed' /\ ~ missed
  <2>1. ~ missed
    BY DEF NoLoss
  <2>2. ~ (lost + t.refused > 0)
    BY <1>4, <1>13
  <2> QED BY <1>2, <2>1, <2>2
<1> QED BY <1>2, <1>13, <1>14 DEF NoLoss

(* No step loses a request or an answer.                                    *)
LEMMA NoLossStep ==
  ASSUME Roomy
  PROVE  DeliveryInv /\ NoLoss /\ [Next]_vars => NoLoss'
<1> SUFFICES ASSUME DeliveryInv, NoLoss, [Next]_vars PROVE NoLoss'
  OBVIOUS
<1>0. MaxPending \in Nat /\ sent \in Nat /\ received \in Nat /\ queued \in Nat
  BY CommandServiceAssumption DEF DeliveryInv, Types, QueueTypes
<1>1. ASSUME NEW m, Restart(m) PROVE NoLoss'
  BY <1>0, <1>1 DEF Restart, NoLoss
<1>2. CASE Request
  BY <1>2 DEF Request, NoLoss, tcp
<1>3. CASE NetworkSrv
  <2>1. PICK n \in 0 .. Len(requests), a \in 0 .. received : Segment(n, a)
    BY <1>3 DEF NetworkSrv
  <2> QED BY <2>1, NoLossSegment
<1>4. CASE Second
  BY <1>4 DEF Second, NoLoss, tcp, history
<1>5. CASE NetConfig_Restore_Check
  <2>1. CASE cnt_net_restore < 4
    BY <1>5, <2>1 DEF NetConfig_Restore_Check, NoLoss, tcp, history
  <2>2. CASE ~ (cnt_net_restore < 4)
    BY <1>1, <1>5, <2>2 DEF NetConfig_Restore_Check
  <2> QED BY <2>1, <2>2
<1>6. CASE PowerFailure
  BY <1>1, <1>6 DEF PowerFailure
<1>7. CASE ToolReceives
  <2>1. PICK w \in wire : /\ wire' = wire \ {w} /\ sent' = sent /\ sent1' = sent1
                          /\ missed' = missed
                          /\ received' = received \/ received' = w.to
    BY <1>7 DEF ToolReceives
  <2> QED BY <2>1 DEF NoLoss
<1>8. CASE SegmentLost
  BY <1>8 DEF SegmentLost, NoLoss, history
<1>9. CASE Retransmit
  <2>1. /\ wire' = wire \cup {[from |-> 0, to |-> sent1, says |-> m_send_buf]} /\ sent' = sent1
        /\ sent1' = sent1 /\ received' = received /\ missed' = missed
    BY <1>9 DEF Retransmit, history
  <2>2. sent <= sent
    BY <1>0
  <2> QED BY <2>1, <2>2 DEF NoLoss
<1>10. CASE RestoreCut
  BY <1>1, <1>10, RestoreCutIs DEF DeliveryInv
<1>11. CASE UNCHANGED vars
  BY <1>11 DEF NoLoss, vars, tcp, history
<1> QED BY <1>2, <1>3, <1>4, <1>5, <1>6, <1>7, <1>8, <1>9, <1>10, <1>11 DEF Next

(* With up to nine requests without an answer none is lost and none stays   *)
(* unanswered: what OneAnswerEach excepts does not happen, however the      *)
(* requests fall into segments, whatever is lost, sent again or             *)
(* acknowledged late (network.c:86-95, 119-139).                            *)
THEOREM NothingMissed ==
  ASSUME Roomy
  PROVE  Spec => []~missed
<1>1. Init => NoLoss
  BY CommandServiceAssumption DEF Init, NoLoss
<1>2. NoLoss => ~ missed
  BY DEF NoLoss
<1>3. DeliveryInv /\ NoLoss /\ [Next]_vars => NoLoss'
  BY NoLossStep
<1> QED BY <1>1, <1>2, <1>3, DeliveryAlways, PTL DEF Spec

-----------------------------------------------------------------------------
(* The interface.                                                           *)
LEMMA StartedStep == DeliveryInv /\ Started /\ [Next]_vars => Started'
<1> SUFFICES ASSUME DeliveryInv, Started, [Next]_vars PROVE Started'
  OBVIOUS
<1>0. Types /\ Delivery /\ QueueTypes
  BY DEF DeliveryInv, Types
<1>1. CASE Request
  <2>1. PICK f \in Frame : last' = f
    BY <1>1 DEF Request
  <2> QED BY <2>1, FrameFields DEF Started
<1>2. CASE NetworkSrv
  <2>1. PICK n \in 0 .. Len(requests), a \in 0 .. received : Segment(n, a)
    BY <1>2 DEF NetworkSrv
  <2>2. UNCHANGED <<netif, last>>
    BY <2>1 DEF Segment
  <2>3. ASSUME last = NoFrame PROVE memory' = memory
    <3>1. requests = <<>> /\ n = 0
      BY <1>0, <2>3 DEF Delivery
    <3>2. Taken(n) = <<>>
      <4>1. Len(Taken(n)) = Fitting(n) /\ Fitting(n) \in 0 .. n /\ Taken(n) \in Seq(Frame)
        BY <1>0, Parts
      <4> QED BY <3>1, <4>1
    <3>3. memory' = Ended(n, a).memory /\ SameData(Parsed(n, a), Ended(n, a))
          /\ Parsed(n, a) = Acknowledged(a)
      BY <1>0, <2>1, <3>2, SegmentIs
    <3> QED BY <1>0, <3>3, AcknowledgedType DEF SameData
  <2> QED BY <2>2, <2>3 DEF Started
<1>3. CASE Second
  BY <1>3 DEF Second, Started, store, history
<1>4. CASE NetConfig_Restore_Check
  BY <1>4 DEF NetConfig_Restore_Check, Restart, Started, store, history
<1>5. CASE PowerFailure
  BY <1>5 DEF PowerFailure, Restart, Started
<1>6. CASE ToolReceives
  BY <1>6 DEF ToolReceives, Started, store
<1>7. CASE SegmentLost
  BY <1>7 DEF SegmentLost, Started, store, history
<1>8. CASE Retransmit
  BY <1>8 DEF Retransmit, Started, store, history
<1>10. CASE RestoreCut
  BY <1>10 DEF RestoreCut, Restart, Started
<1>9. CASE UNCHANGED vars
  BY <1>9 DEF vars, store, history, Started
<1> QED BY <1>1, <1>2, <1>3, <1>4, <1>5, <1>6, <1>7, <1>8, <1>9, <1>10 DEF Next

(* InterfaceAsShown: whatever was written and stored before.                *)
THEOREM UsedAsShown == Spec => []InterfaceAsShown
<1>1. Init => Started
  BY DEF Init, Started
<1>2. Started => InterfaceAsShown
  BY DEF Started, InterfaceAsShown, LwIP_Init, VarOf
<1> QED BY <1>1, <1>2, DeliveryAlways, StartedStep, PTL DEF Spec

-----------------------------------------------------------------------------
(* What is stored, and what is answered.                                    *)
LEMMA StoredRestart ==
  ASSUME DeliveryInv, NEW m \in [Settings -> Param], Restart(m),
         \A c \in Settings \ Swapped : expected'[c] # Unknown => m[c] = expected'[c]
  PROVE  Stored' /\ Answered'
<1>1. Stored'
  BY LoadedType DEF Restart, Stored, Kept
<1>2. Answered'
  <2>1. NoFrame.dir = 0
    BY DEF NoFrame
  <2>2. last' = NoFrame
    BY DEF Restart
  <2> QED BY <2>1, <2>2 DEF Answered, DIR_READ
<1> QED BY <1>1, <1>2

(* A segment keeps Stored.                                                  *)
LEMMA StoredSegment ==
  ASSUME DeliveryInv, Stored,
         NEW n \in 0 .. Len(requests), NEW a \in 0 .. received, Segment(n, a)
  PROVE  Stored'
<1> DEFINE q == Taken(n)
           b == Acknowledged(a)
           u == Parsed(n, a)
           t == Ended(n, a)
<1>1. Types /\ expected \in [Settings -> Param]
  BY DEF DeliveryInv, Types, BoardTypes
<1>2. /\ SameData(u, t) /\ memory' = t.memory /\ fram' = t.fram
      /\ expected' = FoldLeft(Wrote, expected, q)
  BY <1>1, SegmentIs
<1>3. b \in Board /\ b.memory = memory /\ b.fram = fram
  BY <1>1, AcknowledgedType
<1>4. q \in Seq(Frame)
  BY <1>1, Parts
<1>5. u = ParseDebugCommMsg(b, q)
  BY DEF Parsed
<1> HIDE DEF q, b, u, t
<1>6. ASSUME NEW c \in Settings \ Swapped PROVE Kept(memory', fram', expected', c)
  <2>1. Kept(b.memory, b.fram, expected, c)
    BY <1>3 DEF Stored
  <2>2. Kept(u.memory, u.fram, FoldLeft(Wrote, expected, q), c)
    BY <1>1, <1>3, <1>4, <1>5, <2>1, SegmentKeeps
  <2> QED BY <1>2, <2>2 DEF SameData
<1> QED BY <1>6 DEF Stored

(* A segment without requests leaves the buffer as it is: what goes out     *)
(* with the acknowledgement reads like it.                                  *)
LEMMA AnsweredWithout ==
  ASSUME DeliveryInv, Answered, NEW a \in 0 .. received, 0 \in 0 .. Len(requests), Segment(0, a)
  PROVE  Answered'
<1> DEFINE b == Acknowledged(a)
           k == Freed(a)
           t == tcp_output(b)
<1>1. Types
  BY DEF DeliveryInv
<1>2. Taken(0) = <<>>
  <2>1. Len(Taken(0)) = Fitting(0) /\ Fitting(0) \in 0 .. 0 /\ Taken(0) \in Seq(Frame)
    BY <1>1, Parts
  <2> QED BY <2>1
<1>3. Rest(0) = requests
  <2>1. Rest(0) \in Seq(Frame) /\ Len(Rest(0)) = Len(requests) - 0 /\ requests \in Seq(Frame)
        /\ \A j \in 1 .. Len(requests) - 0 : Rest(0)[j] = requests[0 + j]
    BY <1>1, Parts DEF Types, QueueTypes
  <2> QED BY <2>1
<1>4. /\ memory' = t.memory /\ m_send_buf' = t.answer /\ queued' = t.queued /\ wire' = t.wire
      /\ received' = received - k /\ missed' = missed /\ requests' = requests
      /\ UNCHANGED <<shown, last>>
  <2>1. t = Ended(0, a)
    <3>1. Parsed(0, a) = b
      BY <1>1, <1>2, SegmentIs
    <3> QED BY <3>1 DEF Ended
  <2> HIDE DEF t
  <2> QED BY <1>1, <1>3, <2>1, SegmentIs
<1>5. /\ b \in Board /\ b.memory = memory /\ b.answer = m_send_buf /\ b.queued = queued - k
      /\ \A x \in b.wire : \E w \in wire : w.to > k /\ x.says = w.says /\ x.to = w.to - k
  BY <1>1, AcknowledgedType
<1>6. queued \in Nat /\ received \in Nat /\ k \in Nat /\ \A w \in wire : w.to \in Nat
  BY <1>1, FreedIs DEF Types, QueueTypes, Pieces
<1> HIDE DEF b, k
<1>7. /\ SameData(b, t) /\ t.queued = b.queued
      /\ (\A w \in b.wire : w.to = b.queued => w.says = b.answer)
           => \A w \in t.wire : w.to = t.queued => w.says = t.answer
  BY <1>5, OutputType
<1> HIDE DEF t
<1> SUFFICES ASSUME requests' = <<>>, ~ missed', last'.dir = DIR_READ, last'.cmd \in Settings
             PROVE  /\ m_send_buf'.cmd = last'.cmd /\ m_send_buf'.param = memory'[VarOf[last'.cmd]]
                    /\ \A w \in wire' : w.to = queued' => w.says = m_send_buf'
                    /\ received' = queued' => shown'[last'.cmd] = m_send_buf'.param
  BY DEF Answered
<1>8. /\ m_send_buf.cmd = last.cmd /\ m_send_buf.param = memory[VarOf[last.cmd]]
      /\ \A w \in wire : w.to = queued => w.says = m_send_buf
      /\ received = queued => shown[last.cmd] = m_send_buf.param
  BY <1>4 DEF Answered
<1>9. memory' = memory /\ m_send_buf' = m_send_buf /\ queued' = queued - k
  BY <1>4, <1>5, <1>7 DEF SameData
<1>10. \A x \in b.wire : x.to = b.queued => x.says = b.answer
  <2>1. ASSUME NEW x \in b.wire, x.to = b.queued PROVE x.says = b.answer
    <3>1. PICK w \in wire : w.to > k /\ x.says = w.says /\ x.to = w.to - k
      BY <1>5
    <3>2. w.to = queued
      <4>1. w.to - k = queued - k /\ w.to \in Nat
        BY <1>5, <1>6, <2>1, <3>1
      <4> QED BY <1>6, <4>1
    <3> QED BY <1>5, <1>8, <3>1, <3>2
  <2> QED BY <2>1
<1>11. received' = queued' => received = queued
  BY <1>4, <1>6, <1>9
<1> QED BY <1>4, <1>7, <1>8, <1>9, <1>10, <1>11

(* A segment with requests: if the last one reads a setting and nothing was *)
(* lost, it was among those taken, and its answer is queued last.           *)
LEMMA AnsweredWith ==
  ASSUME DeliveryInv, Answered,
         NEW n \in 0 .. Len(requests), n # 0, NEW a \in 0 .. received, Segment(n, a)
  PROVE  Answered'
<1> DEFINE q == Taken(n)
           c == CutOff(n)
           b == Acknowledged(a)
           k == Freed(a)
           u == Parsed(n, a)
           t == Ended(n, a)
<1>1. Types /\ Delivery
  BY DEF DeliveryInv
<1>2. /\ u \in Board /\ t \in Board /\ SameData(u, t) /\ t.queued = u.queued /\ t.refused = u.refused
      /\ t.queued + t.refused = queued - k + Cardinality(Awaited(q))
      /\ memory' = t.memory /\ m_send_buf' = t.answer /\ queued' = t.queued /\ wire' = t.wire
      /\ received' = received - k
      /\ missed' = IF n = 0 THEN missed ELSE Cardinality(Awaited(c)) + t.refused > 0
      /\ requests' = Rest(n) /\ UNCHANGED <<shown, last>>
  BY <1>1, SegmentIs
<1>3. /\ Fitting(n) \in 0 .. n /\ n \in Nat /\ Len(requests) \in Nat
      /\ q \in Seq(Frame) /\ Len(q) = Fitting(n) /\ \A j \in 1 .. Fitting(n) : q[j] = requests[j]
      /\ c \in Seq(Frame) /\ Len(c) = n - Fitting(n)
      /\ \A j \in 1 .. n - Fitting(n) : c[j] = requests[Fitting(n) + j]
      /\ Len(Rest(n)) = Len(requests) - n
      /\ Cardinality(Awaited(q)) \in Nat /\ Cardinality(Awaited(c)) \in Nat
  BY <1>1, Parts
<1>4. t.refused \in Nat /\ t.queued \in Nat
  BY <1>2 DEF Board, Boards
<1>5. queued \in Nat /\ received \in Nat /\ k \in Nat /\ received <= queued
  BY <1>1, FreedIs DEF Types, QueueTypes
<1> SUFFICES ASSUME requests' = <<>>, ~ missed', last'.dir = DIR_READ, last'.cmd \in Settings
             PROVE  /\ m_send_buf'.cmd = last'.cmd /\ m_send_buf'.param = memory'[VarOf[last'.cmd]]
                    /\ \A w \in wire' : w.to = queued' => w.says = m_send_buf'
                    /\ received' = queued' => shown'[last'.cmd] = m_send_buf'.param
  BY DEF Answered
<1> HIDE DEF k
<1>6. last.dir = DIR_READ /\ last.cmd \in Settings /\ Registered(last.cmd)
  BY <1>2 DEF Registered
<1>7. Cardinality(Awaited(c)) = 0 /\ t.refused = 0
  <2> HIDE DEF t, c
  <2>1. ~ (Cardinality(Awaited(c)) + t.refused > 0)
    BY <1>2
  <2> QED BY <1>3, <1>4, <2>1
<1>8. n = Len(requests) /\ requests[n] = last
  <2>1. Len(Rest(n)) = 0
    BY <1>2
  <2>4. Len(Rest(n)) = Len(requests) - n /\ Len(requests) \in Nat /\ n \in Nat
    BY <1>3
  <2>2. n = Len(requests)
    BY <2>1, <2>4
  <2>3. requests # <<>>
    BY <1>3, <2>2
  <2> QED BY <1>1, <2>2, <2>3 DEF Delivery
<1>9. Fitting(n) = n
  <2> SUFFICES ASSUME Fitting(n) # n PROVE FALSE
    OBVIOUS
  <2> HIDE DEF c
  <2>1. n - Fitting(n) \in 1 .. n - Fitting(n) /\ Fitting(n) + (n - Fitting(n)) = n
    BY <1>3
  <2>2. c[n - Fitting(n)] = last /\ n - Fitting(n) \in DOMAIN c
    BY <1>3, <1>8, <2>1
  <2>3. n - Fitting(n) \in Awaited(c)
    BY <1>6, <2>2 DEF Awaited
  <2>4. IsFiniteSet(Awaited(c))
    <3>1. Awaited(c) = AwaitedOf(c, Len(c)) /\ Len(c) \in Nat
      BY <1>3 DEF Awaited, AwaitedOf
    <3> QED BY <3>1, CountStep
  <2> QED BY <1>7, <2>3, <2>4, FS_EmptySet
<1>10. q # <<>> /\ q[Len(q)] = last
  <2> HIDE DEF q
  <2>1. n \in 1 .. n /\ Len(q) = n
    BY <1>3, <1>9
  <2> QED BY <1>3, <1>8, <1>9, <2>1
<1>11. /\ u.answer.cmd = last.cmd /\ u.answer.param = u.memory[VarOf[last.cmd]]
       /\ \A w \in u.wire : w.to = u.queued => w.says = u.answer
  <2>1. b \in Board
    BY <1>1, AcknowledgedType
  <2>2. u = ParseDebugCommMsg(b, q)
    BY DEF Parsed
  <2>3. u.refused = 0
    BY <1>2, <1>7
  <2> HIDE DEF b, q, u, t
  <2>4. q[Len(q)].cmd \in Settings /\ q[Len(q)].dir = DIR_READ
    BY <1>6, <1>10
  <2> QED BY <1>3, <1>10, <2>1, <2>2, <2>3, <2>4, SegmentLast
<1>12. \A w \in t.wire : w.to = t.queued => w.says = t.answer
  <2>1. t = tcp_output(u)
    BY DEF Ended
  <2> HIDE DEF t, u
  <2> QED BY <1>2, <1>11, <2>1, OutputType
<1>13. received' # queued'
  <2>1. Cardinality(Awaited(q)) # 0
    <3> HIDE DEF q
    <3>1. Len(q) \in Awaited(q)
      BY <1>3, <1>6, <1>9, <1>10 DEF Awaited
    <3>2. IsFiniteSet(Awaited(q))
      <4>1. Awaited(q) = AwaitedOf(q, Len(q)) /\ Len(q) \in Nat
        BY <1>3 DEF Awaited, AwaitedOf
      <4> QED BY <4>1, CountStep
    <3> QED BY <3>1, <3>2, FS_EmptySet
  <2> HIDE DEF q, t
  <2>2. t.queued = (queued - k) + Cardinality(Awaited(q))
    BY <1>2, <1>4, <1>7
  <2>3. queued' = t.queued /\ received' = received - k
    BY <1>2
  <2> QED BY <1>3, <1>5, <2>1, <2>2, <2>3
<1> HIDE DEF t, u
<1> QED BY <1>2, <1>11, <1>12, <1>13 DEF SameData

(* The answers the tool receives keep Answered.                             *)
LEMMA AnsweredReceives ==
  ASSUME DeliveryInv, Answered, ToolReceives
  PROVE  Answered'
<1>1. PICK w \in wire :
        /\ wire' = wire \ {w}
        /\ IF w.to <= received THEN UNCHANGED <<received, unanswered, shown>>
           ELSE /\ received' = w.to /\ unanswered' = unanswered - (w.to - received)
                /\ shown' = DealData(shown, w.says)
        /\ UNCHANGED <<store, m_send_buf, queued, requests, missed, last>>
  BY DEF ToolReceives
<1>2. memory' = memory
  BY <1>1 DEF store
<1> SUFFICES ASSUME requests' = <<>>, ~ missed', last'.dir = DIR_READ, last'.cmd \in Settings
             PROVE  /\ m_send_buf'.cmd = last'.cmd /\ m_send_buf'.param = memory'[VarOf[last'.cmd]]
                    /\ \A x \in wire' : x.to = queued' => x.says = m_send_buf'
                    /\ received' = queued' => shown'[last'.cmd] = m_send_buf'.param
  BY DEF Answered
<1>3. /\ m_send_buf.cmd = last.cmd /\ m_send_buf.param = memory[VarOf[last.cmd]]
      /\ \A x \in wire : x.to = queued => x.says = m_send_buf
      /\ received = queued => shown[last.cmd] = m_send_buf.param
      /\ last.cmd \in Settings
  BY <1>1 DEF Answered
<1>4. received' = queued => shown'[last.cmd] = m_send_buf.param
  <2>1. CASE w.to <= received
    BY <1>1, <1>3, <2>1
  <2>2. CASE ~ (w.to <= received)
    <3>1. received' = w.to /\ shown' = DealData(shown, w.says)
      BY <1>1, <2>2
    <3>2. shown \in [Settings -> Param] /\ w.says \in Answer
      BY DEF DeliveryInv, Types, BoardTypes, QueueTypes, Pieces
    <3>3. DealData(shown, w.says)[w.says.cmd] = w.says.param \/ w.says.cmd \notin Settings
      BY <3>2, DealType
    <3> QED BY <1>3, <3>1, <3>3
  <2> QED BY <2>1, <2>2
<1> QED BY <1>1, <1>2, <1>3, <1>4

(* Every step keeps Stored and Answered.                                    *)
LEMMA StoredStep == DeliveryInv /\ Stored /\ Answered /\ [Next]_vars => Stored' /\ Answered'
<1> SUFFICES ASSUME DeliveryInv, Stored, Answered, [Next]_vars PROVE Stored' /\ Answered'
  OBVIOUS
<1>0. Types /\ BoardTypes /\ QueueTypes /\ fram \in [Settings -> Param]
      /\ expected \in [Settings -> Param]
  BY DEF DeliveryInv, Types, BoardTypes
<1>1. CASE Request
  <2>1. PICK f \in Frame : requests' = Append(requests, f)
    BY <1>1 DEF Request
  <2>2. requests' # <<>>
    BY <1>0, <2>1 DEF QueueTypes
  <2>3. UNCHANGED <<memory, fram, expected>>
    BY <1>1 DEF Request, store
  <2> QED BY <2>2, <2>3 DEF Stored, Answered
<1>2. CASE NetworkSrv
  <2>1. PICK n \in 0 .. Len(requests), a \in 0 .. received : Segment(n, a)
    BY <1>2 DEF NetworkSrv
  <2>2. Stored'
    BY <2>1, StoredSegment
  <2>3. CASE n = 0
    BY <2>1, <2>2, <2>3, AnsweredWithout
  <2>4. CASE n # 0
    BY <2>1, <2>2, <2>4, AnsweredWith
  <2> QED BY <2>3, <2>4
<1>3. CASE Second
  BY <1>3 DEF Second, Stored, Answered, store, tcp, history
<1>4. CASE NetConfig_Restore_Check
  <2>1. CASE cnt_net_restore < 4
    BY <1>4, <2>1 DEF NetConfig_Restore_Check, Stored, Answered, store, tcp, history
  <2>2. CASE ~ (cnt_net_restore < 4)
    <3>1. Restart(network_restore_def(fram, 3)) /\ expected' = network_restore_def(expected, 3)
      BY <1>4, <2>2 DEF NetConfig_Restore_Check
    <3>2. network_restore_def(fram, 3) \in [Settings -> Param]
      BY <1>0, DefaultType, 3 \in 0 .. 3
    <3>3. \A c \in Settings \ Swapped :
            expected'[c] # Unknown => network_restore_def(fram, 3)[c] = expected'[c]
      BY <3>1 DEF Stored, Kept, network_restore_def
    <3> QED BY <3>1, <3>2, <3>3, StoredRestart
  <2> QED BY <2>1, <2>2
<1>5. CASE PowerFailure
  <2>1. CASE Restart(fram) /\ expected' = expected
    <3>1. \A c \in Settings \ Swapped : expected'[c] # Unknown => fram[c] = expected'[c]
      BY <2>1 DEF Stored, Kept
    <3> QED BY <1>0, <2>1, <3>1, StoredRestart
  <2>2. ASSUME NEW e \in Settings, Restart([fram EXCEPT ![e] = Torn]),
               expected' = [expected EXCEPT ![e] = Unknown]
        PROVE  Stored' /\ Answered'
    <3> DEFINE m == [fram EXCEPT ![e] = Torn]
    <3>1. m \in [Settings -> Param]
      BY <1>0, DefaultType
    <3>2. \A c \in Settings \ Swapped : expected'[c] # Unknown => m[c] = expected'[c]
      BY <1>0, <2>2 DEF Stored, Kept
    <3> QED BY <2>2, <3>1, <3>2, StoredRestart
  <2> QED BY <1>0, <1>5, <2>1, <2>2, PowerFailureIs
<1>10. CASE RestoreCut
  <2>1. PICK n \in 0 .. 2 :
          \/ /\ Restart(network_restore_def(fram, n))
             /\ expected' = network_restore_def(expected, n)
          \/ \E c \in Settings :
               /\ Restart([network_restore_def(fram, n) EXCEPT ![c] = Torn])
               /\ expected' = [network_restore_def(expected, n) EXCEPT ![c] = Unknown]
    BY <1>0, <1>10, RestoreCutIs
  <2> DEFINE m == network_restore_def(fram, n)
             x == network_restore_def(expected, n)
  <2>2. m \in [Settings -> Param] /\ x \in [Settings -> Param]
    BY <1>0, DefaultType
  <2>3. \A c \in Settings \ Swapped : x[c] # Unknown => m[c] = x[c]
    BY DEF Stored, Kept, network_restore_def
  <2> HIDE DEF m, x
  <2>4. CASE Restart(m) /\ expected' = x
    BY <2>2, <2>3, <2>4, StoredRestart
  <2>5. ASSUME NEW e \in Settings, Restart([m EXCEPT ![e] = Torn]),
               expected' = [x EXCEPT ![e] = Unknown]
        PROVE  Stored' /\ Answered'
    <3> DEFINE r == [m EXCEPT ![e] = Torn]
    <3>1. r \in [Settings -> Param]
      BY <2>2, DefaultType
    <3>2. \A c \in Settings \ Swapped : expected'[c] # Unknown => r[c] = expected'[c]
      BY <2>2, <2>3, <2>5
    <3> QED BY <2>5, <3>1, <3>2, StoredRestart
  <2> QED BY <2>1, <2>4, <2>5 DEF m, x
<1>6. CASE ToolReceives
  <2>1. UNCHANGED <<memory, fram, expected>>
    BY <1>6 DEF ToolReceives, store
  <2>2. Stored'
    BY <2>1 DEF Stored
  <2> QED BY <1>6, <2>2, AnsweredReceives
<1>7. CASE SegmentLost
  <2>1. wire' \subseteq wire
        /\ UNCHANGED <<memory, fram, expected, m_send_buf, queued, received, requests, missed,
                       last, shown>>
    BY <1>7 DEF SegmentLost, store, history
  <2> QED BY <2>1 DEF Stored, Answered
<1>8. CASE Retransmit
  <2>1. /\ wire' = wire \cup {[from |-> 0, to |-> sent1, says |-> m_send_buf]}
        /\ UNCHANGED <<memory, fram, expected, m_send_buf, queued, received, requests, missed,
                       last, shown>>
    BY <1>8 DEF Retransmit, store, history
  <2>2. \A w \in wire' : w \in wire \/ w.says = m_send_buf
    BY <2>1
  <2> QED BY <2>1, <2>2 DEF Stored, Answered
<1>9. CASE UNCHANGED vars
  BY <1>9 DEF vars, store, tcp, history, Stored, Answered
<1> QED BY <1>1, <1>2, <1>3, <1>4, <1>5, <1>6, <1>7, <1>8, <1>9, <1>10 DEF Next

(* Stored and Answered are invariants.                                      *)
LEMMA StoredAlways == Spec => [](DeliveryInv /\ Stored /\ Answered)
<1>1. Init => Stored /\ Answered
  <2> SUFFICES ASSUME Init PROVE Stored /\ Answered
    OBVIOUS
  <2>1. NoFrame.dir = 0
    BY DEF NoFrame
  <2>2. Stored
    BY DefaultType, LoadedType DEF Init, Stored, Kept
  <2>3. last = NoFrame
    BY DEF Init
  <2>4. Answered
    BY <2>1, <2>3 DEF Answered, DIR_READ
  <2> QED BY <2>2, <2>4
<1> QED BY <1>1, DeliveryInit, DeliveryStep, StoredStep, PTL DEF Spec

(* ReadsBack, of every setting that is loaded from where it is stored.      *)
THEOREM ReadsBackOthers == Spec => [](last.cmd \notin Swapped => ReadsBack)
<1>1. Stored /\ Answered => (last.cmd \notin Swapped => ReadsBack)
  <2> SUFFICES ASSUME Stored, Answered, last.cmd \notin Swapped, Quiet,
                      last.dir = DIR_READ, last.cmd \in Settings, expected[last.cmd] # Unknown
               PROVE  shown[last.cmd] = expected[last.cmd]
    BY DEF ReadsBack
  <2>1. requests = <<>> /\ received = queued /\ ~ missed
    BY DEF Quiet
  <2>2. m_send_buf.param = memory[VarOf[last.cmd]] /\ shown[last.cmd] = m_send_buf.param
    BY <2>1 DEF Answered
  <2>3. memory[VarOf[last.cmd]] = expected[last.cmd]
    BY DEF Stored, Kept
  <2> QED BY <2>2, <2>3
<1> QED BY <1>1, StoredAlways, PTL

-----------------------------------------------------------------------------
(* The clock.                                                               *)
LEMMA ClockRestart ==
  ASSUME Types, Clock, NEW m, Restart(m)
  PROVE  Clock'
<1>1. rtc \in Nat /\ trueTime \in Nat /\ ticks \in Nat /\ ticks' = ticks
  BY CommandServiceAssumption DEF Types, BoardTypes, Restart
<1>2. /\ rtc' = check_rtc_exist(rtc)
      /\ trueTime' = IF Forgotten(trueTime) /\ rtc' # rtc THEN Seconds(DefaultDate) ELSE trueTime
  BY DEF Restart
<1>3. rtc = trueTime /\ YearStart(2012) <= trueTime /\ trueTime < YearStart(2023) + ticks
  BY DEF Clock
<1>4. /\ Seconds(DefaultDate) \in Nat /\ YearStart(2012) <= Seconds(DefaultDate)
      /\ Seconds(DefaultDate) < YearStart(2023)
  BY DefaultDateRight, SecondsIn
<1>5. YearStart(2023) \in Nat
  BY NamedYears
<1>6. CASE rtc' = rtc
  BY <1>1, <1>2, <1>3, <1>6 DEF Clock
<1>7. CASE rtc' # rtc
  <2>1. rtc' = Seconds(DefaultDate) /\ ~ valid_datetime(datetime_convert(rtc))
    BY <1>1, <1>2, <1>7, RtcChecked
  <2>2. Forgotten(trueTime)
    <3> SUFFICES ASSUME ~ Forgotten(trueTime) PROVE FALSE
      OBVIOUS
    <3>1. ~ StartsMonth(trueTime) /\ ~ (trueTime >= YearStart(2023))
      BY After2022 DEF Forgotten
    <3> QED BY <1>1, <1>3, <1>5, <2>1, <3>1, ConvertValid
  <2>3. trueTime' = Seconds(DefaultDate)
    BY <1>2, <1>7, <2>2
  <2> QED BY <1>1, <1>4, <1>5, <2>1, <2>3 DEF Clock
<1> QED BY <1>6, <1>7

(* Every step keeps Clock, when no date is in January.                      *)
LEMMA ClockStep ==
  ASSUME \A d \in Dates : d[2] # 1
  PROVE  DeliveryInv /\ Clock /\ [Next]_vars => Clock'
<1> SUFFICES ASSUME DeliveryInv, Clock, [Next]_vars PROVE Clock'
  OBVIOUS
<1>0. Types
  BY DEF DeliveryInv
<1>1. CASE Request
  BY <1>1 DEF Request, clock, Clock
<1>2. CASE NetworkSrv
  <2>1. PICK n \in 0 .. Len(requests), a \in 0 .. received : Segment(n, a)
    BY <1>2 DEF NetworkSrv
  <2> DEFINE q == Taken(n)
             t == ParseDebugCommMsg(Acknowledged(a), q)
             k == Max(DateWrites(q))
  <2>2. q \in Seq(Frame) /\ rtc' = t.rtc /\ TimeSet(q)
    <3>1. q \in Seq(Frame)
      BY <1>0, Parts
    <3>2. rtc' = Ended(n, a).rtc /\ SameData(Parsed(n, a), Ended(n, a)) /\ TimeSet(q)
      BY <1>0, <2>1, SegmentIs
    <3> QED BY <3>1, <3>2 DEF SameData, Parsed
  <2>3. Acknowledged(a) \in Board /\ Acknowledged(a).rtc = rtc
    BY <1>0, AcknowledgedType
  <2> HIDE DEF q
  <2>4. CASE DateWrites(q) = {}
    <3>1. t.rtc = Acknowledged(a).rtc
      BY <2>2, <2>3, <2>4, SegmentDate
    <3> QED BY <2>2, <2>3, <2>4, <3>1 DEF TimeSet, Clock
  <2>5. CASE DateWrites(q) # {}
    <3>1. PICK d \in Dates : q[k].param = datetime_zip(d)
      BY <2>2, <2>3, <2>5, SegmentDate
    <3>2. t.rtc = datetime_mktime(datetime_unzip(q[k].param))
      BY <2>2, <2>3, <2>5, SegmentDate
    <3> DEFINE e == datetime_unzip(datetime_zip(d))
    <3>3. trueTime' = Seconds(e) /\ ticks' = 0
      BY <2>2, <2>5, <3>1 DEF TimeSet
    <3>4. rtc' = Seconds(e) /\ Settable(e)
      BY <2>2, <3>1, <3>2, DateSet
    <3>5. Seconds(e) \in Nat /\ YearStart(2012) <= Seconds(e) /\ Seconds(e) < YearStart(2023)
      BY <3>4, SecondsIn
    <3>6. YearStart(2023) \in Nat
      BY NamedYears
    <3> HIDE DEF e
    <3> QED BY <3>3, <3>4, <3>5, <3>6 DEF Clock
  <2> QED BY <2>4, <2>5
<1>3. CASE Second
  <2>1. rtc' = rtc + 1 /\ trueTime' = trueTime + 1 /\ ticks' = ticks + 1
    BY <1>3 DEF Second
  <2>2. trueTime \in Nat /\ ticks \in Nat /\ YearStart(2023) \in Nat /\ YearStart(2012) \in Nat
    <3>1. YearStart(2023) \in Nat /\ YearStart(2012) \in Nat
      BY NamedYears
    <3> QED BY <1>0, <3>1, CommandServiceAssumption DEF Types, BoardTypes
  <2> QED BY <2>1, <2>2 DEF Clock
<1>4. CASE NetConfig_Restore_Check
  <2>1. CASE cnt_net_restore < 4
    BY <1>4, <2>1 DEF NetConfig_Restore_Check, clock, Clock
  <2>2. CASE ~ (cnt_net_restore < 4)
    BY <1>0, <1>4, <2>2, ClockRestart DEF NetConfig_Restore_Check
  <2> QED BY <2>1, <2>2
<1>5. CASE PowerFailure
  BY <1>0, <1>5, ClockRestart DEF PowerFailure
<1>6. CASE ToolReceives
  BY <1>6 DEF ToolReceives, clock, Clock
<1>7. CASE SegmentLost
  BY <1>7 DEF SegmentLost, clock, Clock
<1>8. CASE Retransmit
  BY <1>8 DEF Retransmit, clock, Clock
<1>10. CASE RestoreCut
  BY <1>0, <1>10, ClockRestart DEF RestoreCut
<1>9. CASE UNCHANGED vars
  BY <1>9 DEF vars, clock, Clock
<1> QED BY <1>1, <1>2, <1>3, <1>4, <1>5, <1>6, <1>7, <1>8, <1>9, <1>10 DEF Next

(* Clock holds at first.                                                    *)
LEMMA ClockInit == Init => Clock
<1> SUFFICES ASSUME Init PROVE Clock
  OBVIOUS
<1>1. /\ Seconds(DefaultDate) \in Nat /\ YearStart(2012) <= Seconds(DefaultDate)
      /\ Seconds(DefaultDate) < YearStart(2023)
  BY DefaultDateRight, SecondsIn
<1>2. rtc = check_rtc_exist(0) /\ trueTime = Seconds(DefaultDate) /\ ticks = 0
  BY DEF Init
<1>3. check_rtc_exist(0) = Seconds(DefaultDate)
  <2>1. YearOf(0) = 2000
    <3>1. 0 < To2100 /\ 0 \in Nat
      BY SMT DEF To2100, SecsPerFourYear
    <3>2. /\ YearOf(0) \in Years /\ 0 = YearStart(YearOf(0)) + InYear(0) /\ InYear(0) \in Nat
      BY <3>1, YearRight
    <3>3. YearOf(0) # 2000 => YearStart(2001) \in Nat /\ YearStart(2001) <= YearStart(YearOf(0))
      <4> SUFFICES ASSUME YearOf(0) # 2000 PROVE YearStart(2001) <= YearStart(YearOf(0))
        BY NamedYears
      <4>1. YearOf(0) \in YearsEnd /\ 2001 <= YearOf(0)
        BY <3>2 DEF Years, YearsEnd
      <4> QED BY <4>1, YearsGrow, YearsIn
    <3>4. YearStart(2001) > 0
      BY SMT DEF YearStart, SecsPerDay
    <3>5. YearStart(YearOf(0)) \in Nat
      BY <3>2, YearStartNat
    <3> QED BY <3>2, <3>3, <3>4, <3>5
  <2>2. datetime_convert(0)[1] = YearOf(0)
    <3>1. datetime_convert(0) =
            IF InYear(0) = 0 THEN <<YearOf(0), 0, 0, 0, 0, 0>>
            ELSE <<YearOf(0), MonthOf(0), InMonth(0) \div SecsPerDay + 1,
                   InDay(0) \div 3600, (InDay(0) % 3600) \div 60, InDay(0) % 60>>
      BY Converted
    <3> QED BY <3>1
  <2>3. ~ valid_datetime(datetime_convert(0))
    BY <2>1, <2>2 DEF valid_datetime
  <2> QED BY <2>3, DefaultDateRight DEF check_rtc_exist
<1>4. YearStart(2023) \in Nat
  BY NamedYears
<1> QED BY <1>1, <1>2, <1>3, <1>4 DEF Clock

(* ClockKept, for dates outside January, which datetime_mktime miscounts,   *)
(* as long as the seconds after the last date set do not reach 2100, which  *)
(* datetime_convert takes for a leap year.                                  *)
THEOREM ClockRight ==
  ASSUME \A d \in Dates : d[2] # 1,
         MaxTicks <= To2100 - YearStart(2023)
  PROVE  Spec => []ClockKept
<1>1. DeliveryInv /\ Clock => ClockKept
  <2> SUFFICES ASSUME DeliveryInv, Clock, ~ StartsMonth(trueTime)
               PROVE  IsDate(datetime_convert(rtc)) /\ Seconds(datetime_convert(rtc)) = trueTime
    BY DEF ClockKept
  <2>1. trueTime \in Nat /\ ticks \in Nat /\ ticks <= MaxTicks /\ MaxTicks \in Nat
    BY CommandServiceAssumption DEF DeliveryInv, Types, BoardTypes
  <2>2. YearStart(2023) \in Nat /\ To2100 \in Nat
    <3>1. YearStart(2023) \in Nat
      BY NamedYears
    <3>2. To2100 \in Nat
      BY SMT DEF To2100, SecsPerFourYear
    <3> QED BY <3>1, <3>2
  <2>3. trueTime < To2100
    BY <2>1, <2>2 DEF Clock
  <2> QED BY <2>1, <2>3, ConvertRight DEF Clock
<1>2. DeliveryInv /\ Clock /\ [Next]_vars => Clock'
  BY ClockStep
<1> QED BY <1>1, <1>2, ClockInit, DeliveryAlways, PTL DEF Spec
=============================================================================
