---------------------------- MODULE ClockProofs ----------------------------
(***************************************************************************)
(* Theorems about the schedules of the automation, for every calendar,     *)
(* every expression and every length of tick.                              *)
(***************************************************************************)
EXTENDS AutomationClock, FiniteSetTheorems, TLAPS

-----------------------------------------------------------------------------
(* Numbers.                                                                *)

LEMMA Division ==
  ASSUME NEW a \in Nat, NEW b \in Nat \ {0}
  PROVE  a \div b \in Nat /\ a % b \in 0..b - 1 /\ a = b * (a \div b) + (a % b)
OBVIOUS

LEMMA Multiples ==
  ASSUME NEW a \in Nat, NEW b \in Nat, NEW k \in Nat, a <= b
  PROVE  a * k <= b * k
OBVIOUS

\* Quotient and remainder order numbers as pairs do.
LEMMA QuotientsIncrease ==
  ASSUME NEW a \in Nat, NEW c \in Nat, NEW b \in Nat \ {0}, a < c
  PROVE  a \div b < c \div b \/ (a \div b = c \div b /\ a % b < c % b)
<1> DEFINE p == a \div b  q == c \div b
<1>1. /\ p \in Nat /\ q \in Nat /\ a % b \in 0..b - 1 /\ c % b \in 0..b - 1
      /\ a = b * p + (a % b) /\ c = b * q + (c % b)
  BY Division
<1> HIDE DEF p, q
<1>2. CASE q < p
  <2>1. (q + 1) * b <= p * b
    BY <1>1, <1>2, Multiples
  <2>2. b * q + b <= b * p
    BY <1>1, <2>1
  <2> QED
    BY <1>1, <2>2
<1>3. CASE p = q
  BY <1>1, <1>3 DEF p, q
<1>4. CASE p < q
  BY <1>4 DEF p, q
<1> QED
  BY <1>1, <1>2, <1>3, <1>4

\* A number has one quotient and one remainder.
LEMMA DivisionIsUnique ==
  ASSUME NEW q \in Nat, NEW b \in Nat \ {0}, NEW r \in 0..b - 1
  PROVE  (b * q + r) \div b = q /\ (b * q + r) % b = r
<1> DEFINE a == b * q + r
           p == a \div b
           s == a % b
<1>1. a \in Nat
  OBVIOUS
<1>2. p \in Nat /\ s \in 0..b - 1 /\ a = b * p + s
  BY <1>1, Division
<1>3. a = b * q + r
  OBVIOUS
<1> HIDE DEF a, p, s
<1>4. ~(p < q)
  <2> SUFFICES ASSUME p < q PROVE FALSE
    OBVIOUS
  <2>1. (p + 1) * b <= q * b
    BY <1>2, Multiples
  <2>2. b * p + b <= b * q
    BY <1>2, <2>1
  <2> QED
    BY <1>2, <1>3, <2>2
<1>5. ~(q < p)
  <2> SUFFICES ASSUME q < p PROVE FALSE
    OBVIOUS
  <2>1. (q + 1) * b <= p * b
    BY <1>2, Multiples
  <2>2. b * q + b <= b * p
    BY <1>2, <2>1
  <2> QED
    BY <1>2, <1>3, <2>2
<1>6. p = q
  BY <1>2, <1>4, <1>5
<1>7. s = r
  BY <1>2, <1>3, <1>6
<1> QED
  BY <1>6, <1>7 DEF a, p, s

\* p lists the numbers of I in their order, and r what s has there.
Lists(p, r, s, I) ==
  /\ p \in [1..Cardinality(I) -> I]
  /\ \A m, n \in 1..Cardinality(I) : m < n => p[m] < p[n]
  /\ \A i \in I : \E n \in 1..Cardinality(I) : p[n] = i
  /\ r = [n \in 1..Cardinality(I) |-> s[p[n]]]

\* The places of a set of numbers in their order.
LEMMA Places ==
  ASSUME NEW I, I \subseteq Nat, IsFiniteSet(I), NEW s
  PROVE  \E p : Lists(p, AtPlaces(s, I), s, I)
<1> DEFINE down(i) == {j \in I : j <= i}
           T == 1..Cardinality(I)
           rank == [i \in I |-> Cardinality(down(i))]
           pick(n) == CHOOSE i \in I : Cardinality(down(i)) = n
           p == [n \in T |-> pick(n)]
<1>1. Cardinality(I) \in Nat /\ IsFiniteSet(T) /\ Cardinality(T) = Cardinality(I)
  BY FS_CardinalityType, FS_Interval
<1>2. ASSUME NEW i \in I PROVE IsFiniteSet(down(i)) /\ Cardinality(down(i)) \in T
  <2>1. /\ IsFiniteSet(down(i)) /\ Cardinality(down(i)) <= Cardinality(I)
        /\ Cardinality(down(i)) \in Nat
    BY FS_Subset, FS_CardinalityType
  <2>2. down(i) # {}
    OBVIOUS
  <2>3. Cardinality(down(i)) # 0
    BY <2>1, <2>2, FS_EmptySet
  <2> QED
    BY <1>1, <2>1, <2>3
<1>3. ASSUME NEW i \in I, NEW j \in I, i < j PROVE Cardinality(down(i)) < Cardinality(down(j))
  <2>0. i \in Nat /\ j \in Nat
    OBVIOUS
  <2>1. down(i) \subseteq down(j) /\ j \in down(j) \ down(i)
    <3>1. \A x \in I : x \in Nat /\ (x <= i => x <= j)
      BY <1>3, <2>0
    <3>2. down(i) \subseteq down(j)
      BY <3>1
    <3>3. j <= j /\ ~(j <= i)
      BY <1>3, <2>0
    <3> QED
      BY <3>2, <3>3
  <2>2. /\ Cardinality(down(i)) <= Cardinality(down(j))
        /\ Cardinality(down(i)) # Cardinality(down(j))
    BY <1>2, <2>1, FS_Subset
  <2>3. Cardinality(down(i)) \in Nat /\ Cardinality(down(j)) \in Nat
    BY <1>2
  <2> HIDE DEF down
  <2> QED
    BY <2>2, <2>3
<1>4. rank \in Injection(I, T)
  <2>1. rank \in [I -> T]
    BY <1>2
  <2>2. \A i, j \in I : rank[i] = rank[j] => i = j
    <3> SUFFICES ASSUME NEW i \in I, NEW j \in I, i # j PROVE rank[i] # rank[j]
      OBVIOUS
    <3>1. i < j \/ j < i
      OBVIOUS
    <3>2. Cardinality(down(i)) \in Nat /\ Cardinality(down(j)) \in Nat
      BY <1>2
    <3> HIDE DEF down
    <3> QED
      BY <1>3, <3>1, <3>2
  <2> QED
    BY <2>1, <2>2 DEF Injection, IsInjective
<1>5. rank \in Surjection(I, T)
  <2> HIDE DEF rank, T
  <2> QED
    BY <1>1, <1>4, FS_Injection
<1>6. ASSUME NEW n \in T PROVE p[n] \in I /\ Cardinality(down(p[n])) = n
  <2>1. \E i \in I : rank[i] = n
    <3> HIDE DEF rank, T, p
    <3> QED
      BY <1>5 DEF Surjection
  <2>2. \E i \in I : Cardinality(down(i)) = n
    BY <2>1
  <2>3. p[n] = CHOOSE i \in I : Cardinality(down(i)) = n
    OBVIOUS
  <2> HIDE DEF down, p
  <2> QED
    BY <2>2, <2>3
<1>7. p \in [T -> I]
  <2>1. \A n \in T : pick(n) \in I
    BY <1>6
  <2> HIDE DEF pick, T
  <2> QED
    BY <2>1
<1>8. ASSUME NEW m \in T, NEW n \in T, m < n PROVE p[m] < p[n]
  <2>1. /\ p[m] \in I /\ p[n] \in I
        /\ Cardinality(down(p[m])) = m /\ Cardinality(down(p[n])) = n
    BY <1>6
  <2> DEFINE i == p[m]  j == p[n]
  <2>2. i \in I /\ j \in I /\ Cardinality(down(i)) = m /\ Cardinality(down(j)) = n
    BY <2>1
  <2>3. m \in Nat /\ n \in Nat
    BY <1>1
  <2> HIDE DEF i, j, p, down
  <2>4. ~(j < i)
    BY <1>3, <1>8, <2>2, <2>3
  <2>5. i # j
    BY <1>8, <2>2, <2>3
  <2>6. i \in Nat /\ j \in Nat
    BY <2>2
  <2>7. i < j
    BY <2>4, <2>5, <2>6
  <2> QED
    BY <2>7 DEF i, j
<1>9. ASSUME NEW i \in I PROVE \E n \in T : p[n] = i
  <2> DEFINE n == Cardinality(down(i))  j == p[n]
  <2>1. n \in T
    BY <1>2
  <2>2. j \in I /\ Cardinality(down(j)) = n
    <3> HIDE DEF p, down, n
    <3> QED
      BY <1>6, <2>1
  <2>3. j = i
    <3>1. i \in Nat /\ j \in Nat
      BY <2>2
    <3>2. n \in Nat /\ Cardinality(down(i)) = n
      BY <1>1, <2>1
    <3> HIDE DEF down, n, j
    <3>3. ~(i < j) /\ ~(j < i)
      BY <1>3, <2>2, <3>2
    <3> QED
      BY <3>1, <3>3
  <2> HIDE DEF n, p
  <2> QED
    BY <2>1, <2>3 DEF j
<1>10. AtPlaces(s, I) = [n \in T |-> s[p[n]]]
  BY DEF AtPlaces
<1> HIDE DEF p
<1> QED
  BY <1>7, <1>8, <1>9, <1>10 DEF Lists

-----------------------------------------------------------------------------
(* The walk.                                                               *)

Increasing(s) == \A i, j \in DOMAIN s : i < j => s[i] < s[j]

\* r has the numbers s has in I, in the order of I.
Selects(r, s, I) ==
  /\ r \in Seq({s[i] : i \in I}) /\ Len(r) = Cardinality(I) /\ Cardinality(I) \in Nat
  /\ \A n \in DOMAIN r : \E i \in I : r[n] = s[i]
  /\ \A i \in I : \E n \in DOMAIN r : r[n] = s[i]
  /\ (\A i, j \in I : i < j => s[i] < s[j]) => Increasing(r)

\* What AtPlaces returns.
LEMMA PlacesOfNumbers ==
  ASSUME NEW I, I \subseteq Nat, IsFiniteSet(I), NEW s
  PROVE  Selects(AtPlaces(s, I), s, I)
<1>1. Cardinality(I) \in Nat
  BY FS_CardinalityType
<1> DEFINE T == 1..Cardinality(I)
           r == AtPlaces(s, I)
<1> HIDE DEF r
<1>2. PICK p : Lists(p, r, s, I)
  BY Places DEF r
<1>3. /\ p \in [T -> I] /\ r = [n \in T |-> s[p[n]]]
      /\ \A m, n \in T : m < n => p[m] < p[n]
      /\ \A i \in I : \E n \in T : p[n] = i
  BY <1>2 DEF Lists
<1> HIDE DEF T
<1>4. /\ r \in [T -> {s[i] : i \in I}] /\ DOMAIN r = T
      /\ \A n \in T : p[n] \in I /\ r[n] = s[p[n]]
  BY <1>3
<1>5. r \in Seq({s[i] : i \in I}) /\ Len(r) = Cardinality(I)
  BY <1>1, <1>4 DEF T
<1>6. \A n \in DOMAIN r : \E i \in I : r[n] = s[i]
  BY <1>4
<1>7. \A i \in I : \E n \in DOMAIN r : r[n] = s[i]
  BY <1>3, <1>4
<1>8. (\A i, j \in I : i < j => s[i] < s[j]) => Increasing(r)
  <2> SUFFICES ASSUME \A i, j \in I : i < j => s[i] < s[j],
                      NEW m \in T, NEW n \in T, m < n
               PROVE  r[m] < r[n]
    BY <1>4 DEF Increasing
  <2>1. p[m] \in I /\ p[n] \in I /\ p[m] < p[n]
    BY <1>3, <1>4
  <2> QED
    BY <1>4, <2>1
<1> QED
  BY <1>1, <1>5, <1>6, <1>7, <1>8 DEF Selects, r

\* What it returns of a sequence.
LEMMA PlacesOfSequence ==
  ASSUME NEW X, NEW s \in Seq(X), NEW I, I \subseteq DOMAIN s
  PROVE  /\ AtPlaces(s, I) \in Seq(X)
         /\ \A n \in DOMAIN AtPlaces(s, I) : \E i \in I : AtPlaces(s, I)[n] = s[i]
         /\ \A i \in I : \E n \in DOMAIN AtPlaces(s, I) : AtPlaces(s, I)[n] = s[i]
         /\ Increasing(s) => Increasing(AtPlaces(s, I))
         /\ I # {} => AtPlaces(s, I) # <<>>
<1>1. DOMAIN s = 1..Len(s) /\ Len(s) \in Nat /\ s \in [1..Len(s) -> X]
  OBVIOUS
<1>2. IsFiniteSet(I)
  <2>1. IsFiniteSet(DOMAIN s)
    BY <1>1, FS_Interval
  <2> QED
    BY <2>1, FS_Subset
<1>3. 1..Len(s) \subseteq Nat
  OBVIOUS
<1>4. Increasing(s) => \A i, j \in I : i < j => s[i] < s[j]
  BY DEF Increasing
<1>5. I # {} => Cardinality(I) # 0
  BY <1>2, FS_EmptySet
<1> DEFINE r == AtPlaces(s, I)
<1>6. Selects(r, s, I)
  <2>1. I \subseteq Nat
    BY <1>1, <1>3
  <2> QED
    BY <1>2, <2>1, PlacesOfNumbers
<1> HIDE DEF r
<1>7. I # {} => r # <<>>
  BY <1>5, <1>6 DEF Selects
<1>8. r \in Seq(X)
  <2>1. \A i \in I : s[i] \in X
    BY <1>1
  <2>2. r \in Seq({s[i] : i \in I})
    BY <1>6 DEF Selects
  <2> QED
    BY <2>1, <2>2
<1>9. /\ \A n \in DOMAIN r : \E i \in I : r[n] = s[i]
      /\ \A i \in I : \E n \in DOMAIN r : r[n] = s[i]
      /\ Increasing(s) => Increasing(r)
  BY <1>4, <1>6 DEF Selects
<1> QED
  BY <1>7, <1>8, <1>9 DEF r

\* The clocks may be put back, never forward: each hour of each day comes.
NoHourSkipped ==
  \A d \in Days, h \in 0..Hours - 1 :
    \E k \in DOMAIN Clockface : Clockface[k][1] = d /\ Clockface[k][2] = h

LastDay == Clockface[Len(Clockface)][1]

LEMMA Calendar ==
  /\ Hours \in Nat \ {0} /\ Minutes \in Nat \ {0} /\ Fine \in Nat \ {0}
  /\ DaysInMonth \in Nat \ {0} /\ DaysInWeek \in Nat \ {0}
  /\ Len(Clockface) \in Nat \ {0} /\ DOMAIN Clockface = 1..Len(Clockface)
  /\ \A k \in DOMAIN Clockface : Clockface[k][1] \in Nat /\ Clockface[k][2] \in 0..Hours - 1
  /\ LastDay \in Nat /\ Days = 0..LastDay /\ Cardinality(Days) = LastDay + 1
<1>1. /\ Hours \in Nat \ {0} /\ Minutes \in Nat \ {0} /\ Fine \in Nat \ {0}
      /\ DaysInMonth \in Nat \ {0} /\ DaysInWeek \in Nat \ {0}
  BY CalendarAssumption
<1>2. Len(Clockface) \in Nat \ {0} /\ DOMAIN Clockface = 1..Len(Clockface)
  BY CalendarAssumption
<1>3. \A k \in DOMAIN Clockface : Clockface[k][1] \in Nat /\ Clockface[k][2] \in 0..Hours - 1
  <2>1. \A k \in DOMAIN Clockface : Clockface[k] \in Nat \X (0..Hours - 1)
    BY CalendarAssumption
  <2> QED
    BY <2>1
<1>4. LastDay \in Nat /\ Days = 0..LastDay
  BY <1>2, <1>3 DEF LastDay, Days
<1>5. Cardinality(Days) = LastDay + 1
  BY <1>4, FS_Interval
<1> QED
  BY <1>1, <1>2, <1>3, <1>4, <1>5

\* A minute of the calendar has a day, an hour and a minute.
LEMMA MinuteOfCalendar ==
  ASSUME NEW n \in CalendarMinutes
  PROVE  /\ n \in Nat /\ HourOf(n) \in Nat
         /\ HourOf(n) \div Hours \in Days /\ HourOf(n) % Hours \in 0..Hours - 1
         /\ n % Minutes \in 0..Minutes - 1
<1> DEFINE D == LastDay + 1
<1>1. D \in Nat /\ D * Hours \in Nat /\ D * Hours * Minutes \in Nat
  BY Calendar
<1>2. n \in Nat /\ n < D * Hours * Minutes
  BY <1>1, Calendar DEF CalendarMinutes
<1>3. /\ HourOf(n) \in Nat /\ n % Minutes \in 0..Minutes - 1
      /\ n = Minutes * HourOf(n) + (n % Minutes)
  BY <1>2, Calendar, Division DEF HourOf
<1> DEFINE a == HourOf(n)
<1>4. a < D * Hours
  <2> HIDE DEF D, a
  <2> DEFINE N == D * Hours
  <2> SUFFICES ASSUME ~(a < N) PROVE FALSE
    OBVIOUS
  <2>1. a \in Nat /\ N \in Nat /\ N <= a /\ Minutes \in Nat
    BY <1>1, <1>3, Calendar DEF a
  <2>2. n < N * Minutes
    BY <1>2
  <2> HIDE DEF N
  <2>3. N * Minutes <= a * Minutes
    BY <2>1, Multiples
  <2>4. n = Minutes * a + (n % Minutes) /\ n % Minutes \in Nat
    BY <1>3 DEF a
  <2>5. Minutes * a = a * Minutes
    BY <2>1
  <2> QED
    BY <1>2, <2>1, <2>2, <2>3, <2>4, <2>5
<1>5. a \in Nat
  BY <1>3
<1> HIDE DEF a
<1>6. a \div Hours \in Nat /\ a % Hours \in 0..Hours - 1 /\ a = Hours * (a \div Hours) + (a % Hours)
  BY <1>5, Calendar, Division
<1>7. a \div Hours < D
  <2> DEFINE q == a \div Hours
  <2> HIDE DEF D, q
  <2> SUFFICES ASSUME ~(q < D) PROVE FALSE
    BY DEF q
  <2>1. q \in Nat /\ D \in Nat /\ D <= q /\ Hours \in Nat
    BY <1>1, <1>6, Calendar DEF q
  <2>2. D * Hours <= q * Hours
    BY <2>1, Multiples
  <2>3. a = Hours * q + (a % Hours) /\ a % Hours \in Nat
    BY <1>6 DEF q
  <2>4. Hours * q = q * Hours
    BY <2>1
  <2> QED
    BY <1>4, <1>5, <2>1, <2>2, <2>3, <2>4
<1>8. a \div Hours \in Days
  BY <1>6, <1>7, Calendar
<1> QED
  BY <1>2, <1>3, <1>6, <1>8 DEF a

\* The hours that pass before an hour of a day.
HoursBefore(d, h) ==
  {k \in DOMAIN Clockface : Clockface[k][1] < d \/ (Clockface[k][1] = d /\ Clockface[k][2] < h)}

LEMMA InstantOf ==
  ASSUME NEW d \in Nat, NEW h \in Nat, NEW m \in Nat
  PROVE  /\ IsFiniteSet(HoursBefore(d, h)) /\ Cardinality(HoursBefore(d, h)) \in Nat
         /\ Instant(d, h, m) = (Cardinality(HoursBefore(d, h)) * Minutes + m) * Fine
         /\ Instant(d, h, m) \in Nat
<1>1. IsFiniteSet(HoursBefore(d, h)) /\ Cardinality(HoursBefore(d, h)) \in Nat
  <2>1. IsFiniteSet(DOMAIN Clockface) /\ HoursBefore(d, h) \subseteq DOMAIN Clockface
    BY Calendar, FS_Interval DEF HoursBefore
  <2> QED
    BY <2>1, FS_Subset, FS_CardinalityType
<1>2. Instant(d, h, m) = (Cardinality(HoursBefore(d, h)) * Minutes + m) * Fine
  BY DEF Instant, HoursBefore
<1> DEFINE c == Cardinality(HoursBefore(d, h))
<1>3. (c * Minutes + m) * Fine \in Nat
  <2> HIDE DEF c
  <2>1. c \in Nat /\ Minutes \in Nat /\ Fine \in Nat
    BY <1>1, Calendar DEF c
  <2>2. c * Minutes + m \in Nat
    BY <2>1
  <2> QED
    BY <2>1, <2>2
<1> QED
  BY <1>1, <1>2, <1>3

\* Fewer hours pass before an hour that comes than before a later one.
LEMMA HoursBeforeIncrease ==
  ASSUME NoHourSkipped, NEW d \in Days, NEW h \in 0..Hours - 1, NEW d2 \in Days, NEW h2 \in 0..Hours - 1,
         d < d2 \/ (d = d2 /\ h < h2)
  PROVE  Cardinality(HoursBefore(d, h)) < Cardinality(HoursBefore(d2, h2))
<1>1. d \in Nat /\ d2 \in Nat /\ h \in Nat /\ h2 \in Nat
  BY Calendar
<1>2. PICK k \in DOMAIN Clockface : Clockface[k][1] = d /\ Clockface[k][2] = h
  BY DEF NoHourSkipped
<1>3. k \in HoursBefore(d2, h2) /\ k \notin HoursBefore(d, h)
  BY <1>1, <1>2 DEF HoursBefore
<1>4. HoursBefore(d, h) \subseteq HoursBefore(d2, h2)
  BY <1>1, Calendar DEF HoursBefore
<1>5. /\ IsFiniteSet(HoursBefore(d2, h2)) /\ Cardinality(HoursBefore(d2, h2)) \in Nat
      /\ Cardinality(HoursBefore(d, h)) \in Nat
  BY <1>1, InstantOf
<1>6. /\ Cardinality(HoursBefore(d, h)) <= Cardinality(HoursBefore(d2, h2))
      /\ Cardinality(HoursBefore(d, h)) # Cardinality(HoursBefore(d2, h2))
  BY <1>3, <1>4, <1>5, FS_Subset
<1> QED
  BY <1>5, <1>6

\* Where no hour is skipped, the walk meets later and later instants.
InstantAt(n) == Instant(HourOf(n) \div Hours, HourOf(n) % Hours, n % Minutes)

LEMMA InstantAtType ==
  ASSUME NEW n \in CalendarMinutes
  PROVE  InstantAt(n) \in Nat
<1>1. HourOf(n) \div Hours \in Nat /\ HourOf(n) % Hours \in Nat /\ n % Minutes \in Nat
  BY MinuteOfCalendar, Calendar
<1> QED
  BY <1>1, InstantOf DEF InstantAt

LEMMA InstantsIncrease ==
  ASSUME NoHourSkipped, NEW n \in CalendarMinutes, NEW n2 \in CalendarMinutes, n < n2
  PROVE  InstantAt(n) < InstantAt(n2)
<1> DEFINE d == HourOf(n) \div Hours     h == HourOf(n) % Hours     m == n % Minutes
           d2 == HourOf(n2) \div Hours   h2 == HourOf(n2) % Hours   m2 == n2 % Minutes
           c == Cardinality(HoursBefore(d, h))
           c2 == Cardinality(HoursBefore(d2, h2))
<1>1. /\ d \in Days /\ h \in 0..Hours - 1 /\ m \in 0..Minutes - 1
      /\ d2 \in Days /\ h2 \in 0..Hours - 1 /\ m2 \in 0..Minutes - 1
      /\ n \in Nat /\ n2 \in Nat /\ HourOf(n) \in Nat /\ HourOf(n2) \in Nat
  BY MinuteOfCalendar
<1>2. HourOf(n) < HourOf(n2) \/ (HourOf(n) = HourOf(n2) /\ m < m2)
  BY <1>1, Calendar, QuotientsIncrease DEF HourOf
<1>3. HourOf(n) < HourOf(n2) => d < d2 \/ (d = d2 /\ h < h2)
  BY <1>1, Calendar, QuotientsIncrease
<1>4. /\ d \in Nat /\ h \in Nat /\ m \in Nat /\ d2 \in Nat /\ h2 \in Nat /\ m2 \in Nat
  BY <1>1, Calendar
<1>5. HourOf(n) = HourOf(n2) => c = c2
  OBVIOUS
<1> HIDE DEF d, h, m, d2, h2, m2
<1>6. HourOf(n) < HourOf(n2) => c < c2
  BY <1>1, <1>3, HoursBeforeIncrease
<1>7. /\ c \in Nat /\ c2 \in Nat
      /\ Instant(d, h, m) = (c * Minutes + m) * Fine
      /\ Instant(d2, h2, m2) = (c2 * Minutes + m2) * Fine
  <2>1. c \in Nat /\ Instant(d, h, m) = (c * Minutes + m) * Fine
    BY <1>4, InstantOf
  <2>2. c2 \in Nat /\ Instant(d2, h2, m2) = (c2 * Minutes + m2) * Fine
    BY <1>4, InstantOf
  <2> QED
    BY <2>1, <2>2
<1> HIDE DEF c, c2
<1>8. c * Minutes + m < c2 * Minutes + m2
  <2>1. CASE c = c2 /\ m < m2
    BY <1>4, <1>7, <2>1, Calendar
  <2>2. CASE c < c2
    <3>1. (c + 1) * Minutes <= c2 * Minutes
      BY <1>7, <2>2, Calendar, Multiples
    <3>2. (c + 1) * Minutes = c * Minutes + Minutes /\ c * Minutes \in Nat /\ c2 * Minutes \in Nat
      BY <1>7, Calendar
    <3>3. m < Minutes
      BY <1>1, Calendar
    <3> QED
      BY <1>4, <3>1, <3>2, <3>3, Calendar
  <2> QED
    BY <1>2, <1>5, <1>6, <2>1, <2>2
<1>9. (c * Minutes + m) * Fine < (c2 * Minutes + m2) * Fine
  <2> DEFINE u == c * Minutes + m  v == c2 * Minutes + m2
  <2>1. u \in Nat /\ v \in Nat /\ u < v
    BY <1>4, <1>7, <1>8, Calendar
  <2> HIDE DEF u, v
  <2>2. (u + 1) * Fine <= v * Fine
    BY <2>1, Calendar, Multiples
  <2>3. (u + 1) * Fine = u * Fine + Fine /\ u * Fine \in Nat /\ v * Fine \in Nat
    BY <2>1, Calendar
  <2>4. u * Fine < v * Fine
    BY <2>2, <2>3, Calendar
  <2> QED
    BY <2>4 DEF u, v
<1> QED
  BY <1>7, <1>9 DEF InstantAt, d, h, m, d2, h2, m2

\* The minutes an expression names.
NamedMinutes(e) ==
  {n \in CalendarMinutes :
     /\ DayMatches(e, HourOf(n) \div Hours)
     /\ HourOf(n) % Hours \in Values(e, "hour") /\ n % Minutes \in Values(e, "minute")}

LEMMA WalkOf ==
  ASSUME NEW e \in Expression
  PROVE  /\ Walk[e] \in Seq(Nat)
         /\ \A i \in DOMAIN Walk[e] : \E n \in NamedMinutes(e) : Walk[e][i] = InstantAt(n)
         /\ \A n \in NamedMinutes(e) : \E i \in DOMAIN Walk[e] : Walk[e][i] = InstantAt(n)
         /\ NoHourSkipped => Increasing(Walk[e])
<1> DEFINE s == [n \in CalendarMinutes |-> InstantAt(n)]
           I == NamedMinutes(e)
<1>1. Walk[e] = AtPlaces(s, I)
  BY DEF Walk, NamedMinutes, InstantAt
<1>2. s \in [CalendarMinutes -> Nat]
  BY InstantAtType
<1>3. CalendarMinutes \subseteq Nat /\ I \subseteq CalendarMinutes
  BY MinuteOfCalendar DEF NamedMinutes
<1>4. IsFiniteSet(I)
  <2> DEFINE last == Cardinality(Days) * Hours * Minutes - 1
  <2>1. last \in Int /\ CalendarMinutes = 0..last
    <3>1. Cardinality(Days) * Hours \in Nat
      BY Calendar
    <3>2. Cardinality(Days) * Hours * Minutes \in Nat
      BY <3>1, Calendar
    <3> QED
      BY <3>2 DEF CalendarMinutes
  <2> HIDE DEF last, I
  <2>2. IsFiniteSet(CalendarMinutes)
    BY <2>1, FS_Interval
  <2> QED
    BY <1>3, <2>2, FS_Subset
<1>5. \A n \in I : s[n] = InstantAt(n)
  BY <1>3
<1>6. NoHourSkipped => \A i, j \in I : i < j => s[i] < s[j]
  BY <1>3, <1>5, InstantsIncrease
<1> HIDE DEF s, I
<1> DEFINE r == AtPlaces(s, I)
<1>7. Selects(r, s, I)
  <2>1. I \subseteq Nat
    BY <1>3
  <2> QED
    BY <1>4, <2>1, PlacesOfNumbers
<1> HIDE DEF r
<1>8. r \in Seq(Nat)
  <2>1. \A i \in I : s[i] \in Nat
    BY <1>2, <1>3
  <2>2. r \in Seq({s[i] : i \in I})
    BY <1>7 DEF Selects
  <2> QED
    BY <2>1, <2>2
<1>9. /\ \A i \in DOMAIN r : \E n \in I : r[i] = InstantAt(n)
      /\ \A n \in I : \E i \in DOMAIN r : r[i] = InstantAt(n)
  BY <1>5, <1>7 DEF Selects
<1>10. NoHourSkipped => Increasing(r)
  BY <1>6, <1>7 DEF Selects
<1> QED
  BY <1>1, <1>8, <1>9, <1>10 DEF I, r

-----------------------------------------------------------------------------
(* The fires that are due, and those runs are asked for.                   *)

PairwiseDistinct(s) == \A i, j \in DOMAIN s : s[i] = s[j] => i = j

LEMMA IncreasingIsDistinct ==
  ASSUME NEW s \in Seq(Nat), Increasing(s)
  PROVE  PairwiseDistinct(s)
<1> SUFFICES ASSUME NEW i \in DOMAIN s, NEW j \in DOMAIN s, s[i] = s[j], i # j
             PROVE  FALSE
  BY DEF PairwiseDistinct
<1>1. i \in Nat /\ j \in Nat /\ s[i] \in Nat /\ s[j] \in Nat
  OBVIOUS
<1>2. i < j \/ j < i
  BY <1>1
<1> QED
  BY <1>1, <1>2 DEF Increasing

\* What the walk names in an interval, up to a limit.
LEMMA FireTimesOf ==
  ASSUME NEW e \in Expression, NEW a \in Nat, NEW b \in Nat, NEW limit \in Nat
  PROVE  LET due == FireTimes(e, a, b, limit)
         IN /\ due.times \in Seq(Nat)
            /\ \A i \in DOMAIN due.times : due.times[i] \in a + 1..b
            /\ \A i \in DOMAIN due.times : \E n \in NamedMinutes(e) : due.times[i] = InstantAt(n)
            /\ NoHourSkipped => Increasing(due.times)
            /\ limit = 0 => ~due.truncated
            /\ ~due.truncated => \A n \in NamedMinutes(e) :
                 InstantAt(n) \in a + 1..b => \E i \in DOMAIN due.times : due.times[i] = InstantAt(n)
<1> DEFINE w == Walk[e]
           I == {i \in DOMAIN w : w[i] \in Between(a, b)}
           all == AtPlaces(w, I)
           cut == limit # 0 /\ Len(all) > limit
           times == IF cut THEN SubSeq(all, 1, limit) ELSE all
           due == FireTimes(e, a, b, limit)
<1>1. due.times = times /\ due.truncated = cut
  BY DEF FireTimes
<1>2. /\ w \in Seq(Nat)
      /\ \A i \in DOMAIN w : \E n \in NamedMinutes(e) : w[i] = InstantAt(n)
      /\ \A n \in NamedMinutes(e) : \E i \in DOMAIN w : w[i] = InstantAt(n)
      /\ NoHourSkipped => Increasing(w)
  BY WalkOf
<1>3. I \subseteq DOMAIN w /\ \A i \in DOMAIN w : i \in I <=> w[i] \in a + 1..b
  BY DEF Between
<1> HIDE DEF w, I
<1>4. /\ all \in Seq(Nat)
      /\ \A n \in DOMAIN all : \E i \in I : all[n] = w[i]
      /\ \A i \in I : \E n \in DOMAIN all : all[n] = w[i]
      /\ Increasing(w) => Increasing(all)
  BY <1>2, <1>3, PlacesOfSequence
<1> HIDE DEF all
<1>5. \A n \in DOMAIN all : all[n] \in a + 1..b /\ \E m \in NamedMinutes(e) : all[n] = InstantAt(m)
  BY <1>2, <1>3, <1>4
<1>6. /\ times \in Seq(Nat) /\ \A i \in DOMAIN times : i \in DOMAIN all /\ times[i] = all[i]
  BY <1>4, SMTT(30)
<1>7. Increasing(all) => Increasing(times)
  <2> HIDE DEF times
  <2> QED
    BY <1>6 DEF Increasing
<1>8. ~cut => \A n \in NamedMinutes(e) :
                InstantAt(n) \in a + 1..b => \E i \in DOMAIN times : times[i] = InstantAt(n)
  BY <1>2, <1>3, <1>4
<1> HIDE DEF times
<1>9. /\ \A i \in DOMAIN times : times[i] \in a + 1..b
      /\ \A i \in DOMAIN times : \E n \in NamedMinutes(e) : times[i] = InstantAt(n)
      /\ NoHourSkipped => Increasing(times)
  BY <1>2, <1>4, <1>5, <1>6, <1>7
<1> HIDE DEF due
<1>10. /\ due.times \in Seq(Nat)
       /\ \A i \in DOMAIN due.times : due.times[i] \in a + 1..b
       /\ \A i \in DOMAIN due.times : \E n \in NamedMinutes(e) : due.times[i] = InstantAt(n)
       /\ NoHourSkipped => Increasing(due.times)
       /\ limit = 0 => ~due.truncated
       /\ ~due.truncated => \A n \in NamedMinutes(e) :
            InstantAt(n) \in a + 1..b => \E i \in DOMAIN due.times : due.times[i] = InstantAt(n)
  BY <1>1, <1>6, <1>8, <1>9
<1> QED
  BY <1>10 DEF due

\* Fires after an edge, then fires up to it.
LEMMA JoinDistinct ==
  ASSUME NEW s \in Seq(Nat), NEW r \in Seq(Nat), NEW edge \in Nat,
         \A i \in DOMAIN s : s[i] > edge, \A i \in DOMAIN r : r[i] <= edge,
         PairwiseDistinct(s), PairwiseDistinct(r)
  PROVE  PairwiseDistinct(s \o r)
<1> SUFFICES ASSUME NEW i \in DOMAIN (s \o r), NEW j \in DOMAIN (s \o r),
                    (s \o r)[i] = (s \o r)[j]
             PROVE  i = j
  BY DEF PairwiseDistinct
<1> DEFINE k == Len(s)
<1>1. /\ i \in 1..k + Len(r) /\ j \in 1..k + Len(r) /\ k \in Nat /\ Len(r) \in Nat
      /\ DOMAIN s = 1..k /\ DOMAIN r = 1..Len(r)
  OBVIOUS
<1>2. ASSUME NEW x \in 1..k + Len(r)
      PROVE  /\ x <= k => x \in DOMAIN s /\ (s \o r)[x] = s[x]
             /\ x > k => x - k \in DOMAIN r /\ (s \o r)[x] = r[x - k]
  BY <1>1
<1>3. (\A x \in DOMAIN s : s[x] \in Nat) /\ \A x \in DOMAIN r : r[x] \in Nat
  BY SMTT(30)
<1> DEFINE sr == s \o r
<1> HIDE DEF k, sr
<1>4. sr[i] = sr[j]
  BY DEF sr
<1>5. CASE i <= k /\ j <= k
  BY <1>1, <1>2, <1>5 DEF PairwiseDistinct
<1>6. CASE i > k /\ j > k
  <2>1. i - k = j - k
    BY <1>1, <1>2, <1>6, SMTT(30) DEF PairwiseDistinct
  <2> QED
    BY <1>1, <2>1
<1>7. CASE i <= k /\ j > k
  <2>1. s[i] > edge /\ r[j - k] <= edge /\ s[i] \in Nat /\ r[j - k] \in Nat /\ s[i] = r[j - k]
    BY <1>1, <1>2, <1>3, <1>7
  <2> QED
    BY <2>1
<1>8. CASE i > k /\ j <= k
  <2>1. s[j] > edge /\ r[i - k] <= edge /\ s[j] \in Nat /\ r[i - k] \in Nat /\ s[j] = r[i - k]
    BY <1>1, <1>2, <1>3, <1>8
  <2> QED
    BY <2>1
<1> QED
  BY <1>1, <1>5, <1>6, <1>7, <1>8

\* What a pass decides for a trigger with a position.
LEMMA DueOf ==
  ASSUME TypeOK, NEW t \in Trigger, def[t] # None, position[t] # None, pass # None
  PROVE  /\ def[t].expression \in Expression /\ def[t].policy \in Policies
         /\ position[t] \in Nat /\ now \in Nat /\ now <= Horizon /\ Edge \in Nat
         /\ Due(t).times \in Seq(Nat)
         /\ \A i \in DOMAIN Due(t).times : Due(t).times[i] \in position[t] + 1..now
         /\ NoHourSkipped => Increasing(Due(t).times)
         /\ ~Due(t).truncated => \A n \in NamedMinutes(def[t].expression) :
              InstantAt(n) \in position[t] + 1..now =>
                \E i \in DOMAIN Due(t).times : Due(t).times[i] = InstantAt(n)
<1>1. def[t].expression \in Expression /\ def[t].policy \in Policies
  BY DEF TypeOK
<1>2. Instants = 0..Horizon /\ Horizon \in Nat /\ BackfillCap \in Nat
  BY ClockAssumption DEF Instants
<1>3. position[t] \in Nat /\ now \in Nat /\ now <= Horizon
  BY <1>2 DEF TypeOK
<1>4. Edge \in Nat
  BY <1>2, <1>3 DEF Edge, TypeOK
<1> DEFINE limit == IF def[t].policy = "backfill" \/ pass.since # None THEN BackfillCap ELSE 1
           due == FireTimes(def[t].expression, position[t], now, limit)
<1>5. limit \in Nat
  BY <1>2
<1>6. Due(t) = due
  BY DEF Due
<1> HIDE DEF limit
<1>7. /\ due.times \in Seq(Nat)
      /\ \A i \in DOMAIN due.times : due.times[i] \in position[t] + 1..now
      /\ NoHourSkipped => Increasing(due.times)
      /\ ~due.truncated => \A n \in NamedMinutes(def[t].expression) :
           InstantAt(n) \in position[t] + 1..now => \E i \in DOMAIN due.times : due.times[i] = InstantAt(n)
  BY <1>1, <1>3, <1>5, FireTimesOf, ZenonT(30)
<1> HIDE DEF due
<1> QED
  BY <1>1, <1>3, <1>4, <1>6, <1>7

LEMMA ChosenOf ==
  ASSUME TypeOK, NEW t \in Trigger, def[t] # None, position[t] # None, pass # None
  PROVE  /\ Chosen(t) \in Seq(Instants)
         /\ \A i \in DOMAIN Chosen(t) : Chosen(t)[i] \in position[t] + 1..now
         /\ NoHourSkipped => PairwiseDistinct(Chosen(t))
         /\ def[t].policy = "skip" => \A i \in DOMAIN Chosen(t) : Chosen(t)[i] > Edge
         /\ \A i \in DOMAIN Due(t).times :
              Due(t).times[i] > Edge => \E j \in DOMAIN Chosen(t) : Chosen(t)[j] = Due(t).times[i]
<1> DEFINE due == Due(t).times
           late == {i \in DOMAIN due : due[i] > Edge}
           early == {i \in DOMAIN due : due[i] <= Edge}
           on == OnTime(t)
           missed == Missed(t)
           rest == CASE def[t].policy = "skip" \/ missed = <<>> -> <<>>
                     [] def[t].policy = "backfill" -> missed
                     [] OTHER -> <<Head(missed)>>
           chosen == Chosen(t)
<1>1. /\ due \in Seq(Nat) /\ position[t] \in Nat /\ now \in Nat /\ Edge \in Nat
      /\ \A i \in DOMAIN due : due[i] \in position[t] + 1..now
      /\ NoHourSkipped => Increasing(due)
  BY DueOf
<1>2. on = AtPlaces(due, late) /\ missed = AtPlaces(due, early)
  BY DEF OnTime, Missed
<1>3. chosen = on \o rest
  BY DEF Chosen
<1> HIDE DEF due, on, missed, chosen
<1>4. /\ on \in Seq(Nat)
      /\ \A n \in DOMAIN on : \E i \in late : on[n] = due[i]
      /\ \A i \in late : \E n \in DOMAIN on : on[n] = due[i]
      /\ Increasing(due) => Increasing(on)
  <2>1. late \subseteq DOMAIN due
    OBVIOUS
  <2> HIDE DEF late
  <2> QED
    BY <1>1, <1>2, <2>1, PlacesOfSequence
<1>5. /\ missed \in Seq(Nat)
      /\ \A n \in DOMAIN missed : \E i \in early : missed[n] = due[i]
      /\ Increasing(due) => Increasing(missed)
  <2>1. early \subseteq DOMAIN due
    OBVIOUS
  <2> HIDE DEF early
  <2> QED
    BY <1>1, <1>2, <2>1, PlacesOfSequence
<1>6. \A n \in DOMAIN on : on[n] \in position[t] + 1..now /\ on[n] > Edge
  BY <1>1, <1>4
<1>7. \A n \in DOMAIN missed : missed[n] \in position[t] + 1..now /\ missed[n] <= Edge
  BY <1>1, <1>5
<1>8. /\ rest \in Seq(Nat) /\ \A n \in DOMAIN rest : \E m \in DOMAIN missed : rest[n] = missed[m]
      /\ PairwiseDistinct(missed) => PairwiseDistinct(rest)
      /\ def[t].policy = "skip" => rest = <<>>
  <2>1. CASE def[t].policy = "skip" \/ missed = <<>>
    <3>1. rest = <<>>
      BY <2>1
    <3> HIDE DEF rest
    <3>2. rest \in Seq(Nat) /\ DOMAIN rest = {}
      BY <3>1
    <3>3. PairwiseDistinct(rest)
      BY <3>2 DEF PairwiseDistinct
    <3> QED
      BY <3>1, <3>2, <3>3
  <2>2. CASE ~(def[t].policy = "skip" \/ missed = <<>>) /\ def[t].policy = "backfill"
    <3>1. rest = missed
      BY <2>2
    <3> QED
      BY <1>5, <2>2, <3>1
  <2>3. CASE ~(def[t].policy = "skip" \/ missed = <<>>) /\ def[t].policy # "backfill"
    <3>1. rest = <<Head(missed)>>
      BY <2>3
    <3>2. Head(missed) = missed[1] /\ 1 \in DOMAIN missed /\ missed[1] \in Nat
      BY <1>5, <2>3
    <3> HIDE DEF rest
    <3>3. rest \in Seq(Nat) /\ DOMAIN rest = {1} /\ rest[1] = missed[1]
      BY <3>1, <3>2
    <3> QED
      BY <2>3, <3>2, <3>3 DEF PairwiseDistinct
  <2> QED
    BY <2>1, <2>2, <2>3
<1> HIDE DEF rest, late, early
<1>9. chosen \in Seq(Nat) /\ \A i \in DOMAIN chosen : chosen[i] \in position[t] + 1..now
  <2>1. chosen \in Seq(Nat) /\ Len(chosen) = Len(on) + Len(rest)
    BY <1>3, <1>4, <1>8
  <2>2. ASSUME NEW i \in DOMAIN chosen PROVE chosen[i] \in position[t] + 1..now
    <3>1. CASE i <= Len(on)
      <4>1. i \in DOMAIN on /\ chosen[i] = on[i]
        BY <1>3, <1>4, <1>8, <2>1, <2>2, <3>1
      <4> QED
        BY <1>6, <4>1
    <3>2. CASE i > Len(on)
      <4>1. i - Len(on) \in DOMAIN rest /\ chosen[i] = rest[i - Len(on)]
        BY <1>3, <1>4, <1>8, <2>1, <2>2, <3>2
      <4> QED
        BY <1>7, <1>8, <4>1
    <3>3. i \in Nat /\ Len(on) \in Nat
      BY <1>4, <2>1
    <3> QED
      BY <3>1, <3>2, <3>3
  <2> QED
    BY <2>1, <2>2
<1>10. chosen \in Seq(Instants)
  <2>1. \A i \in DOMAIN chosen : chosen[i] \in Instants
    <3>1. now <= Horizon /\ Horizon \in Nat
      BY DueOf, ClockAssumption
    <3> QED
      BY <1>1, <1>9, <3>1 DEF Instants
  <2> HIDE DEF Instants
  <2> QED
    BY <1>9, <2>1
<1>11. NoHourSkipped => PairwiseDistinct(chosen)
  <2> SUFFICES ASSUME NoHourSkipped PROVE PairwiseDistinct(chosen)
    OBVIOUS
  <2>1. Increasing(on) /\ Increasing(missed)
    BY <1>1, <1>4, <1>5
  <2>2. PairwiseDistinct(on) /\ PairwiseDistinct(missed)
    BY <1>4, <1>5, <2>1, IncreasingIsDistinct
  <2>3. \A i \in DOMAIN rest : rest[i] <= Edge
    BY <1>7, <1>8
  <2> QED
    BY <1>1, <1>3, <1>4, <1>6, <1>8, <2>2, <2>3, JoinDistinct
<1>12. def[t].policy = "skip" => \A i \in DOMAIN chosen : chosen[i] > Edge
  <2> SUFFICES ASSUME def[t].policy = "skip" PROVE \A i \in DOMAIN chosen : chosen[i] > Edge
    OBVIOUS
  <2>1. chosen = on
    BY <1>3, <1>4, <1>8
  <2> QED
    BY <1>6, <2>1
<1>13. ASSUME NEW i \in DOMAIN due, due[i] > Edge
       PROVE  \E j \in DOMAIN chosen : chosen[j] = due[i]
  <2>1. PICK n \in DOMAIN on : on[n] = due[i]
    BY <1>4, <1>13 DEF late
  <2>2. n \in DOMAIN chosen /\ chosen[n] = on[n]
    BY <1>3, <1>4, <1>8
  <2> QED
    BY <2>1, <2>2
<1> QED
  BY <1>9, <1>10, <1>11, <1>12, <1>13 DEF chosen, due

-----------------------------------------------------------------------------
(* The invariant.                                                          *)

\* The application has ticked while it is up, and owes no runs while it is not.
Ticked ==
  /\ up => lastTickAt # None
  /\ lastTickAt # None => lastTickAt <= now
  /\ ~up => pass = None /\ todo = None

\* A schedule with a position has been seen, no later than at its position.
Positions ==
  \A t \in Trigger : position[t] # None =>
    position[t] <= now /\ seen[t] # None /\ seen[t] <= position[t]

\* Runs are asked for fires up to the position only.
Past ==
  \A t \in Trigger : \A i \in DOMAIN answered[t] :
    answered[t][i] <= now /\ (position[t] # None => answered[t][i] <= position[t])

\* What a pass vouches for is no older than a tick that was a little late.
Vouched == pass # None /\ pass.since # None => now - pass.since <= TickMs + GraceMs

\* The fires still to ask runs for: all since the schedule was seen and up to
\* its new position, and fresh ones only, if the policy skips the others.
OwedTo(t, fires) ==
  /\ def[t] # None /\ position[t] # None /\ fires # <<>>
  /\ \A i \in DOMAIN fires : seen[t] < fires[i] /\ fires[i] <= position[t]
  /\ def[t].policy = "skip" => \A i \in DOMAIN fires : now - fires[i] <= TickMs + GraceMs

Owed == todo # None => OwedTo(todo.trigger, todo.fires)

ClockInv == Ticked /\ Positions /\ Past /\ Vouched /\ Owed

\* Those were never asked for, nor is one there twice.
Once(t, fires) ==
  /\ PairwiseDistinct(fires)
  /\ \A i \in DOMAIN fires, j \in DOMAIN answered[t] : fires[i] # answered[t][j]

OnceInv ==
  /\ \A t \in Trigger : PairwiseDistinct(answered[t])
  /\ todo # None => Once(todo.trigger, todo.fires)

-----------------------------------------------------------------------------
(* The steps.                                                              *)

LEMMA Sizes ==
  /\ Instants = 0..Horizon /\ Horizon \in Nat
  /\ None \notin Instants /\ None \notin [trigger : Trigger, fires : Seq(Instants)]
  /\ TickMs \in Nat /\ GraceMs \in Nat /\ BackfillCap \in Nat \ {0}
BY ClockAssumption DEF Instants

LEMMA PassKeeps ==
  ASSUME TypeOK, ClockInv, Pass
  PROVE  TypeOK' /\ ClockInv' /\ (OnceInv => OnceInv')
<1>1. pass = None /\ todo = None /\ now' = now + 1 /\ now \in Nat /\ now < Horizon
  BY Sizes DEF Pass, Idle, TypeOK
<1>2. UNCHANGED <<def, position, up, lastTickAt, pass, todo, answered, seen, edits, crashes>>
  BY DEF Pass, stored, history, bounds
<1>3. now' \in Instants
  BY <1>1, Sizes
<1>4. TypeOK'
  BY <1>2, <1>3 DEF TypeOK
<1>5. Ticked'
  <2>1. lastTickAt # None => lastTickAt \in Nat
    BY Sizes DEF TypeOK
  <2> QED
    BY <1>1, <1>2, <2>1 DEF ClockInv, Ticked
<1>6. Positions'
  <2> SUFFICES ASSUME NEW t \in Trigger, position[t] # None
               PROVE  position[t] <= now + 1 /\ seen[t] # None /\ seen[t] <= position[t]
    BY <1>1, <1>2 DEF Positions
  <2>1. position[t] \in Nat
    BY Sizes DEF TypeOK
  <2> QED
    BY <1>1, <2>1 DEF ClockInv, Positions
<1>7. Past'
  <2> SUFFICES ASSUME NEW t \in Trigger, NEW i \in DOMAIN answered[t]
               PROVE  /\ answered[t][i] <= now + 1
                      /\ position[t] # None => answered[t][i] <= position[t]
    BY <1>1, <1>2 DEF Past
  <2>1. answered[t][i] \in Nat
    <3>1. answered[t] \in Seq(Instants)
      BY DEF TypeOK
    <3>2. answered[t][i] \in Instants
      BY <3>1
    <3> QED
      BY <3>2, Sizes
  <2> QED
    BY <1>1, <2>1 DEF ClockInv, Past
<1>8. Vouched' /\ Owed' /\ (OnceInv => OnceInv')
  BY <1>1, <1>2 DEF Vouched, Owed, OnceInv
<1> QED
  BY <1>4, <1>5, <1>6, <1>7, <1>8 DEF ClockInv

LEMMA BeginKeeps ==
  ASSUME TypeOK, ClockInv, Start \/ Tick
  PROVE  TypeOK' /\ ClockInv' /\ (OnceInv => OnceInv')
<1>1. UNCHANGED <<now, def, position, todo, answered, seen, edits, crashes>> /\ now \in Nat
  BY Sizes DEF Start, Tick, stored, history, bounds, TypeOK
<1>2. up' \in BOOLEAN /\ lastTickAt' = now /\ now \in Instants
  BY DEF Start, Tick, Begins, TypeOK
<1>3. PICK since : pass' = [left |-> Trigger, since |-> since] /\ since \in {None, LiveSince}
                   /\ (Start => since = None)
  BY DEF Start, Tick, Begins
<1>4. since \in Instants \cup {None} /\ (since # None => now - since <= TickMs + GraceMs)
  <2>1. CASE since = None
    BY <2>1
  <2>2. CASE since # None
    <3>1. since = LiveSince /\ Tick
      BY <1>3, <2>2
    <3>2. lastTickAt \in Instants \cup {None}
      BY DEF TypeOK
    <3> QED
      BY <2>2, <3>1, <3>2 DEF LiveSince
  <2> QED
    BY <2>1, <2>2
<1>5. TypeOK'
  <2>1. pass' \in {None} \cup [left : SUBSET Trigger, since : Instants \cup {None}]
    BY <1>3, <1>4
  <2> HIDE DEF Instants
  <2> QED
    BY <1>1, <1>2, <2>1 DEF TypeOK
<1>6. Ticked'
  <2>1. up' = TRUE
    BY DEF ClockInv, Ticked, Start, Tick
  <2> QED
    BY <1>1, <1>2, <2>1, Sizes DEF Ticked
<1>7. Positions' /\ Past' /\ (OnceInv => OnceInv')
  BY <1>1 DEF ClockInv, Positions, Past, OnceInv, Once
<1>8. Vouched'
  BY <1>1, <1>3, <1>4 DEF Vouched
<1>9. Owed'
  <2>1. todo = None
    <3>1. CASE Tick
      BY <3>1 DEF Tick, Idle
    <3>2. CASE Start
      BY <3>2 DEF Start, ClockInv, Ticked
    <3> QED
      BY <3>1, <3>2
  <2> QED
    BY <1>1, <2>1 DEF Owed
<1> QED
  BY <1>5, <1>6, <1>7, <1>8, <1>9 DEF ClockInv

\* The trigger of a step of a pass has a type.
LEMMA Looking ==
  ASSUME TypeOK, NEW t \in Trigger, Looks(t)
  PROVE  /\ pass # None /\ todo = None /\ pass' = [pass EXCEPT !.left = @ \ {t}]
         /\ pass' \in [left : SUBSET Trigger, since : Instants \cup {None}]
         /\ pass'.since = pass.since
<1>1. pass # None /\ todo = None /\ pass' = [pass EXCEPT !.left = @ \ {t}]
  BY DEF Looks
<1>2. pass \in [left : SUBSET Trigger, since : Instants \cup {None}]
  BY <1>1 DEF TypeOK
<1> HIDE DEF Instants
<1> QED
  BY <1>1, <1>2

\* Nothing is decided: the trigger is gone, or none of its fires is due.
LEMMA PassOverKeeps ==
  ASSUME TypeOK, ClockInv, NEW t \in Trigger, Absent(t) \/ NoneDue(t)
  PROVE  TypeOK' /\ ClockInv' /\ (OnceInv => OnceInv')
<1>1. UNCHANGED <<now, def, position, up, lastTickAt, todo, answered, seen, edits, crashes>>
  BY DEF Absent, NoneDue, stored, history, bounds
<1>2. /\ pass # None /\ todo = None
      /\ pass' \in [left : SUBSET Trigger, since : Instants \cup {None}]
      /\ pass'.since = pass.since
  BY Looking DEF Absent, NoneDue
<1>3. TypeOK'
  BY <1>1, <1>2 DEF TypeOK
<1>4. Ticked' /\ Positions' /\ Past'
  BY <1>1, <1>2 DEF ClockInv, Ticked, Positions, Past
<1>5. Vouched' /\ Owed' /\ (OnceInv => OnceInv')
  BY <1>1, <1>2 DEF ClockInv, Vouched, Owed, OnceInv, Once
<1> QED
  BY <1>3, <1>4, <1>5 DEF ClockInv

LEMMA FirstSightKeeps ==
  ASSUME TypeOK, ClockInv, NEW t \in Trigger, FirstSight(t)
  PROVE  TypeOK' /\ ClockInv' /\ (OnceInv => OnceInv')
<1>1. /\ UNCHANGED <<now, def, up, lastTickAt, todo, answered, edits, crashes>>
      /\ position' = [position EXCEPT ![t] = now] /\ seen' = [seen EXCEPT ![t] = now]
  BY DEF FirstSight, FirstPosition, bounds
<1>2. /\ pass # None /\ todo = None
      /\ pass' \in [left : SUBSET Trigger, since : Instants \cup {None}]
      /\ pass'.since = pass.since
  BY Looking DEF FirstSight
<1>3. now \in Instants /\ now \in Nat /\ now # None
  BY Sizes DEF TypeOK
<1>4. TypeOK'
  <2> HIDE DEF Instants
  <2>1. position' \in [Trigger -> Instants \cup {None}] /\ seen' \in [Trigger -> Instants \cup {None}]
    BY <1>1, <1>3 DEF TypeOK
  <2> QED
    BY <1>1, <1>2, <2>1 DEF TypeOK
<1>5. Ticked' /\ Vouched' /\ Owed' /\ (OnceInv => OnceInv')
  BY <1>1, <1>2 DEF ClockInv, Ticked, Vouched, Owed, OnceInv, Once
<1>6. \A u \in Trigger : /\ u = t => position'[u] = now /\ seen'[u] = now
                         /\ u # t => position'[u] = position[u] /\ seen'[u] = seen[u]
  BY <1>1 DEF TypeOK
<1>7. Positions'
  BY <1>1, <1>3, <1>6 DEF ClockInv, Positions
<1>8. Past'
  BY <1>1, <1>6 DEF ClockInv, Past
<1> QED
  BY <1>4, <1>5, <1>7, <1>8 DEF ClockInv

LEMMA AdvanceKeeps ==
  ASSUME TypeOK, ClockInv, NEW t \in Trigger, Advance(t)
  PROVE  TypeOK' /\ ClockInv' /\ (NoHourSkipped /\ OnceInv => OnceInv')
<1>1. /\ UNCHANGED <<now, def, up, lastTickAt, answered, seen, edits, crashes>>
      /\ position' = [position EXCEPT ![t] = now]
      /\ def[t] # None /\ position[t] # None
      /\ todo' = IF Chosen(t) = <<>> THEN None ELSE [trigger |-> t, fires |-> Chosen(t)]
  BY DEF Advance, history, bounds
<1>2. /\ pass # None /\ todo = None
      /\ pass' \in [left : SUBSET Trigger, since : Instants \cup {None}]
      /\ pass'.since = pass.since
  BY Looking DEF Advance
<1> PICK fires : fires = Chosen(t)
  OBVIOUS
<1>3. /\ fires \in Seq(Instants)
      /\ \A i \in DOMAIN fires : fires[i] \in position[t] + 1..now
      /\ NoHourSkipped => PairwiseDistinct(fires)
      /\ def[t].policy = "skip" => \A i \in DOMAIN fires : fires[i] > Edge
      /\ position[t] \in Nat /\ Edge \in Nat
  BY <1>1, <1>2, ChosenOf, DueOf
<1>4. todo' = IF fires = <<>> THEN None ELSE [trigger |-> t, fires |-> fires]
  BY <1>1
<1>5. now \in Instants /\ now \in Nat /\ now # None
  BY Sizes DEF TypeOK
<1>6. \A u \in Trigger : position'[u] = IF u = t THEN now ELSE position[u]
  BY <1>1 DEF TypeOK
<1>7. TypeOK'
  <2> HIDE DEF Instants
  <2>1. position' \in [Trigger -> Instants \cup {None}]
    BY <1>1, <1>5 DEF TypeOK
  <2>2. todo' \in {None} \cup [trigger : Trigger, fires : Seq(Instants)]
    BY <1>3, <1>4
  <2> QED
    BY <1>1, <1>2, <2>1, <2>2 DEF TypeOK
<1>8. Ticked'
  BY <1>1, <1>2 DEF ClockInv, Ticked
<1>9. Vouched'
  BY <1>1, <1>2 DEF ClockInv, Vouched
<1>10. position[t] <= now /\ seen[t] # None /\ seen[t] <= position[t] /\ seen[t] \in Nat
  BY <1>1, Sizes DEF ClockInv, Positions, TypeOK
<1>11. Positions'
  <2> SUFFICES ASSUME NEW u \in Trigger, position'[u] # None
               PROVE  position'[u] <= now /\ seen[u] # None /\ seen[u] <= position'[u]
    BY <1>1 DEF Positions
  <2>1. CASE u = t
    <3>1. position'[u] = now
      BY <1>6, <2>1
    <3>2. position[t] \in Nat
      BY <1>3
    <3> QED
      BY <1>5, <1>10, <2>1, <3>1, <3>2
  <2>2. CASE u # t
    BY <1>6, <2>2 DEF ClockInv, Positions
  <2> QED
    BY <2>1, <2>2
<1>12. Past'
  BY <1>1, <1>6 DEF ClockInv, Past
<1>13. \A i \in DOMAIN fires : fires[i] \in Nat /\ position[t] < fires[i] /\ fires[i] <= now
  BY <1>3, <1>5
<1>14. CASE fires = <<>>
  <2>1. todo' = None
    BY <1>4, <1>14
  <2> QED
    BY <1>1, <1>7, <1>8, <1>9, <1>11, <1>12, <2>1 DEF ClockInv, Owed, OnceInv
<1>15. CASE fires # <<>>
  <2>1. todo' = [trigger |-> t, fires |-> fires]
    BY <1>4, <1>15
  <2>2. def[t].policy = "skip" => \A i \in DOMAIN fires : now - fires[i] <= TickMs + GraceMs
    <3> SUFFICES ASSUME def[t].policy = "skip", NEW i \in DOMAIN fires
                 PROVE  now - fires[i] <= TickMs + GraceMs
      OBVIOUS
    <3>1. fires[i] > Edge /\ fires[i] \in Nat
      BY <1>3, <1>13
    <3>2. now - Edge <= TickMs + GraceMs
      <4>1. CASE pass.since = None
        BY <1>5, <4>1, Sizes DEF Edge
      <4>2. CASE pass.since # None
        BY <1>2, <4>2 DEF Edge, ClockInv, Vouched
      <4> QED
        BY <4>1, <4>2
    <3> QED
      BY <1>3, <1>5, <3>1, <3>2, Sizes
  <2>3. \A i \in DOMAIN fires : seen[t] < fires[i] /\ fires[i] <= now
    BY <1>3, <1>10, <1>13
  <2>4. Owed'
    <3>1. OwedTo(t, fires)'
      BY <1>1, <1>5, <1>6, <1>15, <2>2, <2>3 DEF OwedTo
    <3> QED
      BY <2>1, <3>1 DEF Owed
  <2>5. NoHourSkipped /\ OnceInv => OnceInv'
    <3> SUFFICES ASSUME NoHourSkipped, OnceInv PROVE OnceInv'
      OBVIOUS
    <3>1. \A i \in DOMAIN fires, j \in DOMAIN answered[t] : fires[i] # answered[t][j]
      <4> SUFFICES ASSUME NEW i \in DOMAIN fires, NEW j \in DOMAIN answered[t]
                   PROVE  fires[i] # answered[t][j]
        OBVIOUS
      <4>1. answered[t][j] <= position[t]
        BY <1>1 DEF ClockInv, Past
      <4>2. answered[t][j] \in Nat
        <5>1. answered[t] \in Seq(Instants)
          BY DEF TypeOK
        <5>2. answered[t][j] \in Instants
          BY <5>1
        <5> QED
          BY <5>2, Sizes
      <4> QED
        BY <1>3, <1>13, <4>1, <4>2
    <3>2. Once(t, fires)
      BY <1>3, <3>1 DEF Once
    <3> QED
      BY <1>1, <2>1, <3>2 DEF OnceInv, Once
  <2> QED
    BY <1>7, <1>8, <1>9, <1>11, <1>12, <2>4, <2>5 DEF ClockInv
<1> QED
  BY <1>14, <1>15

LEMMA EnqueueKeeps ==
  ASSUME TypeOK, ClockInv, Enqueue
  PROVE  TypeOK' /\ ClockInv' /\ (OnceInv => OnceInv')
<1>1. todo \in [trigger : Trigger, fires : Seq(Instants)] /\ todo # None
  BY DEF Enqueue, TypeOK
<1>2. PICK t, fires : t = todo.trigger /\ fires = todo.fires
  OBVIOUS
<1>3. t \in Trigger /\ fires \in Seq(Instants) /\ OwedTo(t, fires)
  BY <1>1, <1>2 DEF ClockInv, Owed
<1>4. fires # <<>> /\ Head(fires) = fires[1] /\ 1 \in DOMAIN fires /\ fires[1] \in Instants
  BY <1>3 DEF OwedTo
<1>5. /\ UNCHANGED <<now, def, position, up, lastTickAt, pass, seen, edits, crashes>>
      /\ answered' = [answered EXCEPT ![t] = Append(answered[t], fires[1])]
      /\ todo' = IF Len(fires) = 1 THEN None ELSE [todo EXCEPT !.fires = Tail(fires)]
  BY <1>2, <1>4 DEF Enqueue, bounds
<1>6. answered[t] \in Seq(Instants) /\ DOMAIN answered[t] = 1..Len(answered[t])
      /\ Len(answered[t]) \in Nat /\ Len(fires) \in Nat
  BY <1>3 DEF TypeOK
<1>7. PICK longer : longer = Append(answered[t], fires[1])
  OBVIOUS
<1>8. /\ longer \in Seq(Instants) /\ Len(longer) = Len(answered[t]) + 1
      /\ DOMAIN longer = 1..Len(answered[t]) + 1
      /\ longer[Len(answered[t]) + 1] = fires[1]
      /\ \A i \in 1..Len(answered[t]) : longer[i] = answered[t][i]
  <2> HIDE DEF Instants
  <2> QED
    BY <1>4, <1>6, <1>7
<1>9. \A u \in Trigger : answered'[u] = IF u = t THEN longer ELSE answered[u]
  BY <1>5, <1>7 DEF TypeOK
\* What is left to ask for.
<1>10. PICK rest : rest = Tail(fires)
  OBVIOUS
<1>11. /\ rest \in Seq(Instants) /\ Len(rest) = Len(fires) - 1
       /\ \A i \in DOMAIN rest : i + 1 \in DOMAIN fires /\ rest[i] = fires[i + 1]
       /\ Len(fires) # 1 => rest # <<>>
  <2> HIDE DEF Instants
  <2>1. rest \in Seq(Instants) /\ Len(rest) = Len(fires) - 1
    BY <1>3, <1>4, <1>10
  <2>2. \A i \in DOMAIN rest : i + 1 \in DOMAIN fires /\ rest[i] = fires[i + 1]
    BY <1>3, <1>4, <1>10
  <2>3. Len(fires) # 1 => Len(rest) # 0
    BY <1>6, <2>1
  <2> QED
    BY <2>1, <2>2, <2>3
<1>12. todo' = None \/ (Len(fires) # 1 /\ todo' = [trigger |-> t, fires |-> rest])
  <2> HIDE DEF Instants
  <2> QED
    BY <1>1, <1>2, <1>5, <1>10
<1>13. TypeOK'
  <2> HIDE DEF Instants
  <2>1. answered' \in [Trigger -> Seq(Instants)]
    BY <1>5, <1>7, <1>8 DEF TypeOK
  <2>2. todo' \in {None} \cup [trigger : Trigger, fires : Seq(Instants)]
    BY <1>3, <1>11, <1>12
  <2> QED
    BY <1>5, <2>1, <2>2 DEF TypeOK
<1>14. \A i \in DOMAIN fires : seen[t] < fires[i] /\ fires[i] <= position[t]
  BY <1>3 DEF OwedTo
<1>15. Past'
  <2> SUFFICES ASSUME NEW u \in Trigger, NEW i \in DOMAIN answered'[u]
               PROVE  /\ answered'[u][i] <= now
                      /\ position[u] # None => answered'[u][i] <= position[u]
    BY <1>5 DEF Past
  <2>1. CASE u # t
    BY <1>9, <2>1 DEF ClockInv, Past
  <2>2. CASE u = t /\ i \in 1..Len(answered[t])
    BY <1>6, <1>8, <1>9, <2>2 DEF ClockInv, Past
  <2>3. CASE u = t /\ i = Len(answered[t]) + 1
    <3>1. answered'[u][i] = fires[1]
      BY <1>8, <1>9, <2>3
    <3>2. position[t] # None /\ position[t] <= now /\ position[t] \in Nat /\ now \in Nat
      BY <1>3, Sizes DEF OwedTo, ClockInv, Positions, TypeOK
    <3>3. fires[1] <= position[t] /\ fires[1] \in Nat
      BY <1>4, <1>14, Sizes
    <3> QED
      BY <2>3, <3>1, <3>2, <3>3
  <2> QED
    BY <1>6, <1>8, <1>9, <2>1, <2>2, <2>3
<1>16. Owed'
  <2> SUFFICES ASSUME Len(fires) # 1, todo' = [trigger |-> t, fires |-> rest]
               PROVE  OwedTo(t, rest)'
    BY <1>12 DEF Owed
  <2>1. OwedTo(t, rest)
    BY <1>3, <1>11 DEF OwedTo
  <2> QED
    BY <1>5, <2>1 DEF OwedTo
<1>17. Ticked' /\ Positions' /\ Vouched'
  <2>1. up
    BY <1>1 DEF ClockInv, Ticked
  <2> QED
    BY <1>5, <2>1 DEF ClockInv, Ticked, Positions, Vouched
<1>18. OnceInv => OnceInv'
  <2> SUFFICES ASSUME OnceInv PROVE OnceInv'
    OBVIOUS
  <2>1. /\ PairwiseDistinct(fires) /\ PairwiseDistinct(answered[t])
        /\ \A i \in DOMAIN fires, j \in DOMAIN answered[t] : fires[i] # answered[t][j]
    BY <1>1, <1>2, <1>3 DEF OnceInv, Once
  <2>2. PairwiseDistinct(longer)
    <3> SUFFICES ASSUME NEW i \in DOMAIN longer, NEW j \in DOMAIN longer, longer[i] = longer[j]
                 PROVE  i = j
      BY DEF PairwiseDistinct
    <3> DEFINE k == Len(answered[t])
    <3>1. (i \in 1..k \/ i = k + 1) /\ (j \in 1..k \/ j = k + 1)
      BY <1>6, <1>8
    <3>2. \A x \in 1..k : longer[x] = answered[t][x] /\ x \in DOMAIN answered[t]
      BY <1>6, <1>8
    <3>3. longer[k + 1] = fires[1]
      BY <1>8
    <3> HIDE DEF k
    <3> QED
      BY <1>4, <2>1, <3>1, <3>2, <3>3 DEF PairwiseDistinct
  <2>3. \A u \in Trigger : PairwiseDistinct(answered'[u])
    BY <1>9, <2>1, <2>2 DEF OnceInv
  <2>4. ASSUME todo' # None PROVE Once(t, rest)'
    <3>1. \A i \in DOMAIN rest : i \in Nat /\ i + 1 # 1
      BY <1>11
    <3>2. PairwiseDistinct(rest)
      <4> SUFFICES ASSUME NEW i \in DOMAIN rest, NEW j \in DOMAIN rest, rest[i] = rest[j]
                   PROVE  i = j
        BY DEF PairwiseDistinct
      <4>1. i + 1 = j + 1
        BY <1>11, <2>1 DEF PairwiseDistinct
      <4> QED
        BY <3>1, <4>1
    <3>3. ASSUME NEW i \in DOMAIN rest, NEW j \in DOMAIN longer PROVE rest[i] # longer[j]
      <4>1. CASE j \in 1..Len(answered[t])
        <5>1. j \in DOMAIN answered[t] /\ longer[j] = answered[t][j]
          BY <1>6, <1>8, <4>1
        <5>2. i + 1 \in DOMAIN fires /\ rest[i] = fires[i + 1]
          BY <1>11
        <5> QED
          BY <2>1, <5>1, <5>2
      <4>2. CASE j = Len(answered[t]) + 1
        BY <1>4, <1>8, <1>11, <2>1, <3>1, <4>2 DEF PairwiseDistinct
      <4> QED
        BY <1>6, <1>8, <4>1, <4>2
    <3> QED
      BY <1>3, <1>9, <3>2, <3>3 DEF Once
  <2>5. CASE todo' = None
    BY <2>3, <2>5 DEF OnceInv
  <2>6. CASE todo' # None /\ todo' = [trigger |-> t, fires |-> rest]
    <3>1. Once(t, rest)'
      BY <2>4, <2>6
    <3> QED
      BY <2>3, <2>6, <3>1 DEF OnceInv
  <2> QED
    BY <1>12, <2>5, <2>6
<1> QED
  BY <1>13, <1>15, <1>16, <1>17, <1>18 DEF ClockInv

LEMMA EndPassKeeps ==
  ASSUME TypeOK, ClockInv, EndPass
  PROVE  TypeOK' /\ ClockInv' /\ (OnceInv => OnceInv')
<1>1. /\ UNCHANGED <<now, def, position, up, lastTickAt, todo, answered, seen, edits, crashes>>
      /\ pass' = None /\ todo = None
  BY DEF EndPass, stored, history, bounds
<1>2. TypeOK'
  BY <1>1 DEF TypeOK
<1> QED
  BY <1>1, <1>2 DEF ClockInv, Ticked, Positions, Past, Vouched, Owed, OnceInv, Once

LEMMA SaveTriggerKeeps ==
  ASSUME TypeOK, ClockInv, NEW t \in Trigger,
         NEW d \in {None} \cup [expression : Expression, policy : Policies], SaveTrigger(t, d)
  PROVE  TypeOK' /\ ClockInv' /\ (OnceInv => OnceInv')
<1>1. /\ UNCHANGED <<now, position, up, lastTickAt, pass, todo, answered, seen, crashes>>
      /\ def' = [def EXCEPT ![t] = d] /\ edits' = edits + 1 /\ pass = None /\ todo = None
  BY DEF SaveTrigger, Idle, history
<1>2. TypeOK'
  BY <1>1 DEF TypeOK
<1> QED
  BY <1>1, <1>2 DEF ClockInv, Ticked, Positions, Past, Vouched, Owed, OnceInv, Once

LEMMA DeleteWorkflowKeeps ==
  ASSUME TypeOK, ClockInv, DeleteWorkflow
  PROVE  TypeOK' /\ ClockInv' /\ (OnceInv => OnceInv')
<1>1. /\ UNCHANGED <<now, up, lastTickAt, pass, todo, answered, crashes>>
      /\ def' = [t \in Trigger |-> None] /\ position' = [t \in Trigger |-> None]
      /\ seen' = [t \in Trigger |-> None] /\ edits' = edits + 1 /\ pass = None /\ todo = None
  BY DEF DeleteWorkflow, Idle, Cleared
<1>2. TypeOK'
  BY <1>1 DEF TypeOK
<1> QED
  BY <1>1, <1>2 DEF ClockInv, Ticked, Positions, Past, Vouched, Owed, OnceInv, Once

LEMMA StopKeeps ==
  ASSUME TypeOK, ClockInv, Stop
  PROVE  TypeOK' /\ ClockInv' /\ (OnceInv => OnceInv')
<1>1. /\ UNCHANGED <<now, def, position, answered, seen, edits>>
      /\ up' = FALSE /\ lastTickAt' = None /\ pass' = None /\ todo' = None
      /\ crashes' = crashes + 1
  BY DEF Stop, stored, history
<1>2. TypeOK'
  <2>1. up' \in BOOLEAN
    BY <1>1
  <2> QED
    BY <1>1, <2>1 DEF TypeOK
<1> QED
  BY <1>1, <1>2 DEF ClockInv, Ticked, Positions, Past, Vouched, Owed, OnceInv, Once

LEMMA ClockInit ==
  ASSUME Init
  PROVE  TypeOK /\ ClockInv /\ OnceInv
<1>1. TypeOK
  <2>1. now \in Instants
    BY Sizes DEF Init
  <2> HIDE DEF Instants
  <2>2. <<>> \in Seq(Instants)
    OBVIOUS
  <2>3. answered \in [Trigger -> Seq(Instants)]
    BY <2>2 DEF Init
  <2>4. up \in BOOLEAN
    BY DEF Init
  <2> QED
    BY <2>1, <2>3, <2>4 DEF Init, TypeOK
<1>2. ClockInv
  BY DEF Init, ClockInv, Ticked, Positions, Past, Vouched, Owed
<1>3. OnceInv
  BY DEF Init, OnceInv, PairwiseDistinct
<1> QED
  BY <1>1, <1>2, <1>3

LEMMA ClockNext ==
  ASSUME TypeOK, ClockInv, [Next]_vars
  PROVE  TypeOK' /\ ClockInv' /\ (NoHourSkipped /\ OnceInv => OnceInv')
<1>1. ASSUME NEW t \in Trigger, Absent(t) \/ FirstSight(t) \/ NoneDue(t) \/ Advance(t)
      PROVE  TypeOK' /\ ClockInv' /\ (NoHourSkipped /\ OnceInv => OnceInv')
  BY <1>1, PassOverKeeps, FirstSightKeeps, AdvanceKeeps
<1>2. ASSUME NEW t \in Trigger, NEW d \in {None} \cup [expression : Expression, policy : Policies],
             SaveTrigger(t, d)
      PROVE  TypeOK' /\ ClockInv' /\ (NoHourSkipped /\ OnceInv => OnceInv')
  BY <1>2, SaveTriggerKeeps
<1>3. CASE UNCHANGED vars
  <2>1. UNCHANGED <<now, def, position, up, lastTickAt, pass, todo, answered, seen, edits, crashes>>
    BY <1>3 DEF vars, stored, history, bounds
  <2>2. TypeOK'
    BY <2>1 DEF TypeOK
  <2>3. ClockInv'
    BY <2>1 DEF ClockInv, Ticked, Positions, Past, Vouched, Owed, OwedTo
  <2>4. OnceInv => OnceInv'
    BY <2>1 DEF OnceInv, Once
  <2> QED
    BY <2>2, <2>3, <2>4
<1>4. CASE Pass \/ Start \/ Tick \/ Enqueue \/ EndPass \/ DeleteWorkflow \/ Stop
  BY <1>4, PassKeeps, BeginKeeps, EnqueueKeeps, EndPassKeeps, DeleteWorkflowKeeps, StopKeeps
<1> QED
  BY <1>1, <1>2, <1>3, <1>4 DEF Next

\* A run is asked for by Enqueue only, and for the next fire that is owed.
LEMMA AskedIsOwed ==
  ASSUME TypeOK, ClockInv, [Next]_vars, NEW t \in Trigger, Asked(t)
  PROVE  \E fires \in Seq(Instants) :
           OwedTo(t, fires) /\ 1 \in DOMAIN fires /\ Last(answered'[t]) = fires[1]
<1>1. CASE Enqueue
  <2>1. todo \in [trigger : Trigger, fires : Seq(Instants)] /\ todo # None
    BY <1>1 DEF Enqueue, TypeOK
  <2>2. PICK u, fires : u = todo.trigger /\ fires = todo.fires
    OBVIOUS
  <2>3. u \in Trigger /\ fires \in Seq(Instants) /\ OwedTo(u, fires)
    BY <2>1, <2>2 DEF ClockInv, Owed
  <2>4. Head(fires) = fires[1] /\ 1 \in DOMAIN fires /\ fires[1] \in Instants
    BY <2>3 DEF OwedTo
  <2>5. answered' = [answered EXCEPT ![u] = Append(answered[u], fires[1])]
    BY <1>1, <2>2, <2>4 DEF Enqueue
  <2>6. answered[u] \in Seq(Instants)
    BY <2>3 DEF TypeOK
  <2>7. u = t
    <3> SUFFICES ASSUME u # t PROVE FALSE
      OBVIOUS
    <3>1. answered'[t] = answered[t]
      BY <2>5 DEF TypeOK
    <3>2. Len(answered[t]) \in Nat
      <4>1. answered[t] \in Seq(Instants)
        BY DEF TypeOK
      <4> QED
        BY <4>1
    <3> QED
      BY <3>1, <3>2 DEF Asked
  <2>8. answered'[t] = Append(answered[t], fires[1])
    BY <2>5, <2>7 DEF TypeOK
  <2>9. Last(answered'[t]) = fires[1]
    <3> HIDE DEF Instants
    <3>1. /\ Len(Append(answered[t], fires[1])) = Len(answered[t]) + 1
          /\ Append(answered[t], fires[1])[Len(answered[t]) + 1] = fires[1]
      BY <2>4, <2>6, <2>7
    <3> QED
      BY <2>8, <3>1 DEF Last
  <2> QED
    BY <2>3, <2>4, <2>7, <2>9
<1>2. CASE ~Enqueue
  <2>1. answered' = answered
    BY <1>2 DEF Next, Pass, Start, Tick, EndPass, DeleteWorkflow, Stop, Absent, FirstSight, NoneDue,
                Advance, SaveTrigger, vars, history, stored, bounds
  <2>2. Len(answered[t]) \in Nat
    <3>1. answered[t] \in Seq(Instants)
      BY DEF TypeOK
    <3> QED
      BY <3>1
  <2> QED
    BY <2>1, <2>2 DEF Asked
<1> QED
  BY <1>1, <1>2

-----------------------------------------------------------------------------
(* The theorems.                                                           *)

\* The scheduler's variables keep their types, and what it owes and has asked
\* for lies between what was first seen and the stored position.
THEOREM ClockInvariant == Spec => [](TypeOK /\ ClockInv)
<1>1. Init => TypeOK /\ ClockInv
  BY ClockInit
<1>2. TypeOK /\ ClockInv /\ [Next]_vars => (TypeOK /\ ClockInv)'
  BY ClockNext
<1> QED
  BY <1>1, <1>2, PTL DEF Spec

\* Wherever the clocks are never put forward, no fire of a schedule is run
\* twice, over late timers, deaths between two writes of a pass, edits and
\* deletions (scheduler.mjs stores the position before it asks for runs).
THEOREM FiredOnce == ASSUME NoHourSkipped PROVE Spec => []NoFireTwice
<1>1. Init => TypeOK /\ ClockInv /\ OnceInv
  BY ClockInit
<1>2. TypeOK /\ ClockInv /\ OnceInv /\ [Next]_vars => (TypeOK /\ ClockInv /\ OnceInv)'
  BY ClockNext
<1>3. OnceInv => NoFireTwice
  BY DEF OnceInv, PairwiseDistinct, NoFireTwice
<1> QED
  BY <1>1, <1>2, <1>3, PTL DEF Spec

\* A schedule never runs for the time before it was first seen, nor a deleted
\* workflow's successor for its predecessor's (clearTriggerState).
THEOREM NothingBefore == Spec => NothingBeforeFirstSight
<1> DEFINE Later == \A t \in Trigger : Asked(t) => seen[t] # None /\ Last(answered'[t]) > seen[t]
<1>1. ASSUME TypeOK, ClockInv, [Next]_vars
      PROVE  Later
  <2> SUFFICES ASSUME NEW t \in Trigger, Asked(t)
               PROVE  seen[t] # None /\ Last(answered'[t]) > seen[t]
    OBVIOUS
  <2>1. PICK fires \in Seq(Instants) :
          OwedTo(t, fires) /\ 1 \in DOMAIN fires /\ Last(answered'[t]) = fires[1]
    BY <1>1, AskedIsOwed
  <2>2. fires[1] \in Instants
    BY <2>1
  <2>3. seen[t] < fires[1] /\ seen[t] # None
    BY <1>1, <2>1 DEF OwedTo, ClockInv, Positions
  <2>4. seen[t] \in Nat /\ fires[1] \in Nat
    BY <1>1, <2>2, <2>3, Sizes DEF TypeOK
  <2> QED
    BY <2>1, <2>3, <2>4
<1>2. TypeOK /\ ClockInv /\ [Next]_vars => [Later]_vars
  BY <1>1
<1> HIDE DEF Later
<1>3. Spec => [][Later]_vars
  BY <1>2, ClockInvariant, PTL DEF Spec
<1> QED
  BY <1>3 DEF NothingBeforeFirstSight, Later

\* Under "skip" no fire is run that came due while nobody ticked: LiveSince
\* vouches for one late tick at most.
THEOREM SkippedStaySkipped == Spec => SkipIsFresh
<1> DEFINE Recent == \A t \in Trigger : Asked(t) /\ def[t].policy = "skip" =>
                       now - Last(answered'[t]) <= TickMs + GraceMs
<1>1. ASSUME TypeOK, ClockInv, [Next]_vars
      PROVE  Recent
  <2> SUFFICES ASSUME NEW t \in Trigger, Asked(t), def[t].policy = "skip"
               PROVE  now - Last(answered'[t]) <= TickMs + GraceMs
    OBVIOUS
  <2>1. PICK fires \in Seq(Instants) :
          OwedTo(t, fires) /\ 1 \in DOMAIN fires /\ Last(answered'[t]) = fires[1]
    BY <1>1, AskedIsOwed
  <2> QED
    BY <2>1 DEF OwedTo
<1>2. TypeOK /\ ClockInv /\ [Next]_vars => [Recent]_vars
  BY <1>1
<1> HIDE DEF Recent
<1>3. Spec => [][Recent]_vars
  BY <1>2, ClockInvariant, PTL DEF Spec
<1> QED
  BY <1>3 DEF SkipIsFresh, Recent

-----------------------------------------------------------------------------
(* The walk and the clock on the wall.                                     *)

\* The clocks are never put back: each hour passes once, in order.
NoHourRepeated ==
  \A j, k \in DOMAIN Clockface : j < k =>
    \/ Clockface[j][1] < Clockface[k][1]
    \/ Clockface[j][1] = Clockface[k][1] /\ Clockface[j][2] < Clockface[k][2]

\* The hours last to the horizon.
ClockfaceLasts == Horizon < Len(Clockface) * (Minutes * Fine)

\* A day field that is "*" permits every day.
StarsAreFull ==
  \A e \in Expression :
    /\ e.domRestricted \/ 1..DaysInMonth \subseteq Values(e, "dayOfMonth")
    /\ e.dowRestricted \/ 0..DaysInWeek - 1 \subseteq Values(e, "dayOfWeek")

\* The minute of the hour and the hour of an instant.
LEMMA ClockOf ==
  ASSUME NEW a \in Nat, NEW m \in 0..Minutes - 1, NEW x, x = (a * Minutes + m) * Fine
  PROVE  /\ x \in Nat /\ x % Fine = 0 /\ x \div Fine = a * Minutes + m
         /\ (x \div Fine) % Minutes = m /\ (x \div Fine) \div Minutes = a
         /\ x \div (Minutes * Fine) = a
<1> DEFINE u == a * Minutes + m
<1>1. Minutes \in Nat \ {0} /\ Fine \in Nat \ {0} /\ m \in Nat
  BY Calendar
<1>2. u \in Nat
  BY <1>1
<1>3. x = Fine * u + 0 /\ 0 \in 0..Fine - 1 /\ x \in Nat
  <2> HIDE DEF u
  <2>1. x = u * Fine
    BY DEF u
  <2> QED
    BY <1>1, <1>2, <2>1
<1>4. x \div Fine = u /\ x % Fine = 0
  <2> HIDE DEF u
  <2>1. (Fine * u + 0) \div Fine = u /\ (Fine * u + 0) % Fine = 0
    BY <1>1, <1>2, <1>3, DivisionIsUnique
  <2> QED
    BY <1>3, <2>1
<1>5. u \div Minutes = a /\ u % Minutes = m
  <2>1. u = Minutes * a + m
    BY <1>1
  <2>2. (Minutes * a + m) \div Minutes = a /\ (Minutes * a + m) % Minutes = m
    BY <1>1, DivisionIsUnique
  <2> HIDE DEF u
  <2> QED
    BY <2>1, <2>2
<1>6. x \div (Minutes * Fine) = a
  <2> DEFINE b == Minutes * Fine
             r == m * Fine
  <2>1. b \in Nat \ {0}
    BY <1>1
  <2>2. r \in 0..b - 1
    <3>1. (m + 1) * Fine <= Minutes * Fine
      <4>1. m + 1 \in Nat /\ m + 1 <= Minutes
        BY <1>1
      <4> QED
        BY <1>1, <4>1, Multiples
    <3>2. (m + 1) * Fine = r + Fine /\ r \in Nat
      BY <1>1
    <3>3. r + Fine <= b
      BY <3>1, <3>2
    <3> HIDE DEF r, b
    <3> QED
      BY <1>1, <2>1, <3>2, <3>3
  <2>3. x = b * a + r
    BY <1>1
  <2> HIDE DEF b, r
  <2>4. (b * a + r) \div b = a
    BY <2>1, <2>2, DivisionIsUnique
  <2>5. x \div b = a
    BY <2>3, <2>4
  <2> QED
    BY <2>5 DEF b
<1> QED
  BY <1>3, <1>4, <1>5, <1>6 DEF u

\* As many hours pass before an hour as stand before it on the clock face.
LEMMA HoursBeforeOf ==
  ASSUME NoHourRepeated, NEW k \in DOMAIN Clockface
  PROVE  Cardinality(HoursBefore(Clockface[k][1], Clockface[k][2])) = k - 1
<1> DEFINE d == Clockface[k][1]  h == Clockface[k][2]
<1>1. \A j \in DOMAIN Clockface : Clockface[j][1] \in Nat /\ Clockface[j][2] \in Nat /\ j \in Nat
  BY Calendar
<1>2. ASSUME NEW j \in DOMAIN Clockface
      PROVE  j \in HoursBefore(d, h) <=> j < k
  <2>1. CASE j < k
    BY <2>1 DEF NoHourRepeated, HoursBefore
  <2>2. CASE j = k
    BY <1>1, <2>2 DEF HoursBefore
  <2>3. CASE k < j
    <3>1. d < Clockface[j][1] \/ (d = Clockface[j][1] /\ h < Clockface[j][2])
      BY <2>3 DEF NoHourRepeated
    <3> QED
      BY <1>1, <2>3, <3>1 DEF HoursBefore
  <2> QED
    BY <1>1, <2>1, <2>2, <2>3
<1>3. HoursBefore(d, h) = 1..k - 1
  <2>1. DOMAIN Clockface = 1..Len(Clockface) /\ Len(Clockface) \in Nat /\ k \in 1..Len(Clockface)
    BY Calendar
  <2>2. HoursBefore(d, h) \subseteq DOMAIN Clockface
    BY DEF HoursBefore
  <2> HIDE DEF d, h
  <2>3. ASSUME NEW j \in HoursBefore(d, h) PROVE j \in 1..k - 1
    BY <1>2, <2>1, <2>2
  <2>4. ASSUME NEW j \in 1..k - 1 PROVE j \in HoursBefore(d, h)
    <3>1. j \in DOMAIN Clockface /\ j < k
      BY <2>1
    <3> QED
      BY <1>2, <3>1
  <2> QED
    BY <2>3, <2>4
<1>4. Cardinality(1..k - 1) = k - 1
  <2>1. k \in Nat \ {0}
    BY Calendar
  <2>2. 1 \in Int /\ k - 1 \in Int
    BY <2>1
  <2>3. Cardinality(1..k - 1) = IF 1 > k - 1 THEN 0 ELSE (k - 1) - 1 + 1
    <3> DEFINE z == k - 1
    <3>1. z \in Int
      BY <2>2
    <3> HIDE DEF z
    <3>2. Cardinality(1..z) = IF 1 > z THEN 0 ELSE z - 1 + 1
      BY <2>2, <3>1, FS_Interval
    <3> QED
      BY <3>2 DEF z
  <2> QED
    BY <2>1, <2>3
<1> QED
  BY <1>3, <1>4

\* On the days of the calendar the code and the reference agree.
LEMMA SameDays ==
  ASSUME StarsAreFull, NEW e \in Expression, NEW d \in Nat
  PROVE  DayMatches(e, d) <=> NamedDay(e, d)
<1>1. DateOf(d) \in 1..DaysInMonth /\ WeekdayOf(d) \in 0..DaysInWeek - 1
  <2>1. d % DaysInMonth \in 0..DaysInMonth - 1 /\ d % DaysInWeek \in 0..DaysInWeek - 1
    BY Calendar, Division
  <2> QED
    BY <2>1, Calendar DEF DateOf, WeekdayOf
<1>2. ~e.domRestricted => DateOf(d) \in Values(e, "dayOfMonth")
  BY <1>1 DEF StarsAreFull
<1>3. ~e.dowRestricted => WeekdayOf(d) \in Values(e, "dayOfWeek")
  BY <1>1 DEF StarsAreFull
<1> QED
  BY <1>2, <1>3 DEF DayMatches, NamedDay

\* What the walk meets is named by the expression.
LEMMA WalkIsSound ==
  ASSUME NoHourSkipped, NoHourRepeated, StarsAreFull,
         NEW e \in Expression, NEW n \in NamedMinutes(e)
  PROVE  Named(e, InstantAt(n))
<1> DEFINE d == HourOf(n) \div Hours
           h == HourOf(n) % Hours
           m == n % Minutes
           x == InstantAt(n)
<1>1. n \in CalendarMinutes /\ DayMatches(e, d) /\ h \in Values(e, "hour") /\ m \in Values(e, "minute")
  BY DEF NamedMinutes
<1>2. d \in Days /\ h \in 0..Hours - 1 /\ m \in 0..Minutes - 1 /\ d \in Nat /\ h \in Nat /\ m \in Nat
  BY <1>1, MinuteOfCalendar, Calendar
<1>3. x = Instant(d, h, m)
  BY DEF InstantAt
<1> HIDE DEF d, h, m, x
<1>4. PICK k \in DOMAIN Clockface : Clockface[k][1] = d /\ Clockface[k][2] = h
  BY <1>2 DEF NoHourSkipped
<1>5. k \in Nat \ {0} /\ k - 1 \in Nat
  BY Calendar
<1>6. Cardinality(HoursBefore(d, h)) = k - 1
  BY <1>4, HoursBeforeOf
<1>7. x = ((k - 1) * Minutes + m) * Fine
  BY <1>2, <1>3, <1>6, InstantOf
<1>8. x % Fine = 0 /\ (x \div Fine) % Minutes = m /\ x \div (Minutes * Fine) = k - 1
  BY <1>2, <1>5, <1>7, ClockOf
<1>9. Wall(x) = Clockface[k]
  <2>1. (x \div (Minutes * Fine)) + 1 = k
    BY <1>5, <1>8
  <2> QED
    BY <2>1 DEF Wall
<1>10. NamedDay(e, d)
  BY <1>1, <1>2, SameDays
<1> QED
  BY <1>1, <1>4, <1>8, <1>9, <1>10 DEF Named, x

\* What the expression names the walk meets.
LEMMA WalkIsComplete ==
  ASSUME NoHourRepeated, StarsAreFull, ClockfaceLasts,
         NEW e \in Expression, NEW x \in Nat, x <= Horizon, Named(e, x)
  PROVE  \E n \in NamedMinutes(e) : InstantAt(n) = x
<1>0. /\ Minutes \in Nat \ {0} /\ Fine \in Nat \ {0} /\ Hours \in Nat \ {0} /\ Horizon \in Nat
      /\ Len(Clockface) \in Nat \ {0} /\ DOMAIN Clockface = 1..Len(Clockface)
  BY Calendar, Sizes
<1> DEFINE u == x \div Fine
           a == u \div Minutes
           m == u % Minutes
<1>1. u \in Nat /\ x % Fine = 0 /\ x = Fine * u
  <2>1. u \in Nat /\ x = Fine * u + (x % Fine)
    BY <1>0, Division
  <2>2. x % Fine = 0
    BY DEF Named
  <2> HIDE DEF u
  <2> QED
    BY <1>0, <2>1, <2>2
<1> HIDE DEF u
<1>2. a \in Nat /\ m \in 0..Minutes - 1 /\ m \in Nat /\ u = Minutes * a + m
  <2>1. a \in Nat /\ m \in 0..Minutes - 1 /\ u = Minutes * a + m
    BY <1>0, <1>1, Division
  <2> HIDE DEF a, m
  <2> QED
    BY <1>0, <2>1
<1> HIDE DEF a, m
<1>3. x = (a * Minutes + m) * Fine
  <2>1. u = a * Minutes + m
    BY <1>0, <1>2
  <2>2. x = u * Fine
    BY <1>0, <1>1
  <2> QED
    BY <2>1, <2>2
<1>4. x \div (Minutes * Fine) = a
  BY <1>2, <1>3, ClockOf
<1> DEFINE k == a + 1
<1>5. k \in DOMAIN Clockface
  <2>1. a < Len(Clockface)
    <3> SUFFICES ASSUME Len(Clockface) <= a PROVE FALSE
      BY <1>0, <1>2
    <3> DEFINE b == Minutes * Fine
               r == m * Fine
    <3>1. b \in Nat /\ r \in Nat
      BY <1>0, <1>2
    <3>2. x = a * b + r
      BY <1>0, <1>2, <1>3
    <3>3. Horizon < Len(Clockface) * b
      BY DEF ClockfaceLasts
    <3> HIDE DEF b, r
    <3>4. Len(Clockface) * b <= a * b
      BY <1>0, <1>2, <3>1, Multiples
    <3>5. a * b \in Nat /\ Len(Clockface) * b \in Nat
      BY <1>0, <1>2, <3>1
    <3> QED
      BY <1>0, <3>1, <3>2, <3>3, <3>4, <3>5
  <2> QED
    BY <1>0, <1>2, <2>1
<1>6. Wall(x) = Clockface[k]
  BY <1>4 DEF Wall
<1> DEFINE d == Clockface[k][1]
           h == Clockface[k][2]
<1>7. d \in Nat /\ h \in 0..Hours - 1 /\ h \in Nat /\ d <= LastDay /\ LastDay \in Nat
  <2>1. d \in Nat /\ h \in 0..Hours - 1 /\ LastDay \in Nat
    BY <1>5, Calendar
  <2>2. d <= LastDay
    <3>1. CASE k = Len(Clockface)
      BY <2>1, <3>1 DEF LastDay
    <3>2. CASE k # Len(Clockface)
      <4>1. k < Len(Clockface) /\ Len(Clockface) \in DOMAIN Clockface
        BY <1>0, <1>5, <3>2
      <4>2. d < LastDay \/ d = LastDay
        BY <1>5, <4>1 DEF NoHourRepeated, LastDay
      <4> QED
        BY <2>1, <4>2
    <3> QED
      BY <3>1, <3>2
  <2>3. h \in Nat
    BY <1>0, <2>1
  <2> QED
    BY <2>1, <2>2, <2>3
<1>8. Cardinality(HoursBefore(d, h)) = a
  <2>1. Cardinality(HoursBefore(d, h)) = k - 1
    BY <1>5, HoursBeforeOf
  <2> QED
    BY <1>2, <2>1
<1>9. /\ m \in Values(e, "minute") /\ h \in Values(e, "hour") /\ NamedDay(e, d)
  BY <1>6 DEF Named, m, u
<1> HIDE DEF d, h, k
\* The minute of the calendar.
<1> DEFINE c == Hours * d + h
           n == Minutes * c + m
<1>10. c \in Nat /\ c \div Hours = d /\ c % Hours = h
  BY <1>0, <1>7, DivisionIsUnique
<1>11. c + 1 <= (LastDay + 1) * Hours
  <2>1. (d + 1) * Hours <= (LastDay + 1) * Hours
    <3>1. d + 1 <= LastDay + 1 /\ d + 1 \in Nat /\ LastDay + 1 \in Nat
      BY <1>7
    <3> QED
      BY <1>0, <3>1, Multiples
  <2>2. (d + 1) * Hours = Hours * d + Hours /\ Hours * d \in Nat /\ (LastDay + 1) * Hours \in Nat
    BY <1>0, <1>7
  <2>3. h + 1 <= Hours
    BY <1>0, <1>7
  <2> QED
    BY <1>0, <1>7, <2>1, <2>2, <2>3
<1> HIDE DEF c
<1>12. n \in Nat /\ n \div Minutes = c /\ n % Minutes = m
  <2>1. (Minutes * c + m) \div Minutes = c /\ (Minutes * c + m) % Minutes = m
    BY <1>0, <1>2, <1>10, DivisionIsUnique
  <2>2. n \in Nat
    BY <1>0, <1>2, <1>10
  <2> QED
    BY <2>1, <2>2
<1>13. n \in CalendarMinutes
  <2> DEFINE H == (LastDay + 1) * Hours
  <2>1. H \in Nat /\ Cardinality(Days) * Hours * Minutes = H * Minutes
    BY <1>0, <1>7, Calendar
  <2> HIDE DEF H
  <2>2. (c + 1) * Minutes <= H * Minutes
    BY <1>0, <1>10, <1>11, <2>1, Multiples DEF H
  <2>3. (c + 1) * Minutes = Minutes * c + Minutes /\ Minutes * c \in Nat /\ H * Minutes \in Nat
    BY <1>0, <1>10, <2>1
  <2>4. n < H * Minutes
    BY <1>0, <1>2, <2>2, <2>3
  <2> HIDE DEF n
  <2> QED
    BY <1>12, <2>1, <2>3, <2>4 DEF CalendarMinutes
<1> HIDE DEF n
<1>14. HourOf(n) = c
  BY <1>12 DEF HourOf
<1>15. n \in NamedMinutes(e)
  <2>1. DayMatches(e, d)
    BY <1>7, <1>9, SameDays
  <2> QED
    BY <1>9, <1>10, <1>12, <1>13, <1>14, <2>1 DEF NamedMinutes
<1>16. InstantAt(n) = x
  <2>1. InstantAt(n) = Instant(d, h, m)
    BY <1>10, <1>12, <1>14 DEF InstantAt
  <2>2. Instant(d, h, m) = (a * Minutes + m) * Fine
    BY <1>2, <1>7, <1>8, InstantOf
  <2> QED
    BY <1>3, <2>1, <2>2
<1> QED
  BY <1>15, <1>16

\* Where the clocks change, the walk misses or invents times; everywhere else
\* it finds exactly the minutes the wall clock reads a time the expression
\* names, in order (fireTimesBetween walks the calendar, not the clock).
THEOREM WalkExact ==
  ASSUME NoHourSkipped, NoHourRepeated, StarsAreFull, ClockfaceLasts
  PROVE  Spec => []WalkIsExact
<1>1. ASSUME TypeOK PROVE WalkIsExact
  <2> SUFFICES ASSUME NEW t \in Trigger, def[t] # None, position[t] # None
               PROVE  LET due == FireTimes(def[t].expression, position[t], now, 0).times
                      IN /\ ToSet(due) = {x \in position[t] + 1 .. now : Named(def[t].expression, x)}
                         /\ \A i, j \in DOMAIN due : i < j => due[i] < due[j]
    BY DEF WalkIsExact
  <2> DEFINE e == def[t].expression
             a == position[t]
             found == FireTimes(e, a, now, 0)
             due == found.times
  <2>1. e \in Expression /\ a \in Nat /\ now \in Nat /\ now <= Horizon
    BY <1>1, Sizes DEF TypeOK
  <2> HIDE DEF e, a
  <2>2. /\ due \in Seq(Nat) /\ Increasing(due)
        /\ \A i \in DOMAIN due : due[i] \in a + 1..now
        /\ \A i \in DOMAIN due : \E n \in NamedMinutes(e) : due[i] = InstantAt(n)
        /\ \A n \in NamedMinutes(e) :
             InstantAt(n) \in a + 1..now => \E i \in DOMAIN due : due[i] = InstantAt(n)
    <3>1. /\ found.times \in Seq(Nat) /\ (NoHourSkipped => Increasing(found.times))
          /\ (0 = 0 => ~found.truncated)
          /\ \A i \in DOMAIN found.times : found.times[i] \in a + 1..now
          /\ \A i \in DOMAIN found.times : \E n \in NamedMinutes(e) : found.times[i] = InstantAt(n)
      BY <2>1, 0 \in Nat, FireTimesOf
    <3>2. ~found.truncated => \A n \in NamedMinutes(e) :
            InstantAt(n) \in a + 1..now => \E i \in DOMAIN found.times : found.times[i] = InstantAt(n)
      BY <2>1, 0 \in Nat, FireTimesOf, ZenonT(30)
    <3> HIDE DEF found
    <3> QED
      BY <3>1, <3>2
  <2> HIDE DEF due, found
  <2>3. ToSet(due) = {x \in a + 1..now : Named(e, x)}
    <3>1. ASSUME NEW x \in ToSet(due) PROVE x \in a + 1..now /\ Named(e, x)
      <4>1. PICK i \in DOMAIN due : due[i] = x
        BY DEF ToSet
      <4>2. PICK n \in NamedMinutes(e) : due[i] = InstantAt(n)
        BY <2>2
      <4> QED
        BY <2>1, <2>2, <4>1, <4>2, WalkIsSound
    <3>2. ASSUME NEW x \in a + 1..now, Named(e, x) PROVE x \in ToSet(due)
      <4>1. x \in Nat /\ x <= Horizon
        BY <2>1, Sizes
      <4>2. PICK n \in NamedMinutes(e) : InstantAt(n) = x
        BY <2>1, <3>2, <4>1, WalkIsComplete
      <4>3. PICK i \in DOMAIN due : due[i] = InstantAt(n)
        BY <2>2, <4>2
      <4> QED
        BY <4>2, <4>3 DEF ToSet
    <3> QED
      BY <3>1, <3>2
  <2> QED
    BY <2>2, <2>3 DEF e, a, due, found, Increasing
<1>2. TypeOK /\ ClockInv => WalkIsExact
  BY <1>1
<1> QED
  BY <1>2, ClockInvariant, PTL

\* A fire the scheduler was awake for is run, whatever the policy and although
\* clocks may be put forward, unless the pass met BACKFILL_CAP (processTrigger).
THEOREM WatchedFiresRun ==
  ASSUME NoHourRepeated, StarsAreFull, ClockfaceLasts
  PROVE  Spec => OnTimeRuns
<1> DEFINE Run == \A t \in Trigger :
             Decides(t) /\ def[t] # None /\ position[t] # None /\ pass.since # None =>
               Due(t).truncated \/ \A x \in Watched(t) : todo' # None /\ x \in ToSet(todo'.fires)
<1>1. ASSUME TypeOK, ClockInv, [Next]_vars
      PROVE  Run
  <2> SUFFICES ASSUME NEW t \in Trigger, Decides(t), def[t] # None, position[t] # None,
                      pass.since # None, ~Due(t).truncated, NEW x \in Watched(t)
               PROVE  todo' # None /\ x \in ToSet(todo'.fires)
    OBVIOUS
  <2>1. pass # None /\ t \in pass.left /\ pass' # None /\ t \notin pass'.left
    BY DEF Decides
  <2>2. NoneDue(t) \/ Advance(t)
    <3>1. pass' # pass
      BY <2>1
    <3>2. up
      BY <1>1, <2>1 DEF ClockInv, Ticked
    <3>3. ASSUME NEW u \in Trigger, Looks(u) PROVE u = t
      BY <1>1, <2>1, <3>3 DEF Looks, TypeOK
    <3>4. ~UNCHANGED vars /\ ~Pass /\ ~Start /\ ~Tick /\ ~Enqueue /\ ~EndPass /\ ~DeleteWorkflow /\ ~Stop
      BY <2>1, <3>1, <3>2 DEF vars, Pass, Start, Tick, Idle, Enqueue, EndPass, DeleteWorkflow, Stop
    <3>5. PICK u \in Trigger : Absent(u) \/ FirstSight(u) \/ NoneDue(u) \/ Advance(u)
      <4>1. ASSUME NEW u \in Trigger, NEW d, SaveTrigger(u, d) PROVE FALSE
        BY <2>1, <4>1 DEF SaveTrigger, Idle
      <4> QED
        BY <1>1, <3>4, <4>1 DEF Next
    <3>6. u = t
      BY <3>3, <3>5 DEF Absent, FirstSight, NoneDue, Advance
    <3> QED
      BY <3>5, <3>6 DEF Absent, FirstSight
  <2>3. x \in Nat /\ x > Edge /\ x \in position[t] + 1..now /\ x <= Horizon
        /\ Named(def[t].expression, x)
    <3>1. x \in Instants /\ pass.since < x /\ position[t] < x /\ x <= now /\ Named(def[t].expression, x)
      BY DEF Watched
    <3>2. position[t] \in Nat /\ now \in Nat
      BY <1>1, <2>1, DueOf
    <3>3. x \in Nat /\ x <= Horizon /\ pass.since \in Nat
      BY <1>1, <2>1, <3>1, Sizes DEF TypeOK
    <3> QED
      BY <3>1, <3>2, <3>3 DEF Edge
  <2>4. PICK i \in DOMAIN Due(t).times : Due(t).times[i] = x
    <3>1. def[t].expression \in Expression
      BY <1>1, <2>1, DueOf
    <3>2. PICK n \in NamedMinutes(def[t].expression) : InstantAt(n) = x
      BY <2>3, <3>1, WalkIsComplete
    <3> QED
      BY <1>1, <2>1, <2>3, <3>2, DueOf
  <2>5. Due(t).times # <<>>
    BY <2>4
  <2>6. PICK j \in DOMAIN Chosen(t) : Chosen(t)[j] = x
    BY <1>1, <2>1, <2>3, <2>4, ChosenOf
  <2>7. todo' = [trigger |-> t, fires |-> Chosen(t)]
    <3>1. Advance(t)
      BY <2>2, <2>5 DEF NoneDue
    <3>2. Chosen(t) # <<>>
      BY <2>6
    <3> QED
      BY <3>1, <3>2 DEF Advance
  <2>8. todo' # None
    <3>1. Chosen(t) \in Seq(Instants)
      BY <1>1, <2>1, ChosenOf
    <3>2. todo' \in [trigger : Trigger, fires : Seq(Instants)]
      BY <2>7, <3>1
    <3> QED
      BY <3>2, Sizes
  <2>9. todo'.fires = Chosen(t)
    BY <2>7
  <2> QED
    BY <2>6, <2>8, <2>9 DEF ToSet
<1>2. TypeOK /\ ClockInv /\ [Next]_vars => [Run]_vars
  BY <1>1
<1> HIDE DEF Run
<1>3. Spec => [][Run]_vars
  BY <1>2, ClockInvariant, PTL DEF Spec
<1> QED
  BY <1>3 DEF OnTimeRuns, Run
=============================================================================
