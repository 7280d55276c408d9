-------------------------- MODULE VoiceIntent_proofs --------------------------
(***************************************************************************)
(* Proofs about the router and the time parser, for any vocabulary, any    *)
(* length of utterance and any moment in the calendar.                     *)
(***************************************************************************)
EXTENDS VoiceIntent, TLAPS, WellFoundedInduction, FiniteSetTheorems, SequenceTheorems

-----------------------------------------------------------------------------
(* Induction, by the least counterexample.                                 *)

\* A set of numbers that is not empty has a least one.
LEMMA Least == ASSUME NEW T \in SUBSET Nat, T # {} PROVE \E x \in T : \A y \in T : x <= y
  <1> DEFINE R == OpToRel(<, Nat)
  <1>1. \A x, y \in Nat : <<y, x>> \in R <=> y < x
    BY DEF OpToRel
  <1>2. IsWellFoundedOn(R, Nat)
    BY NatLessThanWellFounded
  <1> HIDE DEF R
  <1>3. PICK x \in T : \A y \in T : ~ (<<y, x>> \in R)
    BY <1>2, WFMin
  <1>4. ASSUME NEW y \in T PROVE x <= y
    <2>1. ~ (y < x)
      BY <1>1, <1>3
    <2> QED
      BY <2>1
  <1> QED
    BY <1>4

\* A set of numbers that holds 1, and with a number the next, holds all up to n.
LEMMA Upward ==
  ASSUME NEW n \in Nat, NEW T, 1 \in T, \A i \in 1..(n - 1) : i \in T => i + 1 \in T
  PROVE  \A i \in 1..n : i \in T
  <1> DEFINE Bad == (1..n) \ T
  <1> SUFFICES ASSUME Bad # {} PROVE FALSE
    OBVIOUS
  <1>1. Bad \in SUBSET Nat
    OBVIOUS
  <1>2. PICK m \in Bad : \A k \in Bad : m <= k
    BY <1>1, Least
  <1>3. m \in 1..n /\ m \notin T
    BY <1>2
  <1>4. m - 1 \in 1..(n - 1)
    BY <1>3
  <1>5. m - 1 \in T
    <2>1. m - 1 \in 1..n /\ ~ (m <= m - 1)
      BY <1>3, <1>4
    <2> QED
      BY <1>2, <2>1
  <1>6. m - 1 + 1 = m
    BY <1>3
  <1> QED
    BY <1>3, <1>4, <1>5, <1>6

-----------------------------------------------------------------------------
(* What FlattenSeq computes: it is recursive, so a function that satisfies   *)
(* its equation must first be shown to be there.                             *)

Flattens(f, n, ss) ==
  f = [i \in 1..n |-> IF i = 1 THEN ss[i] ELSE f[i - 1] \o ss[i]]

\* The function by which FlattenSeq is defined is there, for each number of parts.
LEMMA FlattensExists ==
  ASSUME NEW ss, NEW k \in Nat
  PROVE  \E f : Flattens(f, k, ss)
  <1> DEFINE Bad == {n \in Nat : ~ \E f : Flattens(f, n, ss)}
  <1> SUFFICES ASSUME Bad # {} PROVE FALSE
    OBVIOUS
  <1>1. PICK n \in Bad : \A m \in Bad : n <= m
    BY Least
  <1>2. n \in Nat /\ ~ \E f : Flattens(f, n, ss)
    BY <1>1
  <1>3. n # 0
    <2> DEFINE e == [i \in 1..0 |-> IF i = 1 THEN ss[i] ELSE <<>>[i - 1] \o ss[i]]
    <2>1. e = [i \in 1..0 |-> IF i = 1 THEN ss[i] ELSE e[i - 1] \o ss[i]]
      OBVIOUS
    <2>2. Flattens(e, 0, ss)
      BY <2>1 DEF Flattens
    <2> HIDE DEF e
    <2> QED
      BY <1>2, <2>2
  <1>4. n - 1 \in Nat /\ n - 1 \notin Bad
    <2>1. n - 1 \in Nat
      BY <1>2, <1>3
    <2>2. ~ (n <= n - 1)
      BY <1>2
    <2> QED
      BY <1>1, <2>1, <2>2
  <1>5. PICK f : Flattens(f, n - 1, ss)
    BY <1>4
  <1> DEFINE g == [i \in 1..n |-> IF i = 1 THEN ss[i] ELSE f[i - 1] \o ss[i]]
  <1>6. \A i \in 1..(n - 1) : f[i] = IF i = 1 THEN ss[i] ELSE f[i - 1] \o ss[i]
    BY <1>5, Zenon DEF Flattens
  <1>7. \A i \in 1..n : g[i] = IF i = 1 THEN ss[i] ELSE f[i - 1] \o ss[i]
    OBVIOUS
  <1>8. \A i \in 1..(n - 1) : i \in 1..n
    BY <1>2
  <1>9. \A i \in 1..(n - 1) : g[i] = f[i]
    BY <1>6, <1>7, <1>8, Zenon
  <1>10. \A i \in 1..n : i = 1 \/ i - 1 \in 1..(n - 1)
    BY <1>2
  <1>11. g = [i \in 1..n |-> IF i = 1 THEN ss[i] ELSE g[i - 1] \o ss[i]]
    <2>1. \A i \in 1..n : (IF i = 1 THEN ss[i] ELSE f[i - 1] \o ss[i])
                        = (IF i = 1 THEN ss[i] ELSE g[i - 1] \o ss[i])
      BY <1>9, <1>10, Zenon
    <2> QED
      BY <2>1, Zenon
  <1>12. Flattens(g, n, ss)
    BY <1>11, Zenon DEF Flattens
  <1> QED
    BY <1>2, <1>12, Zenon

\* The concatenation, as the last of its own beginnings.
LEMMA FlattenSteps ==
  ASSUME NEW S, NEW ss \in Seq(Seq(S)), ss # <<>>
  PROVE  \E f : /\ FlattenSeq(ss) = f[Len(ss)]
                /\ f[1] = ss[1]
                /\ \A i \in 1..(Len(ss) - 1) : f[i + 1] = f[i] \o ss[i + 1]
                /\ \A i \in 1..Len(ss) : f[i] \in Seq(S)
  <1> DEFINE n == Len(ss)
             f == CHOOSE f : Flattens(f, n, ss)
  <1>1. n \in Nat /\ n >= 1
    OBVIOUS
  <1>2. FlattenSeq(ss) = f[n]
    <2>1. n # 0
      BY <1>1
    <2> QED
      BY <2>1 DEF FlattenSeq, Flattens
  <1>3. Flattens(f, n, ss)
    BY <1>1, FlattensExists
  <1> HIDE DEF f
  <1>4. \A i \in 1..n : f[i] = IF i = 1 THEN ss[i] ELSE f[i - 1] \o ss[i]
    BY <1>3, Zenon DEF Flattens
  <1>5. f[1] = ss[1]
    BY <1>1, <1>4
  <1>6. ASSUME NEW i \in 1..(n - 1) PROVE f[i + 1] = f[i] \o ss[i + 1]
    <2> DEFINE j == i + 1
    <2>1. j \in 1..n /\ j # 1 /\ j - 1 = i
      BY <1>1
    <2> HIDE DEF j
    <2>2. f[j] = f[j - 1] \o ss[j]
      BY <1>4, <2>1, Zenon
    <2>3. f[j] = f[i] \o ss[j]
      BY <2>1, <2>2, Zenon
    <2> QED
      BY <2>3 DEF j
  <1>7. \A i \in 1..n : ss[i] \in Seq(S)
    OBVIOUS
  <1> DEFINE T == {i \in 1..n : f[i] \in Seq(S)}
  <1>8. 1 \in T
    BY <1>1, <1>5, <1>7
  <1>9. ASSUME NEW i \in 1..(n - 1), i \in T PROVE i + 1 \in T
    <2>1. i + 1 \in 1..n
      BY <1>1
    <2>2. f[i] \o ss[i + 1] \in Seq(S)
      BY <1>7, <1>9, <2>1
    <2> QED
      BY <1>6, <2>1, <2>2
  <1> HIDE DEF n
  <1>10. \A i \in 1..n : i \in T
    <2> HIDE DEF T
    <2> QED
      BY <1>1, <1>8, <1>9, Upward
  <1> QED
    BY <1>2, <1>5, <1>6, <1>10 DEF n

\* Which words the concatenation of two sequences holds, and where.
LEMMA Joined ==
  ASSUME NEW S, NEW a \in Seq(S), NEW b \in Seq(S)
  PROVE  /\ a \o b \in Seq(S) /\ Len(a \o b) = Len(a) + Len(b)
         /\ \A k \in 1..Len(a) : (a \o b)[k] = a[k]
         /\ \A k \in 1..Len(b) : (a \o b)[Len(a) + k] = b[k]
         /\ \A k \in 1..Len(a \o b) :
              \/ k \in 1..Len(a) /\ (a \o b)[k] = a[k]
              \/ k - Len(a) \in 1..Len(b) /\ (a \o b)[k] = b[k - Len(a)]
  OBVIOUS

\* Each word of the whole is a word of a part.
LEMMA FlattenWords ==
  ASSUME NEW S, NEW ss \in Seq(Seq(S)), ss # <<>>
  PROVE  /\ FlattenSeq(ss) \in Seq(S)
         /\ \A k \in 1..Len(FlattenSeq(ss)) :
              \E i \in 1..Len(ss) : \E j \in 1..Len(ss[i]) : FlattenSeq(ss)[k] = ss[i][j]
  <1> DEFINE n == Len(ss)
             Part(w) == \E i \in 1..n : \E j \in 1..Len(ss[i]) : w = ss[i][j]
  <1>1. n \in Nat /\ n >= 1 /\ n \in 1..n /\ \A i \in 1..n : ss[i] \in Seq(S)
    OBVIOUS
  <1>2. PICK f : /\ FlattenSeq(ss) = f[n]
                 /\ f[1] = ss[1]
                 /\ \A i \in 1..(n - 1) : f[i + 1] = f[i] \o ss[i + 1]
                 /\ \A i \in 1..n : f[i] \in Seq(S)
    BY FlattenSteps
  <1> DEFINE T == {i \in 1..n : \A k \in 1..Len(f[i]) : Part(f[i][k])}
  <1>3. 1 \in T
    BY <1>1, <1>2
  <1>4. ASSUME NEW i \in 1..(n - 1), i \in T PROVE i + 1 \in T
    <2>1. i \in 1..n /\ i + 1 \in 1..n
      BY <1>1
    <2>2. f[i] \in Seq(S) /\ ss[i + 1] \in Seq(S) /\ f[i + 1] = f[i] \o ss[i + 1]
      BY <1>1, <1>2, <2>1
    <2> DEFINE a == f[i]
               b == ss[i + 1]
    <2> HIDE DEF a, b
    <2>3. \A k \in 1..Len(a \o b) :
            \/ k \in 1..Len(a) /\ (a \o b)[k] = a[k]
            \/ k - Len(a) \in 1..Len(b) /\ (a \o b)[k] = b[k - Len(a)]
      BY <2>2, Joined DEF a, b
    <2> HIDE DEF n
    <2>4. ASSUME NEW k \in 1..Len(f[i + 1]) PROVE Part(f[i + 1][k])
      <3>1. f[i + 1] = a \o b
        BY <2>2 DEF a, b
      <3>2. \A x \in 1..Len(a) : Part(a[x])
        BY <1>4 DEF a
      <3>3. \A x \in 1..Len(b) : Part(b[x])
        BY <2>1 DEF b
      <3> HIDE DEF Part
      <3> QED
        BY <2>3, <3>1, <3>2, <3>3
    <2> QED
      BY <2>1, <2>4
  <1> HIDE DEF n, Part
  <1>5. n \in T
    <2> HIDE DEF T
    <2> QED
      BY <1>1, <1>3, <1>4, Upward
  <1>6. f[n] \in Seq(S) /\ \A k \in 1..Len(f[n]) : Part(f[n][k])
    BY <1>1, <1>2, <1>5
  <1> DEFINE F == FlattenSeq(ss)
  <1>7. F = f[n]
    BY <1>2
  <1> HIDE DEF F
  <1>8. F \in Seq(S) /\ \A k \in 1..Len(F) : Part(F[k])
    BY <1>6, <1>7
  <1> QED
    BY <1>8 DEF F, n, Part

\* The end of a part that comes after i - 1 others, and before m others, has as
\* many words before it, and after it.
LEMMA FlattenPlaces ==
  ASSUME NEW S, NEW ss \in Seq(Seq(S)), ss # <<>>, \A i \in 1..Len(ss) : ss[i] # <<>>
  PROVE  LET F == FlattenSeq(ss) IN
         /\ F[1] = ss[1][1]
         /\ Len(F) >= Len(ss)
         /\ \A i \in 1..Len(ss) :
              \E k \in 1..Len(F) : /\ F[k] = ss[i][Len(ss[i])]
                                   /\ k >= i /\ Len(F) - k >= Len(ss) - i
  <1> DEFINE n == Len(ss)
             At2(F, m, i) == \E k \in 1..Len(F) : /\ F[k] = ss[i][Len(ss[i])]
                                                 /\ k >= i /\ Len(F) - k >= m - i
             Good(F, m) == /\ F[1] = ss[1][1]
                           /\ Len(F) >= m
                           /\ \A i \in 1..m : At2(F, m, i)
  <1>1. n \in Nat /\ n >= 1 /\ n \in 1..n
    OBVIOUS
  <1>2. \A i \in 1..n : ss[i] \in Seq(S) /\ Len(ss[i]) \in Nat /\ Len(ss[i]) >= 1
    OBVIOUS
  <1>3. PICK f : /\ FlattenSeq(ss) = f[n]
                 /\ f[1] = ss[1]
                 /\ \A i \in 1..(n - 1) : f[i + 1] = f[i] \o ss[i + 1]
                 /\ \A i \in 1..n : f[i] \in Seq(S)
    BY FlattenSteps
  <1> DEFINE T == {m \in 1..n : Good(f[m], m)}
  <1>4. 1 \in T
    <2>1. Good(f[1], 1)
      BY <1>1, <1>2, <1>3
    <2> QED
      BY <1>1, <2>1
  <1>5. ASSUME NEW m \in 1..(n - 1), m \in T PROVE m + 1 \in T
    <2> DEFINE a == f[m]
               b == ss[m + 1]
    <2>1. m \in 1..n /\ m + 1 \in 1..n /\ m \in Nat
      BY <1>1
    <2>2. a \in Seq(S) /\ b \in Seq(S) /\ Len(b) \in Nat /\ Len(b) >= 1 /\ f[m + 1] = a \o b
      BY <1>2, <1>3, <2>1
    <2>3. Good(a, m)
      BY <1>5
    <2> HIDE DEF a, b
    <2>4. /\ Len(a \o b) = Len(a) + Len(b) /\ Len(a) \in Nat
          /\ \A k \in 1..Len(a) : (a \o b)[k] = a[k]
          /\ (a \o b)[Len(a) + Len(b)] = b[Len(b)]
      BY <2>2, Joined
    <2>5. ASSUME NEW i \in 1..m PROVE At2(a \o b, m + 1, i)
      <3>1. PICK k \in 1..Len(a) : a[k] = ss[i][Len(ss[i])] /\ k >= i /\ Len(a) - k >= m - i
        BY <2>3
      <3>2. k \in 1..Len(a \o b) /\ Len(a \o b) - k >= m + 1 - i
        BY <2>1, <2>2, <2>4, <3>1
      <3> QED
        BY <2>4, <3>1, <3>2
    <2>6. At2(a \o b, m + 1, m + 1)
      <3>1. Len(a) >= m
        BY <2>3
      <3>2. /\ Len(a) + Len(b) \in 1..Len(a \o b) /\ Len(a) + Len(b) >= m + 1
            /\ Len(a \o b) - (Len(a) + Len(b)) >= m + 1 - (m + 1)
        BY <2>1, <2>2, <2>4, <3>1
      <3>3. (a \o b)[Len(a) + Len(b)] = ss[m + 1][Len(ss[m + 1])]
        BY <2>4 DEF b
      <3> QED
        BY <3>2, <3>3
    <2>7. (a \o b)[1] = ss[1][1] /\ Len(a \o b) >= m + 1
      <3>1. a[1] = ss[1][1] /\ Len(a) >= m
        BY <2>3
      <3>2. 1 \in 1..Len(a) /\ Len(a) + Len(b) >= m + 1
        BY <2>1, <2>2, <2>4, <3>1
      <3> QED
        BY <2>4, <3>1, <3>2
    <2>8. \A i \in 1..(m + 1) : i \in 1..m \/ i = m + 1
      BY <2>1
    <2> HIDE DEF At2
    <2>9. Good(a \o b, m + 1)
      BY <2>5, <2>6, <2>7, <2>8
    <2>10. f[m + 1] = a \o b
      BY <2>2
    <2> HIDE DEF Good
    <2> QED
      BY <2>1, <2>9, <2>10, Zenon
  <1>6. n \in T
    <2> HIDE DEF T, n
    <2> QED
      BY <1>1, <1>4, <1>5, Upward
  <1> QED
    BY <1>3, <1>6
-----------------------------------------------------------------------------
(* The first of something *)

\* The least of the places of a sequence is one of them.
LEMMA MinIsIn == ASSUME NEW n, NEW I \in SUBSET (1..n), I # {} PROVE Min(I) \in I
  <1>1. I \in SUBSET Nat
    OBVIOUS
  <1>2. \E x \in I : \A y \in I : x <= y
    BY <1>1, Least
  <1> QED
    BY <1>2 DEF Min

\* FirstSaid is the place of a name that was said, or 0 if none was.
LEMMA FirstSaidPlace ==
  ASSUME NEW t, NEW names
  PROVE  LET i == FirstSaid(t, names) IN
         /\ i = 0 \/ i \in 1..Len(names)
         /\ i # 0 => Said(t, names[i])
         /\ i = 0 => \A j \in 1..Len(names) : ~Said(t, names[j])
  <1> DEFINE I == {j \in 1..Len(names) : Said(t, names[j])}
  <1>1. I # {} => Min(I) \in I
    BY MinIsIn
  <1>2. FirstSaid(t, names) = IF I # {} THEN Min(I) ELSE 0
    BY DEF FirstSaid, SelectInSeq
  <1> QED
    BY <1>1, <1>2

-----------------------------------------------------------------------------
(* The calendar: years do not overlap.                                     *)

LeapsBefore(y) == (y - 1) \div 4 - (y - 1) \div 100 + (y - 1) \div 400

\* A leap year adds one to the leap days that came before.
LEMMA LeapYears ==
  ASSUME NEW y \in Nat \ {0}
  PROVE  /\ LeapsBefore(y) \in Int
         /\ LeapsBefore(y + 1) = LeapsBefore(y) + IF Leap(y) THEN 1 ELSE 0
  BY SMTT(60) DEF Leap, LeapsBefore

\* No day of a year is later than its last.
LEMMA WithinYear ==
  ASSUME NEW y \in Nat \ {0}, NEW m \in 1..12, NEW d \in 1..31, d <= MonthLength(y, m)
  PROVE  DaysBefore(y, m) + d <= 365 + IF Leap(y) THEN 1 ELSE 0
  BY DEF DaysBefore, MonthLength

\* The days before a month of the same year are a number.
LEMMA DaysBeforeNat ==
  ASSUME NEW y \in Nat \ {0}, NEW m \in 1..12
  PROVE  DaysBefore(y, m) \in Nat
  BY DEF DaysBefore

\* Any day of a year comes before every day of the next.
LEMMA NextYear ==
  ASSUME NEW y \in Nat \ {0}, NEW m \in 1..12, NEW d \in 1..31, d <= MonthLength(y, m),
         NEW k \in 1..12, NEW e \in 1..31
  PROVE  DayNumber(y, m, d) < DayNumber(y + 1, k, e)
  <1>1. y + 1 \in Nat \ {0}
    OBVIOUS
  <1>2. DaysBefore(y, m) \in Nat /\ DaysBefore(y + 1, k) \in Nat
    BY <1>1, DaysBeforeNat
  <1>3. /\ DayNumber(y, m, d) = 365 * (y - 1) + LeapsBefore(y) + DaysBefore(y, m) + d
        /\ DayNumber(y + 1, k, e)
             = 365 * (y + 1 - 1) + LeapsBefore(y + 1) + DaysBefore(y + 1, k) + e
    BY <1>1, LeapYears DEF DayNumber, LeapsBefore
  <1>4. LeapsBefore(y) \in Int /\ LeapsBefore(y + 1) = LeapsBefore(y) + IF Leap(y) THEN 1 ELSE 0
    BY LeapYears
  <1>5. DaysBefore(y, m) + d <= 365 + IF Leap(y) THEN 1 ELSE 0
    BY WithinYear
  <1> HIDE DEF LeapsBefore
  <1> QED
    BY <1>2, <1>3, <1>4, <1>5

\* The number of a day is an integer.
LEMMA DayNumberInt ==
  ASSUME NEW y \in Nat \ {0}, NEW m \in 1..12, NEW d \in 1..31
  PROVE  DayNumber(y, m, d) \in Int
  BY DaysBeforeNat DEF DayNumber

\* What the clock says is a day and a minute of it.
LEMMA TodayInt ==
  ASSUME now \in Datetimes
  PROVE  Today \in Int /\ now.minutes \in 0..1439
  <1>1. /\ now.year \in Nat \ {0} /\ now.month \in 1..12 /\ now.day \in 1..31
        /\ now.minutes \in 0..1439
    BY DEF Datetimes
  <1> QED
    BY <1>1, DayNumberInt DEF Today

\* A month and a day give a date ahead, or none.
LEMMA DatesLieAhead ==
  ASSUME now \in Datetimes, NEW m \in 0..12, NEW d \in 0..31
  PROVE  \/ DateAhead(m, d) = None
         \/ DateAhead(m, d) \in Int /\ DateAhead(m, d) >= Today /\ m # 0
  <1> DEFINE this == DateIn(now.year, m, d)
             next == DateIn(now.year + 1, m, d)
  <1>1. /\ now.year \in Nat \ {0} /\ now.month \in 1..12 /\ now.day \in 1..31
        /\ now.day <= MonthLength(now.year, now.month)
    BY DEF Datetimes
  <1>2. this = None \/ (this \in Int /\ m # 0)
    <2>1. CASE m = 0 \/ d = 0
      BY <2>1 DEF DateIn
    <2>2. CASE m # 0 /\ d # 0
      <3>1. m \in 1..12 /\ d \in 1..31
        BY <2>2
      <3>2. DayNumber(now.year, m, d) \in Int
        BY <1>1, <3>1, DayNumberInt
      <3> QED
        BY <2>2, <3>2 DEF DateIn
    <2> QED
      BY <2>1, <2>2
  <1>3. CASE m = 0 \/ d = 0
    <2>1. this = None
      BY <1>3 DEF DateIn
    <2> QED
      BY <2>1 DEF DateAhead, Ahead
  <1>4. CASE m # 0 /\ d # 0
    <2>1. m \in 1..12 /\ d \in 1..31
      BY <1>4
    <2>2. next = None \/ (next \in Int /\ next > Today)
      <3>1. now.year + 1 \in Nat \ {0}
        BY <1>1
      <3>2. DayNumber(now.year, now.month, now.day) < DayNumber(now.year + 1, m, d)
        BY <1>1, <2>1, NextYear
      <3>3. DayNumber(now.year + 1, m, d) \in Int
        BY <2>1, <3>1, DayNumberInt
      <3> QED
        BY <3>2, <3>3 DEF DateIn, Today
    <2>3. Today \in Int
      BY TodayInt
    <2> HIDE DEF this, next
    <2>4. \/ Ahead(this, next) = None
          \/ Ahead(this, next) \in Int /\ Ahead(this, next) >= Today
      BY <1>2, <2>2, <2>3 DEF Ahead
    <2> QED
      BY <1>4, <2>4 DEF DateAhead, this, next
  <1> QED
    BY <1>3, <1>4

\* _parse_month_day looks for the day only after one of the twelve was named.
LEMMA MonthIsMonth ==
  ASSUME NEW t
  PROVE  /\ MonthSaid(t) \in 0..12
         /\ MonthSaid(t) # 0 => \E w \in ToSet(MonthNames) \cup ToSet(ShortMonths) : Said(t, w)
  <1> DEFINE i == FirstSaid(t, MonthNames)
             j == FirstSaid(t, ShortMonths)
  <1>1. Len(MonthNames) = 12 /\ DOMAIN MonthNames = 1..12
    BY DEF MonthNames
  <1>2. /\ Len(ShortMonths) = 12 /\ DOMAIN ShortMonths = 1..12
    BY DEF ShortMonths
  <1>3. (i = 0 \/ i \in 1..12) /\ (i # 0 => Said(t, MonthNames[i]))
    BY <1>1, FirstSaidPlace
  <1>4. (j = 0 \/ j \in 1..12) /\ (j # 0 => Said(t, ShortMonths[j]))
    BY <1>2, FirstSaidPlace
  <1>5. \A k \in 1..12 : ShortMonthNumbers[k] \in 1..12
    BY DEF ShortMonthNumbers
  <1>6. MonthSaid(t) = IF i # 0 THEN i ELSE IF j = 0 THEN 0 ELSE ShortMonthNumbers[j]
    BY DEF MonthSaid, ShortMonthSaid
  <1> HIDE DEF i, j
  <1> QED
    BY <1>1, <1>2, <1>3, <1>4, <1>5, <1>6 DEF ToSet

\* A day of the month is one of 31, or none was spoken.
LEMMA DayIsDay == ASSUME NEW t PROVE DaySaid(t) \in 0..31
  <1>1. OrdinalSaid(t) = 0 \/ OrdinalSaid(t) \in 1..Len(OrdinalsByLength)
    BY MinIsIn DEF OrdinalSaid, SelectInSeq
  <1>2. Len(OrdinalsByLength) = 31
    BY DEF OrdinalsByLength
  <1>3. \A i \in 1..31 : OrdinalsByLength[i][2] \in 1..31
    BY SMTT(60) DEF OrdinalsByLength
  <1> QED
    BY <1>1, <1>2, <1>3 DEF DaySaid, DayOf

\* A spoken date is not past (_parse_month_day), and a month was named.
LEMMA MonthDayAhead ==
  ASSUME now \in Datetimes, NEW t
  PROVE  \/ MonthDay(t) = None
         \/ /\ MonthDay(t) \in Int /\ MonthDay(t) >= Today
            /\ \E w \in ToSet(MonthNames) \cup ToSet(ShortMonths) : Said(t, w)
  BY MonthIsMonth, DayIsDay, DatesLieAhead DEF MonthDay

\* A spoken weekday is not past (_next_weekday), and it was named.
LEMMA WeekdayAheadOf ==
  ASSUME now \in Datetimes, NEW t
  PROVE  \/ WeekdaySaid(t) = None
         \/ /\ WeekdaySaid(t) \in Int /\ WeekdaySaid(t) >= Today
            /\ \E w \in ToSet(WeekdayNames) : Said(t, w)
  <1> DEFINE i == FirstSaid(t, WeekdayNames)
  <1>1. Len(WeekdayNames) = 7 /\ DOMAIN WeekdayNames = 1..7
    BY DEF WeekdayNames
  <1>2. (i = 0 \/ i \in 1..7) /\ (i # 0 => Said(t, WeekdayNames[i]))
    BY <1>1, FirstSaidPlace
  <1>3. ASSUME NEW wd \in 1..7, NEW force \in BOOLEAN
        PROVE  NextWeekday(wd, force) \in Int /\ NextWeekday(wd, force) >= Today
    BY TodayInt DEF NextWeekday, Weekday
  <1>4. Said(t, "next") \in BOOLEAN
    BY DEF Said, Contains
  <1>5. CASE i = 0
    BY <1>5 DEF WeekdaySaid, WeekdayAhead
  <1>6. CASE i # 0
    <2>1. WeekdaySaid(t) = NextWeekday(i, Said(t, "next"))
      BY <1>6 DEF WeekdaySaid, WeekdayAhead
    <2> HIDE DEF i
    <2> QED
      BY <1>1, <1>2, <1>3, <1>4, <1>6, <2>1 DEF ToSet
  <1> QED
    BY <1>5, <1>6

\* A day that is named lies ahead, and is today only if a word for it was said.
LEMMA DayNamedAhead ==
  ASSUME now \in Datetimes, NEW t \in Seq(STRING)
  PROVE  \/ DayNamed(t) = None
         \/ /\ DayNamed(t) \in Int /\ DayNamed(t) >= Today
            /\ DayNamed(t) = Today => \E w \in DayWords : Said(t, w)
  <1>1. Today \in Int
    BY TodayInt
  <1>2. CASE Said(t, "tomorrow")
    BY <1>1, <1>2 DEF DayNamed
  <1>3. CASE ~Said(t, "tomorrow") /\ (Said(t, "today") \/ Said(t, "tonight") \/ ThisSaid(t))
    <2>1. ThisSaid(t) => Said(t, "this")
      BY DEF ThisSaid, Said, Contains
    <2>2. \E w \in DayWords : Said(t, w)
      BY <1>3, <2>1 DEF DayWords
    <2>3. DayNamed(t) = Today
      BY <1>3 DEF DayNamed
    <2> QED
      BY <1>1, <2>2, <2>3
  <1>4. CASE ~(Said(t, "tomorrow") \/ Said(t, "today") \/ Said(t, "tonight") \/ ThisSaid(t))
    <2>1. DayNamed(t) = MonthDay(t) \/ DayNamed(t) = WeekdaySaid(t)
      BY <1>4 DEF DayNamed, Else
    <2>2. ToSet(MonthNames) \cup ToSet(ShortMonths) \cup ToSet(WeekdayNames) \subseteq DayWords
      BY DEF DayWords
    <2> QED
      BY <2>1, <2>2, MonthDayAhead, WeekdayAheadOf
  <1> QED
    BY <1>2, <1>3, <1>4

-----------------------------------------------------------------------------
(* The clock: a reading is a time of the day.                              *)

IsClock(c) == c.hour \in 0..23 /\ c.minute \in 0..59

\* Digits of a clock are below a hundred.
LEMMA NumeralBounds == ASSUME NEW w, IsNumeral(w) PROVE NumeralOf(w) \in 0..99
  BY DEF IsNumeral, NumeralOf

\* What _resolve_clock reads in digits is a time of the day.
LEMMA DigitClockIsClock ==
  ASSUME NEW t
  PROVE  DigitClock(t) = None \/ IsClock(DigitClock(t))
  <1> DEFINE Test(w) == IsNumeral(w) \/ w \in DOMAIN Colons \cup DOMAIN Suffixed
             I == {j \in 1..Len(t) : Test(t[j])}
             i == SelectInSeq(t, Test)
  <1>1. i = 0 \/ Test(t[i])
    <2>1. I # {} => Min(I) \in I
      BY MinIsIn
    <2> QED
      BY <2>1 DEF SelectInSeq
  <1>2. DigitClock(t) = ClockAt(t, i)
    BY DEF DigitClock
  <1>3. CASE i = 0
    BY <1>2, <1>3 DEF ClockAt
  <1>4. CASE i # 0
    <2> DEFINE w == t[i]
               half == HalfOf(t[i], After(t, i))
    <2>1. DigitClock(t) = ClockSaid(w, half)
      BY <1>2, <1>4 DEF ClockAt
    <2>2. Test(w)
      BY <1>1, <1>4
    <2> HIDE DEF i, w, half
    <2>3. HourOf(w) \in 0..99
      BY <2>2, NumeralBounds DEF HourOf, Colons, Suffixed
    <2>4. Afternoon(HourOf(w), half) \in 0..111
      BY <2>3 DEF Afternoon
    <2>5. w \in DOMAIN Colons => Colons[w].minute \in 0..59
      BY DEF Colons
    <2> QED
      BY <2>1, <2>4, <2>5 DEF ClockSaid, ClockOf, IsClock
  <1> QED
    BY <1>3, <1>4

\* And so is an hour in words.
LEMMA WordClockIsClock ==
  ASSUME NEW t
  PROVE  WordClock(t) = None \/ IsClock(WordClock(t))
  <1> DEFINE i == FirstIn(t, ToSet(HourNames))
             h == SelectInSeq(HourNames, LAMBDA n : n = t[i])
  <1>1. h \in 0..12
    <2>1. Len(HourNames) = 12
      BY DEF HourNames
    <2> DEFINE I == {j \in 1..Len(HourNames) : HourNames[j] = t[i]}
    <2>2. I # {} => Min(I) \in I
      BY MinIsIn
    <2>3. h = IF I # {} THEN Min(I) ELSE 0
      BY DEF SelectInSeq
    <2> QED
      BY <2>1, <2>2, <2>3
  <1>2. \/ WordClock(t) = None
        \/ WordClock(t) = [hour |-> Afternoon(h, Half(After(t, i))), minute |-> 0]
    BY DEF WordClock
  <1> HIDE DEF h, i
  <1>3. Afternoon(h, Half(After(t, i))) \in 0..23
    BY <1>1 DEF Afternoon
  <1> QED
    BY <1>2, <1>3 DEF IsClock

\* And the part of a day.
LEMMA DayPartIsClock ==
  ASSUME NEW t
  PROVE  DayPart(t) = None \/ IsClock(DayPart(t))
  <1>1. Len(PartNames) = 7
    BY DEF PartNames
  <1>2. FirstSaid(t, PartNames) = 0 \/ FirstSaid(t, PartNames) \in 1..7
    BY <1>1, FirstSaidPlace
  <1>3. \A i \in 1..7 : PartHours[i] \in 0..23
    BY DEF PartHours
  <1> QED
    BY <1>2, <1>3 DEF DayPart, IsClock

\* Whichever of the three counts.
LEMMA TimeNamedIsClock ==
  ASSUME NEW t
  PROVE  TimeNamed(t) = None \/ IsClock(TimeNamed(t))
  BY DigitClockIsClock, WordClockIsClock, DayPartIsClock DEF TimeNamed, ClockNamed, Else

-----------------------------------------------------------------------------
(* What is parsed *)

IsMoment(r) == r.day \in Int /\ r.minutes \in 0..1439

\* A time of the day makes a moment of that day.
LEMMA MomentsAre ==
  ASSUME NEW day \in Int, NEW c, IsClock(c)
  PROVE  IsMoment(Moment(day, c)) /\ Moment(day, c).day = day
  BY DEF Moment, IsMoment, IsClock

\* "in ..." lies ahead, across any number of midnights.
LEMMA DurationsLieAhead ==
  ASSUME now \in Datetimes, NEW m \in Nat
  PROVE  /\ IsMoment(Later(m)) /\ Later(m).day >= Today
         /\ ~Before(Later(m), Present)
  <1> DEFINE p == now.minutes
             s == p + m
             d == s \div 1440
             r == s % 1440
             today == Today
  <1>1. today \in Int /\ p \in 0..1439
    BY TodayInt
  <1>2. /\ Later(m).day = today + d /\ Later(m).minutes = r
        /\ Present.day = today /\ Present.minutes = p
    BY DEF Later, Present
  <1> HIDE DEF p, today
  <1>3. s \in Nat /\ s >= p
    BY <1>1
  <1> HIDE DEF s
  <1>4. d \in Nat /\ r \in 0..1439 /\ (d = 0 => r = s)
    BY <1>3
  <1> HIDE DEF d, r
  <1>5. today + d \in Int /\ today + d >= today /\ ~ (today + d < today)
        /\ (today + d = today => d = 0)
    BY <1>1, <1>4
  <1>6. ~ (d = 0 /\ r < p)
    BY <1>1, <1>3, <1>4
  <1> QED
    BY <1>2, <1>4, <1>5, <1>6 DEF IsMoment, Before, today

\* A duration is not negative.
LEMMA DurationIsNat == ASSUME NEW n, NEW unit PROVE DurationOf(n, unit) \in Nat
  <1>1. (IF IsNumeral(n) THEN NumeralOf(n) ELSE 1) \in Nat
    BY NumeralBounds
  <1> QED
    BY <1>1 DEF DurationOf

\* Of two moments only one is before the other.
LEMMA NotBoth ==
  ASSUME NEW a, NEW b, a.day \in Int, b.day \in Int, a.minutes \in Int, b.minutes \in Int
  PROVE  Before(a, b) => ~Before(b, a)
  <1> DEFINE ad == a.day
             bd == b.day
             am == a.minutes
             bm == b.minutes
  <1>1. ad \in Int /\ bd \in Int /\ am \in Int /\ bm \in Int
    OBVIOUS
  <1>2. /\ Before(a, b) <=> ad < bd \/ (ad = bd /\ am < bm)
        /\ Before(b, a) <=> bd < ad \/ (bd = ad /\ bm < am)
    BY DEF Before
  <1> HIDE DEF ad, bd, am, bm
  <1> QED
    BY <1>1, <1>2

\* A day that is not past, with or without a clock, makes a moment that is not past, unless
\* the day is today.
LEMMA MomentNamedAhead ==
  ASSUME now \in Datetimes, NEW t,
         NEW day, day = None \/ (day \in Int /\ day >= Today),
         NEW clock, clock = None \/ IsClock(clock)
  PROVE  LET r == MomentNamed(t, day, clock) IN
         \/ r = None
         \/ /\ IsMoment(r) /\ r.day >= Today
            /\ r.day > Today \/ day = Today \/ ~Before(r, Present)
  <1>1. Today \in Int /\ now.minutes \in 0..1439
    BY TodayInt
  <1>2. CASE clock # None
    <2>1. IsClock(clock) /\ MomentNamed(t, day, clock) = OnDay(day, clock)
      BY <1>2 DEF MomentNamed
    <2>2. /\ IsMoment(Moment(Today, clock)) /\ Moment(Today, clock).day = Today
          /\ IsMoment(Moment(Today + 1, clock)) /\ Moment(Today + 1, clock).day = Today + 1
          /\ day # None => IsMoment(Moment(day, clock)) /\ Moment(day, clock).day = day
      BY <1>1, <2>1, MomentsAre
    <2>3. Before(Present, Moment(Today, clock)) => ~Before(Moment(Today, clock), Present)
      <3>1. Present.day = Today /\ Present.minutes \in 0..1439
        BY <1>1 DEF Present
      <3>2. Present.day \in Int /\ Present.minutes \in Int
        BY <1>1, <3>1
      <3>3. Moment(Today, clock).day \in Int /\ Moment(Today, clock).minutes \in Int
        <4>1. IsMoment(Moment(Today, clock))
          BY <2>2
        <4> QED
          BY <4>1 DEF IsMoment
      <3> QED
        BY <3>2, <3>3, NotBoth, Zenon
    <2> QED
      BY <1>1, <2>1, <2>2, <2>3 DEF OnDay
  <1>3. CASE clock = None
    <2> DEFINE nine == [hour |-> 9, minute |-> 0]
    <2>1. \/ MomentNamed(t, day, clock) = None
          \/ day # None /\ MomentNamed(t, day, clock) = Moment(day, nine)
      BY <1>3 DEF MomentNamed
    <2>2. IsClock(nine)
      BY DEF IsClock
    <2>3. day # None => IsMoment(Moment(day, nine)) /\ Moment(day, nine).day = day
      BY <2>2, MomentsAre
    <2> HIDE DEF nine
    <2> QED
      BY <1>1, <2>1, <2>3
  <1> QED
    BY <1>2, <1>3

\* parse_spoken_datetime never answers with a day that has passed, nor, without a word
\* for a day, with an earlier minute of today.
LEMMA ParsedLiesAhead ==
  ASSUME now \in Datetimes, NEW t \in Seq(STRING)
  PROVE  \/ Parse(t) = None
         \/ /\ IsMoment(Parse(t)) /\ Parse(t).day >= Today
            /\ (\A w \in DayWords : ~Said(t, w)) => ~Before(Parse(t), Present)
  <1>1. CASE IsDuration(t)
    <2>1. \E n, u : Parse(t) = Later(DurationOf(n, u))
      BY <1>1 DEF Parse, Duration
    <2> QED
      BY <2>1, DurationIsNat, DurationsLieAhead
  <1>2. CASE ~IsDuration(t)
    <2> DEFINE day == DayNamed(t)
               r == MomentNamed(t, day, TimeNamed(t))
    <2>1. Parse(t) = r
      BY <1>2 DEF Parse
    <2>2. /\ day = None \/ (day \in Int /\ day >= Today)
          /\ day = Today => \E w \in DayWords : Said(t, w)
      <3>1. Today # None
        BY TodayInt, NoneAssumption
      <3> QED
        BY <3>1, DayNamedAhead
    <2>3. TimeNamed(t) = None \/ IsClock(TimeNamed(t))
      BY TimeNamedIsClock
    <2> HIDE DEF day
    <2>4. \/ r = None
          \/ /\ IsMoment(r) /\ r.day >= Today
             /\ r.day > Today \/ day = Today \/ ~Before(r, Present)
      BY <2>2, <2>3, MomentNamedAhead
    <2>5. Today \in Int
      BY TodayInt
    <2> HIDE DEF r
    <2>6. r.day > Today /\ IsMoment(r) => ~Before(r, Present)
      BY <2>5 DEF Before, Present, IsMoment
    <2> QED
      BY <2>1, <2>2, <2>4, <2>6
  <1> QED
    BY <1>1, <1>2

-----------------------------------------------------------------------------
(* What is heard                                                           *)

VoiceInv ==
  /\ scene \in Scenes
  /\ now = scene.now
  /\ said \in Seq(scene.words)

\* The clock stands still while an utterance grows word by word, out of the words of the
\* scene (_handle_user_transcript classifies each version of the transcript).
THEOREM VoiceInvariant == Spec => []VoiceInv
  <1>1. Init => VoiceInv
    BY DEF Init, VoiceInv
  <1>2. VoiceInv /\ [Next]_vars => VoiceInv'
    <2> SUFFICES ASSUME VoiceInv, [Next]_vars PROVE VoiceInv'
      OBVIOUS
    <2>1. CASE Next
      <3>1. PICK w \in scene.words : Speak(w)
        BY <2>1 DEF Next
      <3>2. said' = Append(said, w) /\ scene' = scene /\ now' = now
        BY <3>1 DEF Speak
      <3>3. Append(said, w) \in Seq(scene.words)
        BY DEF VoiceInv
      <3> QED
        BY <3>2, <3>3 DEF VoiceInv
    <2>2. CASE UNCHANGED vars
      BY <2>2 DEF VoiceInv, vars
    <2> QED
      BY <2>1, <2>2
  <1> QED
    BY <1>1, <1>2, PTL DEF Spec

\* The words heard are strings, and the clock is right.
LEMMA SaidTypes ==
  ASSUME VoiceInv
  PROVE  said \in Seq(STRING) /\ now \in Datetimes
  <1>1. scene \in Scenes /\ now = scene.now /\ said \in Seq(scene.words)
    BY DEF VoiceInv
  <1>2. scene.now \in Datetimes /\ scene.words \subseteq STRING
    BY <1>1, ScenesAssumption
  <1> QED
    BY <1>1, <1>2

\* The pieces of the words.
Cut(text) == [i \in DOMAIN text |->
                IF text[i] \in DOMAIN Spelling THEN Spelling[text[i]] ELSE <<text[i]>>]

\* Normalization cuts words up: it adds no word for a day, and no tomorrow.
LEMMA NormalWords ==
  ASSUME NEW text \in Seq(STRING)
  PROVE  /\ NormalizeTime(text) \in Seq(STRING)
         /\ \A w \in DayWords \cup {"tomorrow"} :
              Said(NormalizeTime(text), w) => \E i \in DOMAIN text : text[i] = w
  <1> DEFINE ss == Cut(text)
             F == FlattenSeq(ss)
  <1>1. NormalizeTime(text) = F
    BY DEF NormalizeTime, Cut
  <1>2. \A i \in 1..Len(text) :
          \/ ss[i] = <<text[i]>>
          \/ ss[i] = <<"p", "m">>
          \/ ss[i] = <<"o", "clock">>
    BY DEF Cut, Spelling
  <1>3. ASSUME NEW i \in 1..Len(text) PROVE ss[i] \in Seq(STRING)
    <2>1. text[i] \in STRING
      OBVIOUS
    <2>2. <<text[i]>> \in Seq(STRING)
      BY <2>1
    <2>3. text[i] \in DOMAIN Spelling => Spelling[text[i]] \in Seq(STRING)
      BY SpellingAssumption
    <2>4. ss[i] = IF text[i] \in DOMAIN Spelling THEN Spelling[text[i]] ELSE <<text[i]>>
      BY DEF Cut
    <2> HIDE DEF ss
    <2> QED
      BY <2>2, <2>3, <2>4
  <1>4. DOMAIN ss = 1..Len(text) /\ Len(text) \in Nat
    BY DEF Cut
  <1>5. ss \in Seq(Seq(STRING)) /\ Len(ss) = Len(text)
    BY <1>3, <1>4 DEF Cut
  <1>6. CASE text = <<>>
    <2>1. Len(ss) = 0 /\ ss = <<>>
      BY <1>5, <1>6
    <2> HIDE DEF ss
    <2>2. F = <<>>
      BY <2>1 DEF FlattenSeq
    <2> QED
      BY <1>1, <2>2 DEF Said, Contains
  <1>7. CASE text # <<>>
    <2>1. ss # <<>>
      BY <1>5, <1>7
    <2>2. \A i \in 1..Len(text) : \A j \in 1..Len(ss[i]) :
            ss[i][j] \in {text[i], "p", "m", "o", "clock"}
      BY <1>2
    <2> HIDE DEF ss
    <2>3. /\ F \in Seq(STRING)
          /\ \A k \in 1..Len(F) : \E i \in 1..Len(ss) : \E j \in 1..Len(ss[i]) : F[k] = ss[i][j]
      BY <1>5, <2>1, FlattenWords
    <2> HIDE DEF F
    <2>4. {"p", "m", "o", "clock"} \cap (DayWords \cup {"tomorrow"}) = {}
      BY DEF DayWords, MonthNames, ShortMonths, WeekdayNames, ToSet
    <2>5. ASSUME NEW w \in DayWords \cup {"tomorrow"}, Said(F, w)
          PROVE  \E i \in DOMAIN text : text[i] = w
      <3>1. PICK k \in 1..Len(F) : F[k] = w
        BY <2>5 DEF Said, Contains
      <3>2. PICK i \in 1..Len(text) : w \in {text[i], "p", "m", "o", "clock"}
        BY <1>5, <2>2, <2>3, <3>1
      <3>3. w = text[i]
        BY <2>4, <2>5, <3>2
      <3> QED
        BY <3>3
    <2> QED
      BY <1>1, <2>3, <2>5
  <1> QED
    BY <1>6, <1>7

\* One state: what the words heard so far would schedule lies ahead.
LEMMA ScheduledAhead ==
  ASSUME VoiceInv
  PROVE  ScheduleLiesAhead
  <1> DEFINE t == NormalizeTime(said)
             r == Parse(t)
  <1>1. said \in Seq(STRING) /\ now \in Datetimes
    BY SaidTypes
  <1>2. /\ t \in Seq(STRING)
        /\ \A w \in DayWords : Said(t, w) => \E i \in DOMAIN said : said[i] = w
    BY <1>1, NormalWords
  <1>3. \/ r = None
        \/ /\ r.day >= Today
           /\ (\A w \in DayWords : ~Said(t, w)) => ~Before(r, Present)
    BY <1>1, <1>2, ParsedLiesAhead
  <1>4. ParseSpoken(said) = r
    BY DEF ParseSpoken
  <1>5. Words(said) \cap DayWords = {} => \A w \in DayWords : ~Said(t, w)
    BY <1>2 DEF Words, ToSet
  <1> HIDE DEF r
  <1> QED
    BY <1>3, <1>4, <1>5 DEF ScheduleLiesAhead, LiesAhead

\* Whatever has been heard, what it schedules lies ahead (ScheduleLiesAhead): no date that
\* has passed, no 29 February of a year without one, no clock of this morning.
THEOREM ScheduledInTheFuture == Spec => []ScheduleLiesAhead
  BY VoiceInvariant, ScheduledAhead, PTL

-----------------------------------------------------------------------------
(* The splitter and the parser                                             *)

\* Where one word names a day, no two different ones are found.
LEMMA OneDayNamed ==
  ASSUME VoiceInv, DaysNamed = 1,
         NEW v \in DayWords \cup {"tomorrow"}, NEW w \in DayWords \cup {"tomorrow"},
         Said(NormalizeTime(said), v), Said(NormalizeTime(said), w)
  PROVE  v = w
  <1> DEFINE named == {i \in DOMAIN said : said[i] \in DayWords \cup {"tomorrow"}}
  <1>1. said \in Seq(STRING)
    BY SaidTypes
  <1>2. IsFiniteSet(named)
    <2>1. IsFiniteSet(1..Len(said))
      BY <1>1, FS_Interval
    <2>2. named \subseteq 1..Len(said)
      BY <1>1
    <2> QED
      BY <2>1, <2>2, FS_Subset
  <1>3. PICK k : named = {k}
    <2>1. Cardinality(named) = 1
      BY DEF DaysNamed
    <2> HIDE DEF named
    <2> QED
      BY <1>2, <2>1, FS_Singleton
  <1>4. \E i \in named : said[i] = v
    BY <1>1, NormalWords
  <1>5. \E i \in named : said[i] = w
    BY <1>1, NormalWords
  <1> HIDE DEF named
  <1> QED
    BY <1>3, <1>4, <1>5

\* With one word for the day, the splitter takes the day the parser takes.
LEMMA SameDay ==
  ASSUME now \in Datetimes, NEW t \in Seq(STRING), DatePart(t) # None,
         \A v, w \in DayWords \cup {"tomorrow"} : Said(t, v) /\ Said(t, w) => v = w
  PROVE  DayNamed(t) = DatePart(t)
  <1> DEFINE M == ToSet(MonthNames) \cup ToSet(ShortMonths)
             N == ToSet(WeekdayNames)
             H == {"today", "tonight", "this", "tomorrow"}
  <1>1. M \cap H = {} /\ N \cap H = {}
    BY DEF MonthNames, ShortMonths, WeekdayNames, ToSet
  <1>2. /\ M \subseteq DayWords \cup {"tomorrow"}
        /\ N \subseteq DayWords \cup {"tomorrow"}
        /\ H \subseteq DayWords \cup {"tomorrow"}
    BY DEF DayWords
  <1>3. MonthDay(t) # None => \E w \in M : Said(t, w)
    BY MonthDayAhead
  <1>4. WeekdaySaid(t) # None => \E w \in N : Said(t, w)
    BY WeekdayAheadOf
  <1>5. ThisSaid(t) => Said(t, "this")
    BY DEF ThisSaid, Said, Contains
  <1> HIDE DEF M, N
  <1>6. CASE MonthDay(t) # None
    <2>1. PICK w \in M : Said(t, w)
      BY <1>3, <1>6
    <2>2. \A h \in H : ~Said(t, h)
      BY <1>1, <1>2, <2>1
    <2> QED
      BY <1>5, <1>6, <2>2 DEF DayNamed, DatePart, Else
  <1>7. CASE MonthDay(t) = None /\ (Said(t, "tomorrow") \/ Said(t, "today") \/ Said(t, "tonight"))
    BY <1>7 DEF DayNamed, DatePart, Else
  <1>8. CASE MonthDay(t) = None /\ ~(Said(t, "tomorrow") \/ Said(t, "today") \/ Said(t, "tonight"))
    <2>1. DatePart(t) = WeekdaySaid(t)
      BY <1>8 DEF DatePart, Else
    <2>2. PICK w \in N : Said(t, w)
      BY <1>4, <2>1
    <2>3. ~Said(t, "this")
      BY <1>1, <1>2, <2>2
    <2> QED
      BY <1>5, <1>8, <2>1, <2>3 DEF DayNamed, Else
  <1> QED
    BY <1>6, <1>7, <1>8

\* And where no bare number stands beside an hour in words, the same time.
LEMMA SameTime ==
  ASSUME NEW t, TimePart(t) # None, ~TwoHours(WithoutDate(t)), NEW day
  PROVE  TimeNamed(t) # None /\ Moment(day, TimeNamed(t)) = Moment(day, TimePart(t))
  <1> DEFINE rest == WithoutDate(t)
             D == DigitClock(rest)
             W == WordClock(rest)
  <1>1. TimePart(t) = SureClock(D, W)
    BY DEF TimePart, PartOf
  <1>2. ~(D # None /\ ~D.sure /\ W # None)
    BY DEF TwoHours, BareNumber
  <1>3. TimeNamed(t) = Else(Else(D, W), DayPart(t))
    BY DEF TimeNamed, ClockNamed
  <1> HIDE DEF D, W
  <1>4. CASE D # None /\ D.sure
    <2>1. TimePart(t) = [hour |-> D.hour, minute |-> D.minute] /\ TimeNamed(t) = D
      BY <1>1, <1>3, <1>4 DEF SureClock, Else
    <2> QED
      BY <1>4, <2>1 DEF Moment
  <1>5. CASE ~(D # None /\ D.sure)
    <2>1. TimePart(t) = W /\ W # None
      BY <1>1, <1>5 DEF SureClock
    <2>2. D = None
      BY <1>2, <1>5, <2>1
    <2> QED
      BY <1>3, <2>1, <2>2 DEF Else
  <1> QED
    BY <1>4, <1>5

\* One state: the parts make the moment.
LEMMA PartsMakeTheMoment ==
  ASSUME VoiceInv
  PROVE  PartsAgree
  <1> DEFINE t == NormalizeTime(said)
             p == ScheduleParts(said)
  <1>1. said \in Seq(STRING) /\ now \in Datetimes
    BY SaidTypes
  <1>2. t \in Seq(STRING)
    BY <1>1, NormalWords
  <1>3. p.date = DatePart(t) /\ p.time = TimePart(t)
    BY DEF ScheduleParts, DateAndTime
  <1> SUFFICES ASSUME p.date # None, p.time # None, DaysNamed = 1, ~IsDuration(t),
                      ~TwoHours(WithoutDate(t))
               PROVE  Parse(t) = Moment(p.date, p.time)
    BY DEF PartsAgree, Agree
  <1>4. \A v, w \in DayWords \cup {"tomorrow"} : Said(t, v) /\ Said(t, w) => v = w
    BY OneDayNamed
  <1> HIDE DEF t, p
  <1>5. DayNamed(t) = p.date
    BY <1>1, <1>2, <1>3, <1>4, SameDay
  <1>6. TimeNamed(t) # None /\ Moment(p.date, TimeNamed(t)) = Moment(p.date, p.time)
    BY <1>3, SameTime
  <1> QED
    BY <1>5, <1>6 DEF Parse, MomentNamed, OnDay

\* _extract_schedule_parts finds the date and the time that parse_spoken_datetime finds, where
\* one day is named and no bare number stands beside an hour in words (PartsAgree).
THEOREM PartsAgreeWithTheParser == Spec => []PartsAgree
  BY VoiceInvariant, PartsMakeTheMoment, PTL

-----------------------------------------------------------------------------
(* Wording and orders                                                      *)

Piece(w) ==
  IF w \in DOMAIN Colons THEN <<Numerals[Colons[w].hour], Numerals[Colons[w].minute]>>
  ELSE IF w \in DOMAIN Spelling THEN Spelling[w] ELSE <<w>>

\* A word by itself is a sequence of words.
LEMMA OneWord == ASSUME NEW S, NEW w \in S PROVE <<w>> \in Seq(S)
  OBVIOUS

\* Normalization turns a word into words, one at least.
LEMMA PieceIsWords ==
  ASSUME NEW w \in STRING
  PROVE  Piece(w) \in Seq(STRING) /\ Piece(w) # <<>>
  <1>1. CASE w \in DOMAIN Colons
    <2> DEFINE h == Colons[w].hour
               m == Colons[w].minute
    <2>1. h \in 0..99 /\ m \in 0..99
      BY <1>1 DEF Colons
    <2>2. Piece(w) = <<Numerals[h], Numerals[m]>>
      BY <1>1 DEF Piece
    <2> HIDE DEF h, m
    <2>3. Numerals[h] \in STRING /\ Numerals[m] \in STRING
      BY <2>1, NumeralsAssumption
    <2> QED
      BY <2>2, <2>3
  <1>2. CASE w \notin DOMAIN Colons /\ w \in DOMAIN Spelling
    <2>1. Piece(w) = Spelling[w]
      BY <1>2 DEF Piece
    <2>2. Spelling[w] \in Seq(STRING)
      BY <1>2, SpellingAssumption
    <2>3. Spelling[w] # <<>>
      BY <1>2 DEF Spelling
    <2> QED
      BY <2>1, <2>2, <2>3
  <1>3. CASE w \notin DOMAIN Colons /\ w \notin DOMAIN Spelling
    <2>1. Piece(w) = <<w>>
      BY <1>3 DEF Piece
    <2>2. <<w>> \in Seq(STRING)
      BY OneWord, Zenon
    <2>3. <<w>> # <<>>
      OBVIOUS
    <2> QED
      BY <2>1, <2>2, <2>3, Zenon
  <1> QED
    BY <1>1, <1>2, <1>3

ChangeTo(t) == /\ Len(t) > 3 /\ t[1] = "change"
               /\ \E k \in 3..(Len(t) - 1) : t[k] = "to"

\* "change X to Y" keeps its form when it is normalized.
LEMMA NormalChangeTo ==
  ASSUME NEW text \in Seq(STRING), ChangeTo(text)
  PROVE  Normalize(text) \in Seq(STRING) /\ ChangeTo(Normalize(text))
  <1> DEFINE ss == [i \in DOMAIN text |-> Piece(text[i])]
             F == FlattenSeq(ss)
  <1>1. Normalize(text) = F
    BY DEF Normalize, Piece
  <1>2. Len(text) \in Nat /\ DOMAIN text = 1..Len(text) /\ Len(text) > 3
    BY DEF ChangeTo
  <1>3. ASSUME NEW i \in 1..Len(text) PROVE ss[i] \in Seq(STRING) /\ ss[i] # <<>>
    <2>1. text[i] \in STRING /\ ss[i] = Piece(text[i])
      BY <1>2
    <2> QED
      BY <2>1, PieceIsWords
  <1>4. /\ ss \in Seq(Seq(STRING)) /\ Len(ss) = Len(text) /\ ss # <<>>
    BY <1>2, <1>3
  <1>5. \A i \in 1..Len(text) : text[i] \in {"change", "to"} => ss[i] = <<text[i]>>
    BY <1>2 DEF Piece, Colons, Spelling
  <1> HIDE DEF ss
  <1>6. /\ F \in Seq(STRING)
        /\ F[1] = ss[1][1]
        /\ Len(F) >= Len(ss)
        /\ \A i \in 1..Len(ss) :
             \E k \in 1..Len(F) : /\ F[k] = ss[i][Len(ss[i])]
                                  /\ k >= i /\ Len(F) - k >= Len(ss) - i
    BY <1>3, <1>4, FlattenWords, FlattenPlaces
  <1> HIDE DEF F
  <1>7. F[1] = "change"
    BY <1>2, <1>5, <1>6 DEF ChangeTo
  <1>8. PICK j \in 3..(Len(text) - 1) : text[j] = "to"
    BY DEF ChangeTo
  <1>9. ss[j][Len(ss[j])] = "to" /\ j \in 1..Len(ss)
    <2>1. j \in 1..Len(text)
      BY <1>2
    <2>2. ss[j] = <<"to">>
      BY <1>5, <1>8, <2>1
    <2> QED
      BY <1>4, <2>1, <2>2
  <1>10. PICK k \in 1..Len(F) : F[k] = "to" /\ k >= j /\ Len(F) - k >= Len(ss) - j
    BY <1>6, <1>9
  <1>11. k \in 3..(Len(F) - 1) /\ Len(F) > 3
    <2> DEFINE n == Len(text)
               m == Len(F)
    <2>1. n \in Nat /\ m \in Nat /\ n > 3 /\ m >= n /\ j \in 3..(n - 1) /\ k \in 1..m
          /\ k >= j /\ m - k >= n - j
      BY <1>2, <1>4, <1>6, <1>8, <1>10
    <2> HIDE DEF n, m
    <2>2. k \in 3..(m - 1) /\ m > 3
      BY <2>1
    <2> QED
      BY <2>2 DEF m
  <1> QED
    BY <1>1, <1>6, <1>7, <1>10, <1>11 DEF ChangeTo

\* What is left of an operand are words of it.
LEMMA CleanWords ==
  ASSUME NEW t \in Seq(STRING)
  PROVE  CleanOperand(t) \in Seq(STRING)
  <1>1. Len(t) > 2 => Drop(t, 2) \in Seq(STRING)
    BY DEF Drop, Rest
  <1> QED
    BY <1>1, Zenon DEF CleanOperand

\* Of some pairs of places one is the first.
LEMMA FirstPair ==
  ASSUME NEW n \in Nat, NEW cuts \in SUBSET ((1..n) \X (1..n)), cuts # {}
  PROVE  \E d \in cuts : \A e \in cuts : d[1] < e[1] \/ (d[1] = e[1] /\ d[2] <= e[2])
  <1> DEFINE Heads == {c[1] : c \in cuts}
  <1>1. Heads \in SUBSET Nat /\ Heads # {}
    OBVIOUS
  <1>2. PICK h \in Heads : \A x \in Heads : h <= x
    BY <1>1, Least
  <1> DEFINE Tails == {c[2] : c \in {d \in cuts : d[1] = h}}
  <1>3. Tails \in SUBSET Nat /\ Tails # {}
    OBVIOUS
  <1>4. PICK l \in Tails : \A x \in Tails : l <= x
    BY <1>3, Least
  <1>5. PICK d \in cuts : d[1] = h /\ d[2] = l
    BY <1>4
  <1>6. ASSUME NEW e \in cuts PROVE d[1] < e[1] \/ (d[1] = e[1] /\ d[2] <= e[2])
    <2>1. h <= e[1] /\ (e[1] = h => l <= e[2])
      BY <1>2, <1>4
    <2>2. h \in Nat /\ e[1] \in Nat
      BY <1>1
    <2> QED
      BY <1>5, <2>1, <2>2
  <1> QED
    BY <1>6

\* Where a form of edit fits, its operands are found.
LEMMA CutIsEdit ==
  ASSUME NEW t \in Seq(STRING), NEW verbs, NEW connectors
  PROVE  LET o == Parts(t, verbs, connectors)
             cuts == Cuts(t, verbs, connectors) IN
         /\ o = None \/ o \in Edits
         /\ cuts # {} => o \in Edits
  <1> DEFINE cuts == Cuts(t, verbs, connectors)
  <1>1. CASE cuts = {}
    BY <1>1 DEF Parts, FirstCut
  <1>2. CASE cuts # {}
    <2>1. cuts \in SUBSET ((1..Len(t)) \X (1..Len(t))) /\ Len(t) \in Nat
      BY DEF Cuts
    <2> HIDE DEF cuts
    <2> DEFINE First(d) == \A e \in cuts : d[1] < e[1] \/ (d[1] = e[1] /\ d[2] <= e[2])
               c == CHOOSE d \in cuts : First(d)
    <2>2. c \in cuts
      BY <1>2, <2>1, FirstPair
    <2>3. Parts(t, verbs, connectors) = CutAt(t, c)
      BY <1>2 DEF Parts, FirstCut, cuts
    <2> HIDE DEF c
    <2>4. c[1] \in 1..Len(t) /\ c[2] \in 1..Len(t)
      BY <2>1, <2>2
    <2>5. SubSeq(t, c[1] + 1, c[2] - 1) \in Seq(STRING)
      BY <2>4
    <2>6. Drop(t, c[2]) \in Seq(STRING)
      BY <2>4 DEF Drop, Rest
    <2>7. CutAt(t, c) \in Edits
      BY <2>5, <2>6, CleanWords DEF CutAt, Edits
    <2> QED
      BY <1>2, <2>3, <2>7 DEF cuts
  <1> QED
    BY <1>1, <1>2

\* None is no kind of intent, and Nothing has no kind.
LEMMA KindsAre ==
  /\ ResolvingKinds \subseteq Kinds
  /\ None \notin Kinds /\ None \notin ResolvingKinds /\ Nothing.kind = None
  /\ \A k : Plain(k).kind = k
  BY NothingAssumption DEF ResolvingKinds, Kinds, Nothing, Plain

\* The edit that is found is no order.
LEMMA EditIsNoOrder ==
  ASSUME NEW text, NEW field, NEW o, o # None
  PROVE  /\ Edit(text, field, o).kind \notin ResolvingKinds
         /\ Edit(text, field, o) # Nothing
  <1> DEFINE e == Edit(text, field, o)
  <1>1. e.kind \in {"set_field_position", "replace_in_field_position"}
    BY DEF Edit, EditOf, SetField, ReplaceWords, Plain, Nothing
  <1> HIDE DEF e
  <1>2. e.kind \in Kinds /\ e.kind \notin ResolvingKinds
    BY <1>1 DEF Kinds, ResolvingKinds
  <1> QED
    BY <1>2, KindsAre DEF e

\* _classify_replace_action finds an edit in every "change X to Y".
LEMMA ReplacementFirst ==
  ASSUME NEW t \in Seq(STRING), ChangeTo(t)
  PROVE  ReplaceAction(t).kind \notin ResolvingKinds /\ ReplaceAction(t) # Nothing
  <1> DEFINE o == Operands(t)
  <1>1. Len(t) \in Nat /\ Len(t) > 3 /\ t[1] = "change"
    BY DEF ChangeTo
  <1>2. Scope(t) = [field |-> None, rest |-> t]
    BY <1>1 DEF Scope
  <1>3. WithoutClause(t) = t
    <2>1. \A w : IsPrefix(<<w>>, t) => t[1] = w
      BY <1>1 DEF IsPrefix
    <2>2. ~Leads(t, {<<"for">>, <<"in">>, <<"on">>, <<"of">>})
      BY <1>1, <2>1 DEF Leads
    <2>3. ~Leads(t, {<<"of">>})
      BY <1>1, <2>1 DEF Leads
    <2> QED
      BY <2>2, <2>3 DEF WithoutClause
  <1>4. o \in Edits
    <2> DEFINE V == {"change", "correct", "fix", "set", "make", "update", "rename"}
    <2>1. PICK k \in 3..(Len(t) - 1) : t[k] = "to"
      BY DEF ChangeTo
    <2>2. <<1, k>> \in Cuts(t, V, {"to"})
      <3> DEFINE c == <<1, k>>
      <3>1. c \in (1..Len(t)) \X (1..Len(t)) /\ c[1] = 1 /\ c[2] = k
        BY <1>1
      <3>2. 1 + 2 <= k /\ k < Len(t)
        BY <1>1
      <3> HIDE DEF c
      <3> QED
        BY <1>1, <2>1, <3>1, <3>2 DEF Cuts, c
    <2>3. Parts(t, V, {"to"}) \in Edits
      BY <2>2, CutIsEdit
    <2>4. \A W, C : Parts(t, W, C) = None \/ Parts(t, W, C) \in Edits
      BY CutIsEdit
    <2> QED
      BY <2>3, <2>4 DEF Operands, Else
  <1>5. o # None
    BY <1>4, NothingAssumption
  <1>6. ReplaceAction(t) = Or(Edit(t, None, o), EditBegun(t, None, Unfinished(t)))
    BY <1>2, <1>3 DEF ReplaceAction, ReplaceScoped, ReplaceIn
  <1> HIDE DEF o
  <1> QED
    BY <1>5, <1>6, EditIsNoOrder DEF Or

\* The branches that are tried before it resolve no reply.
LEMMA OthersAreNoOrders ==
  ASSUME NEW t
  PROVE  /\ ListRequest(t).kind \notin ResolvingKinds
         /\ Navigation(t).kind \notin ResolvingKinds
         /\ Continuation(t).kind \notin ResolvingKinds
         /\ Reschedule(t).kind \notin ResolvingKinds
  <1>1. ListRequest(t).kind \in {None, "list_pending", "list_unread"}
    BY KindsAre DEF ListRequest
  <1>2. Navigation(t).kind \in {None, "unknown_destination", "navigate"}
    BY KindsAre DEF Navigation, Destination, To, Plain, Nothing
  <1>3. Continuation(t).kind \in {None, "edit_replacement"}
    BY KindsAre DEF Continuation, Plain, Nothing
  <1>4. Reschedule(t).kind \in {None, "reschedule_position"}
    BY KindsAre DEF Reschedule, MoveTo, Plain, Nothing
  <1>5. \A k \in {None, "list_pending", "list_unread", "unknown_destination", "navigate",
                "edit_replacement", "reschedule_position"} : k \notin ResolvingKinds
    BY KindsAre DEF ResolvingKinds
  <1> QED
    BY <1>1, <1>2, <1>3, <1>4, <1>5

\* What an order may still be: clearing everything.
ClearsAll(text, kind) ==
  /\ kind = "clear_all_pending"
  /\ Words(Normalize(text)) \cap ClearVerbs # {}
  /\ Words(Normalize(text)) \cap HoldsAll # {}

\* classify: "change X to Y" is no other order, whatever X and Y are.
LEMMA ChangeIsNoOrder ==
  ASSUME NEW text \in Seq(STRING), ChangeTo(text), Classify(text).kind \in ResolvingKinds
  PROVE  ClearsAll(text, Classify(text).kind)
  <1> DEFINE t == Normalize(text)
  <1>1. t \in Seq(STRING) /\ ChangeTo(t)
    BY NormalChangeTo
  <1>2. text # <<>>
    BY DEF ChangeTo
  <1>3. Classify(text) = ClassifyWords(t)
    BY <1>2 DEF Classify
  <1> HIDE DEF t
  <1>4. ReplaceAction(t).kind \notin ResolvingKinds /\ ReplaceAction(t) # Nothing
    BY <1>1, ReplacementFirst
  <1>5. PositionAction(t).kind \notin ResolvingKinds /\ PositionAction(t) # Nothing
    <2>1. PositionAction(t) \in {Reschedule(t), ReplaceAction(t)}
      BY <1>4, Zenon DEF PositionAction, Or
    <2>2. PositionAction(t) # Nothing
      BY <1>4, Zenon DEF PositionAction, Or
    <2> QED
      BY <1>4, <2>1, <2>2, OthersAreNoOrders
  <1>6. ClassifyWords(t) \in {Plain("help"), Plain("cancel"), ListRequest(t), Navigation(t),
                             Continuation(t), PositionAction(t)}
         \/ (IsClearAll(t) /\ ClassifyWords(t) = Plain("clear_all_pending"))
    BY <1>5, Zenon DEF ClassifyWords, Or
  <1>7. \A k \in {"help", "cancel"} : Plain(k).kind \notin ResolvingKinds
    BY KindsAre DEF ResolvingKinds
  <1>8. IsClearAll(t) /\ ClassifyWords(t) = Plain("clear_all_pending")
    BY <1>3, <1>5, <1>6, <1>7, OthersAreNoOrders
  <1>9. Classify(text).kind = "clear_all_pending"
    BY <1>3, <1>8, KindsAre
  <1> QED
    BY <1>8, <1>9 DEF IsClearAll, ClearsAll, t

\* An utterance of the form "change X to Y" is never taken for an order, whatever words X and
\* Y hold, but one (WordingIsNoOrder): the edit is found before approve, send, schedule and
\* reject are, and after a verb of clearing together with a word that holds "all" or "every".
THEOREM WordingIsNeverAnOrder == Spec => []WordingIsNoOrder
  <1>1. Init => WordingIsNoOrder
    BY DEF Init, WordingIsNoOrder
  <1>2. VoiceInv /\ WordingIsNoOrder /\ [Next]_vars => WordingIsNoOrder'
    <2> SUFFICES ASSUME VoiceInv, WordingIsNoOrder, [Next]_vars PROVE WordingIsNoOrder'
      OBVIOUS
    <2>1. CASE Next
      <3>1. PICK w \in scene.words : Speak(w)
        BY <2>1 DEF Next
      <3>2. said' = Append(said, w) /\ intent' = Classify(said')
        BY <3>1 DEF Speak
      <3>3. said' \in Seq(STRING)
        <4>1. scene.words \subseteq STRING
          BY ScenesAssumption DEF VoiceInv
        <4>2. said \in Seq(STRING)
          BY SaidTypes
        <4> QED
          BY <3>2, <4>1, <4>2
      <3> DEFINE t == said'
      <3>4. Len(t) > 3 /\ t[1] = "change" /\ "to" \in Words(SubSeq(t, 3, Len(t) - 1)) => ChangeTo(t)
        <4> SUFFICES ASSUME Len(t) > 3, t[1] = "change", "to" \in Words(SubSeq(t, 3, Len(t) - 1))
                     PROVE  \E k \in 3..(Len(t) - 1) : t[k] = "to"
          BY DEF ChangeTo
        <4> DEFINE u == SubSeq(t, 3, Len(t) - 1)
        <4>1. PICK i \in DOMAIN u : u[i] = "to"
          BY DEF Words, ToSet
        <4> HIDE DEF t
        <4>2. /\ DOMAIN u = 1..(Len(t) - 3) /\ Len(t) \in Nat
              /\ \A j \in 1..(Len(t) - 3) : u[j] = t[j + 2]
          BY <3>3 DEF t
        <4>3. i + 2 \in 3..(Len(t) - 1) /\ t[i + 2] = "to"
          BY <4>1, <4>2
        <4> QED
          BY <4>3
      <3>5. ChangeTo(t) /\ Classify(t).kind \in ResolvingKinds => ClearsAll(t, Classify(t).kind)
        BY <3>3, ChangeIsNoOrder
      <3> QED
        BY <3>2, <3>4, <3>5 DEF WordingIsNoOrder, ClearsAll
    <2>2. CASE UNCHANGED vars
      BY <2>2 DEF WordingIsNoOrder, vars
    <2> QED
      BY <2>1, <2>2
  <1> QED
    BY <1>1, <1>2, VoiceInvariant, PTL DEF Spec

-----------------------------------------------------------------------------
(* An edit in two turns                                                    *)

\* _split_edit_continuation cuts at the last connector, so that words before it go on with
\* the search ("there to hello"), if the replacement holds no connector itself.
LEMMA CutAtConnector ==
  ASSUME NEW b \in Seq(STRING), b # <<>>, NEW y \in Seq(STRING), y # <<>>,
         NEW c \in {"to", "with", "into"},
         \A i \in 1..Len(y) : y[i] \notin {"to", "with", "into"}
  PROVE  SplitContinuation(b \o <<c>> \o y) = [search |-> b, repl |-> y]
  <1> DEFINE t == b \o <<c>> \o y
             n == Len(b)
             m == Len(y)
             I == {i \in 2..(Len(t) - 1) : t[i] \in {"to", "with", "into"}}
  <1>1. n \in Nat /\ n >= 1 /\ m \in Nat /\ m >= 1 /\ Len(t) = n + 1 + m
    OBVIOUS
  <1>2. /\ \A i \in 1..n : t[i] = b[i]
        /\ t[n + 1] = c
        /\ \A i \in 1..m : t[n + 1 + i] = y[i]
    OBVIOUS
  <1>3. SubSeq(t, 1, n) = b
    OBVIOUS
  <1>4. SubSeq(t, n + 1 + 1, Len(t)) = y
    OBVIOUS
  <1> HIDE DEF t, n, m
  <1>5. n + 1 \in I
    BY <1>1, <1>2
  <1>6. ASSUME NEW i \in I PROVE i <= n + 1
    <2>1. CASE i > n + 1
      <3>1. i - (n + 1) \in 1..m /\ n + 1 + (i - (n + 1)) = i
        BY <1>1, <2>1
      <3>2. t[i] = y[i - (n + 1)]
        BY <1>2, <3>1
      <3> QED
        BY <3>1, <3>2 DEF m
    <2> QED
      BY <1>1, <2>1
  <1>7. Max(I) = n + 1
    <2>1. I \subseteq Nat /\ n + 1 \in Nat
      BY <1>1
    <2> HIDE DEF I
    <2>2. \A x \in I : (\A z \in I : x >= z) => x = n + 1
      BY <1>5, <1>6, <2>1
    <2>3. \A z \in I : n + 1 >= z
      BY <1>6, <2>1
    <2> QED
      BY <1>5, <2>2, <2>3 DEF Max
  <1>8. n + 1 # 0 /\ n + 1 - 1 = n
    BY <1>1
  <1> DEFINE cut == IF I # {} THEN Max(I) ELSE 0
  <1>9. cut # 0 => SplitContinuation(t) = [search |-> SubSeq(t, 1, cut - 1), repl |-> Drop(t, cut)]
    BY DEF SplitContinuation, SelectLastInSubSeq
  <1>10. cut = n + 1
    BY <1>5, <1>7
  <1> HIDE DEF cut
  <1>11. SplitContinuation(t) = [search |-> SubSeq(t, 1, n), repl |-> Drop(t, n + 1)]
    <2>1. cut # 0 /\ cut - 1 = n
      BY <1>1, <1>8, <1>10
    <2> QED
      BY <1>9, <1>10, <2>1
  <1> QED
    BY <1>3, <1>4, <1>11 DEF Drop, Rest, t

\* Without a connector all of the words are the replacement, but for a filler in front.
LEMMA NoConnector ==
  ASSUME NEW y \in Seq(STRING), \A i \in 1..Len(y) : y[i] \notin {"to", "with", "into"}
  PROVE  SplitContinuation(y) = [search |-> <<>>, repl |-> WithoutFiller(y)]
  <1>1. {i \in 2..(Len(y) - 1) : y[i] \in {"to", "with", "into"}} = {}
    OBVIOUS
  <1>2. SelectLastInSubSeq(y, 2, Len(y) - 1, LAMBDA w : w \in {"to", "with", "into"}) = 0
    BY <1>1 DEF SelectLastInSubSeq
  <1> QED
    BY <1>2 DEF SplitContinuation

\* A sequence is cut anywhere into two that are not empty.
LEMMA CutAnywhere ==
  ASSUME NEW x \in Seq(STRING), NEW i \in 1..(Len(x) - 1)
  PROVE  /\ Drop(x, i) \in Seq(STRING) /\ Drop(x, i) # <<>>
         /\ SubSeq(x, 1, i) \o Drop(x, i) = x
  <1>1. PICK n \in Nat : n = Len(x)
    OBVIOUS
  <1>2. i \in 1..(n + 1) /\ i + 1 \in 1..n /\ i \in 0..n
    BY <1>1
  <1>3. PICK b : b = SubSeq(x, i + 1, n)
    OBVIOUS
  <1>4. Drop(x, i) = b
    BY <1>1, <1>3 DEF Drop, Rest
  <1>5. b \in Seq(STRING) /\ Len(b) = n - (i + 1) + 1
    BY <1>1, <1>2, <1>3
  <1>6. Len(b) # 0
    BY <1>2, <1>5
  <1>7. b # <<>>
    BY <1>6, Len(<<>>) = 0
  <1>8. SubSeq(x, 1, i) \o b = SubSeq(x, 1, n)
    BY <1>1, <1>2, <1>3, ConcatAdjacentSubSeq
  <1>9. SubSeq(x, 1, n) = x
    BY <1>1, SubSeqFull
  <1> QED
    BY <1>4, <1>5, <1>7, <1>8, <1>9

\* The edit "X to Y" (or "with", or "into") in two turns.  Wherever in X the user stops, the
\* second turn makes that edit: its words before the connector go on with the search.  When
\* the user stops at the connector, the second turn is the replacement, without the filler
\* it begins with; when right before, without "the word" (_handle_user_transcript).
THEOREM TurnsMeet ==
  ASSUME NEW x \in Seq(STRING), x # <<>>, NEW y \in Seq(STRING), y # <<>>,
         NEW c \in {"to", "with", "into"},
         \A i \in 1..Len(y) : y[i] \notin {"to", "with", "into"}
  PROVE  /\ \A i \in 1..(Len(x) - 1) :
              CompleteEdit(SubSeq(x, 1, i), Drop(x, i) \o <<c>> \o y) = [search |-> x, repl |-> y]
         /\ CompleteEdit(x, y) = [search |-> x, repl |-> WithoutFiller(y)]
         /\ Continuation(<<c>> \o y)
              = [Plain("edit_replacement") EXCEPT !.repl = CleanOperand(y)]
  <1>1. ASSUME NEW i \in 1..(Len(x) - 1)
        PROVE  CompleteEdit(SubSeq(x, 1, i), Drop(x, i) \o <<c>> \o y) = [search |-> x, repl |-> y]
    <2> DEFINE a == SubSeq(x, 1, i)
               b == Drop(x, i)
               t == b \o <<c>> \o y
    <2>1. b \in Seq(STRING) /\ b # <<>> /\ a \o b = x
      BY CutAnywhere
    <2> HIDE DEF a, b
    <2>2. SplitContinuation(t) = [search |-> b, repl |-> y]
      BY <2>1, CutAtConnector
    <2> HIDE DEF t
    <2>3. CompleteEdit(a, t) = [search |-> a \o b, repl |-> y]
      BY <2>2 DEF CompleteEdit, Extend
    <2> QED
      BY <2>1, <2>3 DEF a, b, t
  <1>2. CompleteEdit(x, y) = [search |-> x, repl |-> WithoutFiller(y)]
    <2>1. SplitContinuation(y) = [search |-> <<>>, repl |-> WithoutFiller(y)]
      BY NoConnector
    <2>2. x \o <<>> = x
      OBVIOUS
    <2> QED
      BY <2>1, <2>2 DEF CompleteEdit, Extend
  <1>3. Continuation(<<c>> \o y) = [Plain("edit_replacement") EXCEPT !.repl = CleanOperand(y)]
    <2> DEFINE t == <<c>> \o y
    <2>1. Len(t) > 1 /\ t[1] = c /\ Tail(t) = y /\ t \in Seq(STRING \cup {c})
      OBVIOUS
    <2> HIDE DEF t
    <2>2. \A v \in {"change", "make", "set", "replace"} : ~IsPrefix(<<v, "it">>, t)
      <3> SUFFICES ASSUME NEW v \in {"change", "make", "set", "replace"}, IsPrefix(<<v, "it">>, t)
                   PROVE  FALSE
        OBVIOUS
      <3> DEFINE p == <<v, "it">>
      <3>1. p \in Seq({v, "it"}) /\ Len(p) = 2 /\ p[1] = v
        OBVIOUS
      <3> HIDE DEF p
      <3>2. SubSeq(p, 1, 2) = SubSeq(t, 1, 2)
        BY <3>1 DEF IsPrefix, p
      <3>3. SubSeq(p, 1, 2)[1] = p[1] /\ SubSeq(t, 1, 2)[1] = t[1]
        BY <2>1, <3>1
      <3> QED
        BY <2>1, <3>1, <3>2, <3>3
    <2>3. ~Leads(t, {<<v, "it">> : v \in {"change", "make", "set", "replace"}})
      BY <2>2 DEF Leads
    <2>4. Continuation(t) = [Plain("edit_replacement") EXCEPT !.repl = CleanOperand(Tail(t))]
      BY <2>1, <2>3 DEF Continuation
    <2> QED
      BY <2>1, <2>4 DEF t
  <1> QED
    BY <1>1, <1>2, <1>3

-----------------------------------------------------------------------------
(* A spoken day is the next of its kind                                    *)

\* The calendar has that date.
IsDate(y, m, d) == y \in Nat \ {0} /\ m \in 1..12 /\ d \in 1..31 /\ d <= MonthLength(y, m)

\* Days of different years are in the order of the years.
LEMMA YearsInOrder ==
  ASSUME NEW y, NEW m, NEW d, IsDate(y, m, d),
         NEW z, NEW k, NEW e, IsDate(z, k, e), y < z
  PROVE  DayNumber(y, m, d) < DayNumber(z, k, e)
  <1> DEFINE n == z - y
             D == DayNumber(y, m, d)
             After1(j) == \A p \in 1..12 : \A q \in 1..31 : D < DayNumber(y + j, p, q)
             T == {j \in 1..n : After1(j)}
  <1>1. y \in Nat \ {0} /\ z \in Nat \ {0} /\ n \in Nat /\ n >= 1 /\ y + n = z
    BY DEF IsDate
  <1>2. D \in Int
    BY DayNumberInt DEF IsDate
  <1>3. 1 \in T
    <2>1. After1(1)
      BY NextYear DEF IsDate
    <2> QED
      BY <1>1, <2>1
  <1>4. ASSUME NEW j \in 1..(n - 1), j \in T PROVE j + 1 \in T
    <2> DEFINE x == y + j
    <2>1. x \in Nat \ {0} /\ x + 1 \in Nat \ {0} /\ j + 1 \in 1..n /\ y + (j + 1) = x + 1
      BY <1>1
    <2>2. 1 \in 1..12 /\ 1 \in 1..31 /\ 1 <= MonthLength(x, 1)
      BY DEF MonthLength
    <2>3. D < DayNumber(x, 1, 1)
      BY <1>4, <2>2
    <2> HIDE DEF x
    <2>4. DayNumber(x, 1, 1) \in Int
      BY <2>1, <2>2, DayNumberInt
    <2>5. ASSUME NEW p \in 1..12, NEW q \in 1..31 PROVE D < DayNumber(y + (j + 1), p, q)
      <3>1. DayNumber(x, 1, 1) < DayNumber(x + 1, p, q)
        BY <2>1, <2>2, NextYear
      <3>2. DayNumber(x + 1, p, q) \in Int
        BY <2>1, DayNumberInt
      <3> HIDE DEF D
      <3>3. D < DayNumber(x + 1, p, q)
        BY <1>2, <2>3, <2>4, <3>1, <3>2
      <3> QED
        BY <2>1, <3>3
    <2> HIDE DEF D
    <2> QED
      BY <2>1, <2>5
  <1> HIDE DEF n, T
  <1>5. n \in T
    <2>1. \A j \in 1..n : j \in T
      BY <1>1, <1>3, <1>4, Upward
    <2> QED
      BY <1>1, <2>1
  <1> QED
    BY <1>1, <1>5 DEF IsDate, T

\* The first day from today on with that date; no year before it has one that is not past.
NextDate(m, d, day) ==
  /\ day >= Today
  /\ \E y \in Nat : IsDate(y, m, d) /\ day = DayNumber(y, m, d)
  /\ \A y \in Nat : IsDate(y, m, d) /\ DayNumber(y, m, d) >= Today => day <= DayNumber(y, m, d)

\* _parse_month_day: this year's date, or next year's when it has passed, is the next one.
LEMMA DateIsNext ==
  ASSUME now \in Datetimes, NEW m \in 0..12, NEW d \in 0..31, DateAhead(m, d) # None
  PROVE  NextDate(m, d, DateAhead(m, d))
  <1> DEFINE year == now.year
             this == DateIn(year, m, d)
             next == DateIn(year + 1, m, d)
  <1>1. IsDate(year, now.month, now.day) /\ Today = DayNumber(year, now.month, now.day)
    BY DEF Datetimes, IsDate, Today
  <1>2. Today \in Int /\ year \in Nat \ {0}
    BY <1>1, TodayInt DEF IsDate
  <1>3. this # None
    BY DEF DateAhead, Ahead
  <1>4. m \in 1..12 /\ d \in 1..31 /\ IsDate(year, m, d) /\ this = DayNumber(year, m, d)
    <2>1. this = DayNumber(year, m, d) /\ m # 0 /\ d # 0 /\ ~(d > MonthLength(year, m))
      BY <1>3 DEF DateIn
    <2>2. MonthLength(year, m) \in Int
      BY DEF MonthLength
    <2> QED
      BY <1>2, <2>1, <2>2 DEF IsDate
  <1>5. this \in Int
    BY <1>2, <1>4, DayNumberInt
  <1>6. ASSUME NEW y \in Nat, IsDate(y, m, d), y < year PROVE DayNumber(y, m, d) < Today
    BY <1>1, <1>6, YearsInOrder
  <1>7. \A y \in Nat : IsDate(y, m, d) => DayNumber(y, m, d) \in Int
    BY DayNumberInt DEF IsDate
  <1>8. CASE this >= Today
    <2>1. DateAhead(m, d) = this
      BY <1>8 DEF DateAhead, Ahead
    <2>2. ASSUME NEW y \in Nat, IsDate(y, m, d), DayNumber(y, m, d) >= Today
          PROVE  this <= DayNumber(y, m, d)
      <3>1. ~(y < year)
        BY <1>2, <1>6, <1>7, <2>2
      <3>2. CASE y = year
        BY <1>4, <1>5, <3>2
      <3>3. CASE year < y
        <4>1. DayNumber(year, m, d) < DayNumber(y, m, d)
          BY <1>4, <2>2, <3>3, YearsInOrder
        <4> QED
          BY <1>4, <1>5, <1>7, <2>2, <4>1
      <3> QED
        BY <1>2, <3>1, <3>2, <3>3
    <2> QED
      BY <1>2, <1>4, <1>8, <2>1, <2>2 DEF NextDate
  <1>9. CASE ~(this >= Today)
    <2>1. DateAhead(m, d) = next /\ next # None
      BY <1>3, <1>9 DEF DateAhead, Ahead
    <2>2. IsDate(year + 1, m, d) /\ next = DayNumber(year + 1, m, d) /\ year + 1 \in Nat
      <3>1. next = DayNumber(year + 1, m, d) /\ ~(d > MonthLength(year + 1, m))
        BY <2>1 DEF DateIn
      <3>2. MonthLength(year + 1, m) \in Int
        BY DEF MonthLength
      <3> QED
        BY <1>2, <1>4, <3>1, <3>2 DEF IsDate
    <2>3. next \in Int
      BY <1>7, <2>2
    <2>4. next >= Today
      <3>1. DayNumber(year, now.month, now.day) < DayNumber(year + 1, m, d)
        BY <1>1, <1>2, <2>2, YearsInOrder
      <3> QED
        BY <1>1, <1>2, <2>2, <2>3, <3>1
    <2>5. ASSUME NEW y \in Nat, IsDate(y, m, d), DayNumber(y, m, d) >= Today
          PROVE  next <= DayNumber(y, m, d)
      <3>1. ~(y < year) /\ y # year
        BY <1>2, <1>4, <1>5, <1>6, <1>7, <1>9, <2>5
      <3>2. CASE y = year + 1
        BY <2>2, <2>3, <3>2
      <3>3. CASE year + 1 < y
        <4>1. DayNumber(year + 1, m, d) < DayNumber(y, m, d)
          BY <2>2, <2>5, <3>3, YearsInOrder
        <4> QED
          BY <1>7, <2>2, <2>3, <2>5, <4>1
      <3> QED
        BY <1>2, <3>1, <3>2, <3>3
    <2> QED
      BY <2>1, <2>2, <2>4, <2>5 DEF NextDate
  <1> QED
    BY <1>8, <1>9

\* The first such weekday from today on, or from tomorrow on when "next" was said.
NextDayOf(wd, force, day) ==
  /\ Weekday(day) = wd - 1 /\ day >= Today /\ (force => day > Today)
  /\ \A e \in Int : Weekday(e) = wd - 1 /\ e >= Today /\ (force => e > Today) => day <= e

\* Two days of the same weekday are the same, or a week apart at least.
LEMMA WeekApart ==
  ASSUME NEW a \in Int, NEW b \in Int, Weekday(a) = Weekday(b), a < b
  PROVE  a + 7 <= b
  <1>1. (a - 1) % 7 = (b - 1) % 7
    BY DEF Weekday
  <1> QED
    BY <1>1, SMTT(60)

\* _next_weekday.
LEMMA WeekdayIsNext ==
  ASSUME now \in Datetimes, NEW wd \in 1..7, NEW force \in BOOLEAN
  PROVE  NextDayOf(wd, force, NextWeekday(wd, force))
  <1> DEFINE today == Today
             ahead == (wd - 1 - Weekday(today)) % 7
             more == IF force /\ ahead = 0 THEN 7 ELSE ahead
             day == today + more
  <1>1. today \in Int
    BY TodayInt
  <1>2. NextWeekday(wd, force) = day
    BY DEF NextWeekday
  <1> HIDE DEF today
  <1>3. Weekday(today) \in 0..6 /\ ahead \in 0..6
    BY <1>1 DEF Weekday
  <1>4. Weekday(today + ahead) = wd - 1 /\ Weekday(today + 7) = Weekday(today)
    BY <1>1, SMTT(60) DEF Weekday
  <1>5. ahead = 0 => Weekday(today) = wd - 1
    <2>1. today + 0 = today
      BY <1>1
    <2> QED
      BY <1>4, <2>1
  <1> HIDE DEF ahead
  <1>6. /\ day \in Int /\ day >= today /\ (force => day > today) /\ Weekday(day) = wd - 1
        /\ day <= today + 7 /\ (~(force /\ ahead = 0) => day < today + 7)
    BY <1>1, <1>3, <1>4, <1>5
  <1>7. ASSUME NEW e \in Int, Weekday(e) = wd - 1, e >= today, force => e > today
        PROVE  day <= e
    <2>1. SUFFICES ASSUME e < day PROVE FALSE
      BY <1>6
    <2>2. e + 7 <= day
      BY <1>6, <1>7, <2>1, WeekApart
    <2> QED
      BY <1>1, <1>6, <1>7, <2>2
  <1> QED
    BY <1>2, <1>6, <1>7 DEF NextDayOf, today

\* The date, or the weekday, that the words name is read as the next one.
SpokenDayIsNext ==
  LET t == NormalizeTime(said)
      wd == FirstSaid(t, WeekdayNames) IN
  /\ MonthDay(t) # None => NextDate(MonthSaid(t), DaySaid(t), MonthDay(t))
  /\ wd # 0 => NextDayOf(wd, Said(t, "next"), WeekdaySaid(t))

\* A date without a year, or a weekday, means the next one there is: nothing that fits lies
\* between it and today, over all years to come (_parse_month_day, _next_weekday).
THEOREM SpokenDaysAreNext == Spec => []SpokenDayIsNext
  <1>1. ASSUME VoiceInv PROVE SpokenDayIsNext
    <2> DEFINE t == NormalizeTime(said)
               wd == FirstSaid(t, WeekdayNames)
    <2>1. now \in Datetimes
      BY <1>1, SaidTypes
    <2>2. MonthSaid(t) \in 0..12 /\ DaySaid(t) \in 0..31
      BY MonthIsMonth, DayIsDay
    <2>3. MonthDay(t) # None => NextDate(MonthSaid(t), DaySaid(t), MonthDay(t))
      BY <2>1, <2>2, DateIsNext DEF MonthDay
    <2>4. wd = 0 \/ wd \in 1..7
      <3>1. Len(WeekdayNames) = 7
        BY DEF WeekdayNames
      <3> QED
        BY <3>1, FirstSaidPlace
    <2>5. Said(t, "next") \in BOOLEAN
      BY DEF Said, Contains
    <2>6. wd # 0 => WeekdaySaid(t) = NextWeekday(wd, Said(t, "next"))
      BY DEF WeekdaySaid, WeekdayAhead
    <2>7. wd # 0 => NextDayOf(wd, Said(t, "next"), WeekdaySaid(t))
      BY <2>1, <2>4, <2>5, <2>6, WeekdayIsNext
    <2> QED
      BY <2>3, <2>7 DEF SpokenDayIsNext
  <1> QED
    BY <1>1, VoiceInvariant, PTL
=============================================================================
