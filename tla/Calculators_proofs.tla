-------------------------- MODULE Calculators_proofs --------------------------
(***************************************************************************)
(* What the application's arithmetic guarantees for every input, not only  *)
(* for the small ones Calculations enumerates.                             *)
(***************************************************************************)
EXTENDS Calculations, FiniteSetTheorems, FunctionTheorems, SequenceTheorems,
        NaturalsInduction, WellFoundedInduction, TLAPS

-----------------------------------------------------------------------------
(* Numbers *)

\* Any set of naturals has a smallest one.
LEMMA Smallest ==
    ASSUME NEW T, T \subseteq Nat, T # {}
    PROVE  \E x \in T : \A y \in T : x <= y
<1> DEFINE R == OpToRel(<, Nat)
<1>1. \A x, y \in Nat : x < y => <<x, y>> \in R
  BY DEF OpToRel
<1> HIDE DEF R
<1>2. IsWellFoundedOn(R, Nat)
  BY NatLessThanWellFounded DEF R
<1>3. PICK x \in T : \A y \in T : ~(<<y, x>> \in R)
  BY <1>2, WFMin
<1>4. ASSUME NEW y \in T PROVE x <= y
  <2>1. x \in Nat /\ y \in Nat
    OBVIOUS
  <2>2. ~(y < x)
    BY <1>1, <1>3, <2>1
  <2>3. QED  BY <2>1, <2>2
<1>5. QED  BY <1>4

-----------------------------------------------------------------------------
(* The calendar *)

\* The next working day is the first there is, or the day on which the search gave up.
LEMMA NextFacts ==
    ASSUME NEW day \in Int, NEW calendar
    PROVE  LET next == NextWorkingDay(day, calendar)
           IN  /\ next \in Int /\ day <= next /\ next <= day + MaxScheduleDays
               /\ \A d \in Int : day <= d /\ d < next => ~IsWorkingDay(d, calendar)
               /\ next < day + MaxScheduleDays => IsWorkingDay(next, calendar)
<1> DEFINE found == {d \in day .. day + MaxScheduleDays - 1 : IsWorkingDay(d, calendar)}
           next == NextWorkingDay(day, calendar)
<1>1. MaxScheduleDays \in Nat \ {0}
  BY ScheduleAssumption
<1>2. CASE found = {}
  <2>1. next = day + MaxScheduleDays
    BY <1>2 DEF NextWorkingDay
  <2>2. ASSUME NEW d \in Int, day <= d, d < next PROVE ~IsWorkingDay(d, calendar)
    <3>1. d \in day .. day + MaxScheduleDays - 1
      BY <1>1, <2>1, <2>2
    <3>2. QED  BY <1>2, <3>1
  <2>3. next \in Int /\ day <= next /\ next <= day + MaxScheduleDays
    BY <1>1, <2>1
  <2>4. QED  BY <2>1, <2>2, <2>3
<1>3. CASE found # {}
  <2> DEFINE T == {d - day : d \in found}
  <2>1. \A d \in found : d \in Int /\ day <= d /\ d < day + MaxScheduleDays /\ d - day \in Nat
    BY <1>1
  <2>2. T \subseteq Nat /\ T # {}
    BY <1>3, <2>1
  <2>3. PICK x \in T : \A y \in T : x <= y
    <3> HIDE DEF T
    <3>1. QED  BY <2>2, Smallest
  <2>4. PICK d \in found : x = d - day
    BY <2>3
  <2>5. \A e \in found : d <= e
    <3>1. TAKE e \in found
    <3>2. e - day \in T
      OBVIOUS
    <3>3. d - day <= e - day
      BY <2>3, <2>4, <3>2
    <3>4. QED  BY <2>1, <2>4, <3>1, <3>3
  <2>6. next = CHOOSE e \in found : \A f \in found : e <= f
    BY <1>3 DEF NextWorkingDay
  <2>7. next \in found /\ \A e \in found : next <= e
    BY <2>4, <2>5, <2>6
  <2>8. next \in Int /\ day <= next /\ next < day + MaxScheduleDays
    BY <2>1, <2>7
  <2>9. IsWorkingDay(next, calendar)
    BY <2>7
  <2>10. ASSUME NEW e \in Int, day <= e, e < next PROVE ~IsWorkingDay(e, calendar)
    <3>1. e \in day .. day + MaxScheduleDays - 1
      BY <1>1, <2>8, <2>10
    <3>2. e \notin found
      <4> HIDE DEF next, found
      <4>1. QED  BY <2>7, <2>8, <2>10
    <3>3. QED  BY <3>1, <3>2
  <2>11. QED
    <3> HIDE DEF next
    <3>1. QED  BY <1>1, <2>8, <2>9, <2>10 DEF next
<1>4. QED  BY <1>2, <1>3

\* Each working day after the one before it.
IsDates(date, from, count, calendar) ==
    date = [n \in 0 .. count |-> IF n <= 1 THEN NextWorkingDay(from, calendar)
                                 ELSE NextWorkingDay(date[n - 1] + 1, calendar)]

LEMMA DatesExist ==
    ASSUME NEW from, NEW calendar, NEW count \in Nat
    PROVE  \E date : IsDates(date, from, count, calendar)
<1> DEFINE Missing == {m \in Nat : ~\E date : IsDates(date, from, m, calendar)}
<1>1. SUFFICES ASSUME Missing # {} PROVE FALSE
  OBVIOUS
<1>2. PICK m \in Missing : \A n \in Missing : m <= n
  <2>1. Missing \subseteq Nat
    OBVIOUS
  <2> HIDE DEF Missing
  <2>2. QED  BY <1>1, <2>1, Smallest
<1> DEFINE First == NextWorkingDay(from, calendar)
<1>3. m \in Nat /\ m # 0
  <2>1. IsDates([n \in 0 .. 0 |-> First], from, 0, calendar)
    <3> DEFINE date == [n \in 0 .. 0 |-> First]
               dates == [n \in 0 .. 0 |-> IF n <= 1 THEN First ELSE NextWorkingDay(date[n - 1] + 1, calendar)]
    <3>1. \A n \in 0 .. 0 : n <= 1
      OBVIOUS
    <3>2. date = dates
      <4> HIDE DEF First
      <4>1. \A n \in 0 .. 0 : (IF n <= 1 THEN First ELSE NextWorkingDay(date[n - 1] + 1, calendar)) = First
        BY <3>1
      <4>2. QED  BY <4>1
    <3>3. QED  BY <3>2 DEF IsDates
  <2>2. QED  BY <2>1
<1>4. PICK before : IsDates(before, from, m - 1, calendar)
  <2>1. m - 1 \in Nat /\ ~(m <= m - 1)
    BY <1>3
  <2>2. QED  BY <1>2, <2>1
<1> DEFINE last == IF m <= 1 THEN First ELSE NextWorkingDay(before[m - 1] + 1, calendar)
           date == [n \in 0 .. m |-> IF n = m THEN last ELSE before[n]]
           step(n) == IF n <= 1 THEN First ELSE NextWorkingDay(date[n - 1] + 1, calendar)
<1>5. ASSUME NEW n \in 0 .. m PROVE date[n] = step(n)
  <2>1. n \in Int /\ 0 <= n /\ n <= m /\ m \in Nat
    BY <1>3, <1>5
  <2>2. n > 1 => n - 1 \in 0 .. m /\ n - 1 # m
    BY <2>1
  <2>3. n > 1 => date[n - 1] = before[n - 1]
    BY <2>2
  <2>4. CASE n = m
    <3>1. date[n] = last
      BY <2>4
    <3>2. m > 1 => date[m - 1] = before[m - 1]
      BY <2>3, <2>4
    <3> HIDE DEF date, First
    <3>3. CASE m <= 1
      BY <2>4, <3>1, <3>3
    <3>4. CASE ~(m <= 1)
      <4>1. m > 1
        BY <1>3, <3>4
      <4>2. QED  BY <2>4, <3>1, <3>2, <3>4, <4>1
    <3>5. QED  BY <3>3, <3>4
  <2>5. CASE n # m
    <3>1. n \in 0 .. m - 1 /\ date[n] = before[n]
      BY <2>1, <2>5
    <3>2. before[n] = IF n <= 1 THEN First ELSE NextWorkingDay(before[n - 1] + 1, calendar)
      <4> HIDE DEF First
      <4>1. before = [k \in 0 .. m - 1 |-> IF k <= 1 THEN First ELSE NextWorkingDay(before[k - 1] + 1, calendar)]
        BY <1>4 DEF IsDates, First
      <4>2. QED  BY <3>1, <4>1
    <3> HIDE DEF date, First
    <3>3. CASE n <= 1
      BY <3>1, <3>2, <3>3
    <3>4. CASE ~(n <= 1)
      <4>1. n > 1
        BY <2>1, <3>4
      <4>2. QED  BY <2>3, <3>1, <3>2, <3>4, <4>1
    <3>5. QED  BY <3>3, <3>4
  <2>6. QED  BY <2>4, <2>5
<1>6. date = [n \in 0 .. m |-> step(n)]
  <2>1. date = [n \in 0 .. m |-> date[n]]
    OBVIOUS
  <2> HIDE DEF date, First
  <2>2. QED  BY <1>5, <2>1
<1>7. IsDates(date, from, m, calendar)
  <2> HIDE DEF date
  <2>1. QED  BY <1>6 DEF IsDates
<1>8. QED  BY <1>2, <1>7

\* addWorkingDays is the last of them.
LEMMA AddFacts ==
    ASSUME NEW from, NEW calendar, NEW count \in Nat \ {0}
    PROVE  \E date : /\ AddWorkingDays(from, count, calendar) = date[count]
                     /\ date[1] = NextWorkingDay(from, calendar)
                     /\ \A n \in 2 .. count : date[n] = NextWorkingDay(date[n - 1] + 1, calendar)
<1> DEFINE date == CHOOSE date : IsDates(date, from, count, calendar)
<1>1. IsDates(date, from, count, calendar)
  BY DatesExist
<1>2. AddWorkingDays(from, count, calendar) = date[count]
  BY DEF AddWorkingDays, IsDates
<1> HIDE DEF date
<1>3. 1 \in 0 .. count /\ \A n \in 2 .. count : n \in 0 .. count /\ ~(n <= 1)
  OBVIOUS
<1>4. date[1] = NextWorkingDay(from, calendar)
  BY <1>1, <1>3 DEF IsDates
<1>5. \A n \in 2 .. count : date[n] = NextWorkingDay(date[n - 1] + 1, calendar)
  BY <1>1, <1>3 DEF IsDates
<1>6. QED  BY <1>2, <1>4, <1>5

\* The days worked from one day to another.
Worked(from, to, calendar) == {d \in from .. to : IsWorkingDay(d, calendar)}

LEMMA WorkedFacts ==
    ASSUME NEW from \in Int, NEW to \in Int, NEW calendar
    PROVE  /\ IsFiniteSet(Worked(from, to, calendar))
           /\ Cardinality(Worked(from, to, calendar)) \in Nat
<1>1. Worked(from, to, calendar) \in SUBSET (from .. to)
  BY DEF Worked
<1>2. IsFiniteSet(from .. to)
  BY FS_Interval
<1>3. IsFiniteSet(Worked(from, to, calendar))
  BY <1>1, <1>2, FS_Subset
<1>4. QED  BY <1>3, FS_CardinalityType
\* Days that are not worked add nothing, and the next working day adds one.
LEMMA WorkedSame ==
    ASSUME NEW from \in Int, NEW before \in Int, NEW to \in Int, NEW calendar, before <= to,
           \A d \in Int : before < d /\ d <= to => ~IsWorkingDay(d, calendar)
    PROVE  Worked(from, to, calendar) = Worked(from, before, calendar)
<1>1. ASSUME NEW d \in from .. to, IsWorkingDay(d, calendar) PROVE d \in from .. before
  <2>1. d \in Int /\ from <= d /\ d <= to
    OBVIOUS
  <2>2. ~(before < d)
    BY <1>1, <2>1
  <2>3. QED  BY <2>1, <2>2
<1>2. \A d \in from .. before : d \in from .. to
  OBVIOUS
<1>3. QED  BY <1>1, <1>2 DEF Worked

LEMMA WorkedNext ==
    ASSUME NEW from \in Int, NEW before \in Int, NEW next \in Int, NEW calendar,
           before < next, from - 1 <= before, IsWorkingDay(next, calendar),
           \A d \in Int : before < d /\ d < next => ~IsWorkingDay(d, calendar)
    PROVE  Cardinality(Worked(from, next, calendar)) = Cardinality(Worked(from, before, calendar)) + 1
<1>1. next \in Worked(from, next, calendar) /\ next \notin Worked(from, before, calendar)
  BY DEF Worked
<1>2. Worked(from, next - 1, calendar) = Worked(from, before, calendar)
  <2>1. before <= next - 1 /\ next - 1 \in Int
    OBVIOUS
  <2>2. \A d \in Int : before < d /\ d <= next - 1 => ~IsWorkingDay(d, calendar)
    OBVIOUS
  <2>3. QED  BY <2>1, <2>2, WorkedSame
<1>3. from .. next = (from .. (next - 1)) \cup {next}
  OBVIOUS
<1>4. Worked(from, next, calendar) = Worked(from, next - 1, calendar) \cup {next}
  BY <1>3 DEF Worked
<1>5. next \notin Worked(from, next - 1, calendar)
  BY <1>1, <1>2
<1>6. IsFiniteSet(Worked(from, next - 1, calendar))
  BY WorkedFacts
<1>7. Cardinality(Worked(from, next, calendar)) = Cardinality(Worked(from, next - 1, calendar)) + 1
  BY <1>4, <1>5, <1>6, FS_AddElement
<1>8. QED  BY <1>2, <1>7

\* Up to the deadline the n-th date ends n worked days; the first date past it comes after fewer.
LEMMA DatesCount ==
    ASSUME NEW start \in Int, NEW deadline \in Int, deadline < start + MaxScheduleDays,
           NEW calendar, NEW total \in Nat \ {0}, NEW date,
           date[1] = NextWorkingDay(NextWorkingDay(start, calendar), calendar),
           \A n \in 2 .. total : date[n] = NextWorkingDay(date[n - 1] + 1, calendar)
    PROVE  \A n \in 1 .. total :
              /\ date[n] \in Int /\ start <= date[n]
              /\ IF date[n] <= deadline THEN Cardinality(Worked(start, date[n], calendar)) = n
                 ELSE Cardinality(Worked(start, deadline, calendar)) < n
<1> DEFINE Counted(n) ==
              /\ date[n] \in Int /\ start <= date[n]
              /\ IF date[n] <= deadline THEN Cardinality(Worked(start, date[n], calendar)) = n
                 ELSE Cardinality(Worked(start, deadline, calendar)) < n
           Bad == {n \in 1 .. total : ~Counted(n)}
<1>1. MaxScheduleDays \in Nat \ {0}
  BY ScheduleAssumption
<1>2. Counted(1)
  <2> DEFINE first == NextWorkingDay(start, calendar)
  <2>1. /\ first \in Int /\ start <= first /\ first <= start + MaxScheduleDays
        /\ \A d \in Int : start <= d /\ d < first => ~IsWorkingDay(d, calendar)
        /\ first < start + MaxScheduleDays => IsWorkingDay(first, calendar)
    BY NextFacts
  <2>2. /\ date[1] \in Int /\ first <= date[1]
        /\ \A d \in Int : first <= d /\ d < date[1] => ~IsWorkingDay(d, calendar)
    <3>1. date[1] = NextWorkingDay(first, calendar)
      OBVIOUS
    <3> HIDE DEF first
    <3>2. QED  BY <2>1, <3>1, NextFacts
  <2> HIDE DEF first
  <2>3. Worked(start, start - 1, calendar) = {} /\ Cardinality(Worked(start, start - 1, calendar)) = 0
    <3>1. Worked(start, start - 1, calendar) = {}
      <4>1. start .. (start - 1) = {}
        OBVIOUS
      <4>2. QED  BY <4>1 DEF Worked
    <3>2. QED  BY <3>1, FS_EmptySet
  <2>4. \A d \in Int : start - 1 < d /\ d < first => ~IsWorkingDay(d, calendar)
    <3>1. \A d \in Int : start - 1 < d => start <= d
      OBVIOUS
    <3>2. QED  BY <2>1, <3>1
  <2>5. CASE first <= deadline
    <3>1. IsWorkingDay(first, calendar)
      BY <1>1, <2>1, <2>5
    <3>2. ~(first < date[1])
      BY <2>1, <2>2, <3>1
    <3>3. date[1] = first
      BY <2>1, <2>2, <3>2
    <3>4. Cardinality(Worked(start, first, calendar)) = 0 + 1
      BY <2>1, <2>3, <2>4, <3>1, WorkedNext
    <3>5. QED  BY <2>1, <2>5, <3>3, <3>4
  <2>6. CASE ~(first <= deadline)
    <3>1. ~(date[1] <= deadline) /\ start <= date[1]
      BY <2>1, <2>2, <2>6
    <3>2. Worked(start, deadline, calendar) = {}
      <4>1. \A d \in start .. deadline : d \in Int /\ start <= d /\ d < first
        BY <2>1, <2>6
      <4>2. QED  BY <2>1, <4>1 DEF Worked
    <3>3. Cardinality(Worked(start, deadline, calendar)) = 0
      BY <3>2, FS_EmptySet
    <3>4. QED  BY <2>2, <3>1, <3>3
  <2>7. QED  BY <2>5, <2>6
<1>3. ASSUME NEW n \in 2 .. total, Counted(n - 1) PROVE Counted(n)
  <2> DEFINE before == date[n - 1]
             next == date[n]
  <2>1. n \in Int /\ 2 <= n /\ n - 1 \in Int
    BY <1>3
  <2>2. before \in Int /\ start <= before
    BY <1>3
  <2>3. next = NextWorkingDay(before + 1, calendar)
    BY <1>3
  <2> HIDE DEF before, next
  <2>4. /\ next \in Int /\ before + 1 <= next
        /\ \A d \in Int : before + 1 <= d /\ d < next => ~IsWorkingDay(d, calendar)
        /\ next < before + 1 + MaxScheduleDays => IsWorkingDay(next, calendar)
    BY <2>2, <2>3, NextFacts
  <2>5. before < next /\ \A d \in Int : before < d /\ d < next => ~IsWorkingDay(d, calendar)
    <3>1. \A d \in Int : before < d => before + 1 <= d
      BY <2>2
    <3>2. QED  BY <2>2, <2>4, <3>1
  <2>6. CASE before <= deadline
    <3>1. Cardinality(Worked(start, before, calendar)) = n - 1
      BY <1>3, <2>6 DEF before
    <3>2. CASE next <= deadline
      <4>1. IsWorkingDay(next, calendar)
        BY <1>1, <2>2, <2>4, <3>2
      <4>2. Cardinality(Worked(start, next, calendar)) = (n - 1) + 1
        BY <2>2, <2>4, <2>5, <3>1, <4>1, WorkedNext
      <4>3. Cardinality(Worked(start, next, calendar)) = n
        BY <2>1, <4>2
      <4>4. start <= next
        BY <2>2, <2>4
      <4>5. QED  BY <2>4, <3>2, <4>3, <4>4 DEF next
    <3>3. CASE ~(next <= deadline)
      <4>1. Worked(start, deadline, calendar) = Worked(start, before, calendar)
        <5>1. \A d \in Int : before < d /\ d <= deadline => ~IsWorkingDay(d, calendar)
          BY <2>4, <2>5, <3>3
        <5>2. QED  BY <2>2, <2>6, <5>1, WorkedSame
      <4>2. Cardinality(Worked(start, deadline, calendar)) < n
        BY <2>1, <3>1, <4>1
      <4>3. start <= next
        BY <2>2, <2>4
      <4>4. QED  BY <2>4, <3>3, <4>2, <4>3 DEF next
    <3>4. QED  BY <3>2, <3>3
  <2>7. CASE ~(before <= deadline)
    <3>1. Cardinality(Worked(start, deadline, calendar)) < n - 1
      BY <1>3, <2>7 DEF before
    <3>2. Cardinality(Worked(start, deadline, calendar)) \in Nat
      BY WorkedFacts
    <3>3. Cardinality(Worked(start, deadline, calendar)) < n
      BY <2>1, <3>1, <3>2
    <3>4. start <= next /\ ~(next <= deadline)
      BY <2>2, <2>4, <2>7
    <3>5. QED  BY <2>4, <3>3, <3>4 DEF next
  <2>8. QED  BY <2>6, <2>7
<1> HIDE DEF Counted
<1>4. Bad = {}
  <2> SUFFICES ASSUME Bad # {} PROVE FALSE
    OBVIOUS
  <2>1. Bad \subseteq Nat
    OBVIOUS
  <2>2. PICK n \in Bad : \A k \in Bad : n <= k
    <3> HIDE DEF Bad
    <3>1. QED  BY <2>1, Smallest
  <2>3. n \in 1 .. total /\ ~Counted(n) /\ n # 1
    BY <1>2
  <2>4. n \in 2 .. total /\ n - 1 \in 1 .. total /\ ~(n <= n - 1)
    BY <2>3
  <2>5. Counted(n - 1)
    BY <2>2, <2>4
  <2>6. QED  BY <1>3, <2>3, <2>4, <2>5
<1>5. \A n \in 1 .. total : Counted(n)
  BY <1>4
<1>6. QED  BY <1>5 DEF Counted

\* Whatever the weekdays worked and the holidays, a plan needs no more working days than there are
\* up to a deadline exactly when the date it finishes on is not past the deadline, as long as the
\* deadline is within the dates a count looks at. (workingDaysBetween skips and counts in one loop;
\* addWorkingDays goes from one working day to the next in another)
THEOREM DeadlineMeasuresAgree ==
    ASSUME NEW start \in Nat, NEW deadline \in Nat, deadline < start + MaxScheduleDays,
           NEW calendar, NEW total \in Nat \ {0}
    PROVE  LET first == NextWorkingDay(start, calendar)
               finish == AddWorkingDays(first, total, calendar)
               available == TimelineWorkingDays([mode |-> "FIXED_DEADLINE", amount |-> deadline],
                                                calendar, start)
           IN  total <= available <=> finish <= deadline
<1> DEFINE first == NextWorkingDay(start, calendar)
           finish == AddWorkingDays(first, total, calendar)
           available == TimelineWorkingDays([mode |-> "FIXED_DEADLINE", amount |-> deadline],
                                            calendar, start)
<1> SUFFICES total <= available <=> finish <= deadline
  OBVIOUS
<1>1. PICK date : /\ finish = date[total] /\ date[1] = NextWorkingDay(first, calendar)
                  /\ \A n \in 2 .. total : date[n] = NextWorkingDay(date[n - 1] + 1, calendar)
  <2> HIDE DEF first
  <2>1. QED  BY AddFacts
<1>2. available = Cardinality(Worked(start, deadline, calendar))
  <2>1. available = WorkingDaysBetween(start, deadline, calendar)
    BY DEF TimelineWorkingDays, Unmeasurable
  <2>2. ScheduleAssumption /\ \A d \in start .. deadline : d < start + MaxScheduleDays
    BY ScheduleAssumption
  <2>3. {d \in start .. deadline : d < start + MaxScheduleDays /\ IsWorkingDay(d, calendar)}
           = Worked(start, deadline, calendar)
    BY <2>2 DEF Worked
  <2>4. QED  BY <2>1, <2>3 DEF WorkingDaysBetween
<1>3. /\ finish \in Int /\ start <= finish
      /\ IF finish <= deadline THEN Cardinality(Worked(start, finish, calendar)) = total
         ELSE Cardinality(Worked(start, deadline, calendar)) < total
  <2>1. total \in 1 .. total /\ start \in Int /\ deadline \in Int
    OBVIOUS
  <2>2. date[1] = NextWorkingDay(NextWorkingDay(start, calendar), calendar)
    BY <1>1
  <2> HIDE DEF finish, first
  <2>3. QED  BY <1>1, <2>1, <2>2, DatesCount
<1> HIDE DEF first, finish, available
<1>4. available \in Nat
  BY <1>2, WorkedFacts
<1>5. CASE finish <= deadline
  <2>1. start .. finish \in SUBSET (start .. deadline)
    BY <1>3, <1>5
  <2>2. Worked(start, finish, calendar) \in SUBSET Worked(start, deadline, calendar)
    BY <2>1 DEF Worked
  <2>3. Cardinality(Worked(start, finish, calendar)) <= Cardinality(Worked(start, deadline, calendar))
    BY <2>2, WorkedFacts, FS_Subset
  <2>4. QED  BY <1>2, <1>3, <1>5, <2>3
<1>6. CASE ~(finish <= deadline)
  BY <1>2, <1>3, <1>4, <1>6
<1>7. QED  BY <1>5, <1>6
-----------------------------------------------------------------------------
(* Divisions that round down, and to the nearest *)

LEMMA Products ==
    ASSUME NEW a \in Int, NEW b \in Int, a <= b, NEW c \in Nat
    PROVE  /\ a * c \in Int /\ b * c \in Int /\ a * c <= b * c
           /\ c * a \in Int /\ c * b \in Int /\ c * a <= c * b
  OBVIOUS

LEMMA Quotient ==
    ASSUME NEW n \in Int, NEW d \in Nat \ {0}
    PROVE  /\ n \div d \in Int /\ d * (n \div d) \in Int
           /\ d * (n \div d) <= n /\ n < d * (n \div d) + d
  OBVIOUS

\* A quotient is at least q exactly when the dividend holds q divisors.
LEMMA QuotientReaches ==
    ASSUME NEW n \in Int, NEW d \in Nat \ {0}, NEW q \in Int
    PROVE  q <= n \div d <=> d * q <= n
<1> DEFINE k == n \div d
<1>1. /\ k \in Int /\ d * k \in Int /\ d * k <= n /\ n < d * k + d
  BY Quotient
<1> HIDE DEF k
<1>2. ASSUME q <= k PROVE d * q <= n
  BY <1>1, <1>2, Products
<1>3. ASSUME d * q <= n PROVE q <= k
  <2>1. SUFFICES ASSUME k + 1 <= q PROVE FALSE
    BY <1>1
  <2>2. d * (k + 1) <= d * q
    BY <1>1, <2>1, Products
  <2>3. d * (k + 1) = d * k + d
    BY <1>1
  <2>4. d * q \in Int
    OBVIOUS
  <2>5. QED  BY <1>1, <1>3, <2>2, <2>3, <2>4
<1>4. QED  BY <1>2, <1>3 DEF k

LEMMA Larger ==
    ASSUME NEW a \in Int, NEW b \in Int
    PROVE  /\ Max({a, b}) \in Int /\ a <= Max({a, b}) /\ b <= Max({a, b})
           /\ Max({a, b}) \in {a, b}
<1>1. \E x \in {a, b} : \A y \in {a, b} : x >= y
  <2>1. CASE a <= b
    BY <2>1
  <2>2. CASE b <= a
    BY <2>2
  <2>3. QED  BY <2>1, <2>2
<1>2. Max({a, b}) \in {a, b} /\ \A y \in {a, b} : Max({a, b}) >= y
  BY <1>1 DEF Max
<1>3. QED  BY <1>2

LEMMA Smaller ==
    ASSUME NEW a \in Int, NEW b \in Int
    PROVE  /\ Min({a, b}) \in Int /\ Min({a, b}) <= a /\ Min({a, b}) <= b
           /\ Min({a, b}) \in {a, b}
<1>1. \E x \in {a, b} : \A y \in {a, b} : x <= y
  <2>1. CASE a <= b
    BY <2>1
  <2>2. CASE b <= a
    BY <2>2
  <2>3. QED  BY <2>1, <2>2
<1>2. Min({a, b}) \in {a, b} /\ \A y \in {a, b} : Min({a, b}) <= y
  BY <1>1 DEF Min
<1>3. QED  BY <1>2

\* Rounding to the nearest reaches q no later than the division does.
LEMMA NearestReaches ==
    ASSUME NEW n \in Int, NEW d \in Nat \ {0}, NEW q \in Int
    PROVE  /\ Nearest(n, d) \in Int
           /\ q <= Nearest(n, d) <=> 2 * (d * q) <= 2 * n + d
<1> DEFINE m == 2 * n + d
           e == 2 * d
<1>1. m \in Int /\ e \in Nat \ {0} /\ Nearest(n, d) = m \div e
  BY DEF Nearest
<1>2. e * q = 2 * (d * q)
  OBVIOUS
<1> HIDE DEF m, e
<1>3. m \div e \in Int /\ (q <= m \div e <=> e * q <= m)
  BY <1>1, Quotient, QuotientReaches
<1>4. QED  BY <1>1, <1>2, <1>3 DEF m
-----------------------------------------------------------------------------
(* Staffing *)

\* A line of the team the application recommends for some hours.
RecommendedLine(hours, hoursPerDay, days) ==
    [people |-> PeopleForHours(hours, hoursPerDay, days), hoursPerDay |-> hoursPerDay,
     availability |-> 100, availableFromDay |-> 0]

\* The people recommended for some hours can do them in the days they were worked out for: what
\* lineCapacityHours then gives, rounded, leaves no gap. And there is always somebody for work that
\* exists. (peopleForHours rounds up, at hundredths of a person)
THEOREM StaffingSuffices ==
    ASSUME NEW hours \in Nat \ {0}, NEW hoursPerDay \in Nat \ {0}, NEW days \in Nat \ {0}
    PROVE  LET line == RecommendedLine(hours, hoursPerDay, days)
           IN  line.people > 0 /\ Gap(hours, LineCapacityHours(line, days)) = 0
<1> DEFINE whole == hoursPerDay * days
           people == PeopleForHours(hours, hoursPerDay, days)
           needed == 100 * hours + whole - 1
           capacity == LineCapacityHours(RecommendedLine(hours, hoursPerDay, days), days)
<1>1. whole \in Nat \ {0}
  BY Products
<1>2. people = Max({1, needed \div whole})
  BY DEF PeopleForHours
<1>3. capacity = Nearest(people * hoursPerDay * 100 * Max({0, days}), 10000)
  BY DEF LineCapacityHours, RecommendedLine
<1>4. Max({0, days}) = days
  <2>1. 0 \in Int /\ days \in Int
    OBVIOUS
  <2>2. days <= Max({0, days}) /\ Max({0, days}) \in {0, days}
    BY <2>1, Larger
  <2>3. QED  BY <2>2
<1> HIDE DEF people, capacity
<1>5. /\ needed \in Int /\ needed \div whole \in Int /\ whole * (needed \div whole) \in Int
      /\ needed < whole * (needed \div whole) + whole
  <2>1. needed \in Int
    BY <1>1
  <2> HIDE DEF needed, whole
  <2>2. QED  BY <1>1, <2>1, Quotient
<1>6. people \in Int /\ 1 <= people /\ needed \div whole <= people
  <2> HIDE DEF needed, whole
  <2> DEFINE rounded == needed \div whole
  <2>1. 1 \in Int /\ rounded \in Int
    BY <1>5
  <2> HIDE DEF rounded
  <2>2. Max({1, rounded}) \in Int /\ 1 <= Max({1, rounded}) /\ rounded <= Max({1, rounded})
    BY <2>1, Larger
  <2>3. QED  BY <1>2, <2>2 DEF rounded
<1>7. 100 * hours <= whole * people
  <2>1. whole * (needed \div whole) <= whole * people /\ whole * people \in Int
    <3> HIDE DEF needed, whole
    <3>1. QED  BY <1>1, <1>5, <1>6, Products
  <2>2. 100 * hours <= whole * (needed \div whole)
    <3> HIDE DEF whole
    <3>1. QED  BY <1>1, <1>5
  <2> HIDE DEF needed, whole
  <2>3. QED  BY <1>5, <2>1, <2>2
<1>8. people * hoursPerDay * 100 * days = 100 * (whole * people)
  BY <1>6
<1>9. capacity \in Int /\ hours <= capacity
  <2> HIDE DEF whole
  <2>1. whole * people \in Int
    BY <1>1, <1>6
  <2>2. 2 * (10000 * hours) <= 2 * (100 * (whole * people)) + 10000
    BY <1>7, <2>1
  <2>3. capacity = Nearest(100 * (whole * people), 10000) /\ 100 * (whole * people) \in Int
    BY <1>3, <1>4, <1>8, <2>1
  <2>4. QED  BY <2>2, <2>3, NearestReaches
<1>10. Gap(hours, capacity) = 0
  <2>1. 0 \in Int /\ hours - capacity \in Int /\ hours - capacity <= 0
    BY <1>9
  <2>2. 0 <= Max({0, hours - capacity}) /\ Max({0, hours - capacity}) \in {0, hours - capacity}
    BY <2>1, Larger
  <2>3. QED  BY <2>1, <2>2 DEF Gap
<1>11. QED  BY <1>6, <1>10 DEF people, capacity, RecommendedLine
-----------------------------------------------------------------------------
(* Sums over finite sets, as MapThenSumSet works them out: one element after another *)

Picked(s) == CHOOSE x \in s : TRUE
IsSum(sum, g, S) ==
    sum = [s \in SUBSET S |-> IF s = {} THEN 0 ELSE g[Picked(s)] + sum[s \ {Picked(s)}]]

LEMMA Fewer ==
    ASSUME NEW s, IsFiniteSet(s), s # {}
    PROVE  /\ Picked(s) \in s /\ IsFiniteSet(s \ {Picked(s)})
           /\ Cardinality(s) \in Nat /\ Cardinality(s \ {Picked(s)}) \in Nat
           /\ Cardinality(s \ {Picked(s)}) < Cardinality(s)
<1>1. Picked(s) \in s
  BY DEF Picked
<1> DEFINE x == Picked(s)
<1> HIDE DEF x
<1>2. x \in s
  BY <1>1 DEF x
<1>3. IsFiniteSet(s \ {x}) /\ Cardinality(s \ {x}) = Cardinality(s) - 1
  BY <1>2, FS_RemoveElement
<1>4. Cardinality(s) \in Nat /\ Cardinality(s \ {x}) \in Nat
  BY <1>3, FS_CardinalityType
<1>5. QED  BY <1>2, <1>3, <1>4 DEF x

LEMMA SumExists ==
    ASSUME NEW S, IsFiniteSet(S), NEW g
    PROVE  \E sum : IsSum(sum, g, S)
<1> DEFINE Small(n) == {s \in SUBSET S : Cardinality(s) <= n}
           Upto(sum, n) ==
               sum = [s \in Small(n) |-> IF s = {} THEN 0 ELSE g[Picked(s)] + sum[s \ {Picked(s)}]]
           Missing == {n \in Nat : ~\E sum : Upto(sum, n)}
<1>1. \A s \in SUBSET S : IsFiniteSet(s) /\ Cardinality(s) \in Nat /\ Cardinality(s) <= Cardinality(S)
  BY FS_Subset, FS_CardinalityType
<1>2. Missing = {}
  <2> SUFFICES ASSUME Missing # {} PROVE FALSE
    OBVIOUS
  <2>1. PICK n \in Missing : \A m \in Missing : n <= m
    <3>1. Missing \subseteq Nat
      OBVIOUS
    <3> HIDE DEF Missing
    <3>2. QED  BY <3>1, Smallest
  <2>2. n \in Nat /\ ~\E sum : Upto(sum, n)
    BY <2>1
  <2>3. n # 0
    <3> DEFINE sum == [s \in Small(0) |-> 0]
               sums == [s \in Small(0) |-> IF s = {} THEN 0 ELSE g[Picked(s)] + sum[s \ {Picked(s)}]]
    <3>1. \A s \in Small(0) : s = {}
      <4>1. TAKE s \in Small(0)
      <4>2. IsFiniteSet(s) /\ Cardinality(s) = 0
        BY <1>1
      <4>3. QED  BY <4>2, FS_EmptySet
    <3>2. sum = sums
      <4> HIDE DEF Small
      <4>1. QED  BY <3>1
    <3>3. Upto(sum, 0)
      BY <3>2
    <3>4. QED  BY <2>2, <3>3
  <2>4. PICK before : Upto(before, n - 1)
    <3>1. n - 1 \in Nat /\ ~(n <= n - 1)
      BY <2>2, <2>3
    <3>2. QED  BY <2>1, <3>1
  <2> DEFINE sum == [s \in Small(n) |-> IF s = {} THEN 0 ELSE g[Picked(s)] + before[s \ {Picked(s)}]]
             sums == [s \in Small(n) |-> IF s = {} THEN 0 ELSE g[Picked(s)] + sum[s \ {Picked(s)}]]
  <2>5. ASSUME NEW s \in Small(n - 1) PROVE s \in Small(n) /\ sum[s] = before[s]
    <3>1. s \in Small(n)
      BY <1>1, <2>2
    <3>2. before[s] = IF s = {} THEN 0 ELSE g[Picked(s)] + before[s \ {Picked(s)}]
      <4> HIDE DEF Small
      <4>1. QED  BY <2>4
    <3>3. sum[s] = IF s = {} THEN 0 ELSE g[Picked(s)] + before[s \ {Picked(s)}]
      <4> HIDE DEF Small
      <4>1. QED  BY <3>1
    <3> HIDE DEF sum
    <3>4. QED  BY <3>1, <3>2, <3>3
  <2>6. ASSUME NEW s \in Small(n), s # {} PROVE s \ {Picked(s)} \in Small(n - 1)
    <3>1. IsFiniteSet(s) /\ Cardinality(s) \in Nat /\ Cardinality(s) <= n /\ s \ {Picked(s)} \in SUBSET S
      BY <1>1
    <3>2. /\ Cardinality(s \ {Picked(s)}) \in Nat
          /\ Cardinality(s \ {Picked(s)}) < Cardinality(s)
      BY <2>6, <3>1, Fewer
    <3>3. Cardinality(s \ {Picked(s)}) <= n - 1
      BY <2>2, <3>1, <3>2
    <3>4. QED  BY <3>1, <3>3
  <2>7. ASSUME NEW s \in Small(n), s # {}
        PROVE  sum[s \ {Picked(s)}] = before[s \ {Picked(s)}]
    <3> HIDE DEF sum, Small
    <3>1. QED  BY <2>5, <2>6, <2>7
  <2>8. sum = sums
    <3>1. \A s \in Small(n) :
             (IF s = {} THEN 0 ELSE g[Picked(s)] + before[s \ {Picked(s)}])
                = (IF s = {} THEN 0 ELSE g[Picked(s)] + sum[s \ {Picked(s)}])
      <4> HIDE DEF sum, Small
      <4>1. QED  BY <2>7
    <3> HIDE DEF Small
    <3>2. QED  BY <3>1
  <2>9. Upto(sum, n)
    BY <2>8
  <2>10. QED  BY <2>2, <2>9
<1>3. PICK sum : Upto(sum, Cardinality(S))
  <2>1. Cardinality(S) \in Nat
    BY FS_CardinalityType
  <2>2. QED  BY <1>2, <2>1
<1>4. Small(Cardinality(S)) = SUBSET S
  BY <1>1
<1>5. QED  BY <1>3, <1>4 DEF IsSum

\* A sum of integers is one, of naturals too, and does not shrink when what is added grows.
LEMMA SumsCompare ==
    ASSUME NEW S, IsFiniteSet(S), NEW g \in [S -> Int], NEW h \in [S -> Int],
           \A x \in S : g[x] <= h[x], NEW low, IsSum(low, g, S), NEW high, IsSum(high, h, S)
    PROVE  /\ low[S] \in Int /\ high[S] \in Int /\ low[S] <= high[S]
           /\ (\A x \in S : 0 <= g[x]) => 0 <= low[S]
<1> DEFINE Good(s) == /\ low[s] \in Int /\ high[s] \in Int /\ low[s] <= high[s]
                      /\ (\A x \in S : 0 <= g[x]) => 0 <= low[s]
           Bad == {n \in Nat : \E s \in SUBSET S : Cardinality(s) = n /\ ~Good(s)}
<1>1. \A s \in SUBSET S : IsFiniteSet(s) /\ Cardinality(s) \in Nat
  BY FS_Subset, FS_CardinalityType
<1>2. \A s \in SUBSET S :
         /\ low[s] = IF s = {} THEN 0 ELSE g[Picked(s)] + low[s \ {Picked(s)}]
         /\ high[s] = IF s = {} THEN 0 ELSE h[Picked(s)] + high[s \ {Picked(s)}]
  BY DEF IsSum
<1>3. ASSUME NEW s \in SUBSET S, s # {} => Good(s \ {Picked(s)}) PROVE Good(s)
  <2>1. CASE s = {}
    BY <1>2, <2>1
  <2>2. CASE s # {}
    <3>1. Picked(s) \in S
      BY <1>1, <2>2, Fewer
    <3>2. g[Picked(s)] \in Int /\ h[Picked(s)] \in Int /\ g[Picked(s)] <= h[Picked(s)]
      BY <3>1
    <3>3. low[s] = g[Picked(s)] + low[s \ {Picked(s)}] /\ high[s] = h[Picked(s)] + high[s \ {Picked(s)}]
      BY <1>2, <2>2
    <3>4. QED  BY <1>3, <2>2, <3>1, <3>2, <3>3
  <2>3. QED  BY <2>1, <2>2
<1> HIDE DEF Good
<1>4. Bad = {}
  <2> SUFFICES ASSUME Bad # {} PROVE FALSE
    OBVIOUS
  <2>1. PICK n \in Bad : \A m \in Bad : n <= m
    <3>1. Bad \subseteq Nat
      OBVIOUS
    <3> HIDE DEF Bad
    <3>2. QED  BY <3>1, Smallest
  <2>2. PICK s \in SUBSET S : Cardinality(s) = n /\ ~Good(s)
    BY <2>1
  <2>3. s # {} /\ ~Good(s \ {Picked(s)})
    BY <1>3, <2>2
  <2>4. s \ {Picked(s)} \in SUBSET S
    OBVIOUS
  <2>5. Cardinality(s \ {Picked(s)}) \in Nat /\ Cardinality(s \ {Picked(s)}) < Cardinality(s)
    BY <1>1, <2>3, Fewer
  <2>6. Cardinality(s \ {Picked(s)}) \in Bad
    BY <2>3, <2>4, <2>5
  <2>7. QED
    <3> HIDE DEF Bad
    <3>1. n \in Nat /\ n <= Cardinality(s \ {Picked(s)})
      BY <2>1, <2>2, <2>6, <1>1
    <3>2. QED  BY <2>2, <2>5, <3>1
<1>5. Good(S)
  <2>1. S \in SUBSET S /\ Cardinality(S) \in Nat
    BY <1>1
  <2>2. QED  BY <1>4, <2>1
<1>6. QED  BY <1>5 DEF Good
-----------------------------------------------------------------------------
(* The verdict *)

LEMMA Ranked ==
    /\ RankOf("NOT_FEASIBLE_WITH_CURRENT_CAPACITY") = 1 /\ RankOf("HIGH_RISK") = 2
    /\ RankOf("AGGRESSIVE") = 3 /\ RankOf("FEASIBLE") = 4 /\ RankOf("COMFORTABLE") = 5
<1>1. /\ DOMAIN Verdicts5 = 1 .. 5
      /\ Verdicts5[1] = "NOT_FEASIBLE_WITH_CURRENT_CAPACITY" /\ Verdicts5[2] = "HIGH_RISK"
      /\ Verdicts5[3] = "AGGRESSIVE" /\ Verdicts5[4] = "FEASIBLE" /\ Verdicts5[5] = "COMFORTABLE"
  BY DEF Verdicts5
<1>2. \A i \in DOMAIN Verdicts5 : i = 1 \/ i = 2 \/ i = 3 \/ i = 4 \/ i = 5
  BY <1>1
<1>3. ASSUME NEW n \in DOMAIN Verdicts5 PROVE RankOf(Verdicts5[n]) = n
  <2>1. \A i \in DOMAIN Verdicts5 : Verdicts5[i] = Verdicts5[n] => i = n
    BY <1>1, <1>2
  <2>2. QED  BY <2>1 DEF RankOf
<1>4. QED  BY <1>1, <1>3

\* What is left of the time is no smaller a part of more time.
LEMMA HeadroomGrows ==
    ASSUME NEW required \in Nat, NEW days \in Nat \ {0}, NEW later \in Nat,
           required <= days, days <= later, NEW share \in Int, share <= 100,
           share <= (100 * (days - required)) \div days
    PROVE  share <= (100 * (later - required)) \div later
<1>1. days * share <= 100 * (days - required)
  BY QuotientReaches
<1>2. days * (100 - share) <= later * (100 - share)
  BY Products
<1>3. /\ days * (100 - share) = 100 * days - days * share
      /\ later * (100 - share) = 100 * later - later * share
      /\ days * share \in Int /\ later * share \in Int
  OBVIOUS
<1>4. later * share <= 100 * (later - required)
  BY <1>1, <1>2, <1>3
<1>5. QED  BY <1>4, QuotientReaches

\* With no fewer days, no larger gap and no role overloaded that was not, no verdict is worse.
LEMMA VerdictGrows ==
    ASSUME NEW required \in Nat, NEW days \in Nat, NEW later \in Nat, days <= later,
           NEW now, ~now.capacityUnknown, now.totalGap \in Nat,
           NEW then, ~then.capacityUnknown, then.totalGap \in Nat,
           then.totalGap <= now.totalGap, then.overloaded \subseteq now.overloaded
    PROVE  RankOf(AssessFeasibility(required, days, now)) <= RankOf(AssessFeasibility(required, later, then))
<1> DEFINE head == IF days = 0 THEN 0 ELSE (100 * (days - required)) \div days
           room == IF later = 0 THEN 0 ELSE (100 * (later - required)) \div later
           before == AssessFeasibility(required, days, now)
           after == AssessFeasibility(required, later, then)
<1>1. /\ now.totalGap > 0 => before = "NOT_FEASIBLE_WITH_CURRENT_CAPACITY"
      /\ now.totalGap = 0 /\ required > days => before = "HIGH_RISK"
      /\ now.totalGap = 0 /\ required <= days =>
            before = IF now.overloaded # {} \/ head < 10 THEN "AGGRESSIVE"
                     ELSE IF head < 25 THEN "FEASIBLE" ELSE "COMFORTABLE"
  <2> HIDE DEF head
  <2>1. before = IF now.totalGap > 0 THEN "NOT_FEASIBLE_WITH_CURRENT_CAPACITY"
                 ELSE IF required > days THEN "HIGH_RISK"
                 ELSE IF now.overloaded # {} \/ head < 10 THEN "AGGRESSIVE"
                 ELSE IF head < 25 THEN "FEASIBLE" ELSE "COMFORTABLE"
    BY DEF AssessFeasibility, head
  <2> HIDE DEF before
  <2>2. QED  BY <2>1
<1>2. /\ then.totalGap > 0 => after = "NOT_FEASIBLE_WITH_CURRENT_CAPACITY"
      /\ then.totalGap = 0 /\ required > later => after = "HIGH_RISK"
      /\ then.totalGap = 0 /\ required <= later =>
            after = IF then.overloaded # {} \/ room < 10 THEN "AGGRESSIVE"
                    ELSE IF room < 25 THEN "FEASIBLE" ELSE "COMFORTABLE"
  <2> HIDE DEF room
  <2>1. after = IF then.totalGap > 0 THEN "NOT_FEASIBLE_WITH_CURRENT_CAPACITY"
                ELSE IF required > later THEN "HIGH_RISK"
                ELSE IF then.overloaded # {} \/ room < 10 THEN "AGGRESSIVE"
                ELSE IF room < 25 THEN "FEASIBLE" ELSE "COMFORTABLE"
    BY DEF AssessFeasibility, room
  <2> HIDE DEF after
  <2>2. QED  BY <2>1
<1>3. head \in Int /\ room \in Int
  <2>1. days # 0 => (100 * (days - required)) \div days \in Int
    BY Quotient
  <2>2. later # 0 => (100 * (later - required)) \div later \in Int
    BY Quotient
  <2>3. QED  BY <2>1, <2>2
<1>4. ASSUME NEW share \in {10, 25}, required <= days, share <= head PROVE share <= room
  <2>1. days # 0 /\ later # 0 /\ head = (100 * (days - required)) \div days
    BY <1>4
  <2>2. share <= (100 * (later - required)) \div later
    <3>1. share \in Int /\ share <= 100 /\ share <= (100 * (days - required)) \div days
      BY <1>4, <2>1
    <3>2. QED  BY <1>4, <2>1, <3>1, HeadroomGrows
  <2>3. QED  BY <2>1, <2>2
<1> HIDE DEF head, room, before, after
<1>5. RankOf(before) <= RankOf(after)
  <2>1. CASE now.totalGap > 0
    <3>1. RankOf(before) = 1
      BY <1>1, <2>1, Ranked
    <3>2. QED  BY <1>2, <3>1, Ranked
  <2>2. CASE now.totalGap = 0
    <3>1. then.totalGap = 0
      BY <2>2
    <3>2. CASE required > days
      <4>1. RankOf(before) = 2
        BY <1>1, <2>2, <3>2, Ranked
      <4>2. QED  BY <1>2, <3>1, <4>1, Ranked
    <3>3. CASE required <= days
      <4>1. required <= later
        BY <3>3
      <4>2. head >= 10 => room >= 10
        BY <1>3, <1>4, <3>3
      <4>3. head >= 25 => room >= 25
        BY <1>3, <1>4, <3>3
      <4>4. now.overloaded = {} => then.overloaded = {}
        OBVIOUS
      <4>5. QED  BY <1>1, <1>2, <1>3, <2>2, <3>1, <3>3, <4>1, <4>2, <4>3, <4>4, Ranked
    <3>4. QED  BY <3>2, <3>3
  <2>3. QED  BY <2>1, <2>2
<1>6. QED  BY <1>5 DEF before, after
-----------------------------------------------------------------------------
(* Capacity *)

LEMMA NearestGrows ==
    ASSUME NEW n \in Nat, NEW m \in Nat, n <= m, NEW d \in Nat \ {0}
    PROVE  /\ Nearest(n, d) \in Nat /\ Nearest(m, d) \in Nat
           /\ Nearest(n, d) <= Nearest(m, d)
<1>1. Nearest(n, d) \in Int /\ Nearest(m, d) \in Int
  BY NearestReaches
<1>2. 2 * (d * 0) <= 2 * n + d
  OBVIOUS
<1>3. 0 <= Nearest(n, d)
  BY <1>2, NearestReaches
<1>4. 2 * (d * Nearest(n, d)) <= 2 * n + d
  BY <1>1, NearestReaches
<1>5. d * Nearest(n, d) \in Int
  BY <1>1
<1>6. 2 * (d * Nearest(n, d)) <= 2 * m + d
  BY <1>4, <1>5
<1>7. Nearest(n, d) <= Nearest(m, d)
  <2> DEFINE q == Nearest(n, d)
  <2>1. q \in Int /\ 2 * (d * q) <= 2 * m + d
    BY <1>1, <1>6
  <2> HIDE DEF q
  <2>2. q <= Nearest(m, d)
    BY <2>1, NearestReaches
  <2>3. QED  BY <2>2 DEF q
<1>8. QED  BY <1>1, <1>3, <1>7

\* The lines of a team.
WorkLine(Role) == [role : Role, people : Nat, hoursPerDay : Nat, availability : Nat, availableFromDay : Nat]

LEMMA LineGrows ==
    ASSUME NEW Role, NEW line \in WorkLine(Role), NEW days \in Nat, NEW later \in Nat, days <= later
    PROVE  /\ LineCapacityHours(line, days) \in Nat /\ LineCapacityHours(line, later) \in Nat
           /\ LineCapacityHours(line, days) <= LineCapacityHours(line, later)
<1> DEFINE rate == line.people * line.hoursPerDay * line.availability
           worked(d) == Max({0, d - line.availableFromDay})
<1>1. rate \in Nat /\ line.availableFromDay \in Nat
  <2>1. line.people \in Nat /\ line.hoursPerDay \in Nat /\ line.availability \in Nat
    BY DEF WorkLine
  <2>2. line.people * line.hoursPerDay \in Nat
    BY <2>1
  <2>3. rate \in Nat
    BY <2>1, <2>2
  <2>4. QED  BY <2>3 DEF WorkLine
<1>2. worked(days) \in Nat /\ worked(later) \in Nat /\ worked(days) <= worked(later)
  <2> DEFINE a == days - line.availableFromDay
             b == later - line.availableFromDay
  <2>1. a \in Int /\ b \in Int /\ 0 \in Int /\ a <= b
    BY <1>1
  <2> HIDE DEF a, b
  <2>2. /\ Max({0, a}) \in Int /\ 0 <= Max({0, a}) /\ Max({0, a}) \in {0, a}
    BY <2>1, Larger
  <2>3. Max({0, b}) \in Int /\ 0 <= Max({0, b}) /\ b <= Max({0, b})
    BY <2>1, Larger
  <2>4. Max({0, a}) \in Nat /\ Max({0, b}) \in Nat /\ Max({0, a}) <= Max({0, b})
    BY <2>1, <2>2, <2>3
  <2>5. QED  BY <2>4 DEF a, b
<1> HIDE DEF rate, worked
<1>3. rate * worked(days) \in Nat /\ rate * worked(later) \in Nat /\ rate * worked(days) <= rate * worked(later)
  BY <1>1, <1>2, Products
<1>4. /\ LineCapacityHours(line, days) = Nearest(rate * worked(days), 10000)
      /\ LineCapacityHours(line, later) = Nearest(rate * worked(later), 10000)
  BY DEF LineCapacityHours, rate, worked
<1>5. QED  BY <1>3, <1>4, NearestGrows

\* What a role has is the sum of its lines.
LinesOf(team, role) == {i \in DOMAIN team.lines : team.lines[i].role = role}
HoursOf(team, role, days) ==
    [i \in LinesOf(team, role) |-> LineCapacityHours(team.lines[i], Max({0, days}))]

LEMMA AvailableIsSum ==
    ASSUME NEW team, NEW role, NEW days, IsFiniteSet(LinesOf(team, role))
    PROVE  \E sum : /\ IsSum(sum, HoursOf(team, role, days), LinesOf(team, role))
                    /\ AvailableHours(team, role, days) = sum[LinesOf(team, role)]
<1> DEFINE mine == LinesOf(team, role)
           hours(i) == LineCapacityHours(team.lines[i], Max({0, days}))
           g == [i \in mine |-> hours(i)]
           Sums(sum) == sum = [s \in SUBSET mine |->
               IF s = {} THEN 0
               ELSE hours(CHOOSE x \in s : TRUE) + sum[s \ {CHOOSE x \in s : TRUE}]]
           sum == CHOOSE sum : Sums(sum)
<1>1. AvailableHours(team, role, days) = sum[mine]
  BY DEF AvailableHours, LinesOf, SumOver, MapThenSumSet, MapThenFoldSet
<1> HIDE DEF mine
<1>2. ASSUME NEW any PROVE IsSum(any, g, mine) <=> Sums(any)
  <2>1. \A s \in SUBSET mine : s # {} => g[Picked(s)] = hours(Picked(s))
    <3>1. \A s \in SUBSET mine : s # {} => Picked(s) \in mine
      BY DEF Picked
    <3> HIDE DEF hours
    <3>2. QED  BY <3>1
  <2> HIDE DEF g, hours
  <2>2. [s \in SUBSET mine |-> IF s = {} THEN 0 ELSE g[Picked(s)] + any[s \ {Picked(s)}]]
           = [s \in SUBSET mine |-> IF s = {} THEN 0 ELSE hours(Picked(s)) + any[s \ {Picked(s)}]]
    BY <2>1
  <2>3. QED  BY <2>2 DEF IsSum, Picked
<1>3. \E any : IsSum(any, g, mine)
  <2> HIDE DEF g
  <2>1. QED  BY SumExists DEF mine
<1> HIDE DEF g
<1>4. Sums(sum)
  <2> HIDE DEF Sums
  <2>1. QED  BY <1>2, <1>3
<1>5. IsSum(sum, g, mine)
  <2> HIDE DEF Sums, sum
  <2>1. QED  BY <1>2, <1>4
<1>6. QED
  <2>1. g = HoursOf(team, role, days)
    BY DEF g, HoursOf, mine
  <2> HIDE DEF sum, g
  <2>2. QED  BY <1>1, <1>5, <2>1 DEF mine
LEMMA AvailableGrows ==
    ASSUME NEW Role, NEW team, team.lines \in Seq(WorkLine(Role)), NEW role,
           NEW days \in Nat, NEW later \in Nat, days <= later
    PROVE  /\ AvailableHours(team, role, days) \in Nat /\ AvailableHours(team, role, later) \in Nat
           /\ AvailableHours(team, role, days) <= AvailableHours(team, role, later)
<1> DEFINE mine == LinesOf(team, role)
           g == HoursOf(team, role, days)
           h == HoursOf(team, role, later)
<1>1. IsFiniteSet(mine)
  <2>1. DOMAIN team.lines = 1 .. Len(team.lines) /\ Len(team.lines) \in Nat
    OBVIOUS
  <2>2. IsFiniteSet(DOMAIN team.lines) /\ mine \in SUBSET DOMAIN team.lines
    BY <2>1, FS_Interval DEF LinesOf
  <2> HIDE DEF mine
  <2>3. QED  BY <2>2, FS_Subset
<1>2. Max({0, days}) = days /\ Max({0, later}) = later
  <2>1. ASSUME NEW d \in Nat PROVE Max({0, d}) = d
    <3>1. 0 \in Int /\ d \in Int
      OBVIOUS
    <3>2. d <= Max({0, d}) /\ Max({0, d}) \in {0, d}
      BY <3>1, Larger
    <3>3. QED  BY <3>2
  <2>2. QED  BY <2>1
<1>3. \A i \in mine : team.lines[i] \in WorkLine(Role)
  BY DEF LinesOf
<1>4. /\ g \in [mine -> Int] /\ h \in [mine -> Int]
      /\ \A i \in mine : g[i] <= h[i] /\ 0 <= g[i]
  <2>1. ASSUME NEW i \in mine
        PROVE  /\ LineCapacityHours(team.lines[i], days) \in Nat
               /\ LineCapacityHours(team.lines[i], later) \in Nat
               /\ LineCapacityHours(team.lines[i], days) <= LineCapacityHours(team.lines[i], later)
    <3> HIDE DEF mine
    <3>1. QED  BY <1>3, LineGrows
  <2> HIDE DEF mine
  <2>2. /\ g = [i \in mine |-> LineCapacityHours(team.lines[i], days)]
        /\ h = [i \in mine |-> LineCapacityHours(team.lines[i], later)]
    BY <1>2 DEF HoursOf, mine
  <2> HIDE DEF g, h
  <2>3. QED  BY <2>1, <2>2
<1>5. PICK low : IsSum(low, g, mine) /\ AvailableHours(team, role, days) = low[mine]
  BY <1>1, AvailableIsSum
<1>6. PICK high : IsSum(high, h, mine) /\ AvailableHours(team, role, later) = high[mine]
  BY <1>1, AvailableIsSum
<1> HIDE DEF mine, g, h
<1>7. low[mine] \in Int /\ high[mine] \in Int /\ low[mine] <= high[mine] /\ 0 <= low[mine]
  BY <1>1, <1>4, <1>5, <1>6, SumsCompare
<1>8. QED  BY <1>5, <1>6, <1>7

LEMMA UtilisationFalls ==
    ASSUME NEW planned \in Nat \ {0}, NEW available \in Nat, NEW more \in Nat, available <= more,
           Utilisation(planned, more) > SustainableUtilisation
    PROVE  Utilisation(planned, available) > SustainableUtilisation
<1>1. CASE available = 0
  BY <1>1 DEF Utilisation, Infinite, SustainableUtilisation
<1>2. CASE available # 0
  <2>1. /\ Utilisation(planned, more) = Nearest(1000 * planned, more)
        /\ Utilisation(planned, available) = Nearest(1000 * planned, available)
    BY <1>2 DEF Utilisation
  <2>2. Nearest(1000 * planned, more) \in Int /\ Nearest(1000 * planned, more) > 850
    <3>1. more \in Nat \ {0} /\ 1000 * planned \in Int
      BY <1>2
    <3>2. QED  BY <2>1, <3>1, NearestReaches DEF SustainableUtilisation
  <2>3. 2 * (more * 851) <= 2 * (1000 * planned) + more
    <3>1. 851 <= Nearest(1000 * planned, more) /\ 851 \in Int /\ more \in Nat \ {0} /\ 1000 * planned \in Int
      BY <1>2, <2>2
    <3>2. QED  BY <3>1, NearestReaches
  <2>4. 2 * (available * 851) <= 2 * (1000 * planned) + available
    BY <2>3
  <2>5. 851 <= Nearest(1000 * planned, available) /\ Nearest(1000 * planned, available) \in Int
    <3>1. 851 \in Int /\ available \in Nat \ {0} /\ 1000 * planned \in Int
      BY <1>2
    <3>2. QED  BY <2>4, <3>1, NearestReaches
  <2>6. QED  BY <2>1, <2>5 DEF SustainableUtilisation
<1>3. QED  BY <1>1, <1>2

\* The capacity of a plan, by role.
PlannedFor(planned, role) == IF role \in DOMAIN planned THEN planned[role] ELSE 0
RolesOf(planned, team) == DOMAIN planned \cup {team.lines[i].role : i \in DOMAIN team.lines}
GapOf(planned, team, role, days) == Gap(PlannedFor(planned, role), AvailableHours(team, role, days))

LEMMA CapacityFacts ==
    ASSUME NEW planned, NEW team, NEW hoursPerDay, NEW days, NEW roles, IsFiniteSet(roles),
           roles = RolesOf(planned, team)
    PROVE  LET capacity == CapacityOf(planned, team, hoursPerDay, days)
           IN  /\ capacity.capacityUnknown = ~team.supplied
               /\ capacity.overloaded =
                     {r \in roles : PlannedFor(planned, r) > 0 /\
                         Utilisation(PlannedFor(planned, r), AvailableHours(team, r, days))
                            > SustainableUtilisation}
               /\ \E sum : /\ IsSum(sum, [r \in roles |-> GapOf(planned, team, r, days)], roles)
                           /\ capacity.totalGap = sum[roles]
<1> DEFINE capacity == CapacityOf(planned, team, hoursPerDay, days)
           gap(r) == Gap(IF r \in DOMAIN planned THEN planned[r] ELSE 0, AvailableHours(team, r, days))
           g == [r \in roles |-> GapOf(planned, team, r, days)]
           Sums(sum) == sum = [s \in SUBSET roles |->
               IF s = {} THEN 0
               ELSE gap(CHOOSE x \in s : TRUE) + sum[s \ {CHOOSE x \in s : TRUE}]]
           sum == CHOOSE sum : Sums(sum)
<1>1. capacity.capacityUnknown = ~team.supplied
  BY DEF CapacityOf
<1>2. capacity.overloaded =
         {r \in roles : PlannedFor(planned, r) > 0 /\
             Utilisation(PlannedFor(planned, r), AvailableHours(team, r, days)) > SustainableUtilisation}
  BY DEF CapacityOf, RolesOf, PlannedFor
<1>3. capacity.totalGap = sum[roles]
  BY DEF CapacityOf, RolesOf, SumOver, MapThenSumSet, MapThenFoldSet
<1>4. ASSUME NEW any PROVE IsSum(any, g, roles) <=> Sums(any)
  <2>1. \A s \in SUBSET roles : s # {} => g[Picked(s)] = gap(Picked(s))
    <3>1. \A s \in SUBSET roles : s # {} => Picked(s) \in roles
      BY DEF Picked
    <3>2. \A r \in roles : g[r] = gap(r)
      BY DEF GapOf, PlannedFor
    <3> HIDE DEF g, gap
    <3>3. QED  BY <3>1, <3>2
  <2> HIDE DEF g, gap
  <2>2. [s \in SUBSET roles |-> IF s = {} THEN 0 ELSE g[Picked(s)] + any[s \ {Picked(s)}]]
           = [s \in SUBSET roles |-> IF s = {} THEN 0 ELSE gap(Picked(s)) + any[s \ {Picked(s)}]]
    BY <2>1
  <2>3. QED  BY <2>2 DEF IsSum, Picked
<1>5. \E any : IsSum(any, g, roles)
  <2> HIDE DEF g
  <2>1. QED  BY SumExists
<1> HIDE DEF g
<1>6. Sums(sum)
  <2> HIDE DEF Sums
  <2>1. QED  BY <1>4, <1>5
<1>7. IsSum(sum, g, roles)
  <2> HIDE DEF Sums, sum
  <2>1. QED  BY <1>4, <1>6
<1>8. QED
  <2> HIDE DEF sum, capacity
  <2>1. \E any : IsSum(any, g, roles) /\ capacity.totalGap = any[roles]
    BY <1>3, <1>7
  <2>2. QED  BY <1>1, <1>2, <2>1 DEF capacity, g

LEMMA GapFalls ==
    ASSUME NEW planned \in Nat, NEW available \in Nat, NEW more \in Nat, available <= more
    PROVE  /\ Gap(planned, available) \in Nat /\ Gap(planned, more) \in Nat
           /\ Gap(planned, more) <= Gap(planned, available)
<1> DEFINE a == planned - available
           b == planned - more
<1>1. a \in Int /\ b \in Int /\ 0 \in Int /\ b <= a
  OBVIOUS
<1>2. Gap(planned, available) = Max({0, a}) /\ Gap(planned, more) = Max({0, b})
  BY DEF Gap
<1> HIDE DEF a, b
<1>3. Max({0, a}) \in Int /\ 0 <= Max({0, a}) /\ a <= Max({0, a})
  BY <1>1, Larger
<1>4. Max({0, b}) \in Int /\ 0 <= Max({0, b}) /\ Max({0, b}) \in {0, b}
  BY <1>1, Larger
<1>5. QED  BY <1>1, <1>2, <1>3, <1>4

\* More time never makes the verdict on a team worse, whatever the plan, the roles and the days
\* people join: fewer hours are missing, no role becomes overloaded, and what is left of the time is
\* no smaller a part of it. (assessFeasibility compares hours rounded line by line, then days, then
\* roles, then the share of the time that is left)
THEOREM MoreTimeIsNoWorse ==
    ASSUME NEW P, IsFiniteSet(P), NEW planned \in [P -> Nat],
           NEW Role, NEW lines \in Seq(WorkLine(Role)), NEW hoursPerDay,
           NEW required \in Nat, NEW days \in Nat, NEW later \in Nat, days <= later
    PROVE  LET team == [supplied |-> TRUE, lines |-> lines]
               verdict(d) == AssessFeasibility(required, d, CapacityOf(planned, team, hoursPerDay, d))
           IN  RankOf(verdict(days)) <= RankOf(verdict(later))
<1> DEFINE team == [supplied |-> TRUE, lines |-> lines]
           roles == RolesOf(planned, team)
           now == CapacityOf(planned, team, hoursPerDay, days)
           then == CapacityOf(planned, team, hoursPerDay, later)
           g == [r \in roles |-> GapOf(planned, team, r, later)]
           h == [r \in roles |-> GapOf(planned, team, r, days)]
<1>1. team.supplied = TRUE /\ team.lines = lines
  OBVIOUS
<1>2. IsFiniteSet(roles)
  <2> DEFINE named == {lines[i].role : i \in 1 .. Len(lines)}
  <2>1. DOMAIN lines = 1 .. Len(lines) /\ Len(lines) \in Nat
    OBVIOUS
  <2>2. IsFiniteSet(1 .. Len(lines))
    BY <2>1, FS_Interval
  <2>3. IsFiniteSet(named)
    <3> DEFINE f == [i \in 1 .. Len(lines) |-> lines[i].role]
    <3>1. f \in Surjection(1 .. Len(lines), named)
      BY DEF Surjection
    <3> HIDE DEF f, named
    <3>2. QED  BY <2>2, <3>1, FS_Surjection
  <2>4. roles = P \cup named
    BY <1>1, <2>1 DEF RolesOf
  <2> HIDE DEF roles, named
  <2>5. QED  BY <2>3, <2>4, FS_Union
<1> HIDE DEF team, roles
<1>3. \A r \in roles : PlannedFor(planned, r) \in Nat
  BY DEF PlannedFor
<1>4. \A r \in roles : /\ AvailableHours(team, r, days) \in Nat /\ AvailableHours(team, r, later) \in Nat
                       /\ AvailableHours(team, r, days) <= AvailableHours(team, r, later)
  BY <1>1, AvailableGrows
<1>5. /\ g \in [roles -> Int] /\ h \in [roles -> Int]
      /\ \A r \in roles : g[r] <= h[r] /\ 0 <= g[r]
  <2>1. \A r \in roles : /\ GapOf(planned, team, r, days) \in Nat /\ GapOf(planned, team, r, later) \in Nat
                         /\ GapOf(planned, team, r, later) <= GapOf(planned, team, r, days)
    BY <1>3, <1>4, GapFalls DEF GapOf
  <2>2. QED  BY <2>1
<1>6. /\ ~now.capacityUnknown /\ ~then.capacityUnknown
      /\ now.overloaded =
            {r \in roles : PlannedFor(planned, r) > 0 /\
                Utilisation(PlannedFor(planned, r), AvailableHours(team, r, days)) > SustainableUtilisation}
      /\ then.overloaded =
            {r \in roles : PlannedFor(planned, r) > 0 /\
                Utilisation(PlannedFor(planned, r), AvailableHours(team, r, later)) > SustainableUtilisation}
      /\ \E sum : IsSum(sum, g, roles) /\ then.totalGap = sum[roles]
      /\ \E sum : IsSum(sum, h, roles) /\ now.totalGap = sum[roles]
  <2>1. roles = RolesOf(planned, team)
    BY DEF roles
  <2>2. ASSUME NEW d
        PROVE  LET capacity == CapacityOf(planned, team, hoursPerDay, d)
               IN  /\ capacity.capacityUnknown = ~team.supplied
                   /\ capacity.overloaded =
                         {r \in roles : PlannedFor(planned, r) > 0 /\
                             Utilisation(PlannedFor(planned, r), AvailableHours(team, r, d))
                                > SustainableUtilisation}
                   /\ \E sum : /\ IsSum(sum, [r \in roles |-> GapOf(planned, team, r, d)], roles)
                               /\ capacity.totalGap = sum[roles]
    BY <1>2, <2>1, CapacityFacts
  <2>3. QED  BY <1>1, <2>2
<1>7. now.totalGap \in Nat /\ then.totalGap \in Nat /\ then.totalGap <= now.totalGap
  <2>1. PICK low : IsSum(low, g, roles) /\ then.totalGap = low[roles]
    BY <1>6
  <2>2. PICK high : IsSum(high, h, roles) /\ now.totalGap = high[roles]
    BY <1>6
  <2> HIDE DEF g, h, now, then
  <2>3. low[roles] \in Int /\ high[roles] \in Int /\ low[roles] <= high[roles] /\ 0 <= low[roles]
    BY <1>2, <1>5, <2>1, <2>2, SumsCompare
  <2>4. QED  BY <2>1, <2>2, <2>3
<1>8. then.overloaded \subseteq now.overloaded
  <2>1. SUFFICES ASSUME NEW r \in then.overloaded PROVE r \in now.overloaded
    OBVIOUS
  <2>2. /\ r \in roles /\ PlannedFor(planned, r) \in Nat \ {0}
        /\ Utilisation(PlannedFor(planned, r), AvailableHours(team, r, later)) > SustainableUtilisation
    <3> HIDE DEF now, then
    <3>1. QED  BY <1>3, <1>6, <2>1
  <2>3. Utilisation(PlannedFor(planned, r), AvailableHours(team, r, days)) > SustainableUtilisation
    BY <1>4, <2>2, UtilisationFalls
  <2> HIDE DEF now, then
  <2>4. QED  BY <1>6, <2>2, <2>3
<1> HIDE DEF now, then
<1>9. RankOf(AssessFeasibility(required, days, now)) <= RankOf(AssessFeasibility(required, later, then))
  BY <1>6, <1>7, <1>8, VerdictGrows
<1>10. QED  BY <1>9 DEF now, then, team

-----------------------------------------------------------------------------
(* The readiness of a baseline *)

\* What Alignment needs to know of a review: numbers to add and finite sets to count.
IsReview(review) ==
    /\ \E Item : review.items \in Seq(Item)
    /\ \A i \in DOMAIN review.items : review.items[i].score \in Int
    /\ \A S \in {review.conflicts, review.duplicates, review.ambiguities, review.gaps, review.questions} :
          IsFiniteSet(S)

ScoresOf(review) == [i \in DOMAIN review.items |-> review.items[i].score]
FindingsOf(review) == review.conflicts \cup review.duplicates \cup review.ambiguities \cup review.gaps
SettledFindings(review) ==
    {f \in FindingsOf(review) :
        f.status \notin IF f.kind = "conflict" THEN BlockingConflictStatuses ELSE {"open"}}
SettledQuestions(review) == {q \in review.questions : q.status \in {"INTEGRATED", "DISMISSED"}}
VerifiedItems(review) == {i \in DOMAIN review.items : Verified(review.items[i])}
Share(T, S) == IF S = {} THEN 1000 ELSE Ratio(Cardinality(T), Cardinality(S))
EvidenceOf(review, scores) == IF review.items = <<>> THEN 0 ELSE scores \div Len(review.items)

LEMMA WithinFacts ==
    ASSUME NEW n \in Int
    PROVE  /\ Within(0, 1000, n) \in Int
           /\ Within(0, 1000, n) <= 0 \/ Within(0, 1000, n) <= n
<1> DEFINE low == Min({1000, n})
<1>1. 0 \in Int /\ 1000 \in Int
  OBVIOUS
<1>2. low \in Int /\ low <= n
  BY <1>1, Smaller
<1>3. Within(0, 1000, n) = Max({0, low})
  BY DEF Within
<1> HIDE DEF low
<1>4. Max({0, low}) \in {0, low}
  BY <1>1, <1>2, Larger
<1>5. QED  BY <1>2, <1>3, <1>4

LEMMA RatioIsInt ==
    ASSUME NEW part \in Nat, NEW total \in Nat
    PROVE  Ratio(part, total) \in Int
<1>1. CASE total = 0
  BY <1>1 DEF Ratio
<1>2. CASE total # 0
  <2> DEFINE q == (2000 * part + total) \div (2 * total)
  <2>1. 2000 * part + total \in Int /\ 2 * total \in Nat \ {0}
    BY <1>2
  <2>2. q \in Int
    <3> DEFINE n == 2000 * part + total
               d == 2 * total
    <3> HIDE DEF n, d
    <3>1. n \in Int /\ d \in Nat \ {0}
      BY <2>1 DEF n, d
    <3>2. n \div d \in Int
      BY <3>1, Quotient
    <3>3. QED  BY <3>2 DEF n, d
  <2>3. Ratio(part, total) = Within(0, 1000, q)
    BY <1>2 DEF Ratio
  <2> HIDE DEF q
  <2>4. QED  BY <2>2, <2>3, WithinFacts
<1>3. QED  BY <1>1, <1>2

LEMMA ShareIsInt ==
    ASSUME NEW S, IsFiniteSet(S), NEW T \in SUBSET S
    PROVE  Share(T, S) \in Int
<1>1. IsFiniteSet(T) /\ Cardinality(T) \in Nat /\ Cardinality(S) \in Nat
  BY FS_Subset, FS_CardinalityType
<1>2. Ratio(Cardinality(T), Cardinality(S)) \in Int
  BY <1>1, RatioIsInt
<1>3. QED  BY <1>2 DEF Share

\* With a reason to be incomplete, alignment is capped.
LEMMA CappedFacts ==
    ASSUME NEW weighted \in Int, NEW reasons, reasons # {}
    PROVE  /\ Capped(weighted, reasons) \in Int
           /\ Capped(weighted, reasons) <= IncompleteAlignmentCap
<1> DEFINE m == Min({weighted, IncompleteAlignmentCap})
<1>1. m \in Int /\ m <= IncompleteAlignmentCap
  <2>1. IncompleteAlignmentCap \in Int
    BY DEF IncompleteAlignmentCap
  <2>2. QED  BY <2>1, Smaller
<1>2. Capped(weighted, reasons) = Within(0, 1000, m)
  BY DEF Capped
<1> HIDE DEF m
<1>3. /\ Within(0, 1000, m) \in Int
      /\ Within(0, 1000, m) <= 0 \/ Within(0, 1000, m) <= m
  BY <1>1, WithinFacts
<1>4. QED  BY <1>1, <1>2, <1>3 DEF IncompleteAlignmentCap

LEMMA AlignmentFacts ==
    ASSUME NEW review, IsReview(review)
    PROVE  \E sum :
             /\ IsSum(sum, ScoresOf(review), DOMAIN review.items)
             /\ Alignment(review).overall =
                  Capped((35 * Ratio(Cardinality(VerifiedItems(review)), Len(review.items))
                            + 35 * EvidenceOf(review, sum[DOMAIN review.items])
                            + 20 * Share(SettledFindings(review), FindingsOf(review))
                            + 10 * Share(SettledQuestions(review), review.questions)) \div 100,
                         IncompleteReasons(review))
<1> DEFINE mine == DOMAIN review.items
           g == ScoresOf(review)
           score(i) == review.items[i].score
           Sums(sum) == sum = [s \in SUBSET mine |->
               IF s = {} THEN 0
               ELSE score(CHOOSE x \in s : TRUE) + sum[s \ {CHOOSE x \in s : TRUE}]]
           sum == CHOOSE sum : Sums(sum)
           weighted(total) ==
              (35 * Ratio(Cardinality(VerifiedItems(review)), Len(review.items))
                 + 35 * EvidenceOf(review, total)
                 + 20 * Share(SettledFindings(review), FindingsOf(review))
                 + 10 * Share(SettledQuestions(review), review.questions)) \div 100
<1>1. Alignment(review).overall = Capped(weighted(sum[mine]), IncompleteReasons(review))
  BY DEF Alignment, MapThenSumSet, MapThenFoldSet, EvidenceOf, Share, SettledFindings,
         SettledQuestions, FindingsOf, VerifiedItems
<1>2. ASSUME NEW any PROVE IsSum(any, g, mine) <=> Sums(any)
  <2>1. \A s \in SUBSET mine : s # {} => g[Picked(s)] = score(Picked(s))
    <3>1. \A s \in SUBSET mine : s # {} => Picked(s) \in mine
      BY DEF Picked
    <3>2. \A i \in mine : g[i] = score(i)
      BY DEF ScoresOf
    <3> HIDE DEF g, score, mine
    <3>3. QED  BY <3>1, <3>2
  <2> HIDE DEF g, score, mine
  <2>2. [s \in SUBSET mine |-> IF s = {} THEN 0 ELSE g[Picked(s)] + any[s \ {Picked(s)}]]
           = [s \in SUBSET mine |-> IF s = {} THEN 0 ELSE score(Picked(s)) + any[s \ {Picked(s)}]]
    BY <2>1
  <2>3. QED  BY <2>2 DEF IsSum, Picked
<1>3. IsFiniteSet(mine)
  <2>1. PICK Item : review.items \in Seq(Item)
    BY DEF IsReview
  <2>2. mine = 1 .. Len(review.items) /\ Len(review.items) \in Nat
    BY <2>1
  <2>3. QED  BY <2>2, FS_Interval
<1>4. \E any : IsSum(any, g, mine)
  <2> HIDE DEF g, mine
  <2>1. QED  BY <1>3, SumExists
<1> HIDE DEF g
<1>5. Sums(sum)
  <2> HIDE DEF Sums
  <2>1. QED  BY <1>2, <1>4
<1>6. IsSum(sum, g, mine)
  <2> HIDE DEF Sums, sum
  <2>1. QED  BY <1>2, <1>5
<1>7. QED
  <2> HIDE DEF sum
  <2>1. QED  BY <1>1, <1>6 DEF g

\* A review that reads as more than 85 % aligned has no reason to be incomplete.
LEMMA AlignedIsComplete ==
    ASSUME NEW review, IsReview(review), Alignment(review).overall > IncompleteAlignmentCap
    PROVE  IncompleteReasons(review) = {}
<1> DEFINE mine == DOMAIN review.items
           n == Len(review.items)
           a == Ratio(Cardinality(VerifiedItems(review)), n)
           c == Share(SettledFindings(review), FindingsOf(review))
           d == Share(SettledQuestions(review), review.questions)
<1>1. n \in Nat /\ mine = 1 .. n /\ (review.items # <<>> => n # 0) /\ IsFiniteSet(mine)
  <2>1. PICK Item : review.items \in Seq(Item)
    BY DEF IsReview
  <2>2. n \in Nat /\ mine = 1 .. n /\ (review.items # <<>> => n # 0)
    BY <2>1
  <2> HIDE DEF n, mine
  <2>3. n \in Int /\ 1 \in Int
    BY <2>2
  <2>4. QED  BY <2>2, <2>3, FS_Interval
<1>2. PICK sum : /\ IsSum(sum, ScoresOf(review), mine)
                 /\ Alignment(review).overall =
                      Capped((35 * a + 35 * EvidenceOf(review, sum[mine]) + 20 * c + 10 * d) \div 100,
                             IncompleteReasons(review))
  BY AlignmentFacts
<1>3. a \in Int
  <2>1. Cardinality(VerifiedItems(review)) \in Nat
    <3>1. VerifiedItems(review) \in SUBSET mine
      BY DEF VerifiedItems
    <3> HIDE DEF mine
    <3>2. QED  BY <1>1, <3>1, FS_Subset, FS_CardinalityType
  <2>2. QED  BY <1>1, <2>1, RatioIsInt
<1>4. c \in Int /\ d \in Int
  <2>1. IsFiniteSet(FindingsOf(review)) /\ IsFiniteSet(review.questions)
    <3>1. /\ IsFiniteSet(review.conflicts) /\ IsFiniteSet(review.duplicates)
          /\ IsFiniteSet(review.ambiguities) /\ IsFiniteSet(review.gaps)
          /\ IsFiniteSet(review.questions)
      BY DEF IsReview
    <3>2. IsFiniteSet(review.conflicts \cup review.duplicates)
      BY <3>1, FS_Union
    <3>3. IsFiniteSet((review.conflicts \cup review.duplicates) \cup review.ambiguities)
      BY <3>1, <3>2, FS_Union
    <3>4. QED  BY <3>1, <3>3, FS_Union DEF FindingsOf
  <2>2. SettledFindings(review) \in SUBSET FindingsOf(review)
    BY DEF SettledFindings
  <2>3. SettledQuestions(review) \in SUBSET review.questions
    BY DEF SettledQuestions
  <2>4. QED  BY <2>1, <2>2, <2>3, ShareIsInt
<1>5. EvidenceOf(review, sum[mine]) \in Int
  <2>1. ScoresOf(review) \in [mine -> Int]
    BY DEF IsReview, ScoresOf
  <2>2. sum[mine] \in Int
    <3> DEFINE g == ScoresOf(review)
    <3>1. \A x \in mine : g[x] <= g[x]
      BY <2>1
    <3> HIDE DEF g, mine
    <3>2. QED  BY <1>1, <1>2, <2>1, <3>1, SumsCompare DEF g
  <2> HIDE DEF n, mine
  <2>3. CASE review.items = <<>>
    BY <2>3 DEF EvidenceOf
  <2>4. CASE review.items # <<>>
    <3>1. n \in Nat \ {0}
      BY <1>1, <2>4
    <3>2. sum[mine] \div n \in Int
      BY <2>2, <3>1, Quotient
    <3>3. QED  BY <2>4, <3>2 DEF EvidenceOf, n
  <2>5. QED  BY <2>3, <2>4
<1> DEFINE b == EvidenceOf(review, sum[mine])
           weight == 35 * a + 35 * b + 20 * c + 10 * d
           weighted == weight \div 100
<1>6. weighted \in Int
  <2> HIDE DEF a, b, c, d
  <2>1. weight \in Int
    BY <1>3, <1>4, <1>5 DEF b
  <2> HIDE DEF weight
  <2>2. QED  BY <2>1, Quotient
<1>7. Alignment(review).overall = Capped(weighted, IncompleteReasons(review))
  BY <1>2
<1> HIDE DEF weighted, weight
<1>8. ASSUME IncompleteReasons(review) # {} PROVE FALSE
  <2>1. /\ Capped(weighted, IncompleteReasons(review)) \in Int
        /\ Capped(weighted, IncompleteReasons(review)) <= IncompleteAlignmentCap
    BY <1>6, <1>8, CappedFacts
  <2>2. QED  BY <1>7, <2>1 DEF IncompleteAlignmentCap
<1>9. QED  BY <1>8

\* A baseline free of blockers lacks nothing but quotations found word for word, and one that reads
\* as more than 85 % aligned has requirements, each linked to a document or an answer, and nothing
\* unread, in conflict or unanswered that keeps it from being approved. (calculateAlignment and
\* calculateBlockers decide apart, from the same items, findings and questions)
THEOREM AlignedIsUnblocked ==
    ASSUME NEW review, IsReview(review)
    PROVE  /\ ApprovalBlockers(review) = {} => IncompleteReasons(review) \subseteq {"not_verified"}
           /\ Alignment(review).overall > IncompleteAlignmentCap =>
                 ApprovalBlockers(review) \cap {"empty_baseline", "untraceable_requirement",
                     "blocking_conflict", "unanswered_clarification", "unanalysed_content"} = {}
<1>1. ASSUME ApprovalBlockers(review) = {} PROVE IncompleteReasons(review) \subseteq {"not_verified"}
  <2>1. review.items # <<>>
    BY <1>1 DEF ApprovalBlockers
  <2>2. /\ ~(review.notAnalysed > 0)
        /\ ~\E c \in review.conflicts : IsBlockingConflict(c)
        /\ ~\E q \in review.questions : BlocksBaselineApproval(q)
    BY <1>1, <2>1 DEF ApprovalBlockers
  <2>3. QED  BY <2>1, <2>2 DEF IncompleteReasons
<1>2. ASSUME Alignment(review).overall > IncompleteAlignmentCap
      PROVE  ApprovalBlockers(review) \cap {"empty_baseline", "untraceable_requirement",
                 "blocking_conflict", "unanswered_clarification", "unanalysed_content"} = {}
  <2>1. IncompleteReasons(review) = {}
    BY <1>2, AlignedIsComplete
  <2>2. review.items # <<>>
    BY <2>1 DEF IncompleteReasons
  <2>3. /\ ~(review.notAnalysed > 0)
        /\ ~\E c \in review.conflicts : IsBlockingConflict(c)
        /\ ~\E q \in review.questions : BlocksBaselineApproval(q)
        /\ \A i \in DOMAIN review.items : Verified(review.items[i])
    BY <2>1 DEF IncompleteReasons
  <2>4. \A i \in DOMAIN review.items : review.items[i].references # {}
    BY <2>3 DEF Verified
  <2>5. QED  BY <2>2, <2>3, <2>4 DEF ApprovalBlockers
<1>3. QED  BY <1>1, <1>2

-----------------------------------------------------------------------------
(* Folds over sequences *)

\* A finite set of integers has a largest and a smallest member.
LEMMA Extremes ==
    ASSUME NEW S, IsFiniteSet(S), S \subseteq Int, S # {}
    PROVE  /\ Max(S) \in S /\ \A x \in S : x <= Max(S)
           /\ Min(S) \in S /\ \A x \in S : Min(S) <= x
<1> DEFINE Good(s) == /\ \E x \in s : \A y \in s : x >= y
                      /\ \E x \in s : \A y \in s : x <= y
           Bad == {n \in Nat : \E s \in SUBSET S : s # {} /\ Cardinality(s) = n /\ ~Good(s)}
<1>1. \A s \in SUBSET S : IsFiniteSet(s) /\ Cardinality(s) \in Nat
  BY FS_Subset, FS_CardinalityType
<1>2. ASSUME NEW s \in SUBSET S, s # {}, s \ {Picked(s)} # {} => Good(s \ {Picked(s)}) PROVE Good(s)
  <2> DEFINE p == Picked(s)
  <2>1. p \in s /\ p \in Int
    BY <1>1, <1>2, Fewer
  <2> HIDE DEF p
  <2>2. CASE s \ {p} = {}
    <3>1. \A y \in s : p >= y /\ p <= y
      BY <2>1, <2>2
    <3>2. QED  BY <2>1, <3>1
  <2>3. CASE s \ {p} # {}
    <3>1. PICK high \in s \ {p} : \A y \in s \ {p} : high >= y
      BY <1>2, <2>3 DEF p
    <3>2. PICK low \in s \ {p} : \A y \in s \ {p} : low <= y
      BY <1>2, <2>3 DEF p
    <3>3. \E x \in s : \A y \in s : x >= y
      <4>1. CASE high >= p
        BY <3>1, <4>1
      <4>2. CASE p >= high
        <5>1. \A y \in s : p >= y
          BY <2>1, <3>1, <4>2
        <5>2. QED  BY <2>1, <5>1
      <4>3. QED  BY <2>1, <3>1, <4>1, <4>2
    <3>4. \E x \in s : \A y \in s : x <= y
      <4>1. CASE low <= p
        BY <3>2, <4>1
      <4>2. CASE p <= low
        <5>1. \A y \in s : p <= y
          BY <2>1, <3>2, <4>2
        <5>2. QED  BY <2>1, <5>1
      <4>3. QED  BY <2>1, <3>2, <4>1, <4>2
    <3>5. QED  BY <3>3, <3>4
  <2>4. QED  BY <2>2, <2>3
<1> HIDE DEF Good
<1>3. Bad = {}
  <2> SUFFICES ASSUME Bad # {} PROVE FALSE
    OBVIOUS
  <2>1. PICK n \in Bad : \A m \in Bad : n <= m
    <3>1. Bad \subseteq Nat
      OBVIOUS
    <3> HIDE DEF Bad
    <3>2. QED  BY <3>1, Smallest
  <2>2. PICK s \in SUBSET S : s # {} /\ Cardinality(s) = n /\ ~Good(s)
    BY <2>1
  <2>3. s \ {Picked(s)} # {} /\ ~Good(s \ {Picked(s)})
    BY <1>2, <2>2
  <2>4. s \ {Picked(s)} \in SUBSET S
    OBVIOUS
  <2>5. Cardinality(s \ {Picked(s)}) \in Nat /\ Cardinality(s \ {Picked(s)}) < Cardinality(s)
    BY <1>1, <2>2, Fewer
  <2>6. Cardinality(s \ {Picked(s)}) \in Bad
    BY <2>3, <2>4, <2>5
  <2>7. QED
    <3> HIDE DEF Bad
    <3>1. n \in Nat /\ n <= Cardinality(s \ {Picked(s)})
      BY <2>1, <2>2, <2>6, <1>1
    <3>2. QED  BY <2>2, <2>5, <3>1
<1>4. Good(S)
  <2>1. S \in SUBSET S /\ Cardinality(S) \in Nat
    BY <1>1
  <2>2. QED  BY <1>3, <2>1
<1>5. /\ Max(S) \in S /\ \A x \in S : Max(S) >= x
      /\ Min(S) \in S /\ \A x \in S : Min(S) <= x
  BY <1>4 DEF Good, Max, Min
<1>6. QED
  <2> DEFINE m == Max(S)
  <2>1. m \in S /\ \A x \in S : m >= x
    BY <1>5
  <2> HIDE DEF m
  <2>2. \A x \in S : x <= m
    BY <2>1
  <2>3. QED  BY <1>5, <2>1, <2>2 DEF m

\* FoldLeft is defined by a function of the places still to fold, the last one folded last: it is
\* that function, for a step that is a function of the state and of the place in the sequence.
Before(s) == s \ {Max(s)}
IsFold(it, step, base, D) ==
    it = [s \in SUBSET D |-> IF s = {} THEN base ELSE step[<<it[Before(s)], Max(s)>>]]

LEMMA Shorter ==
    ASSUME NEW n \in Nat, NEW s, s \subseteq 1 .. n, s # {}
    PROVE  /\ Max(s) \in s /\ Max(s) \in 1 .. n /\ Before(s) \in SUBSET (1 .. n)
           /\ Cardinality(s) \in Nat /\ Cardinality(Before(s)) \in Nat
           /\ Cardinality(Before(s)) < Cardinality(s)
<1>1. IsFiniteSet(1 .. n) /\ s \subseteq Int
  BY FS_Interval
<1>2. IsFiniteSet(s)
  BY <1>1, FS_Subset
<1>3. Max(s) \in s
  BY <1>1, <1>2, Extremes
<1> DEFINE x == Max(s)
<1> HIDE DEF x
<1>4. x \in s
  BY <1>3 DEF x
<1>5. IsFiniteSet(s \ {x}) /\ Cardinality(s \ {x}) = Cardinality(s) - 1
  BY <1>2, <1>4, FS_RemoveElement
<1>6. Cardinality(s) \in Nat /\ Cardinality(s \ {x}) \in Nat
  BY <1>2, <1>5, FS_CardinalityType
<1>7. Before(s) = s \ {x} /\ Max(s) = x
  BY DEF x, Before
<1>8. Cardinality(s \ {x}) < Cardinality(s)
  BY <1>5, <1>6
<1>9. x \in 1 .. n /\ s \ {x} \in SUBSET (1 .. n)
  BY <1>4
<1>10. QED  BY <1>4, <1>6, <1>7, <1>8, <1>9

\* There is such a function, and its values are states, when a step leads from one to another.
LEMMA FoldExists ==
    ASSUME NEW n \in Nat, NEW State, NEW base \in State, NEW step \in [State \X (1 .. n) -> State]
    PROVE  \E it \in [SUBSET (1 .. n) -> State] : IsFold(it, step, base, 1 .. n)
<1> DEFINE Small(k) == {s \in SUBSET (1 .. n) : Cardinality(s) <= k}
           Upto(it, k) ==
               /\ it \in [Small(k) -> State]
               /\ it = [s \in Small(k) |-> IF s = {} THEN base ELSE step[<<it[Before(s)], Max(s)>>]]
           Missing == {k \in Nat : ~\E it : Upto(it, k)}
<1>1. \A s \in SUBSET (1 .. n) : IsFiniteSet(s) /\ Cardinality(s) \in Nat /\ Cardinality(s) <= n
  <2>1. IsFiniteSet(1 .. n) /\ Cardinality(1 .. n) = n
    BY FS_Interval
  <2>2. TAKE s \in SUBSET (1 .. n)
  <2>3. IsFiniteSet(s) /\ Cardinality(s) <= Cardinality(1 .. n)
    BY <2>1, FS_Subset
  <2>4. Cardinality(s) \in Nat
    BY <2>3, FS_CardinalityType
  <2>5. QED  BY <2>1, <2>3, <2>4
<1>2. Missing = {}
  <2> SUFFICES ASSUME Missing # {} PROVE FALSE
    OBVIOUS
  <2>1. PICK k \in Missing : \A m \in Missing : k <= m
    <3>1. Missing \subseteq Nat
      OBVIOUS
    <3> HIDE DEF Missing
    <3>2. QED  BY <3>1, Smallest
  <2>2. k \in Nat /\ ~\E it : Upto(it, k)
    BY <2>1
  <2>3. ASSUME k = 0 PROVE FALSE
    <3> DEFINE it == [s \in Small(0) |-> base]
               its == [s \in Small(0) |-> IF s = {} THEN base ELSE step[<<it[Before(s)], Max(s)>>]]
    <3>1. \A s \in Small(0) : s = {}
      <4>1. TAKE s \in Small(0)
      <4>2. IsFiniteSet(s) /\ Cardinality(s) = 0
        BY <1>1
      <4>3. QED  BY <4>2, FS_EmptySet
    <3>2. it = its /\ it \in [Small(0) -> State]
      <4> HIDE DEF Small
      <4>1. QED  BY <3>1
    <3>3. Upto(it, 0)
      BY <3>2
    <3> HIDE DEF Upto, it
    <3>4. QED  BY <2>2, <2>3, <3>3
  <2>4. PICK before : Upto(before, k - 1)
    <3>1. k - 1 \in Nat /\ ~(k <= k - 1)
      BY <2>2, <2>3
    <3>2. QED  BY <2>1, <3>1
  <2> DEFINE it == [s \in Small(k) |-> IF s = {} THEN base ELSE step[<<before[Before(s)], Max(s)>>]]
             its == [s \in Small(k) |-> IF s = {} THEN base ELSE step[<<it[Before(s)], Max(s)>>]]
  <2>5. ASSUME NEW s \in Small(k - 1) PROVE s \in Small(k) /\ it[s] = before[s]
    <3>1. s \in Small(k)
      BY <1>1, <2>2
    <3>2. before[s] = IF s = {} THEN base ELSE step[<<before[Before(s)], Max(s)>>]
      <4> HIDE DEF Small
      <4>1. QED  BY <2>4
    <3>3. it[s] = IF s = {} THEN base ELSE step[<<before[Before(s)], Max(s)>>]
      <4> HIDE DEF Small
      <4>1. QED  BY <3>1
    <3> HIDE DEF it
    <3>4. QED  BY <3>1, <3>2, <3>3
  <2>6. ASSUME NEW s \in Small(k), s # {} PROVE Before(s) \in Small(k - 1) /\ Max(s) \in 1 .. n
    <3>1. Cardinality(s) \in Nat /\ Cardinality(s) <= k /\ s \subseteq 1 .. n
      BY <1>1
    <3>2. /\ Before(s) \in SUBSET (1 .. n) /\ Cardinality(Before(s)) \in Nat /\ Max(s) \in 1 .. n
          /\ Cardinality(Before(s)) < Cardinality(s)
      BY <2>6, <3>1, Shorter
    <3>3. Cardinality(Before(s)) <= k - 1
      BY <2>2, <3>1, <3>2
    <3>4. QED  BY <3>2, <3>3
  <2>7. ASSUME NEW s \in Small(k), s # {} PROVE it[Before(s)] = before[Before(s)]
    <3> HIDE DEF it, Small
    <3>1. QED  BY <2>5, <2>6, <2>7
  <2>8. it = its
    <3>1. \A s \in Small(k) :
             (IF s = {} THEN base ELSE step[<<before[Before(s)], Max(s)>>])
                = (IF s = {} THEN base ELSE step[<<it[Before(s)], Max(s)>>])
      <4> HIDE DEF it, Small
      <4>1. QED  BY <2>7
    <3> HIDE DEF Small
    <3>2. QED  BY <3>1
  <2>9. it \in [Small(k) -> State]
    <3>1. \A s \in Small(k) : s # {} => step[<<before[Before(s)], Max(s)>>] \in State
      <4>1. before \in [Small(k - 1) -> State]
        BY <2>4
      <4> HIDE DEF Small
      <4>2. QED  BY <2>6, <4>1
    <3> HIDE DEF Small
    <3>2. QED  BY <3>1
  <2>10. Upto(it, k)
    BY <2>8, <2>9
  <2>11. QED  BY <2>2, <2>10
<1>3. PICK it : Upto(it, n)
  BY <1>2
<1>4. Small(n) = SUBSET (1 .. n)
  BY <1>1
<1>5. QED  BY <1>3, <1>4 DEF IsFold

TakesSteps(any, step, base, State, n) ==
    /\ any[{}] = base
    /\ \A s \in SUBSET (1 .. n) :
          s # {} /\ any[Before(s)] \in State => any[s] = step[<<any[Before(s)], Max(s)>>]
HasRun(any, step, base, State, n) ==
    \E run \in [0 .. n -> State] :
        /\ run[0] = base /\ run[n] = any[1 .. n]
        /\ \A k \in 1 .. n : run[k] = step[<<run[k - 1], k>>]

\* The states a fold goes through, one for each length of the sequence so far: a fold that takes
\* the steps whenever it is in a state is in one all along.
LEMMA FoldRuns ==
    ASSUME NEW n \in Nat, NEW State, NEW base \in State, NEW step \in [State \X (1 .. n) -> State],
           NEW any, TakesSteps(any, step, base, State, n)
    PROVE  HasRun(any, step, base, State, n)
<1> DEFINE run == [k \in 0 .. n |-> any[1 .. k]]
           Lost == {k \in Nat : k <= n /\ any[1 .. k] \notin State}
<1>1. 1 .. 0 = {}
  OBVIOUS
<1>2. ASSUME NEW k \in 1 .. n, any[1 .. (k - 1)] \in State
      PROVE  any[1 .. k] = step[<<any[1 .. (k - 1)], k>>] /\ any[1 .. k] \in State
  <2>1. 1 .. k \in SUBSET (1 .. n) /\ 1 .. k # {}
    <3>1. k \in Int /\ 1 <= k /\ k <= n
      OBVIOUS
    <3>2. k \in 1 .. k
      BY <3>1
    <3>3. ASSUME NEW x \in 1 .. k PROVE x \in 1 .. n
      BY <3>1
    <3>4. 1 .. k \subseteq 1 .. n
      BY <3>3
    <3>5. QED  BY <3>2, <3>4
  <2>2. Max(1 .. k) = k
    <3>1. IsFiniteSet(1 .. k) /\ 1 .. k \subseteq Int /\ k \in 1 .. k
      BY FS_Interval
    <3>2. Max(1 .. k) \in 1 .. k /\ k <= Max(1 .. k)
      BY <2>1, <3>1, Extremes
    <3>3. QED  BY <3>2
  <2>3. Before(1 .. k) = 1 .. (k - 1)
    <3>1. (1 .. k) \ {k} = 1 .. (k - 1)
      OBVIOUS
    <3>2. QED  BY <2>2, <3>1 DEF Before
  <2>4. any[1 .. k] = step[<<any[1 .. (k - 1)], k>>]
    BY <1>2, <2>1, <2>2, <2>3 DEF TakesSteps
  <2>5. QED  BY <1>2, <2>4
<1>3. Lost = {}
  <2> SUFFICES ASSUME Lost # {} PROVE FALSE
    OBVIOUS
  <2>1. PICK k \in Lost : \A m \in Lost : k <= m
    <3>1. Lost \subseteq Nat
      OBVIOUS
    <3> HIDE DEF Lost
    <3>2. QED  BY <3>1, Smallest
  <2>2. k \in Nat /\ k <= n /\ any[1 .. k] \notin State
    BY <2>1
  <2>3. k # 0
    BY <1>1, <2>2 DEF TakesSteps
  <2>4. k - 1 \in Nat /\ k - 1 <= n /\ ~(k <= k - 1) /\ k \in 1 .. n
    BY <2>2, <2>3
  <2>5. any[1 .. (k - 1)] \in State
    BY <2>1, <2>4
  <2>6. QED  BY <1>2, <2>2, <2>4, <2>5
<1>4. \A k \in 0 .. n : any[1 .. k] \in State
  BY <1>3
<1>5. run \in [0 .. n -> State] /\ \A k \in 0 .. n : run[k] = any[1 .. k]
  BY <1>4
<1> HIDE DEF run
<1>6. run[0] = base /\ run[n] = any[1 .. n]
  BY <1>1, <1>5 DEF TakesSteps
<1>7. ASSUME NEW k \in 1 .. n PROVE run[k] = step[<<run[k - 1], k>>]
  <2>1. k \in 0 .. n /\ k - 1 \in 0 .. n
    OBVIOUS
  <2>2. QED  BY <1>2, <1>4, <1>5, <2>1
<1>8. QED  BY <1>5, <1>6, <1>7 DEF HasRun

-----------------------------------------------------------------------------
(* The order in which the tasks are placed *)

\* What the planner hands to the scheduler.
IsPlan(plan) ==
    /\ IsFiniteSet(TasksOf(plan)) /\ TasksOf(plan) \subseteq Int
    /\ \A t \in TasksOf(plan) : plan.hours[t] \in Int
    /\ plan.perDay \in Nat \ {0}
    /\ IsFiniteSet(plan.links)
    /\ \A l \in plan.links : l.lagDays \in Int /\ l.type \in LinkTypes
    /\ plan.allowParallel \in BOOLEAN
    /\ \A r \in DOMAIN plan.people : plan.people[r] \in Int

\* Among any tasks there is one that waits for none of them.
Acyclic(plan) ==
    \A S \in SUBSET TasksOf(plan) :
        S # {} => \E t \in S : \A l \in LinksInto(plan, t) : l.from \notin S

ReadyAfter(plan, done) == {t \in TasksOf(plan) \ done : \A l \in LinksInto(plan, t) : l.from \in done}
Extended(plan, order) ==
    IF ReadyAfter(plan, ToSet(order)) = {} THEN order
    ELSE Append(order, Min(ReadyAfter(plan, ToSet(order))))

LEMMA ExtendedFacts ==
    ASSUME NEW plan, IsPlan(plan), NEW order \in Seq(TasksOf(plan))
    PROVE  /\ Extended(plan, order) \in Seq(TasksOf(plan))
           /\ ReadyAfter(plan, ToSet(order)) # {} =>
                 Min(ReadyAfter(plan, ToSet(order))) \in ReadyAfter(plan, ToSet(order))
<1> DEFINE ready == ReadyAfter(plan, ToSet(order))
<1>1. IsFiniteSet(ready) /\ ready \subseteq Int /\ ready \subseteq TasksOf(plan)
  BY FS_Subset DEF IsPlan, ReadyAfter
<1> HIDE DEF ready
<1>2. ready # {} => Min(ready) \in ready
  BY <1>1, Extremes
<1> DEFINE first == Min(ready)
<1> HIDE DEF first
<1>3. ready # {} => first \in TasksOf(plan)
  BY <1>1, <1>2 DEF first
<1>4. Extended(plan, order) = IF ready = {} THEN order ELSE Append(order, first)
  BY DEF Extended, ready, first
<1>5. QED  BY <1>2, <1>3, <1>4 DEF ready

LEMMA SequenceOfSet ==
    ASSUME NEW S, IsFiniteSet(S)
    PROVE  /\ Cardinality(S) \in Nat
           /\ SetToSeq(S) \in [1 .. Cardinality(S) -> S]
<1>1. Cardinality(S) \in Nat /\ ExistsBijection(1 .. Cardinality(S), S)
  BY FS_CardinalityType
<1>2. PICK f : f \in Bijection(1 .. Cardinality(S), S)
  BY <1>1 DEF ExistsBijection
<1>3. f \in [1 .. Cardinality(S) -> S] /\ IsInjective(f)
  BY <1>2 DEF Bijection, Injection
<1>4. QED  BY <1>1, <1>3 DEF SetToSeq

LEMMA OrderRuns ==
    ASSUME NEW plan, IsPlan(plan)
    PROVE  \E run \in [0 .. Cardinality(TasksOf(plan)) -> Seq(TasksOf(plan))] :
              /\ run[0] = <<>>
              /\ \A k \in 1 .. Cardinality(TasksOf(plan)) : run[k] = Extended(plan, run[k - 1])
              /\ TopologicalOrder(plan) = run[Cardinality(TasksOf(plan))]
                    \o InOrderOfId(TasksOf(plan) \ ToSet(run[Cardinality(TasksOf(plan))]))
<1> DEFINE tasks == TasksOf(plan)
           seq == SetToSeq(tasks)
           n == Cardinality(tasks)
           State == Seq(tasks)
           Folds(any) == any = [s \in SUBSET DOMAIN seq |->
               IF s = {} THEN <<>>
               ELSE Extended(plan, any[s \ {Max(s)}])]
           any == CHOOSE any : Folds(any)
           step == [x \in State \X (1 .. n) |-> Extended(plan, x[1])]
<1>1. TopologicalOrder(plan) = any[DOMAIN seq] \o InOrderOfId(tasks \ ToSet(any[DOMAIN seq]))
  BY DEF TopologicalOrder, FoldLeft, MapThenFoldSet, Extended, ReadyAfter
<1>2. n \in Nat /\ DOMAIN seq = 1 .. n
  BY SequenceOfSet DEF IsPlan
<1>3. <<>> \in State
  OBVIOUS
<1>4. /\ step \in [State \X (1 .. n) -> State]
      /\ \A x \in State : \A k \in 1 .. n : step[<<x, k>>] = Extended(plan, x)
  <2>1. \A x \in State : Extended(plan, x) \in State
    BY ExtendedFacts
  <2> HIDE DEF State
  <2>2. QED  BY <2>1
<1> HIDE DEF step, seq, State, n
<1>5. PICK it \in [SUBSET (1 .. n) -> State] : IsFold(it, step, <<>>, 1 .. n)
  BY <1>2, <1>3, <1>4, FoldExists
<1>6. Folds(it)
  <2>1. \A s \in SUBSET (1 .. n) : s # {} =>
           step[<<it[Before(s)], Max(s)>>] = Extended(plan, it[Before(s)])
    <3>1. \A s \in SUBSET (1 .. n) : s # {} => Before(s) \in SUBSET (1 .. n) /\ Max(s) \in 1 .. n
      BY <1>2, Shorter
    <3>2. QED  BY <1>4, <1>5, <3>1
  <2>2. it = [s \in SUBSET (1 .. n) |-> IF s = {} THEN <<>> ELSE Extended(plan, it[Before(s)])]
    BY <1>5, <2>1 DEF IsFold
  <2>3. QED  BY <1>2, <2>2 DEF Before
<1>7. Folds(any)
  <2> HIDE DEF Folds
  <2>1. QED  BY <1>6
<1> HIDE DEF any
<1>8. \A s \in SUBSET (1 .. n) : any[s] = IF s = {} THEN <<>> ELSE Extended(plan, any[Before(s)])
  BY <1>2, <1>7 DEF Before
<1> DEFINE base == <<>>
<1>9. base \in State /\ TakesSteps(any, step, base, State, n)
  <2>1. \A s \in SUBSET (1 .. n) : s # {} => Max(s) \in 1 .. n
    BY <1>2, Shorter
  <2>2. any[{}] = base /\ base \in State
    BY <1>3, <1>8
  <2>3. QED  BY <1>4, <1>8, <2>1, <2>2 DEF TakesSteps
<1> HIDE DEF base
<1>10. PICK run \in [0 .. n -> State] :
          /\ run[0] = base /\ run[n] = any[1 .. n]
          /\ \A k \in 1 .. n : run[k] = step[<<run[k - 1], k>>]
  <2>1. n \in Nat /\ step \in [State \X (1 .. n) -> State]
    BY <1>2, <1>4
  <2>2. HasRun(any, step, base, State, n)
    BY <1>9, <2>1, FoldRuns
  <2>3. QED  BY <2>2 DEF HasRun
<1>11. \A k \in 1 .. n : run[k] = Extended(plan, run[k - 1])
  <2>1. \A k \in 1 .. n : k - 1 \in 0 .. n
    BY <1>2
  <2>2. QED  BY <1>4, <1>10, <2>1
<1>12. QED  BY <1>1, <1>2, <1>10, <1>11 DEF n, State, base

\* No task twice, and each after those it waits for.
IsOrdered(plan, order) ==
    /\ order \in Seq(TasksOf(plan))
    /\ \A i, j \in 1 .. Len(order) : order[i] = order[j] => i = j
    /\ \A i \in 1 .. Len(order) : \A l \in LinksInto(plan, order[i]) :
          \E j \in 1 .. (i - 1) : order[j] = l.from

LEMMA OrderedFacts ==
    ASSUME NEW plan, NEW order, IsOrdered(plan, order)
    PROVE  /\ Len(order) \in Nat /\ ToSet(order) = {order[i] : i \in 1 .. Len(order)}
           /\ ToSet(order) \subseteq TasksOf(plan)
           /\ IsFiniteSet(ToSet(order)) /\ Cardinality(ToSet(order)) = Len(order)
<1>1. /\ Len(order) \in Nat /\ DOMAIN order = 1 .. Len(order)
      /\ order \in [1 .. Len(order) -> TasksOf(plan)]
  BY DEF IsOrdered
<1>2. ToSet(order) = {order[i] : i \in 1 .. Len(order)}
  BY <1>1 DEF ToSet
<1>3. order \in [1 .. Len(order) -> ToSet(order)]
  BY <1>1, <1>2
<1>4. order \in Bijection(1 .. Len(order), ToSet(order))
  <2>1. \A i, j \in 1 .. Len(order) : order[i] = order[j] => i = j
    BY DEF IsOrdered
  <2>2. \A t \in ToSet(order) : \E i \in 1 .. Len(order) : order[i] = t
    BY <1>2
  <2>3. QED  BY <1>3, <2>1, <2>2, Fun_IsBij
<1>5. IsFiniteSet(1 .. Len(order)) /\ Cardinality(1 .. Len(order)) = Len(order)
  BY <1>1, FS_Interval
<1>6. IsFiniteSet(ToSet(order)) /\ Cardinality(ToSet(order)) = Cardinality(1 .. Len(order))
  BY <1>4, <1>5, FS_Bijection DEF ExistsBijection
<1>7. QED  BY <1>1, <1>2, <1>5, <1>6

LEMMA ExtendedIsOrdered ==
    ASSUME NEW plan, IsPlan(plan), Acyclic(plan), NEW order, IsOrdered(plan, order),
           Len(order) < Cardinality(TasksOf(plan))
    PROVE  IsOrdered(plan, Extended(plan, order)) /\ Len(Extended(plan, order)) = Len(order) + 1
<1> DEFINE n == Len(order)
           placed == ToSet(order)
           left == TasksOf(plan) \ placed
           ready == ReadyAfter(plan, placed)
           first == Min(ready)
           longer == Append(order, first)
<1>1. n \in Nat /\ Cardinality(placed) = n /\ placed \subseteq TasksOf(plan)
  BY OrderedFacts
<1>2. \A t \in placed : \E i \in 1 .. n : order[i] = t
  BY OrderedFacts
<1>3. \A i \in 1 .. n : order[i] \in placed
  BY OrderedFacts
<1>4. /\ order \in Seq(TasksOf(plan))
      /\ \A i, j \in 1 .. n : order[i] = order[j] => i = j
      /\ \A i \in 1 .. n : \A l \in LinksInto(plan, order[i]) : \E j \in 1 .. (i - 1) : order[j] = l.from
  BY DEF IsOrdered
<1>5. n < Cardinality(TasksOf(plan))
  OBVIOUS
<1> HIDE DEF n, placed
<1>6. left # {}
  <2>1. placed # TasksOf(plan)
    BY <1>1, <1>5
  <2>2. QED  BY <1>1, <2>1
<1>7. ready # {}
  <2>1. left \in SUBSET TasksOf(plan)
    OBVIOUS
  <2>2. PICK t \in left : \A l \in LinksInto(plan, t) : l.from \notin left
    BY <1>6, <2>1 DEF Acyclic
  <2>3. \A l \in LinksInto(plan, t) : l.from \in TasksOf(plan)
    BY DEF LinksInto
  <2>4. QED  BY <2>2, <2>3 DEF ReadyAfter
<1>8. first \in ready
  BY <1>4, <1>7, ExtendedFacts DEF placed
<1>9. Extended(plan, order) = longer
  BY <1>7 DEF Extended, placed
<1> HIDE DEF first
<1>10. /\ first \in TasksOf(plan) /\ first \notin placed
       /\ \A l \in LinksInto(plan, first) : l.from \in placed
  BY <1>8 DEF ReadyAfter
<1>11. /\ longer \in Seq(TasksOf(plan)) /\ Len(longer) = n + 1
       /\ longer[n + 1] = first /\ \A i \in 1 .. n : longer[i] = order[i]
  <2>1. order \in Seq(TasksOf(plan)) /\ first \in TasksOf(plan)
    BY <1>4, <1>10
  <2>2. QED  BY <2>1, AppendProperties DEF n
<1> HIDE DEF longer
<1>12. \A i \in 1 .. (n + 1) : i \in 1 .. n \/ i = n + 1
  BY <1>1
<1>13. \A i, j \in 1 .. (n + 1) : longer[i] = longer[j] => i = j
  <2>1. \A i \in 1 .. n : order[i] # first
    BY <1>3, <1>10
  <2>2. \A i \in 1 .. n : longer[i] = order[i] /\ longer[i] # longer[n + 1]
    BY <1>11, <2>1
  <2>3. \A i, j \in 1 .. n : longer[i] = longer[j] => i = j
    BY <1>4, <2>2
  <2>4. QED  BY <1>12, <2>2, <2>3
<1>14. ASSUME NEW i \in 1 .. (n + 1), NEW l \in LinksInto(plan, longer[i])
       PROVE  \E j \in 1 .. (i - 1) : longer[j] = l.from
  <2>1. CASE i \in 1 .. n
    <3>1. l \in LinksInto(plan, order[i])
      BY <1>11, <1>14, <2>1
    <3>2. PICK j \in 1 .. (i - 1) : order[j] = l.from
      BY <1>4, <2>1, <3>1
    <3>3. j \in 1 .. n
      BY <1>1, <2>1
    <3>4. QED  BY <1>11, <3>2, <3>3
  <2>2. CASE i = n + 1
    <3>1. l.from \in placed
      BY <1>10, <1>11, <1>14, <2>2
    <3>2. PICK j \in 1 .. n : order[j] = l.from
      BY <1>2, <3>1
    <3>3. j \in 1 .. (i - 1)
      BY <1>1, <2>2
    <3>4. QED  BY <1>11, <3>2, <3>3
  <2>3. QED  BY <1>12, <2>1, <2>2
<1>15. IsOrdered(plan, longer)
  BY <1>11, <1>13, <1>14 DEF IsOrdered
<1>16. QED  BY <1>9, <1>11, <1>15 DEF n

\* Every task of a plan without a loop is placed once, and after those it waits for.
LEMMA OrderFacts ==
    ASSUME NEW plan, IsPlan(plan), Acyclic(plan)
    PROVE  /\ IsOrdered(plan, TopologicalOrder(plan))
           /\ ToSet(TopologicalOrder(plan)) = TasksOf(plan)
<1> DEFINE n == Cardinality(TasksOf(plan))
<1>1. n \in Nat
  BY SequenceOfSet DEF IsPlan
<1>2. PICK run \in [0 .. n -> Seq(TasksOf(plan))] :
         /\ run[0] = <<>>
         /\ \A k \in 1 .. n : run[k] = Extended(plan, run[k - 1])
         /\ TopologicalOrder(plan) = run[n] \o InOrderOfId(TasksOf(plan) \ ToSet(run[n]))
  BY OrderRuns
<1> DEFINE Lost == {k \in Nat : k <= n /\ ~(IsOrdered(plan, run[k]) /\ Len(run[k]) = k)}
<1>3. Lost = {}
  <2> SUFFICES ASSUME Lost # {} PROVE FALSE
    OBVIOUS
  <2>1. PICK k \in Lost : \A m \in Lost : k <= m
    <3>1. Lost \subseteq Nat
      OBVIOUS
    <3> HIDE DEF Lost
    <3>2. QED  BY <3>1, Smallest
  <2>2. k \in Nat /\ k <= n /\ ~(IsOrdered(plan, run[k]) /\ Len(run[k]) = k)
    BY <2>1
  <2>3. k # 0
    <3>1. run[0] \in Seq(TasksOf(plan)) /\ Len(run[0]) = 0
      BY <1>2
    <3>2. IsOrdered(plan, run[0])
      BY <3>1 DEF IsOrdered
    <3>3. QED  BY <2>2, <3>1, <3>2
  <2>4. k - 1 \in Nat /\ k - 1 <= n /\ ~(k <= k - 1) /\ k \in 1 .. n
    BY <1>1, <2>2, <2>3
  <2>5. IsOrdered(plan, run[k - 1]) /\ Len(run[k - 1]) = k - 1
    BY <2>1, <2>4
  <2>6. run[k] = Extended(plan, run[k - 1]) /\ Len(run[k - 1]) < n
    BY <1>1, <1>2, <2>2, <2>4, <2>5
  <2>7. IsOrdered(plan, run[k]) /\ Len(run[k]) = Len(run[k - 1]) + 1
    BY <2>5, <2>6, ExtendedIsOrdered
  <2>8. QED  BY <2>2, <2>5, <2>7
<1>4. IsOrdered(plan, run[n]) /\ Len(run[n]) = n
  BY <1>1, <1>3
<1>5. ToSet(run[n]) = TasksOf(plan)
  <2>1. ToSet(run[n]) \subseteq TasksOf(plan) /\ Cardinality(ToSet(run[n])) = n
    BY <1>4, OrderedFacts
  <2>2. IsFiniteSet(TasksOf(plan))
    BY DEF IsPlan
  <2>3. QED  BY <2>1, <2>2, FS_Subset
<1>6. TopologicalOrder(plan) = run[n]
  <2>1. InOrderOfId({}) = <<>>
    <3>1. Cardinality({}) = 0
      BY FS_EmptySet
    <3>2. QED  BY <3>1 DEF InOrderOfId
  <2>2. run[n] \o <<>> = run[n]
    BY <1>4, ConcatEmptySeq DEF IsOrdered
  <2>3. TasksOf(plan) \ ToSet(run[n]) = {}
    BY <1>5
  <2>4. QED  BY <1>2, <2>1, <2>2, <2>3
<1>7. QED  BY <1>4, <1>5, <1>6

-----------------------------------------------------------------------------
(* Placing the tasks *)

LEMMA ImageIsFinite ==
    ASSUME NEW S, IsFiniteSet(S), NEW T, NEW f \in [S -> T]
    PROVE  IsFiniteSet({f[x] : x \in S})
<1> DEFINE image == {f[x] : x \in S}
<1>1. f \in [S -> image] /\ \A y \in image : \E x \in S : f[x] = y
  OBVIOUS
<1> HIDE DEF image
<1>2. f \in Surjection(S, image)
  BY <1>1, Fun_IsSurj
<1>3. IsFiniteSet(image)
  BY <1>2, FS_Surjection
<1>4. QED  BY <1>3 DEF image

LEMMA FirstFreeFacts ==
    ASSUME NEW m \in Nat \ {0}, NEW free \in [1 .. m -> Int], NEW earliest \in Int
    PROVE  LET person == FirstFree(free, earliest)
           IN  /\ person.slot \in 1 .. m /\ person.start \in Int
               /\ earliest <= person.start /\ free[person.slot] <= person.start
<1> DEFINE days == {free[i] : i \in 1 .. m}
           Free(i) == /\ \A j \in DOMAIN free : free[i] <= free[j]
                      /\ \A j \in 1 .. i - 1 : free[j] # free[i]
           slot == CHOOSE i \in DOMAIN free : Free(i)
<1>1. DOMAIN free = 1 .. m
  OBVIOUS
<1>2. \E i \in 1 .. m : Free(i)
  <2>1. IsFiniteSet(days)
    <3>1. IsFiniteSet(1 .. m)
      BY FS_Interval
    <3>2. QED  BY <3>1, ImageIsFinite
  <2>2. days \subseteq Int /\ free[1] \in days /\ 1 \in 1 .. m
    OBVIOUS
  <2> DEFINE day == Min(days)
  <2>3. day \in days /\ \A x \in days : day <= x
    <3> HIDE DEF days
    <3>1. QED  BY <2>1, <2>2, Extremes
  <2> HIDE DEF day
  <2> DEFINE held == {i \in 1 .. m : free[i] = day}
  <2>4. held \subseteq Nat /\ held # {}
    BY <2>3
  <2>5. PICK i \in held : \A j \in held : i <= j
    <3> HIDE DEF held
    <3>1. QED  BY <2>4, Smallest
  <2>6. \A j \in 1 .. m : free[i] <= free[j]
    BY <2>3, <2>5
  <2>7. ASSUME NEW j \in 1 .. (i - 1) PROVE free[j] # free[i]
    <3>1. j \in 1 .. m /\ ~(i <= j)
      BY <2>5
    <3>2. QED  BY <2>5, <3>1
  <2>8. QED  BY <1>1, <2>5, <2>6, <2>7
<1>3. slot \in 1 .. m
  <2> HIDE DEF Free
  <2>1. QED  BY <1>1, <1>2
<1>4. FirstFree(free, earliest) = [slot |-> slot, start |-> Max({earliest, free[slot]})]
  BY DEF FirstFree
<1> HIDE DEF slot
<1>5. free[slot] \in Int
  BY <1>3
<1> DEFINE start == Max({earliest, free[slot]})
<1>6. start \in Int /\ earliest <= start /\ free[slot] <= start
  BY <1>5, Larger
<1> HIDE DEF start
<1>7. QED  BY <1>3, <1>4, <1>6 DEF start

LEMMA PlanFacts ==
    ASSUME NEW plan, IsPlan(plan), NEW task \in TasksOf(plan)
    PROVE  /\ Duration(plan, task) \in Int /\ 1 <= Duration(plan, task)
           /\ plan.role[task] \in Roles(plan)
           /\ IsFiniteSet(LinksInto(plan, task))
           /\ \A l \in LinksInto(plan, task) : l.lagDays \in Int /\ l.type \in LinkTypes
<1>1. Duration(plan, task) \in Int /\ 1 <= Duration(plan, task)
  <2> DEFINE days == (plan.hours[task] + plan.perDay - 1) \div plan.perDay
  <2>1. plan.hours[task] + plan.perDay - 1 \in Int /\ plan.perDay \in Nat \ {0}
    BY DEF IsPlan
  <2>2. days \in Int
    BY <2>1, Quotient
  <2>3. Duration(plan, task) = Max({1, days})
    BY DEF Duration, DurationFor
  <2> HIDE DEF days
  <2>4. 1 \in Int
    OBVIOUS
  <2>5. Max({1, days}) \in Int /\ 1 <= Max({1, days})
    BY <2>2, <2>4, Larger
  <2>6. QED  BY <2>3, <2>5
<1>2. LinksInto(plan, task) \in SUBSET plan.links
  BY DEF LinksInto
<1>3. IsFiniteSet(LinksInto(plan, task))
  <2>1. IsFiniteSet(plan.links)
    BY DEF IsPlan
  <2>2. QED  BY <1>2, <2>1, FS_Subset
<1>4. QED  BY <1>1, <1>2, <1>3 DEF IsPlan, Roles

LEMMA PersonsFacts ==
    ASSUME NEW plan, IsPlan(plan), NEW role
    PROVE  PersonsOf(plan, role) \in Nat \ {0}
<1>1. CASE plan.allowParallel /\ role \in DOMAIN plan.people
  <2> DEFINE whole == plan.people[role] \div 100
  <2>1. plan.people[role] \in Int
    BY <1>1 DEF IsPlan
  <2>2. whole \in Int
    BY <2>1, Quotient
  <2>3. PersonsOf(plan, role) = Max({1, whole})
    BY <1>1 DEF PersonsOf
  <2> HIDE DEF whole
  <2>4. 1 \in Int
    OBVIOUS
  <2>5. Max({1, whole}) \in Int /\ 1 <= Max({1, whole})
    BY <2>2, <2>4, Larger
  <2>6. QED  BY <2>3, <2>5
<1>2. CASE ~(plan.allowParallel /\ role \in DOMAIN plan.people)
  <2>1. PersonsOf(plan, role) = 1
    BY <1>2 DEF PersonsOf
  <2>2. QED  BY <2>1
<1>3. QED  BY <1>1, <1>2

Dates == [start : Int, end : Int]

LEMMA ConstraintFacts ==
    ASSUME NEW type \in LinkTypes, NEW dates \in Dates, NEW duration \in Int
    PROVE  ConstraintDay(type, dates, duration) \in Int
<1> DEFINE e == dates.end - duration + 1
           s == dates.start - duration + 1
<1>1. e \in Int /\ s \in Int /\ 1 \in Int /\ dates.start \in Int /\ dates.end + 1 \in Int
  BY DEF Dates
<1>2. ConstraintDay(type, dates, duration) \in {dates.end + 1, dates.start, Max({1, e}), Max({1, s})}
  BY DEF ConstraintDay, LinkTypes
<1> HIDE DEF e, s
<1>3. Max({1, e}) \in Int /\ Max({1, s}) \in Int
  BY <1>1, Larger
<1>4. QED  BY <1>1, <1>2, <1>3

\* Where some of the tasks are placed, and when each person of each role is free.
PersonDays(plan, role) == [1 .. PersonsOf(plan, role) -> Int]
PlacedSoFar(plan) ==
    [at : UNION {[T -> Dates] : T \in SUBSET TasksOf(plan)},
     free : {f \in [Roles(plan) -> UNION {PersonDays(plan, r) : r \in Roles(plan)}] :
               \A r \in Roles(plan) : f[r] \in PersonDays(plan, r)}]

BoundsOn(plan, done, task) ==
    {ConstraintDay(l.type, done.at[l.from], Duration(plan, task)) + l.lagDays :
        l \in {k \in LinksInto(plan, task) : k.from \in DOMAIN done.at}}
PersonFor(plan, done, task) ==
    FirstFree(done.free[plan.role[task]], Max({1} \cup BoundsOn(plan, done, task)))
PlacedAt(plan, done, task, slot, start) ==
    LET end == start + Duration(plan, task) - 1
    IN  [at |-> [t \in DOMAIN done.at \cup {task} |->
                   IF t = task THEN [start |-> start, end |-> end] ELSE done.at[t]],
         free |-> [done.free EXCEPT ![plan.role[task]][slot] = end + 1]]
PlaceIn(plan, done, task) ==
    PlacedAt(plan, done, task, PersonFor(plan, done, task).slot, PersonFor(plan, done, task).start)

LEMMA PlacedTypes ==
    ASSUME NEW plan, NEW done \in PlacedSoFar(plan)
    PROVE  /\ DOMAIN done.at \subseteq TasksOf(plan) /\ done.at \in [DOMAIN done.at -> Dates]
           /\ \A r \in Roles(plan) : done.free[r] \in PersonDays(plan, r)
           /\ DOMAIN done.free = Roles(plan)
  BY DEF PlacedSoFar

LEMMA TypesPlaced ==
    ASSUME NEW plan, NEW at, NEW T \in SUBSET TasksOf(plan), at \in [T -> Dates],
           NEW free, free \in [Roles(plan) -> UNION {PersonDays(plan, r) : r \in Roles(plan)}],
           \A r \in Roles(plan) : free[r] \in PersonDays(plan, r)
    PROVE  [at |-> at, free |-> free] \in PlacedSoFar(plan)
  BY DEF PlacedSoFar

\* A task begins when the links into it allow, and a person of its role is free.
LEMMA PersonFacts ==
    ASSUME NEW plan, IsPlan(plan), NEW done \in PlacedSoFar(plan), NEW task \in TasksOf(plan)
    PROVE  LET person == PersonFor(plan, done, task)
           IN  /\ person.slot \in 1 .. PersonsOf(plan, plan.role[task])
               /\ person.start \in Int /\ 1 <= person.start
               /\ done.free[plan.role[task]][person.slot] <= person.start
               /\ \A l \in LinksInto(plan, task) : l.from \in DOMAIN done.at =>
                     ConstraintDay(l.type, done.at[l.from], Duration(plan, task)) + l.lagDays
                        <= person.start
<1> DEFINE duration == Duration(plan, task)
           links == {k \in LinksInto(plan, task) : k.from \in DOMAIN done.at}
           bounds == BoundsOn(plan, done, task)
           bound == [l \in links |-> ConstraintDay(l.type, done.at[l.from], duration) + l.lagDays]
           earliest == Max({1} \cup bounds)
           free == done.free[plan.role[task]]
           m == PersonsOf(plan, plan.role[task])
<1>1. \A l \in links : ConstraintDay(l.type, done.at[l.from], duration) + l.lagDays \in Int
  <2>1. TAKE l \in links
  <2>2. l.lagDays \in Int /\ l.type \in LinkTypes /\ done.at[l.from] \in Dates /\ duration \in Int
    BY PlanFacts, PlacedTypes
  <2>3. ConstraintDay(l.type, done.at[l.from], duration) \in Int
    BY <2>2, ConstraintFacts
  <2>4. QED  BY <2>2, <2>3
<1>2. IsFiniteSet(bounds) /\ bounds \subseteq Int
  <2>1. IsFiniteSet(links)
    <3>1. IsFiniteSet(LinksInto(plan, task)) /\ links \in SUBSET LinksInto(plan, task)
      BY PlanFacts
    <3>2. QED  BY <3>1, FS_Subset
  <2>2. bounds = {bound[l] : l \in links}
    BY DEF BoundsOn
  <2>3. bound \in [links -> Int]
    BY <1>1
  <2> HIDE DEF bound, links, bounds
  <2>4. IsFiniteSet({bound[l] : l \in links})
    BY <2>1, <2>3, ImageIsFinite
  <2>5. {bound[l] : l \in links} \subseteq Int
    BY <2>3
  <2>6. QED  BY <2>2, <2>4, <2>5
<1>3. \A l \in links : ConstraintDay(l.type, done.at[l.from], duration) + l.lagDays \in bounds
  BY DEF BoundsOn
<1> HIDE DEF bounds, bound
<1>4. earliest \in Int /\ 1 <= earliest /\ \A b \in bounds : b <= earliest
  <2> DEFINE all == {1} \cup bounds
  <2>1. IsFiniteSet({1} \cup bounds)
    <3>1. IsFiniteSet(bounds \cup {1})
      BY <1>2, FS_AddElement
    <3>2. bounds \cup {1} = {1} \cup bounds
      OBVIOUS
    <3>3. QED  BY <3>1, <3>2
  <2>2. all \subseteq Int /\ 1 \in all /\ \A b \in bounds : b \in all
    BY <1>2
  <2> HIDE DEF all
  <2>3. IsFiniteSet(all) /\ all # {}
    BY <2>1, <2>2 DEF all
  <2>4. Max(all) \in all /\ \A b \in all : b <= Max(all)
    BY <2>2, <2>3, Extremes
  <2>5. earliest = Max(all)
    BY DEF all
  <2> HIDE DEF earliest
  <2>6. QED  BY <2>2, <2>4, <2>5
<1> HIDE DEF earliest
<1>5. free \in [1 .. m -> Int] /\ m \in Nat \ {0}
  BY PlacedTypes, PersonsFacts, PlanFacts DEF PersonDays
<1>6. PersonFor(plan, done, task) = FirstFree(free, earliest)
  BY DEF PersonFor, earliest, bounds
<1> DEFINE person == FirstFree(free, earliest)
<1> HIDE DEF free, m
<1>7. /\ person.slot \in 1 .. m /\ person.start \in Int
      /\ earliest <= person.start /\ free[person.slot] <= person.start
  BY <1>4, <1>5, FirstFreeFacts
<1> HIDE DEF person
<1>8. 1 <= person.start
  BY <1>4, <1>7
<1>9. \A b \in bounds : b <= person.start
  BY <1>2, <1>4, <1>7
<1>10. \A l \in links : ConstraintDay(l.type, done.at[l.from], duration) + l.lagDays <= person.start
  BY <1>3, <1>9
<1>11. QED  BY <1>6, <1>7, <1>8, <1>10 DEF person, free, m

LEMMA PlaceTypes ==
    ASSUME NEW plan, IsPlan(plan), NEW done \in PlacedSoFar(plan), NEW task \in TasksOf(plan),
           NEW slot \in 1 .. PersonsOf(plan, plan.role[task]), NEW start \in Int
    PROVE  PlacedAt(plan, done, task, slot, start) \in PlacedSoFar(plan)
<1> DEFINE role == plan.role[task]
           end == start + Duration(plan, task) - 1
           at == [t \in DOMAIN done.at \cup {task} |->
                    IF t = task THEN [start |-> start, end |-> end] ELSE done.at[t]]
           free == [done.free EXCEPT ![role][slot] = end + 1]
           days == [done.free[role] EXCEPT ![slot] = end + 1]
           any == UNION {PersonDays(plan, r) : r \in Roles(plan)}
<1>1. role \in Roles(plan) /\ end \in Int /\ end + 1 \in Int
  BY PlanFacts
<1>2. at \in [DOMAIN done.at \cup {task} -> Dates] /\ DOMAIN done.at \cup {task} \in SUBSET TasksOf(plan)
  <2>1. [start |-> start, end |-> end] \in Dates
    BY <1>1 DEF Dates
  <2>2. DOMAIN done.at \subseteq TasksOf(plan) /\ \A t \in DOMAIN done.at : done.at[t] \in Dates
    BY PlacedTypes
  <2> HIDE DEF end
  <2>3. QED  BY <2>1, <2>2
<1>3. days \in PersonDays(plan, role)
  <2>1. done.free[role] \in [1 .. PersonsOf(plan, role) -> Int]
    BY <1>1, PlacedTypes DEF PersonDays
  <2> HIDE DEF end
  <2>2. QED  BY <1>1, <2>1 DEF PersonDays
<1>4. free = [done.free EXCEPT ![role] = days]
  OBVIOUS
<1> HIDE DEF days, free
<1>5. free \in [Roles(plan) -> any] /\ \A r \in Roles(plan) : free[r] \in PersonDays(plan, r)
  <2>1. done.free \in [Roles(plan) -> any] /\ \A r \in Roles(plan) : done.free[r] \in PersonDays(plan, r)
    BY DEF PlacedSoFar
  <2>2. days \in any
    BY <1>1, <1>3
  <2> HIDE DEF any
  <2>3. QED  BY <1>1, <1>3, <1>4, <2>1, <2>2
<1> DEFINE T == DOMAIN done.at \cup {task}
<1>6. at \in [T -> Dates] /\ T \in SUBSET TasksOf(plan)
  BY <1>2
<1> HIDE DEF at, T
<1>7. [at |-> at, free |-> free] \in PlacedSoFar(plan)
  BY <1>5, <1>6, TypesPlaced
<1>8. QED  BY <1>7 DEF PlacedAt, at, free

NothingPlaced(plan) ==
    [at |-> <<>>, free |-> [r \in Roles(plan) |-> [i \in 1 .. PersonsOf(plan, r) |-> 1]]]

LEMMA PlaceInTypes ==
    ASSUME NEW plan, IsPlan(plan), NEW done \in PlacedSoFar(plan), NEW task \in TasksOf(plan)
    PROVE  PlaceIn(plan, done, task) \in PlacedSoFar(plan)
<1> DEFINE person == PersonFor(plan, done, task)
<1>1. person.slot \in 1 .. PersonsOf(plan, plan.role[task]) /\ person.start \in Int
  BY PersonFacts
<1> DEFINE slot == person.slot
           start == person.start
<1>2. PlaceIn(plan, done, task) = PlacedAt(plan, done, task, slot, start)
  BY DEF PlaceIn
<1>3. slot \in 1 .. PersonsOf(plan, plan.role[task]) /\ start \in Int
  BY <1>1
<1> HIDE DEF slot, start
<1>4. QED  BY <1>2, <1>3, PlaceTypes

LEMMA NothingTypes ==
    ASSUME NEW plan, IsPlan(plan)
    PROVE  NothingPlaced(plan) \in PlacedSoFar(plan) /\ DOMAIN NothingPlaced(plan).at = {}
<1> DEFINE days(r) == [i \in 1 .. PersonsOf(plan, r) |-> 1]
           free == [r \in Roles(plan) |-> days(r)]
           any == UNION {PersonDays(plan, r) : r \in Roles(plan)}
           at == <<>>
<1>1. at \in [{} -> Dates] /\ DOMAIN at = {}
  <2>1. <<>> \in Seq(Dates) /\ Len(<<>>) = 0
    OBVIOUS
  <2>2. <<>> \in [1 .. 0 -> Dates]
    BY <2>1, LenProperties
  <2>3. 1 .. 0 = {}
    OBVIOUS
  <2>4. QED  BY <2>2, <2>3
<1>2. \A r \in Roles(plan) : days(r) \in PersonDays(plan, r)
  BY DEF PersonDays
<1> HIDE DEF days
<1>3. free \in [Roles(plan) -> any] /\ \A r \in Roles(plan) : free[r] \in PersonDays(plan, r)
  BY <1>2
<1> DEFINE T == {}
<1>4. T \in SUBSET TasksOf(plan) /\ at \in [T -> Dates]
  BY <1>1
<1>5. NothingPlaced(plan) = [at |-> at, free |-> free]
  BY DEF NothingPlaced, days
<1> HIDE DEF at, free, T
<1>6. [at |-> at, free |-> free] \in PlacedSoFar(plan)
  BY <1>3, <1>4, TypesPlaced
<1>7. QED  BY <1>1, <1>5, <1>6

LEMMA PlacementRuns ==
    ASSUME NEW plan, IsPlan(plan), NEW order, order = TopologicalOrder(plan),
           order \in Seq(TasksOf(plan))
    PROVE  \E run \in [0 .. Len(order) -> PlacedSoFar(plan)] :
              /\ run[0] = NothingPlaced(plan)
              /\ \A k \in 1 .. Len(order) : run[k] = PlaceIn(plan, run[k - 1], order[k])
              /\ Placement(plan) = run[Len(order)].at
<1> DEFINE n == Len(order)
           State == PlacedSoFar(plan)
           base == NothingPlaced(plan)
           Folds(any) == any = [s \in SUBSET DOMAIN order |->
               IF s = {} THEN base ELSE PlaceIn(plan, any[s \ {Max(s)}], order[Max(s)])]
           any == CHOOSE any : Folds(any)
           step == [x \in State \X (1 .. n) |-> PlaceIn(plan, x[1], order[x[2]])]
<1>1. Placement(plan) = any[DOMAIN order].at
  BY DEF Placement, FoldLeft, MapThenFoldSet, PlaceIn, PlacedAt, PersonFor, BoundsOn, NothingPlaced
<1>2. n \in Nat /\ DOMAIN order = 1 .. n /\ \A k \in 1 .. n : order[k] \in TasksOf(plan)
  OBVIOUS
<1>3. base \in State
  BY NothingTypes
<1>4. /\ step \in [State \X (1 .. n) -> State]
      /\ \A x \in State : \A k \in 1 .. n : step[<<x, k>>] = PlaceIn(plan, x, order[k])
  <2>1. \A x \in State : \A k \in 1 .. n : PlaceIn(plan, x, order[k]) \in State
    BY <1>2, PlaceInTypes
  <2> HIDE DEF State, n
  <2>2. QED  BY <2>1
<1> HIDE DEF step, State, n, base
<1>5. PICK it \in [SUBSET (1 .. n) -> State] : IsFold(it, step, base, 1 .. n)
  <2>1. n \in Nat /\ step \in [State \X (1 .. n) -> State]
    BY <1>2, <1>4
  <2>2. QED  BY <1>3, <2>1, FoldExists
<1>6. Folds(it)
  <2>1. \A s \in SUBSET (1 .. n) : s # {} =>
           step[<<it[Before(s)], Max(s)>>] = PlaceIn(plan, it[Before(s)], order[Max(s)])
    <3>1. \A s \in SUBSET (1 .. n) : s # {} => Before(s) \in SUBSET (1 .. n) /\ Max(s) \in 1 .. n
      BY <1>2, Shorter
    <3>2. QED  BY <1>4, <1>5, <3>1
  <2>2. it = [s \in SUBSET (1 .. n) |->
                 IF s = {} THEN base ELSE PlaceIn(plan, it[Before(s)], order[Max(s)])]
    BY <1>5, <2>1 DEF IsFold
  <2>3. QED  BY <1>2, <2>2 DEF Before
<1>7. Folds(any)
  <2> HIDE DEF Folds
  <2>1. QED  BY <1>6
<1> HIDE DEF any
<1>8. \A s \in SUBSET (1 .. n) :
         any[s] = IF s = {} THEN base ELSE PlaceIn(plan, any[Before(s)], order[Max(s)])
  BY <1>2, <1>7 DEF Before
<1>9. TakesSteps(any, step, base, State, n)
  <2>1. \A s \in SUBSET (1 .. n) : s # {} => Max(s) \in 1 .. n
    BY <1>2, Shorter
  <2>2. any[{}] = base
    BY <1>8
  <2>3. QED  BY <1>4, <1>8, <2>1, <2>2 DEF TakesSteps
<1>10. PICK run \in [0 .. n -> State] :
          /\ run[0] = base /\ run[n] = any[1 .. n]
          /\ \A k \in 1 .. n : run[k] = step[<<run[k - 1], k>>]
  <2>1. n \in Nat /\ step \in [State \X (1 .. n) -> State]
    BY <1>2, <1>4
  <2>2. HasRun(any, step, base, State, n)
    BY <1>3, <1>9, <2>1, FoldRuns
  <2>3. QED  BY <2>2 DEF HasRun
<1>11. \A k \in 1 .. n : run[k] = PlaceIn(plan, run[k - 1], order[k])
  <2>1. \A k \in 1 .. n : k - 1 \in 0 .. n
    BY <1>2
  <2>2. QED  BY <1>4, <1>10, <2>1
<1>12. run[0] = base /\ Placement(plan) = run[n].at
  BY <1>1, <1>2, <1>10
<1>13. QED  BY <1>10, <1>11, <1>12 DEF n, State, base

-----------------------------------------------------------------------------
(* What is placed stays right *)

\* Somebody does each task, and nobody two at once.
Staffed(plan, done, who) ==
    /\ \A t \in DOMAIN done.at :
          /\ who[t] \in 1 .. PersonsOf(plan, plan.role[t])
          /\ done.at[t].end < done.free[plan.role[t]][who[t]]
    /\ \A t, u \in DOMAIN done.at :
          t # u /\ plan.role[t] = plan.role[u] /\ who[t] = who[u] =>
             done.at[t].end < done.at[u].start \/ done.at[u].end < done.at[t].start
Waits(plan, done, t) ==
    /\ 1 <= done.at[t].start /\ done.at[t].end = done.at[t].start + Duration(plan, t) - 1
    /\ \A l \in LinksInto(plan, t) :
          /\ l.from \in DOMAIN done.at
          /\ ConstraintDay(l.type, done.at[l.from], Duration(plan, t)) + l.lagDays <= done.at[t].start
PlacedRight(plan, done) ==
    /\ \A t \in DOMAIN done.at : Waits(plan, done, t)
    /\ \E who \in [DOMAIN done.at -> Nat] : Staffed(plan, done, who)

LEMMA PlacedAtFacts ==
    ASSUME NEW plan, IsPlan(plan), NEW done \in PlacedSoFar(plan), NEW task \in TasksOf(plan),
           NEW slot \in 1 .. PersonsOf(plan, plan.role[task]), NEW start \in Int
    PROVE  LET next == PlacedAt(plan, done, task, slot, start)
           IN  /\ DOMAIN next.at = DOMAIN done.at \cup {task}
               /\ \A t \in DOMAIN done.at : t # task => next.at[t] = done.at[t]
               /\ next.at[task] = [start |-> start, end |-> start + Duration(plan, task) - 1]
               /\ next.free[plan.role[task]][slot] = start + Duration(plan, task)
               /\ \A r \in Roles(plan) : \A i \in 1 .. PersonsOf(plan, r) :
                     r # plan.role[task] \/ i # slot => next.free[r][i] = done.free[r][i]
<1> DEFINE role == plan.role[task]
           end == start + Duration(plan, task) - 1
           at == [t \in DOMAIN done.at \cup {task} |->
                    IF t = task THEN [start |-> start, end |-> end] ELSE done.at[t]]
           free == [done.free EXCEPT ![role][slot] = end + 1]
<1>1. PlacedAt(plan, done, task, slot, start) = [at |-> at, free |-> free]
  BY DEF PlacedAt
<1>2. role \in Roles(plan) /\ Duration(plan, task) \in Int
  BY PlanFacts
<1>3. end + 1 = start + Duration(plan, task)
  BY <1>2
<1>4. /\ DOMAIN at = DOMAIN done.at \cup {task}
      /\ \A t \in DOMAIN done.at : t # task => at[t] = done.at[t]
      /\ at[task] = [start |-> start, end |-> end]
  OBVIOUS
<1> HIDE DEF end
<1>5. /\ free[role][slot] = end + 1
      /\ \A r \in Roles(plan) : \A i \in 1 .. PersonsOf(plan, r) :
            r # role \/ i # slot => free[r][i] = done.free[r][i]
  <2>1. DOMAIN done.free = Roles(plan)
        /\ \A r \in Roles(plan) : done.free[r] \in [1 .. PersonsOf(plan, r) -> Int]
    BY PlacedTypes DEF PersonDays
  <2> HIDE DEF role
  <2>2. slot \in 1 .. PersonsOf(plan, role)
    BY DEF role
  <2>3. QED  BY <1>2, <2>1, <2>2
<1> DEFINE next == PlacedAt(plan, done, task, slot, start)
<1> HIDE DEF at, free
<1>6. next.at = at /\ next.free = free
  BY <1>1
<1> HIDE DEF next
<1>7. [start |-> start, end |-> end] = [start |-> start, end |-> start + Duration(plan, task) - 1]
  BY DEF end
<1> HIDE DEF role
<1>8. QED  BY <1>3, <1>4, <1>5, <1>6, <1>7 DEF next, role

\* Placing a task after all those it waits for leaves what is placed as it was, and right.
LEMMA PlacingStaysRight ==
    ASSUME NEW plan, IsPlan(plan), NEW done \in PlacedSoFar(plan), PlacedRight(plan, done),
           NEW task \in TasksOf(plan), task \notin DOMAIN done.at,
           \A l \in LinksInto(plan, task) : l.from \in DOMAIN done.at
    PROVE  /\ DOMAIN PlaceIn(plan, done, task).at = DOMAIN done.at \cup {task}
           /\ PlacedRight(plan, PlaceIn(plan, done, task))
<1> DEFINE role == plan.role[task]
           duration == Duration(plan, task)
           slot == PersonFor(plan, done, task).slot
           start == PersonFor(plan, done, task).start
           next == PlaceIn(plan, done, task)
           before == DOMAIN done.at
<1>1. /\ slot \in 1 .. PersonsOf(plan, role) /\ start \in Int /\ 1 <= start
      /\ done.free[role][slot] <= start
      /\ \A l \in LinksInto(plan, task) : l.from \in before =>
            ConstraintDay(l.type, done.at[l.from], duration) + l.lagDays <= start
  BY PersonFacts
<1>2. role \in Roles(plan) /\ duration \in Int /\ 1 <= duration
  BY PlanFacts
<1>3. next = PlacedAt(plan, done, task, slot, start)
  BY DEF PlaceIn
<1>4. /\ before \subseteq TasksOf(plan) /\ \A t \in before : done.at[t] \in Dates
      /\ \A r \in Roles(plan) : done.free[r] \in [1 .. PersonsOf(plan, r) -> Int]
      /\ \A t \in before : plan.role[t] \in Roles(plan)
  BY PlacedTypes DEF PersonDays, Roles
<1> HIDE DEF slot, start, next
<1>5. /\ DOMAIN next.at = before \cup {task}
      /\ \A t \in before : t # task => next.at[t] = done.at[t]
      /\ next.at[task] = [start |-> start, end |-> start + duration - 1]
      /\ next.free[role][slot] = start + duration
      /\ \A r \in Roles(plan) : \A i \in 1 .. PersonsOf(plan, r) :
            r # role \/ i # slot => next.free[r][i] = done.free[r][i]
  <2>1. slot \in 1 .. PersonsOf(plan, plan.role[task]) /\ start \in Int
    BY <1>1
  <2>2. QED  BY <1>3, <2>1, PlacedAtFacts
<1>6. \A t \in before : t # task /\ next.at[t] = done.at[t]
  BY <1>5
<1>7. next.at[task].start = start /\ next.at[task].end = start + duration - 1
  BY <1>5
<1>8. \A t \in before : Waits(plan, done, t)
  BY DEF PlacedRight
<1>9. PICK who \in [before -> Nat] : Staffed(plan, done, who)
  BY DEF PlacedRight
<1> HIDE DEF before, role, duration
<1>10. \A l \in LinksInto(plan, task) : l.from \in before
  BY DEF before
<1>11. Waits(plan, next, task)
  <2>1. ASSUME NEW l \in LinksInto(plan, task)
        PROVE  /\ l.from \in DOMAIN next.at
               /\ ConstraintDay(l.type, next.at[l.from], duration) + l.lagDays <= start
    <3>1. l.from \in before /\ next.at[l.from] = done.at[l.from]
      BY <1>6, <1>10
    <3>2. QED  BY <1>1, <1>5, <3>1
  <2>2. QED  BY <1>1, <1>7, <2>1 DEF Waits, duration
<1>12. ASSUME NEW t \in before PROVE Waits(plan, next, t)
  <2>1. Waits(plan, done, t) /\ next.at[t] = done.at[t]
    BY <1>6, <1>8
  <2>2. ASSUME NEW l \in LinksInto(plan, t)
        PROVE  l.from \in before /\ next.at[l.from] = done.at[l.from]
    <3>1. l.from \in before
      BY <2>1 DEF Waits, before
    <3>2. QED  BY <1>6, <3>1
  <2>3. QED  BY <1>5, <2>1, <2>2 DEF Waits
<1> DEFINE whom == [t \in before \cup {task} |-> IF t = task THEN slot ELSE who[t]]
<1>13. whom \in [before \cup {task} -> Nat] /\ whom[task] = slot /\ \A t \in before : whom[t] = who[t]
  <2>1. slot \in Nat
    <3>1. PersonsOf(plan, role) \in Nat
      BY PersonsFacts DEF role
    <3>2. QED  BY <1>1, <3>1
  <2>2. QED  BY <1>6, <2>1
<1> HIDE DEF whom
<1>14. ASSUME NEW t \in before
       PROVE  /\ who[t] \in 1 .. PersonsOf(plan, plan.role[t])
              /\ done.at[t].start \in Int /\ done.at[t].end \in Int
              /\ done.free[plan.role[t]][who[t]] \in Int
              /\ done.at[t].end < done.free[plan.role[t]][who[t]]
              /\ done.at[t].end < next.free[plan.role[t]][who[t]]
              /\ plan.role[t] = role /\ who[t] = slot => done.at[t].end < start
  <2>1. who[t] \in 1 .. PersonsOf(plan, plan.role[t]) /\ done.at[t].end < done.free[plan.role[t]][who[t]]
    BY <1>9 DEF Staffed, before
  <2>2. /\ done.at[t].start \in Int /\ done.at[t].end \in Int
        /\ done.free[plan.role[t]][who[t]] \in Int
    BY <1>4, <2>1 DEF Dates
  <2>3. CASE plan.role[t] = role /\ who[t] = slot
    <3>1. done.at[t].end < start
      BY <1>1, <2>1, <2>2, <2>3
    <3>2. start < next.free[role][slot]
      BY <1>1, <1>2, <1>5
    <3>3. next.free[role][slot] \in Int
      BY <1>1, <1>2, <1>5
    <3>4. done.at[t].end < next.free[plan.role[t]][who[t]]
      BY <1>1, <2>2, <2>3, <3>1, <3>2, <3>3
    <3>5. QED  BY <2>1, <2>2, <3>1, <3>4
  <2>4. CASE ~(plan.role[t] = role /\ who[t] = slot)
    <3>1. next.free[plan.role[t]][who[t]] = done.free[plan.role[t]][who[t]]
      BY <1>4, <1>5, <2>1, <2>4
    <3>2. QED  BY <2>1, <2>2, <2>4, <3>1
  <2>5. QED  BY <2>3, <2>4
<1>15. ASSUME NEW t \in before \cup {task}
       PROVE  /\ whom[t] \in 1 .. PersonsOf(plan, plan.role[t])
              /\ next.at[t].end < next.free[plan.role[t]][whom[t]]
  <2>1. CASE t \in before
    BY <1>6, <1>13, <1>14, <2>1
  <2>2. CASE t = task
    BY <1>1, <1>2, <1>5, <1>7, <1>13, <2>2 DEF role
  <2>3. QED  BY <2>1, <2>2
<1>16. ASSUME NEW t \in before \cup {task}, NEW u \in before \cup {task},
              t # u, plan.role[t] = plan.role[u], whom[t] = whom[u]
       PROVE  next.at[t].end < next.at[u].start \/ next.at[u].end < next.at[t].start
  <2>1. CASE t \in before /\ u \in before
    <3>1. who[t] = who[u]
      BY <1>13, <1>16, <2>1
    <3>2. done.at[t].end < done.at[u].start \/ done.at[u].end < done.at[t].start
      BY <1>9, <1>16, <2>1, <3>1 DEF Staffed, before
    <3>3. QED  BY <1>6, <2>1, <3>2
  <2>2. CASE t \in before /\ u = task
    <3>1. plan.role[t] = role /\ who[t] = slot
      BY <1>13, <1>16, <2>2 DEF role
    <3>2. QED  BY <1>6, <1>7, <1>14, <2>2, <3>1
  <2>3. CASE t = task /\ u \in before
    <3>1. plan.role[u] = role /\ who[u] = slot
      BY <1>13, <1>16, <2>3 DEF role
    <3>2. QED  BY <1>6, <1>7, <1>14, <2>3, <3>1
  <2>4. QED  BY <1>16, <2>1, <2>2, <2>3
<1>17. Staffed(plan, next, whom)
  BY <1>5, <1>15, <1>16 DEF Staffed
<1>18. \A t \in DOMAIN next.at : Waits(plan, next, t)
  BY <1>5, <1>11, <1>12
<1>19. whom \in [DOMAIN next.at -> Nat] /\ DOMAIN next.at = before \cup {task}
  BY <1>5, <1>13
<1>20. PlacedRight(plan, next)
  BY <1>17, <1>18, <1>19 DEF PlacedRight
<1>21. QED  BY <1>19, <1>20 DEF next, before

LEMMA PlacementIsRight ==
    ASSUME NEW plan, IsPlan(plan), Acyclic(plan)
    PROVE  \E done \in PlacedSoFar(plan) :
              /\ Placement(plan) = done.at /\ DOMAIN done.at = TasksOf(plan)
              /\ PlacedRight(plan, done)
<1> DEFINE order == TopologicalOrder(plan)
           n == Len(order)
<1>1. IsOrdered(plan, order) /\ ToSet(order) = TasksOf(plan)
  BY OrderFacts
<1> HIDE DEF order
<1>2. /\ order \in Seq(TasksOf(plan)) /\ n \in Nat
      /\ \A i, j \in 1 .. n : order[i] = order[j] => i = j
      /\ \A i \in 1 .. n : \A l \in LinksInto(plan, order[i]) : \E j \in 1 .. (i - 1) : order[j] = l.from
      /\ \A i \in 1 .. n : order[i] \in TasksOf(plan)
      /\ TasksOf(plan) = {order[i] : i \in 1 .. n}
  <2>1. n \in Nat /\ ToSet(order) = {order[i] : i \in 1 .. n}
    BY <1>1, OrderedFacts
  <2>2. QED  BY <1>1, <2>1 DEF IsOrdered
<1>3. PICK run \in [0 .. n -> PlacedSoFar(plan)] :
         /\ run[0] = NothingPlaced(plan)
         /\ \A k \in 1 .. n : run[k] = PlaceIn(plan, run[k - 1], order[k])
         /\ Placement(plan) = run[n].at
  BY <1>2, PlacementRuns DEF order
<1> HIDE DEF n
<1> DEFINE Right(k) == DOMAIN run[k].at = {order[i] : i \in 1 .. k} /\ PlacedRight(plan, run[k])
           Lost == {k \in Nat : k <= n /\ ~Right(k)}
<1>4. Right(0)
  <2>1. run[0] \in PlacedSoFar(plan) /\ DOMAIN run[0].at = {}
    BY <1>3, NothingTypes
  <2>2. {order[i] : i \in 1 .. 0} = {}
    OBVIOUS
  <2>3. [t \in {} |-> 1] \in [{} -> Nat] /\ Staffed(plan, run[0], [t \in {} |-> 1])
    BY <2>1 DEF Staffed
  <2>4. PlacedRight(plan, run[0])
    BY <2>1, <2>3 DEF PlacedRight
  <2>5. QED  BY <2>1, <2>2, <2>4
<1>5. ASSUME NEW k \in 1 .. n, Right(k - 1) PROVE Right(k)
  <2>1. /\ run[k - 1] \in PlacedSoFar(plan) /\ PlacedRight(plan, run[k - 1])
        /\ DOMAIN run[k - 1].at = {order[i] : i \in 1 .. (k - 1)}
        /\ run[k] = PlaceIn(plan, run[k - 1], order[k]) /\ order[k] \in TasksOf(plan)
    <3>1. k - 1 \in 0 .. n
      BY <1>2
    <3>2. QED  BY <1>2, <1>3, <1>5, <3>1
  <2>2. order[k] \notin DOMAIN run[k - 1].at
    <3>1. \A i \in 1 .. (k - 1) : i \in 1 .. n /\ i # k
      BY <1>2
    <3>2. QED  BY <1>2, <2>1, <3>1
  <2>3. \A l \in LinksInto(plan, order[k]) : l.from \in DOMAIN run[k - 1].at
    BY <1>2, <2>1
  <2>4. /\ DOMAIN run[k].at = DOMAIN run[k - 1].at \cup {order[k]}
        /\ PlacedRight(plan, run[k])
    BY <2>1, <2>2, <2>3, PlacingStaysRight
  <2>5. {order[i] : i \in 1 .. (k - 1)} \cup {order[k]} = {order[i] : i \in 1 .. k}
    <3>1. \A i : i \in 1 .. k <=> i \in 1 .. (k - 1) \/ i = k
      BY <1>2
    <3>2. QED  BY <3>1
  <2>6. QED  BY <2>1, <2>4, <2>5
<1> HIDE DEF Right
<1>6. Lost = {}
  <2> SUFFICES ASSUME Lost # {} PROVE FALSE
    OBVIOUS
  <2>1. PICK k \in Lost : \A m \in Lost : k <= m
    <3>1. Lost \subseteq Nat
      OBVIOUS
    <3> HIDE DEF Lost
    <3>2. QED  BY <3>1, Smallest
  <2>2. k \in Nat /\ k <= n /\ ~Right(k)
    BY <2>1
  <2>3. k # 0
    BY <1>4, <2>2
  <2>4. k - 1 \in Nat /\ k - 1 <= n /\ ~(k <= k - 1) /\ k \in 1 .. n
    BY <1>2, <2>2, <2>3
  <2>5. Right(k - 1)
    BY <2>1, <2>4
  <2>6. QED  BY <1>5, <2>2, <2>4, <2>5
<1>7. Right(n) /\ run[n] \in PlacedSoFar(plan)
  BY <1>2, <1>3, <1>6
<1>8. DOMAIN run[n].at = TasksOf(plan) /\ PlacedRight(plan, run[n])
  BY <1>2, <1>7 DEF Right
<1>9. QED  BY <1>3, <1>7, <1>8

\* Every link is respected, and on no day has a role more work than it has people.
LEMMA PlacedIsFollowed ==
    ASSUME NEW plan, IsPlan(plan), Acyclic(plan)
    PROVE  /\ Followed(plan, Placement(plan))
           /\ \A r \in Roles(plan) : \A day \in Int :
                 Cardinality(AtOnce(plan, Placement(plan), r, day)) <= PersonsOf(plan, r)
<1> DEFINE placed == Placement(plan)
<1>1. PICK done \in PlacedSoFar(plan) :
         placed = done.at /\ DOMAIN done.at = TasksOf(plan) /\ PlacedRight(plan, done)
  BY PlacementIsRight
<1> HIDE DEF placed
<1>2. \A t \in TasksOf(plan) : Waits(plan, done, t) /\ placed[t] \in Dates
  BY <1>1, PlacedTypes DEF PlacedRight
<1>3. PICK who \in [TasksOf(plan) -> Nat] : Staffed(plan, done, who)
  BY <1>1 DEF PlacedRight
<1>4. ASSUME NEW l \in plan.links, {l.from, l.to} \subseteq TasksOf(plan)
      PROVE  Respected(plan, placed, l)
  <2> DEFINE bound == ConstraintDay(l.type, placed[l.from], Duration(plan, l.to)) + l.lagDays
  <2>1. l.to \in TasksOf(plan) /\ l.from \in TasksOf(plan) /\ l \in LinksInto(plan, l.to)
    BY <1>4 DEF LinksInto
  <2>2. bound <= placed[l.to].start
    BY <1>1, <1>2, <2>1 DEF Waits
  <2>3. bound \in Int /\ placed[l.to].start \in Int
    <3>1. /\ l.lagDays \in Int /\ l.type \in LinkTypes /\ placed[l.from] \in Dates
          /\ Duration(plan, l.to) \in Int
      BY <1>2, <2>1, PlanFacts
    <3>2. ConstraintDay(l.type, placed[l.from], Duration(plan, l.to)) \in Int
      BY <3>1, ConstraintFacts
    <3>3. QED  BY <1>2, <2>1, <3>1, <3>2 DEF Dates
  <2>4. Respected(plan, placed, l) <=> placed[l.to].start >= bound
    BY DEF Respected
  <2> HIDE DEF bound
  <2>5. QED  BY <2>2, <2>3, <2>4
<1>5. ASSUME NEW r \in Roles(plan), NEW day \in Int
      PROVE  Cardinality(AtOnce(plan, placed, r, day)) <= PersonsOf(plan, r)
  <2> DEFINE T == AtOnce(plan, placed, r, day)
             m == PersonsOf(plan, r)
             f == [t \in T |-> who[t]]
  <2>1. m \in Nat
    BY PersonsFacts
  <2>2. \A t \in T : /\ t \in TasksOf(plan) /\ plan.role[t] = r
                     /\ placed[t].start <= day /\ day <= placed[t].end
    BY <1>2 DEF AtOnce, Dates
  <2> HIDE DEF T
  <2>3. \A t \in T : who[t] \in 1 .. m
    BY <1>1, <1>3, <2>2 DEF Staffed
  <2>4. ASSUME NEW t \in T, NEW u \in T, who[t] = who[u] PROVE t = u
    <3>1. SUFFICES ASSUME t # u PROVE FALSE
      OBVIOUS
    <3>2. placed[t].end < placed[u].start \/ placed[u].end < placed[t].start
      BY <1>1, <1>3, <2>2, <2>4, <3>1 DEF Staffed
    <3>3. /\ placed[t].start \in Int /\ placed[t].end \in Int
          /\ placed[u].start \in Int /\ placed[u].end \in Int
      BY <1>2, <2>2 DEF Dates
    <3>4. QED  BY <2>2, <3>2, <3>3
  <2>5. f \in [T -> 1 .. m] /\ \A t, u \in T : f[t] = f[u] => t = u
    BY <2>3, <2>4
  <2> HIDE DEF f, m
  <2>6. f \in Injection(T, 1 .. m)
    BY <2>5, Fun_IsInj
  <2>7. IsFiniteSet(1 .. m) /\ Cardinality(1 .. m) = m
    BY <2>1, FS_Interval
  <2>8. Cardinality(T) <= m
    BY <2>6, <2>7, FS_Injection
  <2>9. QED  BY <2>8 DEF T, m
<1>6. QED  BY <1>4, <1>5 DEF Followed, placed

-----------------------------------------------------------------------------
(* The search for loops *)

EdgesOf(plan) ==
    {<<l.from, l.to>> : l \in {k \in plan.links : {k.from, k.to} \subseteq TasksOf(plan)}}
SearchStates(plan) ==
    [path : Seq(TasksOf(plan)), seen : SUBSET TasksOf(plan), taken : SUBSET EdgesOf(plan),
     cycles : SUBSET SUBSET TasksOf(plan)]

\* A step of the search.
Searched(plan, s) ==
    IF s.path = <<>>
    THEN IF TasksOf(plan) \subseteq s.seen THEN s
         ELSE [s EXCEPT !.path = <<Min(TasksOf(plan) \ s.seen)>>,
                        !.seen = @ \cup {Min(TasksOf(plan) \ s.seen)}]
    ELSE LET node == Last(s.path)
             children == {e \in EdgesOf(plan) \ s.taken : e[1] = node}
         IN  IF children = {} THEN [s EXCEPT !.path = Front(@)]
             ELSE LET edge == CHOOSE e \in children : TRUE
                      met == {n \in DOMAIN s.path : s.path[n] = edge[2]}
                      next == [s EXCEPT !.taken = @ \cup {edge}]
                  IN  IF met # {}
                      THEN [next EXCEPT !.cycles = @ \cup
                              {ToSet(SubSeq(s.path, Max(met), Len(s.path)))}]
                      ELSE IF edge[2] \in s.seen THEN next
                      ELSE [next EXCEPT !.seen = @ \cup {edge[2]},
                                        !.path = Append(@, edge[2])]

\* What a step does: nothing at the end, begin from a task, go back, or take a link, to a task of
\* the path, to another that was seen, or to a new one.
Becomes(n, path, seen, taken, cycles) ==
    n = [path |-> path, seen |-> seen, taken |-> taken, cycles |-> cycles]
Untaken(plan, s) == {e \in EdgesOf(plan) \ s.taken : e[1] = Last(s.path)}

Ends(plan, s, n) == s.path = <<>> /\ TasksOf(plan) \subseteq s.seen /\ n = s
Begins(plan, s, n) ==
    \E x \in TasksOf(plan) \ s.seen :
        s.path = <<>> /\ Becomes(n, <<x>>, s.seen \cup {x}, s.taken, s.cycles)
Returns(plan, s, n) ==
    s.path # <<>> /\ Untaken(plan, s) = {} /\ Becomes(n, Front(s.path), s.seen, s.taken, s.cycles)
Loops(plan, s, n) ==
    \E e \in Untaken(plan, s) : \E m \in 1 .. Len(s.path) :
        /\ s.path # <<>> /\ s.path[m] = e[2]
        /\ Becomes(n, s.path, s.seen, s.taken \cup {e},
                   s.cycles \cup {ToSet(SubSeq(s.path, m, Len(s.path)))})
Passes(plan, s, n) ==
    \E e \in Untaken(plan, s) :
        /\ s.path # <<>> /\ e[2] \in s.seen /\ \A m \in 1 .. Len(s.path) : s.path[m] # e[2]
        /\ Becomes(n, s.path, s.seen, s.taken \cup {e}, s.cycles)
Goes(plan, s, n) ==
    \E e \in Untaken(plan, s) :
        /\ s.path # <<>> /\ e[2] \notin s.seen
        /\ Becomes(n, Append(s.path, e[2]), s.seen \cup {e[2]}, s.taken \cup {e}, s.cycles)

LEMMA SearchCases ==
    ASSUME NEW plan, IsPlan(plan), NEW s \in SearchStates(plan)
    PROVE  \/ Ends(plan, s, Searched(plan, s)) \/ Begins(plan, s, Searched(plan, s))
           \/ Returns(plan, s, Searched(plan, s)) \/ Loops(plan, s, Searched(plan, s))
           \/ Passes(plan, s, Searched(plan, s)) \/ Goes(plan, s, Searched(plan, s))
<1> DEFINE live == TasksOf(plan)
           path == s.path
           x == Min(live \ s.seen)
<1>1. path \in Seq(live) /\ s.seen \in SUBSET live
  BY DEF SearchStates
<1>2. CASE path = <<>> /\ live \subseteq s.seen
  BY <1>2 DEF Ends, Searched
<1>3. CASE path = <<>> /\ ~(live \subseteq s.seen)
  <2> DEFINE left == live \ s.seen
  <2>1. IsFiniteSet(left) /\ left \subseteq Int /\ left # {}
    BY <1>3, FS_Subset DEF IsPlan
  <2>2. x \in live \ s.seen
    <3> HIDE DEF left
    <3>1. Min(left) \in left
      BY <2>1, Extremes
    <3>2. QED  BY <3>1 DEF left
  <2>3. Becomes(Searched(plan, s), <<x>>, s.seen \cup {x}, s.taken, s.cycles)
    BY <1>3 DEF Searched, SearchStates, Becomes
  <2> HIDE DEF x
  <2>4. QED  BY <1>3, <2>2, <2>3 DEF Begins
<1>4. CASE path # <<>> /\ Untaken(plan, s) = {}
  <2>1. Searched(plan, s) = [s EXCEPT !.path = Front(s.path)]
    BY <1>4 DEF Searched, Untaken
  <2>2. Becomes(Searched(plan, s), Front(s.path), s.seen, s.taken, s.cycles)
    BY <2>1 DEF SearchStates, Becomes
  <2>3. QED  BY <1>4, <2>2 DEF Returns
<1>5. CASE path # <<>> /\ Untaken(plan, s) # {}
  <2> DEFINE e == CHOOSE e \in Untaken(plan, s) : TRUE
             met == {n \in DOMAIN path : path[n] = e[2]}
             next == [s EXCEPT !.taken = s.taken \cup {e}]
             m == Max(met)
  <2>1. e \in Untaken(plan, s)
    BY <1>5
  <2>2. Searched(plan, s) =
           IF met # {}
           THEN [next EXCEPT !.cycles = s.cycles \cup {ToSet(SubSeq(path, m, Len(path)))}]
           ELSE IF e[2] \in s.seen THEN next
           ELSE [next EXCEPT !.seen = s.seen \cup {e[2]}, !.path = Append(path, e[2])]
    BY <1>5 DEF Searched, Untaken, SearchStates
  <2> HIDE DEF e
  <2>3. DOMAIN path = 1 .. Len(path) /\ Len(path) \in Nat
    BY <1>1
  <2>4. CASE met # {}
    <3>1. IsFiniteSet(met) /\ met \subseteq Int
      <4>1. IsFiniteSet(1 .. Len(path)) /\ met \in SUBSET (1 .. Len(path))
        BY <2>3, FS_Interval
      <4>2. QED  BY <4>1, FS_Subset
    <3> DEFINE among == met
    <3>2. m \in met
      <4> HIDE DEF met
      <4>1. QED  BY <2>4, <3>1, Extremes
    <3> HIDE DEF m
    <3>3. m \in 1 .. Len(path) /\ path[m] = e[2]
      BY <2>3, <3>2
    <3>4. Becomes(Searched(plan, s), s.path, s.seen, s.taken \cup {e},
                  s.cycles \cup {ToSet(SubSeq(s.path, m, Len(s.path)))})
      BY <2>2, <2>4 DEF SearchStates, Becomes
    <3>5. QED  BY <1>5, <2>1, <3>3, <3>4 DEF Loops
  <2>5. CASE met = {} /\ e[2] \in s.seen
    <3>1. Becomes(Searched(plan, s), s.path, s.seen, s.taken \cup {e}, s.cycles)
      BY <2>2, <2>5 DEF SearchStates, Becomes
    <3>2. \A k \in 1 .. Len(path) : path[k] # e[2]
      BY <2>3, <2>5
    <3>3. QED  BY <1>5, <2>1, <2>5, <3>1, <3>2 DEF Passes
  <2>6. CASE met = {} /\ e[2] \notin s.seen
    <3>1. Becomes(Searched(plan, s), Append(s.path, e[2]), s.seen \cup {e[2]}, s.taken \cup {e},
                  s.cycles)
      BY <2>2, <2>6 DEF SearchStates, Becomes
    <3>2. QED  BY <1>5, <2>1, <2>6, <3>1 DEF Goes
  <2>7. QED  BY <2>4, <2>5, <2>6
<1>6. QED  BY <1>2, <1>3, <1>4, <1>5

LEMMA EdgeFacts ==
    ASSUME NEW plan, IsPlan(plan)
    PROVE  /\ IsFiniteSet(EdgesOf(plan))
           /\ \A e \in EdgesOf(plan) :
                 /\ e[1] \in TasksOf(plan) /\ e[2] \in TasksOf(plan) /\ <<e[1], e[2]>> = e
                 /\ \E l \in LinksFrom(plan, e[1]) : l.to = e[2]
           /\ \A t \in TasksOf(plan) : \A l \in LinksInto(plan, t) : <<l.from, t>> \in EdgesOf(plan)
<1> DEFINE live == {k \in plan.links : {k.from, k.to} \subseteq TasksOf(plan)}
           edge == [l \in live |-> <<l.from, l.to>>]
<1>1. IsFiniteSet(live)
  <2>1. IsFiniteSet(plan.links) /\ live \in SUBSET plan.links
    BY DEF IsPlan
  <2>2. QED  BY <2>1, FS_Subset
<1>2. EdgesOf(plan) = {edge[l] : l \in live}
  BY DEF EdgesOf
<1>3. IsFiniteSet(EdgesOf(plan))
  <2>1. edge \in [live -> {edge[l] : l \in live}]
    OBVIOUS
  <2> HIDE DEF edge, live
  <2>2. IsFiniteSet({edge[l] : l \in live})
    BY <1>1, <2>1, ImageIsFinite
  <2>3. QED  BY <1>2, <2>2
<1>4. ASSUME NEW e \in EdgesOf(plan)
      PROVE  /\ e[1] \in TasksOf(plan) /\ e[2] \in TasksOf(plan) /\ <<e[1], e[2]>> = e
             /\ \E l \in LinksFrom(plan, e[1]) : l.to = e[2]
  BY DEF EdgesOf, LinksFrom
<1>5. ASSUME NEW t \in TasksOf(plan), NEW l \in LinksInto(plan, t) PROVE <<l.from, t>> \in EdgesOf(plan)
  BY DEF EdgesOf, LinksInto
<1>6. QED  BY <1>3, <1>4, <1>5

\* The path after each kind of step.
LEMMA PathFacts ==
    ASSUME NEW T, NEW path \in Seq(T)
    PROVE  /\ Len(path) \in Nat /\ \A i \in 1 .. Len(path) : path[i] \in T
           /\ \A x \in T : /\ <<x>> \in Seq(T) /\ Len(<<x>>) = 1 /\ <<x>>[1] = x
                           /\ Append(path, x) \in Seq(T) /\ Len(Append(path, x)) = Len(path) + 1
                           /\ Append(path, x)[Len(path) + 1] = x
                           /\ \A i \in 1 .. Len(path) : Append(path, x)[i] = path[i]
           /\ path # <<>> =>
                 /\ Len(path) >= 1 /\ Front(path) \in Seq(T) /\ Len(Front(path)) = Len(path) - 1
                 /\ \A i \in 1 .. (Len(path) - 1) : Front(path)[i] = path[i]
                 /\ Last(path) = path[Len(path)]
           /\ path = <<>> => Len(path) = 0
<1> DEFINE n == Len(path)
<1>1. n \in Nat /\ \A i \in 1 .. n : path[i] \in T
  OBVIOUS
<1>2. ASSUME NEW x \in T
      PROVE  /\ <<x>> \in Seq(T) /\ Len(<<x>>) = 1 /\ <<x>>[1] = x
             /\ Append(path, x) \in Seq(T) /\ Len(Append(path, x)) = n + 1
             /\ Append(path, x)[n + 1] = x
             /\ \A i \in 1 .. n : Append(path, x)[i] = path[i]
  BY AppendProperties
<1>3. ASSUME path # <<>>
      PROVE  /\ n >= 1 /\ Front(path) \in Seq(T) /\ Len(Front(path)) = n - 1
             /\ \A i \in 1 .. (n - 1) : Front(path)[i] = path[i]
             /\ Last(path) = path[n]
  <2>1. n >= 1
    BY <1>3, EmptySeq
  <2>2. Front(path) = SubSeq(path, 1, n - 1) /\ Last(path) = path[n]
    BY DEF Front, Last
  <2>3. \A i \in 1 .. (n - 1) : path[i] \in T
    BY <1>1
  <2>4. /\ SubSeq(path, 1, n - 1) \in Seq(T)
        /\ Len(SubSeq(path, 1, n - 1)) = IF 1 <= n - 1 THEN n - 1 - 1 + 1 ELSE 0
        /\ \A i \in 1 .. (n - 1) - 1 + 1 : SubSeq(path, 1, n - 1)[i] = path[1 + i - 1]
    <3>1. 1 \in Int /\ n - 1 \in Int
      BY <1>1
    <3>2. QED  BY <2>3, <3>1, SubSeqProperties
  <2> DEFINE front == SubSeq(path, 1, n - 1)
  <2> HIDE DEF front, n
  <2>5. Len(front) = n - 1 /\ \A i \in 1 .. (n - 1) : front[i] = path[i]
    BY <1>1, <2>1, <2>4 DEF front
  <2>6. QED  BY <2>1, <2>2, <2>4, <2>5 DEF front, n
<1>4. path = <<>> => n = 0
  OBVIOUS
<1> HIDE DEF n
<1>5. QED  BY <1>1, <1>2, <1>3, <1>4 DEF n

LEMMA EndOfPath ==
    ASSUME NEW T, NEW path \in Seq(T), NEW m \in 1 .. Len(path)
    PROVE  ToSet(SubSeq(path, m, Len(path))) = {path[i] : i \in m .. Len(path)}
<1> DEFINE n == Len(path)
           tail == SubSeq(path, m, n)
<1>1. n \in Nat /\ m \in Int /\ m <= n /\ \A i \in m .. n : path[i] \in T
  OBVIOUS
<1>2. /\ tail \in Seq(T) /\ Len(tail) = n - m + 1
      /\ \A i \in 1 .. n - m + 1 : tail[i] = path[m + i - 1]
  BY <1>1, SubSeqProperties
<1>3. ToSet(tail) = {tail[i] : i \in 1 .. (n - m + 1)}
  BY <1>2, LenProperties DEF ToSet
<1> HIDE DEF tail, n
<1>4. ASSUME NEW i \in 1 .. (n - m + 1) PROVE tail[i] \in {path[j] : j \in m .. n}
  <2>1. m + i - 1 \in m .. n /\ tail[i] = path[m + i - 1]
    BY <1>1, <1>2
  <2>2. QED  BY <2>1
<1>5. ASSUME NEW i \in m .. n PROVE path[i] \in {tail[j] : j \in 1 .. (n - m + 1)}
  <2>1. i - m + 1 \in 1 .. (n - m + 1) /\ m + (i - m + 1) - 1 = i
    BY <1>1
  <2>2. tail[i - m + 1] = path[i]
    BY <1>2, <2>1
  <2>3. QED  BY <2>1, <2>2
<1>6. QED  BY <1>3, <1>4, <1>5 DEF tail, n

\* What is left to do: it shrinks with every step until the end.
WorkLeft(plan, s) ==
    2 * Cardinality(TasksOf(plan) \ s.seen) + Cardinality(EdgesOf(plan) \ s.taken) + Len(s.path)

LEMMA Taking ==
    ASSUME NEW S, IsFiniteSet(S), NEW T, NEW x \in S \ T
    PROVE  /\ Cardinality(S \ T) \in Nat /\ Cardinality(S \ (T \cup {x})) \in Nat
           /\ Cardinality(S \ (T \cup {x})) = Cardinality(S \ T) - 1
<1>1. IsFiniteSet(S \ T) /\ S \ (T \cup {x}) = (S \ T) \ {x}
  BY FS_Difference
<1>2. IsFiniteSet((S \ T) \ {x}) /\ Cardinality((S \ T) \ {x}) = Cardinality(S \ T) - 1
  BY <1>1, FS_RemoveElement
<1>3. Cardinality(S \ T) \in Nat /\ Cardinality((S \ T) \ {x}) \in Nat
  BY <1>1, <1>2, FS_CardinalityType
<1>4. QED  BY <1>1, <1>2, <1>3

LEMMA SearchAdvances ==
    ASSUME NEW plan, IsPlan(plan), NEW s \in SearchStates(plan)
    PROVE  /\ Searched(plan, s) \in SearchStates(plan)
           /\ WorkLeft(plan, s) \in Nat /\ WorkLeft(plan, Searched(plan, s)) \in Nat
           /\ \/ Ends(plan, s, Searched(plan, s))
              \/ WorkLeft(plan, Searched(plan, s)) + 1 <= WorkLeft(plan, s)
<1> DEFINE live == TasksOf(plan)
           edges == EdgesOf(plan)
           n == Searched(plan, s)
           a == Cardinality(live \ s.seen)
           b == Cardinality(edges \ s.taken)
           c == Len(s.path)
           Done(x) == /\ x \in SearchStates(plan)
                      /\ WorkLeft(plan, x) \in Nat /\ WorkLeft(plan, x) + 1 <= WorkLeft(plan, s)
<1>1. IsFiniteSet(live) /\ IsFiniteSet(edges)
  BY EdgeFacts DEF IsPlan
<1>2. s.path \in Seq(live) /\ s.seen \subseteq live /\ s.taken \subseteq edges /\ s.cycles \subseteq SUBSET live
  BY DEF SearchStates
<1>3. a \in Nat /\ b \in Nat /\ c \in Nat /\ WorkLeft(plan, s) = 2 * a + b + c
  <2>1. IsFiniteSet(live \ s.seen) /\ IsFiniteSet(edges \ s.taken)
    BY <1>1, FS_Difference
  <2>2. QED  BY <1>2, <2>1, FS_CardinalityType, PathFacts DEF WorkLeft
<1>0. Cardinality(live \ s.seen) = a /\ Cardinality(edges \ s.taken) = b /\ Len(s.path) = c
  OBVIOUS
<1> HIDE DEF a, b, c
<1>4. ASSUME NEW path \in Seq(live), NEW seen \in SUBSET live, NEW taken \in SUBSET edges,
             NEW cycles \in SUBSET SUBSET live, Becomes(n, path, seen, taken, cycles),
             NEW a1 \in Nat, NEW b1 \in Nat, NEW c1 \in Nat,
             Cardinality(live \ seen) = a1, Cardinality(edges \ taken) = b1, Len(path) = c1,
             2 * a1 + b1 + c1 + 1 <= 2 * a + b + c
      PROVE  Done(n)
  <2>1. n \in SearchStates(plan) /\ n.path = path /\ n.seen = seen /\ n.taken = taken
    BY <1>4 DEF Becomes, SearchStates
  <2>2. WorkLeft(plan, n) = 2 * a1 + b1 + c1
    BY <1>4, <2>1 DEF WorkLeft
  <2>3. QED  BY <1>3, <1>4, <2>1, <2>2
<1> HIDE DEF Done, n
<1>5. ASSUME Begins(plan, s, n) PROVE Done(n)
  <2>1. PICK x \in live \ s.seen :
           s.path = <<>> /\ Becomes(n, <<x>>, s.seen \cup {x}, s.taken, s.cycles)
    BY <1>5 DEF Begins
  <2>2. Cardinality(live \ (s.seen \cup {x})) = a - 1 /\ a - 1 \in Nat
    BY <1>1, <2>1, Taking DEF a
  <2>3. <<x>> \in Seq(live) /\ Len(<<x>>) = 1 /\ c = 0
    BY <1>2, <2>1, PathFacts DEF c
  <2>4. s.seen \cup {x} \in SUBSET live
    BY <1>2, <2>1
  <2> DEFINE path == <<x>>
             seen == s.seen \cup {x}
  <2>5. /\ path \in Seq(live) /\ seen \in SUBSET live /\ Becomes(n, path, seen, s.taken, s.cycles)
        /\ Cardinality(live \ seen) = a - 1 /\ Len(path) = 1
    BY <2>1, <2>2, <2>3, <2>4
  <2> HIDE DEF path, seen
  <2>6. 2 * (a - 1) + b + 1 + 1 <= 2 * a + b + c /\ 1 \in Nat
    BY <1>3, <2>3
  <2>7. QED  BY <1>0, <1>2, <1>3, <1>4, <2>2, <2>5, <2>6
<1>6. ASSUME Returns(plan, s, n) PROVE Done(n)
  <2>1. s.path # <<>> /\ Becomes(n, Front(s.path), s.seen, s.taken, s.cycles)
    BY <1>6 DEF Returns
  <2> DEFINE path == Front(s.path)
  <2>2. path \in Seq(live) /\ Len(path) = c - 1 /\ c >= 1
    BY <1>2, <2>1, PathFacts DEF c
  <2>3. c - 1 \in Nat /\ 2 * a + b + (c - 1) + 1 <= 2 * a + b + c
    BY <1>3, <2>2
  <2> HIDE DEF path
  <2>4. Becomes(n, path, s.seen, s.taken, s.cycles)
    BY <2>1 DEF path
  <2>5. QED  BY <1>0, <1>2, <1>3, <1>4, <2>2, <2>3, <2>4
<1>7. ASSUME NEW e \in Untaken(plan, s)
      PROVE  /\ s.taken \cup {e} \in SUBSET edges /\ e[2] \in live
             /\ Cardinality(edges \ (s.taken \cup {e})) = b - 1 /\ b - 1 \in Nat
  <2>1. e \in edges \ s.taken /\ e[2] \in live
    BY EdgeFacts DEF Untaken
  <2>2. QED  BY <1>1, <1>2, <2>1, Taking DEF b
<1>8. ASSUME Loops(plan, s, n) PROVE Done(n)
  <2>1. PICK e \in Untaken(plan, s), m \in 1 .. Len(s.path) :
           Becomes(n, s.path, s.seen, s.taken \cup {e},
                   s.cycles \cup {ToSet(SubSeq(s.path, m, Len(s.path)))})
    BY <1>8 DEF Loops
  <2> DEFINE taken == s.taken \cup {e}
             loop == ToSet(SubSeq(s.path, m, Len(s.path)))
             cycles == s.cycles \cup {loop}
  <2>2. taken \in SUBSET edges /\ Cardinality(edges \ taken) = b - 1 /\ b - 1 \in Nat
    BY <1>7
  <2>3. cycles \in SUBSET SUBSET live
    <3>1. loop = {s.path[i] : i \in m .. Len(s.path)}
      BY <1>2, EndOfPath
    <3>2. \A i \in m .. Len(s.path) : s.path[i] \in live
      <4>1. Len(s.path) \in Nat /\ \A i \in 1 .. Len(s.path) : s.path[i] \in live
        BY <1>2, PathFacts
      <4>2. QED  BY <4>1
    <3> HIDE DEF loop
    <3>3. loop \subseteq live
      BY <3>1, <3>2
    <3>4. QED  BY <1>2, <3>3
  <2>4. 2 * a + (b - 1) + c + 1 <= 2 * a + b + c
    BY <1>3
  <2>5. Becomes(n, s.path, s.seen, taken, cycles)
    BY <2>1
  <2> HIDE DEF taken, cycles
  <2>6. QED  BY <1>0, <1>2, <1>3, <1>4, <2>2, <2>3, <2>4, <2>5
<1>9. ASSUME Passes(plan, s, n) PROVE Done(n)
  <2>1. PICK e \in Untaken(plan, s) : Becomes(n, s.path, s.seen, s.taken \cup {e}, s.cycles)
    BY <1>9 DEF Passes
  <2> DEFINE taken == s.taken \cup {e}
  <2>2. taken \in SUBSET edges /\ Cardinality(edges \ taken) = b - 1 /\ b - 1 \in Nat
    BY <1>7
  <2>3. 2 * a + (b - 1) + c + 1 <= 2 * a + b + c
    BY <1>3
  <2>4. Becomes(n, s.path, s.seen, taken, s.cycles)
    BY <2>1
  <2> HIDE DEF taken
  <2>5. QED  BY <1>0, <1>2, <1>3, <1>4, <2>2, <2>3, <2>4
<1>10. ASSUME Goes(plan, s, n) PROVE Done(n)
  <2>1. PICK e \in Untaken(plan, s) :
           /\ e[2] \notin s.seen
           /\ Becomes(n, Append(s.path, e[2]), s.seen \cup {e[2]}, s.taken \cup {e}, s.cycles)
    BY <1>10 DEF Goes
  <2> DEFINE taken == s.taken \cup {e}
             seen == s.seen \cup {e[2]}
             path == Append(s.path, e[2])
  <2>2. taken \in SUBSET edges /\ Cardinality(edges \ taken) = b - 1 /\ b - 1 \in Nat /\ e[2] \in live
    BY <1>7
  <2>3. Cardinality(live \ seen) = a - 1 /\ a - 1 \in Nat /\ seen \in SUBSET live
    BY <1>1, <1>2, <2>1, <2>2, Taking DEF a
  <2>4. path \in Seq(live) /\ Len(path) = c + 1 /\ c + 1 \in Nat
    BY <1>2, <1>3, <2>2, PathFacts DEF c
  <2>5. 2 * (a - 1) + (b - 1) + (c + 1) + 1 <= 2 * a + b + c
    BY <1>3
  <2>6. Becomes(n, path, seen, taken, s.cycles)
    BY <2>1
  <2> HIDE DEF taken, seen, path
  <2>7. QED  BY <1>2, <1>4, <2>2, <2>3, <2>4, <2>5, <2>6
<1>11. Ends(plan, s, n) \/ Done(n)
  BY <1>5, <1>6, <1>8, <1>9, <1>10, SearchCases DEF n
<1>12. Ends(plan, s, n) => n = s
  BY DEF Ends
<1>13. /\ n \in SearchStates(plan) /\ WorkLeft(plan, n) \in Nat
       /\ Ends(plan, s, n) \/ WorkLeft(plan, n) + 1 <= WorkLeft(plan, s)
  <2>1. CASE Ends(plan, s, n)
    BY <1>3, <1>12, <2>1
  <2>2. CASE Done(n)
    BY <2>2 DEF Done
  <2>3. QED  BY <1>11, <2>1, <2>2
<1>14. QED  BY <1>3, <1>13 DEF n

\* The path follows links; a loop that was found is one; and as long as none is found, what was seen
\* and left behind leads to nothing else, and holds no loop.
Behind(s) == {x \in s.seen : \A i \in 1 .. Len(s.path) : s.path[i] # x}
PathIsRight(plan, s) ==
    /\ \A i \in 1 .. Len(s.path) : s.path[i] \in s.seen
    /\ \A i, j \in 1 .. Len(s.path) : s.path[i] = s.path[j] => i = j
    /\ \A i \in 1 .. (Len(s.path) - 1) : <<s.path[i], s.path[i + 1]>> \in EdgesOf(plan)
    /\ \A e \in s.taken : e[1] \in s.seen
IsLoop(plan, loop) ==
    /\ loop # {}
    /\ \A t \in loop : /\ \E u \in loop : <<t, u>> \in EdgesOf(plan)
                       /\ \E u \in loop : <<u, t>> \in EdgesOf(plan)
HasNoLoop(plan, T) ==
    \A S \in SUBSET T : S # {} => \E t \in S : \A e \in EdgesOf(plan) : e[2] = t => e[1] \notin S
BehindIsRight(plan, s) ==
    /\ \A e \in EdgesOf(plan) : e[1] \in Behind(s) => e[2] \in Behind(s)
    /\ HasNoLoop(plan, Behind(s))
    /\ \A e \in s.taken : \A i \in 1 .. Len(s.path) :
          e[1] = s.path[i] => e[2] \in Behind(s) \/ (i < Len(s.path) /\ e[2] = s.path[i + 1])
SearchIsRight(plan, s) ==
    /\ PathIsRight(plan, s)
    /\ \A loop \in s.cycles : IsLoop(plan, loop)
    /\ s.cycles = {} => BehindIsRight(plan, s)

LEMMA BeginsRight ==
    ASSUME NEW plan, IsPlan(plan), NEW s \in SearchStates(plan), SearchIsRight(plan, s),
           NEW n, Begins(plan, s, n)
    PROVE  SearchIsRight(plan, n)
<1>1. PICK x \in TasksOf(plan) \ s.seen :
         s.path = <<>> /\ Becomes(n, <<x>>, s.seen \cup {x}, s.taken, s.cycles)
  BY DEF Begins
<1>2. /\ n.path = <<x>> /\ n.seen = s.seen \cup {x} /\ n.taken = s.taken /\ n.cycles = s.cycles
      /\ Len(n.path) = 1 /\ n.path[1] = x /\ Len(s.path) = 0 /\ x \notin s.seen
  BY <1>1 DEF Becomes
<1>3. \A e \in n.taken : e[1] \in s.seen
  BY <1>2 DEF SearchIsRight, PathIsRight
<1>4. PathIsRight(plan, n)
  BY <1>2, <1>3 DEF PathIsRight
<1>5. Behind(n) = Behind(s)
  BY <1>2 DEF Behind
<1>6. ASSUME n.cycles = {} PROVE BehindIsRight(plan, n)
  <2>1. BehindIsRight(plan, s)
    BY <1>2, <1>6 DEF SearchIsRight
  <2>2. \A e \in n.taken : \A i \in 1 .. Len(n.path) : e[1] # n.path[i]
    BY <1>2, <1>3
  <2>3. QED  BY <1>5, <2>1, <2>2 DEF BehindIsRight
<1>7. QED  BY <1>2, <1>4, <1>6 DEF SearchIsRight

LEMMA ReturnsRight ==
    ASSUME NEW plan, IsPlan(plan), NEW s \in SearchStates(plan), SearchIsRight(plan, s),
           NEW n, Returns(plan, s, n)
    PROVE  SearchIsRight(plan, n)
<1> DEFINE k == Len(s.path)
           top == s.path[k]
<1>1. /\ s.path # <<>> /\ Untaken(plan, s) = {} /\ s.path \in Seq(TasksOf(plan))
      /\ n.path = Front(s.path) /\ n.seen = s.seen /\ n.taken = s.taken /\ n.cycles = s.cycles
  BY DEF Returns, Becomes, SearchStates
<1>2. /\ k \in Nat /\ k >= 1 /\ Len(n.path) = k - 1 /\ Last(s.path) = top
      /\ \A i \in 1 .. (k - 1) : n.path[i] = s.path[i]
  BY <1>1, PathFacts
<1>3. PathIsRight(plan, s)
  BY DEF SearchIsRight
<1> HIDE DEF k
<1>4. /\ \A i \in 1 .. k : s.path[i] \in s.seen
      /\ \A i, j \in 1 .. k : s.path[i] = s.path[j] => i = j
      /\ \A i \in 1 .. (k - 1) : <<s.path[i], s.path[i + 1]>> \in EdgesOf(plan)
  BY <1>3 DEF PathIsRight, k
<1>5. k \in 1 .. k /\ \A i \in 1 .. (k - 1) : i \in 1 .. k /\ i # k
  BY <1>2
<1>6. PathIsRight(plan, n)
  <2>1. \A i \in 1 .. (k - 1) : n.path[i] \in n.seen
    BY <1>1, <1>2, <1>4, <1>5
  <2>2. \A i, j \in 1 .. (k - 1) : n.path[i] = n.path[j] => i = j
    BY <1>2, <1>4, <1>5
  <2>3. ASSUME NEW i \in 1 .. (k - 1 - 1) PROVE <<n.path[i], n.path[i + 1]>> \in EdgesOf(plan)
    <3>1. i \in 1 .. (k - 1) /\ i + 1 \in 1 .. (k - 1)
      BY <1>2
    <3>2. QED  BY <1>2, <1>4, <3>1
  <2>4. \A e \in n.taken : e[1] \in n.seen
    BY <1>1, <1>3 DEF PathIsRight
  <2>5. QED  BY <1>2, <2>1, <2>2, <2>3, <2>4 DEF PathIsRight
<1>7. top \in s.seen /\ \A i \in 1 .. (k - 1) : s.path[i] # top
  BY <1>4, <1>5
<1>8. top \notin Behind(s)
  BY <1>5 DEF Behind, k
<1>9. Behind(n) = Behind(s) \cup {top}
  <2>1. \A i : i \in 1 .. k <=> i \in 1 .. (k - 1) \/ i = k
    BY <1>2
  <2>2. \A x \in s.seen : x \in Behind(s) <=> \A i \in 1 .. k : s.path[i] # x
    BY DEF Behind, k
  <2>3. \A x \in s.seen : x \in Behind(n) <=> \A i \in 1 .. (k - 1) : s.path[i] # x
    BY <1>1, <1>2 DEF Behind
  <2>4. Behind(n) \subseteq s.seen /\ Behind(s) \subseteq s.seen
    BY <1>1 DEF Behind
  <2>5. \A x \in s.seen : x \in Behind(n) <=> x \in Behind(s) \/ x = top
    BY <1>7, <2>1, <2>2, <2>3
  <2>6. QED  BY <1>7, <2>4, <2>5
<1>10. ASSUME n.cycles = {} PROVE BehindIsRight(plan, n)
  <2>1. BehindIsRight(plan, s)
    BY <1>1, <1>10 DEF SearchIsRight
  <2>2. /\ \A e \in EdgesOf(plan) : e[1] \in Behind(s) => e[2] \in Behind(s)
        /\ \A e \in s.taken : \A i \in 1 .. k :
              e[1] = s.path[i] => e[2] \in Behind(s) \/ (i < k /\ e[2] = s.path[i + 1])
    BY <2>1 DEF BehindIsRight, k
  <2>3. \A e \in EdgesOf(plan) : e[1] = top => e[2] \in Behind(s)
    <3>1. TAKE e \in EdgesOf(plan)
    <3>2. HAVE e[1] = top
    <3>3. e \in s.taken
      BY <1>1, <1>2, <3>2 DEF Untaken
    <3>4. ~(k < k)
      BY <1>2
    <3>5. QED  BY <1>5, <2>2, <3>2, <3>3, <3>4
  <2>4. \A e \in EdgesOf(plan) : e[1] \in Behind(n) => e[2] \in Behind(n)
    BY <1>9, <2>2, <2>3
  <2>5. HasNoLoop(plan, Behind(n))
    <3>1. SUFFICES ASSUME NEW S \in SUBSET Behind(n), S # {}
                   PROVE  \E t \in S : \A e \in EdgesOf(plan) : e[2] = t => e[1] \notin S
      BY DEF HasNoLoop
    <3>2. CASE top \in S
      <4>1. \A e \in EdgesOf(plan) : e[2] = top => e[1] \notin S
        BY <1>8, <1>9, <2>2, <2>3
      <4>2. QED  BY <3>2, <4>1
    <3>3. CASE top \notin S
      <4>1. S \in SUBSET Behind(s) /\ HasNoLoop(plan, Behind(s))
        BY <1>9, <2>1, <3>3 DEF BehindIsRight
      <4>2. QED  BY <3>1, <4>1 DEF HasNoLoop
    <3>4. QED  BY <3>2, <3>3
  <2>6. ASSUME NEW e \in n.taken, NEW i \in 1 .. (k - 1), e[1] = n.path[i]
        PROVE  e[2] \in Behind(n) \/ (i < k - 1 /\ e[2] = n.path[i + 1])
    <3>1. e \in s.taken /\ i \in 1 .. k /\ e[1] = s.path[i]
      BY <1>1, <1>2, <1>5, <2>6
    <3>2. e[2] \in Behind(s) \/ e[2] = s.path[i + 1]
      BY <2>2, <3>1
    <3>3. CASE i = k - 1
      <4>1. i + 1 = k
        BY <1>2, <3>3
      <4>2. QED  BY <1>9, <3>2, <4>1
    <3>4. CASE i # k - 1
      <4>1. i < k - 1 /\ i + 1 \in 1 .. (k - 1)
        BY <1>2, <3>4
      <4>2. QED  BY <1>2, <1>9, <3>2, <4>1
    <3>5. QED  BY <3>3, <3>4
  <2>7. QED  BY <1>2, <2>4, <2>5, <2>6 DEF BehindIsRight
<1>11. QED  BY <1>1, <1>6, <1>10 DEF SearchIsRight

LEMMA LoopsRight ==
    ASSUME NEW plan, IsPlan(plan), NEW s \in SearchStates(plan), SearchIsRight(plan, s),
           NEW n, Loops(plan, s, n)
    PROVE  SearchIsRight(plan, n)
<1> DEFINE k == Len(s.path)
<1>1. PICK e \in Untaken(plan, s), m \in 1 .. k :
         /\ s.path # <<>> /\ s.path[m] = e[2]
         /\ Becomes(n, s.path, s.seen, s.taken \cup {e},
                    s.cycles \cup {ToSet(SubSeq(s.path, m, Len(s.path)))})
  BY DEF Loops
<1> DEFINE loop == {s.path[i] : i \in m .. k}
<1>2. s.path \in Seq(TasksOf(plan))
  BY DEF SearchStates
<1>3. /\ n.path = s.path /\ n.seen = s.seen /\ n.taken = s.taken \cup {e}
      /\ n.cycles = s.cycles \cup {loop}
  BY <1>1, <1>2, EndOfPath DEF Becomes
<1>4. k \in Nat /\ k >= 1 /\ Last(s.path) = s.path[k]
  BY <1>1, <1>2, PathFacts
<1>5. e[1] = s.path[k] /\ e \in EdgesOf(plan) /\ <<e[1], e[2]>> = e
  BY <1>1, <1>4, EdgeFacts DEF Untaken
<1>6. PathIsRight(plan, s)
  BY DEF SearchIsRight
<1>7. PathIsRight(plan, n)
  <2>1. e[1] \in s.seen
    BY <1>4, <1>5, <1>6 DEF PathIsRight
  <2>2. QED  BY <1>3, <1>6, <2>1 DEF PathIsRight
<1>8. IsLoop(plan, loop)
  <2>1. \A i \in m .. k : i # k => i + 1 \in m .. k /\ <<s.path[i], s.path[i + 1]>> \in EdgesOf(plan)
    <3>1. \A i \in m .. k : i # k => i + 1 \in m .. k /\ i \in 1 .. (k - 1)
      BY <1>1, <1>4
    <3>2. QED  BY <1>6, <3>1 DEF PathIsRight
  <2>2. m \in m .. k /\ k \in m .. k /\ <<s.path[k], s.path[m]>> \in EdgesOf(plan)
    BY <1>1, <1>4, <1>5
  <2>3. ASSUME NEW i \in m .. k PROVE \E u \in loop : <<s.path[i], u>> \in EdgesOf(plan)
    BY <2>1, <2>2
  <2>4. ASSUME NEW i \in m .. k PROVE \E u \in loop : <<u, s.path[i]>> \in EdgesOf(plan)
    <3>1. CASE i = m
      BY <2>2, <3>1
    <3>2. CASE i # m
      <4>1. i - 1 \in m .. k /\ i - 1 # k /\ i - 1 + 1 = i
        BY <1>1, <1>4, <3>2
      <4>2. QED  BY <2>1, <4>1
    <3>3. QED  BY <3>1, <3>2
  <2>5. QED  BY <2>2, <2>3, <2>4 DEF IsLoop
<1>9. n.cycles # {}
  BY <1>3
<1>10. \A l \in s.cycles : IsLoop(plan, l)
  BY DEF SearchIsRight
<1>11. QED  BY <1>3, <1>7, <1>8, <1>9, <1>10 DEF SearchIsRight

LEMMA PassesRight ==
    ASSUME NEW plan, IsPlan(plan), NEW s \in SearchStates(plan), SearchIsRight(plan, s),
           NEW n, Passes(plan, s, n)
    PROVE  SearchIsRight(plan, n)
<1> DEFINE k == Len(s.path)
<1>1. PICK e \in Untaken(plan, s) :
         /\ s.path # <<>> /\ e[2] \in s.seen /\ \A m \in 1 .. k : s.path[m] # e[2]
         /\ Becomes(n, s.path, s.seen, s.taken \cup {e}, s.cycles)
  BY DEF Passes
<1>2. n.path = s.path /\ n.seen = s.seen /\ n.taken = s.taken \cup {e} /\ n.cycles = s.cycles
  BY <1>1 DEF Becomes
<1>3. k \in Nat /\ k >= 1 /\ Last(s.path) = s.path[k]
  BY <1>1, PathFacts DEF SearchStates
<1>4. e[1] = s.path[k]
  BY <1>1, <1>3 DEF Untaken
<1>5. PathIsRight(plan, s)
  BY DEF SearchIsRight
<1>6. PathIsRight(plan, n)
  <2>1. e[1] \in s.seen
    BY <1>3, <1>4, <1>5 DEF PathIsRight
  <2>2. QED  BY <1>2, <1>5, <2>1 DEF PathIsRight
<1>7. Behind(n) = Behind(s) /\ e[2] \in Behind(s)
  BY <1>1, <1>2 DEF Behind
<1>8. ASSUME n.cycles = {} PROVE BehindIsRight(plan, n)
  <2>1. BehindIsRight(plan, s)
    BY <1>2, <1>8 DEF SearchIsRight
  <2>2. QED  BY <1>2, <1>7, <2>1 DEF BehindIsRight
<1>9. QED  BY <1>2, <1>6, <1>8 DEF SearchIsRight

LEMMA GoesRight ==
    ASSUME NEW plan, IsPlan(plan), NEW s \in SearchStates(plan), SearchIsRight(plan, s),
           NEW n, Goes(plan, s, n)
    PROVE  SearchIsRight(plan, n)
<1> DEFINE k == Len(s.path)
<1>1. PICK e \in Untaken(plan, s) :
         /\ s.path # <<>> /\ e[2] \notin s.seen
         /\ Becomes(n, Append(s.path, e[2]), s.seen \cup {e[2]}, s.taken \cup {e}, s.cycles)
  BY DEF Goes
<1> DEFINE y == e[2]
<1>2. e \in EdgesOf(plan) /\ y \in TasksOf(plan) /\ <<e[1], y>> = e /\ s.path \in Seq(TasksOf(plan))
  BY EdgeFacts DEF Untaken, SearchStates
<1>3. /\ n.path = Append(s.path, y) /\ n.seen = s.seen \cup {y} /\ n.taken = s.taken \cup {e}
      /\ n.cycles = s.cycles /\ y \notin s.seen
  BY <1>1 DEF Becomes
<1>4. /\ k \in Nat /\ k >= 1 /\ Last(s.path) = s.path[k]
      /\ Len(n.path) = k + 1 /\ n.path[k + 1] = y /\ \A i \in 1 .. k : n.path[i] = s.path[i]
  <2>1. k \in Nat /\ k >= 1 /\ Last(s.path) = s.path[k]
    BY <1>1, <1>2, PathFacts
  <2> HIDE DEF y
  <2>2. /\ Len(Append(s.path, y)) = k + 1 /\ Append(s.path, y)[k + 1] = y
        /\ \A i \in 1 .. k : Append(s.path, y)[i] = s.path[i]
    BY <1>2, AppendProperties
  <2>3. QED  BY <1>3, <2>1, <2>2
<1>5. e[1] = s.path[k]
  BY <1>1, <1>4 DEF Untaken
<1>6. PathIsRight(plan, s)
  BY DEF SearchIsRight
<1> HIDE DEF k, y
<1>7. /\ \A i \in 1 .. k : s.path[i] \in s.seen
      /\ \A i, j \in 1 .. k : s.path[i] = s.path[j] => i = j
      /\ \A i \in 1 .. (k - 1) : <<s.path[i], s.path[i + 1]>> \in EdgesOf(plan)
      /\ \A d \in s.taken : d[1] \in s.seen
  BY <1>6 DEF PathIsRight, k
<1>8. k \in 1 .. k /\ \A i : i \in 1 .. (k + 1) <=> i \in 1 .. k \/ i = k + 1
  BY <1>4
<1>9. \A i \in 1 .. k : n.path[i] \in s.seen /\ n.path[i] # n.path[k + 1]
  BY <1>3, <1>4, <1>7
<1>10. PathIsRight(plan, n)
  <2>1. \A i \in 1 .. (k + 1) : n.path[i] \in n.seen
    BY <1>3, <1>4, <1>8, <1>9
  <2>2. \A i, j \in 1 .. (k + 1) : n.path[i] = n.path[j] => i = j
    <3>1. \A i, j \in 1 .. k : n.path[i] = n.path[j] => i = j
      BY <1>4, <1>7
    <3>2. QED  BY <1>8, <1>9, <3>1
  <2>3. ASSUME NEW i \in 1 .. (k + 1 - 1) PROVE <<n.path[i], n.path[i + 1]>> \in EdgesOf(plan)
    <3>1. CASE i = k
      BY <1>2, <1>4, <1>5, <1>8, <3>1
    <3>2. CASE i # k
      <4>1. i \in 1 .. (k - 1) /\ i \in 1 .. k /\ i + 1 \in 1 .. k
        BY <1>4, <3>2
      <4>2. QED  BY <1>4, <1>7, <4>1
    <3>3. QED  BY <3>1, <3>2
  <2>4. \A d \in n.taken : d[1] \in n.seen
    BY <1>3, <1>5, <1>7, <1>8
  <2>5. QED  BY <1>4, <2>1, <2>2, <2>3, <2>4 DEF PathIsRight
<1>11. Behind(n) = Behind(s)
  <2>1. \A x \in s.seen : x \in Behind(n) <=> x \in Behind(s)
    <3>1. \A x \in s.seen : x # y
      BY <1>3
    <3>2. \A x \in s.seen : x \in Behind(s) <=> \A i \in 1 .. k : s.path[i] # x
      BY DEF Behind, k
    <3>3. \A x \in s.seen : x \in Behind(n) <=> \A i \in 1 .. (k + 1) : n.path[i] # x
      BY <1>3, <1>4 DEF Behind
    <3>4. QED  BY <1>4, <1>8, <3>1, <3>2, <3>3
  <2>2. y \notin Behind(n) /\ y \notin Behind(s)
    <3>1. k + 1 \in 1 .. (k + 1)
      BY <1>8
    <3>2. QED  BY <1>3, <1>4, <3>1 DEF Behind
  <2>3. Behind(n) \subseteq s.seen \cup {y} /\ Behind(s) \subseteq s.seen
    BY <1>3 DEF Behind
  <2>4. QED  BY <2>1, <2>2, <2>3
<1>12. ASSUME n.cycles = {} PROVE BehindIsRight(plan, n)
  <2>1. BehindIsRight(plan, s)
    BY <1>3, <1>12 DEF SearchIsRight
  <2>2. \A d \in s.taken : \A i \in 1 .. k :
           d[1] = s.path[i] => d[2] \in Behind(s) \/ (i < k /\ d[2] = s.path[i + 1])
    BY <2>1 DEF BehindIsRight, k
  <2>3. ASSUME NEW d \in n.taken, NEW i \in 1 .. (k + 1), d[1] = n.path[i]
        PROVE  d[2] \in Behind(n) \/ (i < k + 1 /\ d[2] = n.path[i + 1])
    <3>1. d[1] \in s.seen
      BY <1>3, <1>5, <1>7, <1>8
    <3>2. i \in 1 .. k /\ d[1] = s.path[i]
      BY <1>3, <1>4, <1>8, <2>3, <3>1
    <3>3. CASE d \in s.taken
      <4>1. d[2] \in Behind(s) \/ (i < k /\ d[2] = s.path[i + 1])
        BY <2>2, <3>2, <3>3
      <4>2. i < k => i < k + 1 /\ i + 1 \in 1 .. k
        BY <1>4, <3>2
      <4>3. QED  BY <1>4, <1>11, <4>1, <4>2
    <3>4. CASE d = e
      <4>1. i = k
        BY <1>5, <1>7, <1>8, <3>2, <3>4
      <4>2. QED  BY <1>4, <3>4, <4>1 DEF y
    <3>5. QED  BY <1>3, <3>3, <3>4
  <2>4. QED  BY <1>4, <1>11, <2>1, <2>3 DEF BehindIsRight
<1>13. QED  BY <1>3, <1>10, <1>12 DEF SearchIsRight

LEMMA SearchStaysRight ==
    ASSUME NEW plan, IsPlan(plan), NEW s \in SearchStates(plan), SearchIsRight(plan, s)
    PROVE  SearchIsRight(plan, Searched(plan, s))
<1> DEFINE n == Searched(plan, s)
<1> HIDE DEF n
<1>1. ASSUME Ends(plan, s, n) PROVE SearchIsRight(plan, n)
  BY <1>1 DEF Ends
<1>2. ASSUME Begins(plan, s, n) PROVE SearchIsRight(plan, n)
  BY <1>2, BeginsRight
<1>3. ASSUME Returns(plan, s, n) PROVE SearchIsRight(plan, n)
  BY <1>3, ReturnsRight
<1>4. ASSUME Loops(plan, s, n) PROVE SearchIsRight(plan, n)
  BY <1>4, LoopsRight
<1>5. ASSUME Passes(plan, s, n) PROVE SearchIsRight(plan, n)
  BY <1>5, PassesRight
<1>6. ASSUME Goes(plan, s, n) PROVE SearchIsRight(plan, n)
  BY <1>6, GoesRight
<1>7. QED  BY <1>1, <1>2, <1>3, <1>4, <1>5, <1>6, SearchCases DEF n

NothingSeen == [path |-> <<>>, seen |-> {}, taken |-> {}, cycles |-> {}]
StepsOf(plan) == 2 * Cardinality(TasksOf(plan)) + Cardinality(EdgesOf(plan)) + 1

LEMMA StepsFacts ==
    ASSUME NEW plan, IsPlan(plan)
    PROVE  /\ StepsOf(plan) \in Nat /\ NothingSeen \in SearchStates(plan)
           /\ WorkLeft(plan, NothingSeen) = StepsOf(plan) - 1
           /\ SearchIsRight(plan, NothingSeen)
<1>1. Cardinality(TasksOf(plan)) \in Nat /\ Cardinality(EdgesOf(plan)) \in Nat
  BY EdgeFacts, FS_CardinalityType DEF IsPlan
<1>2. StepsOf(plan) \in Nat
  BY <1>1 DEF StepsOf
<1>3. NothingSeen \in SearchStates(plan) /\ Len(NothingSeen.path) = 0
  BY DEF NothingSeen, SearchStates
<1>4. TasksOf(plan) \ NothingSeen.seen = TasksOf(plan) /\ EdgesOf(plan) \ NothingSeen.taken = EdgesOf(plan)
  BY DEF NothingSeen
<1>5. WorkLeft(plan, NothingSeen) = StepsOf(plan) - 1
  <2> DEFINE a == Cardinality(TasksOf(plan))
             b == Cardinality(EdgesOf(plan))
  <2>1. a \in Nat /\ b \in Nat /\ StepsOf(plan) = 2 * a + b + 1
    BY <1>1 DEF StepsOf
  <2>2. WorkLeft(plan, NothingSeen) = 2 * a + b + Len(NothingSeen.path)
    BY <1>4 DEF WorkLeft
  <2> HIDE DEF a, b
  <2>3. QED  BY <1>3, <2>1, <2>2
<1>6. NothingSeen.seen = {} /\ NothingSeen.taken = {} /\ NothingSeen.cycles = {}
  BY DEF NothingSeen
<1>7. Behind(NothingSeen) = {}
  BY <1>6 DEF Behind
<1>8. SearchIsRight(plan, NothingSeen)
  BY <1>3, <1>6, <1>7 DEF SearchIsRight, PathIsRight, BehindIsRight, HasNoLoop
<1>9. QED  BY <1>2, <1>3, <1>5, <1>8

LEMMA SearchRuns ==
    ASSUME NEW plan, IsPlan(plan)
    PROVE  \E run \in [0 .. StepsOf(plan) -> SearchStates(plan)] :
              /\ run[0] = NothingSeen
              /\ \A k \in 1 .. StepsOf(plan) : run[k] = Searched(plan, run[k - 1])
              /\ DetectCycles(plan) = run[StepsOf(plan)].cycles
<1> DEFINE n == StepsOf(plan)
           seq == [i \in 1 .. n |-> i]
           State == SearchStates(plan)
           base == NothingSeen
           Folds(any) == any = [s \in SUBSET DOMAIN seq |->
               IF s = {} THEN base ELSE Searched(plan, any[s \ {Max(s)}])]
           any == CHOOSE any : Folds(any)
           step == [x \in State \X (1 .. n) |-> Searched(plan, x[1])]
<1>1. DetectCycles(plan) = any[DOMAIN seq].cycles
  BY DEF DetectCycles, FoldLeft, MapThenFoldSet, Searched, EdgesOf, StepsOf, NothingSeen
<1>2. n \in Nat /\ DOMAIN seq = 1 .. n
  BY StepsFacts
<1>3. base \in State
  BY StepsFacts
<1>4. /\ step \in [State \X (1 .. n) -> State]
      /\ \A x \in State : \A k \in 1 .. n : step[<<x, k>>] = Searched(plan, x)
  <2>1. \A x \in State : Searched(plan, x) \in State
    BY SearchAdvances
  <2> HIDE DEF State, n
  <2>2. QED  BY <2>1
<1> HIDE DEF step, State, n, base, seq
<1>5. PICK it \in [SUBSET (1 .. n) -> State] : IsFold(it, step, base, 1 .. n)
  <2>1. n \in Nat /\ step \in [State \X (1 .. n) -> State]
    BY <1>2, <1>4
  <2>2. QED  BY <1>3, <2>1, FoldExists
<1>6. Folds(it)
  <2>1. \A s \in SUBSET (1 .. n) : s # {} =>
           step[<<it[Before(s)], Max(s)>>] = Searched(plan, it[Before(s)])
    <3>1. \A s \in SUBSET (1 .. n) : s # {} => Before(s) \in SUBSET (1 .. n) /\ Max(s) \in 1 .. n
      BY <1>2, Shorter
    <3>2. QED  BY <1>4, <1>5, <3>1
  <2>2. it = [s \in SUBSET (1 .. n) |-> IF s = {} THEN base ELSE Searched(plan, it[Before(s)])]
    BY <1>5, <2>1 DEF IsFold
  <2>3. QED  BY <1>2, <2>2 DEF Before
<1>7. Folds(any)
  <2> HIDE DEF Folds
  <2>1. QED  BY <1>6
<1> HIDE DEF any
<1>8. \A s \in SUBSET (1 .. n) : any[s] = IF s = {} THEN base ELSE Searched(plan, any[Before(s)])
  BY <1>2, <1>7 DEF Before
<1>9. TakesSteps(any, step, base, State, n)
  <2>1. \A s \in SUBSET (1 .. n) : s # {} => Max(s) \in 1 .. n
    BY <1>2, Shorter
  <2>2. any[{}] = base
    BY <1>8
  <2>3. QED  BY <1>4, <1>8, <2>1, <2>2 DEF TakesSteps
<1>10. PICK run \in [0 .. n -> State] :
          /\ run[0] = base /\ run[n] = any[1 .. n]
          /\ \A k \in 1 .. n : run[k] = step[<<run[k - 1], k>>]
  <2>1. n \in Nat /\ step \in [State \X (1 .. n) -> State]
    BY <1>2, <1>4
  <2>2. HasRun(any, step, base, State, n)
    BY <1>3, <1>9, <2>1, FoldRuns
  <2>3. QED  BY <2>2 DEF HasRun
<1>11. \A k \in 1 .. n : run[k] = Searched(plan, run[k - 1])
  <2>1. \A k \in 1 .. n : k - 1 \in 0 .. n
    BY <1>2
  <2>2. QED  BY <1>4, <1>10, <2>1
<1>12. run[0] = base /\ DetectCycles(plan) = run[n].cycles
  BY <1>1, <1>2, <1>10
<1>13. QED  BY <1>10, <1>11, <1>12 DEF n, State, base

\* The steps that are allowed are enough: all is seen, and nothing is left of the path.
LEMMA SearchComesToAnEnd ==
    ASSUME NEW plan, IsPlan(plan)
    PROVE  \E s \in SearchStates(plan) :
              /\ s.path = <<>> /\ TasksOf(plan) \subseteq s.seen /\ SearchIsRight(plan, s)
              /\ DetectCycles(plan) = s.cycles
<1> DEFINE n == StepsOf(plan)
<1>1. PICK run \in [0 .. n -> SearchStates(plan)] :
         /\ run[0] = NothingSeen
         /\ \A k \in 1 .. n : run[k] = Searched(plan, run[k - 1])
         /\ DetectCycles(plan) = run[n].cycles
  BY SearchRuns
<1>2. n \in Nat /\ WorkLeft(plan, NothingSeen) = n - 1 /\ SearchIsRight(plan, NothingSeen)
  BY StepsFacts
<1> HIDE DEF n
<1> DEFINE Over(s) == s.path = <<>> /\ TasksOf(plan) \subseteq s.seen
           Good(k) == /\ SearchIsRight(plan, run[k])
                      /\ Over(run[k]) \/ WorkLeft(plan, run[k]) + k <= n - 1
           Lost == {k \in Nat : k <= n /\ ~Good(k)}
<1>3. Good(0)
  BY <1>1, <1>2
<1>4. ASSUME NEW k \in 1 .. n, Good(k - 1) PROVE Good(k)
  <2> DEFINE s == run[k - 1]
  <2>1. s \in SearchStates(plan) /\ run[k] = Searched(plan, s)
    <3>1. k - 1 \in 0 .. n
      BY <1>2
    <3>2. QED  BY <1>1, <3>1
  <2>2. SearchIsRight(plan, s) /\ (Over(s) \/ WorkLeft(plan, s) + (k - 1) <= n - 1)
    BY <1>4
  <2> HIDE DEF s, Over
  <2>3. SearchIsRight(plan, run[k])
    BY <2>1, <2>2, SearchStaysRight
  <2>4. CASE Over(s)
    <3>1. Searched(plan, s) = s
      BY <2>4 DEF Over, Searched
    <3>2. QED  BY <2>1, <2>3, <2>4, <3>1
  <2>5. CASE ~Over(s)
    <3>1. /\ WorkLeft(plan, s) \in Nat /\ WorkLeft(plan, run[k]) \in Nat
          /\ WorkLeft(plan, run[k]) + 1 <= WorkLeft(plan, s)
      <4>1. ~Ends(plan, s, Searched(plan, s))
        BY <2>5 DEF Over, Ends
      <4>2. QED  BY <2>1, <4>1, SearchAdvances
    <3>2. WorkLeft(plan, run[k]) + k <= n - 1
      BY <1>2, <2>2, <2>5, <3>1
    <3>3. QED  BY <2>3, <3>2
  <2>6. QED  BY <2>4, <2>5
<1> HIDE DEF Good
<1>5. Lost = {}
  <2> SUFFICES ASSUME Lost # {} PROVE FALSE
    OBVIOUS
  <2>1. PICK k \in Lost : \A m \in Lost : k <= m
    <3>1. Lost \subseteq Nat
      OBVIOUS
    <3> HIDE DEF Lost
    <3>2. QED  BY <3>1, Smallest
  <2>2. k \in Nat /\ k <= n /\ ~Good(k)
    BY <2>1
  <2>3. k # 0
    BY <1>3, <2>2
  <2>4. k - 1 \in Nat /\ k - 1 <= n /\ ~(k <= k - 1) /\ k \in 1 .. n
    BY <1>2, <2>2, <2>3
  <2>5. Good(k - 1)
    BY <2>1, <2>4
  <2>6. QED  BY <1>4, <2>2, <2>4, <2>5
<1>6. Good(n) /\ run[n] \in SearchStates(plan)
  BY <1>1, <1>2, <1>5
<1>7. Over(run[n])
  <2>1. WorkLeft(plan, run[n]) \in Nat
    BY <1>6, SearchAdvances
  <2>2. ~(WorkLeft(plan, run[n]) + n <= n - 1)
    BY <1>2, <2>1
  <2>3. QED  BY <1>6, <2>2 DEF Good
<1>8. SearchIsRight(plan, run[n])
  BY <1>6 DEF Good
<1>9. QED  BY <1>1, <1>6, <1>7, <1>8

\* The search finds a loop exactly when the plan has one, within the steps it is given, and what it
\* names is a loop: each of its tasks leads to another of them. (detectCycles looks at every link
\* once, and tells a task on the path it is walking from one that it is done with)
THEOREM LoopsAreFound ==
    ASSUME NEW plan, IsPlan(plan)
    PROVE  /\ DetectCycles(plan) = {} <=> Acyclic(plan)
           /\ \A loop \in DetectCycles(plan) : \A t \in loop : \E l \in LinksFrom(plan, t) : l.to \in loop
<1>1. PICK s \in SearchStates(plan) :
         /\ s.path = <<>> /\ TasksOf(plan) \subseteq s.seen /\ SearchIsRight(plan, s)
         /\ DetectCycles(plan) = s.cycles
  BY SearchComesToAnEnd
<1>2. \A loop \in DetectCycles(plan) : IsLoop(plan, loop) /\ loop \subseteq TasksOf(plan)
  BY <1>1 DEF SearchIsRight, SearchStates
<1>3. ASSUME DetectCycles(plan) = {} PROVE Acyclic(plan)
  <2>1. HasNoLoop(plan, Behind(s))
    BY <1>1, <1>3 DEF SearchIsRight, BehindIsRight
  <2>2. TasksOf(plan) \subseteq Behind(s)
    <3>1. Len(s.path) = 0
      BY <1>1
    <3>2. QED  BY <1>1, <3>1 DEF Behind
  <2>3. SUFFICES ASSUME NEW S \in SUBSET TasksOf(plan), S # {}
                 PROVE  \E t \in S : \A l \in LinksInto(plan, t) : l.from \notin S
    BY DEF Acyclic
  <2>4. PICK t \in S : \A e \in EdgesOf(plan) : e[2] = t => e[1] \notin S
    BY <2>1, <2>2, <2>3 DEF HasNoLoop
  <2>5. ASSUME NEW l \in LinksInto(plan, t) PROVE l.from \notin S
    <3>1. <<l.from, t>> \in EdgesOf(plan)
      BY <2>3, <2>5, EdgeFacts
    <3>2. QED  BY <2>4, <3>1
  <2>6. QED  BY <2>5
<1>4. ASSUME Acyclic(plan) PROVE DetectCycles(plan) = {}
  <2>1. SUFFICES ASSUME NEW loop \in DetectCycles(plan) PROVE FALSE
    OBVIOUS
  <2>2. PICK t \in loop : \A l \in LinksInto(plan, t) : l.from \notin loop
    BY <1>2, <1>4 DEF Acyclic, IsLoop
  <2>3. PICK u \in loop : <<u, t>> \in EdgesOf(plan)
    BY <1>2 DEF IsLoop
  <2>4. \E l \in LinksInto(plan, t) : l.from = u
    BY <2>3 DEF EdgesOf, LinksInto
  <2>5. QED  BY <2>2, <2>4
<1>5. ASSUME NEW loop \in DetectCycles(plan), NEW t \in loop
      PROVE  \E l \in LinksFrom(plan, t) : l.to \in loop
  <2>1. PICK u \in loop : <<t, u>> \in EdgesOf(plan)
    BY <1>2 DEF IsLoop
  <2>2. \E l \in LinksFrom(plan, t) : l.to = u
    BY <2>1 DEF EdgesOf, LinksFrom
  <2>3. QED  BY <2>2
<1>6. QED  BY <1>3, <1>4, <1>5

-----------------------------------------------------------------------------
(* How far a task may slip *)

\* A schedule as Placement leaves it.
IsPlacement(plan, placed) ==
    /\ placed \in [TasksOf(plan) -> Dates]
    /\ \A t \in TasksOf(plan) : Waits(plan, [at |-> placed], t)
LatestSoFar(plan) == UNION {[T -> Int] : T \in SUBSET TasksOf(plan)}

KnownBounds(plan, placed, latest, task) ==
    {LatestBound(plan, placed, l, latest) : l \in {k \in LinksFrom(plan, task) : k.to \in DOMAIN latest}}
LatestOf(plan, placed, latest, task) ==
    Max({placed[task].end,
         Min({TotalWorkingDays(placed)} \cup KnownBounds(plan, placed, latest, task))})
BoundIn(plan, placed, latest, task) ==
    [t \in DOMAIN latest \cup {task} |->
        IF t = task THEN LatestOf(plan, placed, latest, task) ELSE latest[t]]

LEMMA TotalFacts ==
    ASSUME NEW T, IsFiniteSet(T), NEW placed, placed \in [T -> Dates]
    PROVE  /\ TotalWorkingDays(placed) \in {0} \cup {placed[t].end : t \in T}
           /\ TotalWorkingDays(placed) \in Int /\ 0 <= TotalWorkingDays(placed)
           /\ \A t \in T : placed[t].end <= TotalWorkingDays(placed)
<1> DEFINE end == [t \in T |-> placed[t].end]
           ends == {end[t] : t \in T}
           all == {0} \cup ends
<1>1. end \in [T -> Int] /\ \A t \in T : end[t] = placed[t].end
  BY DEF Dates
<1>2. TotalWorkingDays(placed) = Max(all)
  BY DEF TotalWorkingDays
<1>3. {placed[t].end : t \in T} = ends
  OBVIOUS
<1> HIDE DEF end
<1>4. IsFiniteSet(ends) /\ ends \subseteq Int /\ \A t \in T : end[t] \in ends
  <2> DEFINE tasks == T
  <2>1. IsFiniteSet(tasks) /\ end \in [tasks -> Int]
    BY <1>1
  <2> HIDE DEF tasks
  <2>2. IsFiniteSet({end[t] : t \in tasks})
    BY <2>1, ImageIsFinite
  <2>3. QED  BY <1>1, <2>2 DEF tasks
<1> HIDE DEF ends
<1>5. IsFiniteSet(all) /\ all \subseteq Int /\ 0 \in all
  <2>1. IsFiniteSet(ends \cup {0})
    BY <1>4, FS_AddElement
  <2>2. ends \cup {0} = all
    OBVIOUS
  <2>3. QED  BY <1>4, <2>1, <2>2
<1>6. \A t \in T : end[t] \in all
  BY <1>4
<1>7. all = {0} \cup ends
  OBVIOUS
<1> HIDE DEF all
<1>8. Max(all) \in all /\ \A x \in all : x <= Max(all)
  BY <1>5, Extremes
<1>9. QED  BY <1>1, <1>2, <1>3, <1>5, <1>6, <1>7, <1>8

LEMMA LatestBoundIsInt ==
    ASSUME NEW plan, IsPlan(plan), NEW placed \in [TasksOf(plan) -> Dates],
           NEW latest \in LatestSoFar(plan), NEW task \in TasksOf(plan),
           NEW l \in LinksFrom(plan, task), l.to \in DOMAIN latest
    PROVE  LatestBound(plan, placed, l, latest) \in Int
<1>1. /\ l.from = task /\ l.to \in TasksOf(plan) /\ l.lagDays \in Int /\ l.type \in LinkTypes
  BY DEF LinksFrom, IsPlan
<1>2. latest[l.to] \in Int
  BY DEF LatestSoFar
<1>3. Duration(plan, l.to) \in Int
  BY <1>1, PlanFacts
<1>4. placed[l.from].start \in Int /\ placed[l.from].end \in Int
  BY <1>1 DEF Dates
<1>5. QED  BY <1>1, <1>2, <1>3, <1>4 DEF LatestBound, LinkTypes

\* The latest end of a task: its own, or within the whole and within what each successor leaves.
LEMMA LatestFacts ==
    ASSUME NEW plan, IsPlan(plan), NEW placed \in [TasksOf(plan) -> Dates],
           NEW latest \in LatestSoFar(plan), NEW task \in TasksOf(plan)
    PROVE  LET finish == LatestOf(plan, placed, latest, task)
           IN  /\ finish \in Int /\ placed[task].end <= finish /\ finish <= TotalWorkingDays(placed)
               /\ \/ finish = placed[task].end
                  \/ \A l \in LinksFrom(plan, task) : l.to \in DOMAIN latest =>
                        finish <= LatestBound(plan, placed, l, latest)
<1> DEFINE links == {k \in LinksFrom(plan, task) : k.to \in DOMAIN latest}
           bound == [l \in links |-> LatestBound(plan, placed, l, latest)]
           bounds == {bound[l] : l \in links}
           total == TotalWorkingDays(placed)
           all == {total} \cup bounds
           end == placed[task].end
<1>1. bound \in [links -> Int] /\ \A l \in links : bound[l] = LatestBound(plan, placed, l, latest)
  <2>1. \A l \in links : LatestBound(plan, placed, l, latest) \in Int
    BY LatestBoundIsInt
  <2> HIDE DEF links
  <2>2. QED  BY <2>1
<1>2. IsFiniteSet(links)
  <2>1. links \in SUBSET plan.links
    BY DEF LinksFrom
  <2>2. IsFiniteSet(plan.links)
    BY DEF IsPlan
  <2>3. QED  BY <2>1, <2>2, FS_Subset
<1>3. LatestOf(plan, placed, latest, task) = Max({end, Min(all)})
  BY DEF LatestOf, KnownBounds
<1>4. total \in Int /\ end \in Int /\ end <= total
  <2>1. IsFiniteSet(TasksOf(plan))
    BY DEF IsPlan
  <2>2. QED  BY <2>1, TotalFacts DEF Dates
<1>5. \A l \in LinksFrom(plan, task) : l.to \in DOMAIN latest => l \in links
  OBVIOUS
<1> HIDE DEF links, bound, total, end
<1>6. IsFiniteSet(bounds) /\ bounds \subseteq Int /\ \A l \in links : bound[l] \in bounds
  <2>1. IsFiniteSet(bounds)
    BY <1>1, <1>2, ImageIsFinite
  <2>2. QED  BY <1>1, <2>1
<1> HIDE DEF bounds
<1>7. IsFiniteSet(all) /\ all \subseteq Int /\ total \in all /\ \A l \in links : bound[l] \in all
  <2>1. IsFiniteSet(bounds \cup {total})
    BY <1>6, FS_AddElement
  <2>2. bounds \cup {total} = all
    OBVIOUS
  <2>3. QED  BY <1>4, <1>6, <2>1, <2>2
<1> HIDE DEF all
<1> DEFINE low == Min(all)
<1>8. low \in Int /\ low <= total /\ \A l \in links : low <= bound[l]
  <2>1. Min(all) \in all /\ \A x \in all : Min(all) <= x
    BY <1>7, Extremes
  <2>2. QED  BY <1>7, <2>1
<1> HIDE DEF low
<1> DEFINE finish == Max({end, low})
<1>9. finish \in Int /\ end <= finish /\ finish \in {end, low}
  BY <1>4, <1>8, Larger
<1> HIDE DEF finish
<1>10. finish <= total
  BY <1>4, <1>8, <1>9
<1>11. finish = end \/ \A l \in links : finish <= bound[l]
  BY <1>8, <1>9
<1>12. finish = end \/ \A l \in LinksFrom(plan, task) : l.to \in DOMAIN latest =>
          finish <= LatestBound(plan, placed, l, latest)
  BY <1>1, <1>5, <1>11
<1>13. LatestOf(plan, placed, latest, task) = finish
  BY <1>3 DEF finish, low
<1>14. QED  BY <1>9, <1>10, <1>12, <1>13 DEF total, end

LEMMA BoundInFacts ==
    ASSUME NEW plan, IsPlan(plan), NEW placed \in [TasksOf(plan) -> Dates],
           NEW latest \in LatestSoFar(plan), NEW task \in TasksOf(plan)
    PROVE  LET next == BoundIn(plan, placed, latest, task)
           IN  /\ next \in LatestSoFar(plan) /\ DOMAIN next = DOMAIN latest \cup {task}
               /\ next[task] = LatestOf(plan, placed, latest, task)
               /\ \A t \in DOMAIN latest : t # task => next[t] = latest[t]
<1> DEFINE finish == LatestOf(plan, placed, latest, task)
           next == [t \in DOMAIN latest \cup {task} |-> IF t = task THEN finish ELSE latest[t]]
           T == DOMAIN latest \cup {task}
<1>1. finish \in Int
  BY LatestFacts
<1>2. BoundIn(plan, placed, latest, task) = next
  BY DEF BoundIn
<1>3. DOMAIN latest \subseteq TasksOf(plan) /\ \A t \in DOMAIN latest : latest[t] \in Int
  BY DEF LatestSoFar
<1> HIDE DEF finish
<1>4. /\ next \in [T -> Int] /\ T \in SUBSET TasksOf(plan) /\ DOMAIN next = T
      /\ next[task] = finish /\ \A t \in DOMAIN latest : t # task => next[t] = latest[t]
  BY <1>1, <1>3
<1> HIDE DEF next
<1>5. next \in LatestSoFar(plan)
  <2> HIDE DEF T
  <2>1. QED  BY <1>4 DEF LatestSoFar
<1>6. QED  BY <1>2, <1>4, <1>5 DEF finish

\* The order, from the last: each task comes after those that wait for it.
LEMMA ReverseFacts ==
    ASSUME NEW plan, IsPlan(plan), Acyclic(plan), NEW back, back = Reverse(TopologicalOrder(plan))
    PROVE  /\ back \in Seq(TasksOf(plan)) /\ Len(back) \in Nat
           /\ TasksOf(plan) = {back[i] : i \in 1 .. Len(back)}
           /\ \A i, j \in 1 .. Len(back) : back[i] = back[j] => i = j
           /\ \A i \in 1 .. Len(back) : \A l \in LinksFrom(plan, back[i]) :
                 \E j \in 1 .. (i - 1) : back[j] = l.to
<1> DEFINE order == TopologicalOrder(plan)
           n == Len(order)
<1>1. IsOrdered(plan, order) /\ ToSet(order) = TasksOf(plan)
  BY OrderFacts
<1>2. back = Reverse(order)
  OBVIOUS
<1> HIDE DEF order
<1>3. /\ order \in Seq(TasksOf(plan)) /\ n \in Nat
      /\ \A i, j \in 1 .. n : order[i] = order[j] => i = j
      /\ \A i \in 1 .. n : \A l \in LinksInto(plan, order[i]) : \E j \in 1 .. (i - 1) : order[j] = l.from
      /\ \A i \in 1 .. n : order[i] \in TasksOf(plan)
      /\ TasksOf(plan) = {order[i] : i \in 1 .. n}
  <2>1. n \in Nat /\ ToSet(order) = {order[i] : i \in 1 .. n}
    BY <1>1, OrderedFacts
  <2>2. QED  BY <1>1, <2>1 DEF IsOrdered
<1>4. back = [i \in 1 .. n |-> order[(n - i) + 1]]
  BY <1>2 DEF Reverse
<1> HIDE DEF n
<1>5. \A i \in 1 .. n : /\ (n - i) + 1 \in 1 .. n /\ (n - ((n - i) + 1)) + 1 = i
                        /\ back[i] = order[(n - i) + 1]
  <2>1. \A i \in 1 .. n : (n - i) + 1 \in 1 .. n /\ (n - ((n - i) + 1)) + 1 = i
    BY <1>3
  <2>2. QED  BY <1>4, <2>1
<1>6. back \in [1 .. n -> TasksOf(plan)]
  BY <1>3, <1>4, <1>5
<1>7. back \in Seq(TasksOf(plan)) /\ Len(back) = n
  <2>1. back \in Seq(TasksOf(plan))
    <3>1. n \in Nat
      BY <1>3
    <3>2. back \in UNION {[1 .. m -> TasksOf(plan)] : m \in Nat}
      BY <1>6, <3>1
    <3>3. QED  BY <3>2, SeqDef
  <2>2. DOMAIN back = 1 .. n
    BY <1>6
  <2>3. QED  BY <1>3, <2>1, <2>2, LenProperties
<1>8. \A i, j \in 1 .. n : back[i] = back[j] => i = j
  <2>1. TAKE i, j \in 1 .. n
  <2>2. HAVE back[i] = back[j]
  <2> DEFINE k == (n - i) + 1
             m == (n - j) + 1
  <2>3. k \in 1 .. n /\ m \in 1 .. n /\ order[k] = order[m] /\ (n - k) + 1 = i /\ (n - m) + 1 = j
    BY <1>5, <2>2
  <2> HIDE DEF k, m
  <2>4. k = m
    BY <1>3, <2>3
  <2>5. QED  BY <2>3, <2>4
<1>9. TasksOf(plan) = {back[i] : i \in 1 .. n}
  <2>1. \A i \in 1 .. n : back[i] \in TasksOf(plan)
    BY <1>6
  <2>2. ASSUME NEW t \in TasksOf(plan) PROVE \E i \in 1 .. n : back[i] = t
    <3>1. PICK j \in 1 .. n : order[j] = t
      BY <1>3
    <3>2. back[(n - j) + 1] = order[j] /\ (n - j) + 1 \in 1 .. n
      BY <1>5
    <3>3. QED  BY <3>1, <3>2
  <2>3. QED  BY <2>1, <2>2
<1>10. ASSUME NEW i \in 1 .. n, NEW l \in LinksFrom(plan, back[i])
       PROVE  \E j \in 1 .. (i - 1) : back[j] = l.to
  <2>1. l.to \in TasksOf(plan) /\ l.from = back[i] /\ back[i] \in TasksOf(plan) /\ l \in plan.links
    BY <1>6, <1>10 DEF LinksFrom
  <2>2. PICK k \in 1 .. n : order[k] = l.to
    BY <1>3, <2>1
  <2>3. l \in LinksInto(plan, order[k])
    BY <2>1, <2>2 DEF LinksInto
  <2>4. PICK m \in 1 .. (k - 1) : order[m] = l.from
    BY <1>3, <2>3
  <2>5. m = (n - i) + 1
    <3>1. m \in 1 .. n
      BY <1>3
    <3>2. order[m] = order[(n - i) + 1]
      BY <1>5, <2>1, <2>4
    <3>3. QED  BY <1>3, <1>5, <3>1, <3>2
  <2>6. (n - k) + 1 \in 1 .. (i - 1)
    BY <1>3, <2>4, <2>5
  <2>7. back[(n - k) + 1] = l.to
    BY <1>5, <2>2
  <2>8. QED  BY <2>6, <2>7
<1>11. QED  BY <1>3, <1>7, <1>8, <1>9, <1>10

LEMMA LatestRuns ==
    ASSUME NEW plan, IsPlan(plan), NEW placed \in [TasksOf(plan) -> Dates],
           NEW back, back = Reverse(TopologicalOrder(plan)), back \in Seq(TasksOf(plan))
    PROVE  \E run \in [0 .. Len(back) -> LatestSoFar(plan)] :
              /\ run[0] = <<>>
              /\ \A k \in 1 .. Len(back) : run[k] = BoundIn(plan, placed, run[k - 1], back[k])
              /\ LatestFinish(plan, placed) = run[Len(back)]
<1> DEFINE n == Len(back)
           State == LatestSoFar(plan)
           base == <<>>
           Folds(any) == any = [s \in SUBSET DOMAIN back |->
               IF s = {} THEN base ELSE BoundIn(plan, placed, any[s \ {Max(s)}], back[Max(s)])]
           any == CHOOSE any : Folds(any)
           step == [x \in State \X (1 .. n) |-> BoundIn(plan, placed, x[1], back[x[2]])]
<1>1. LatestFinish(plan, placed) = any[DOMAIN back]
  BY DEF LatestFinish, FoldLeft, MapThenFoldSet, BoundIn, LatestOf, KnownBounds
<1>2. n \in Nat /\ DOMAIN back = 1 .. n /\ \A k \in 1 .. n : back[k] \in TasksOf(plan)
  OBVIOUS
<1>3. base \in State
  <2> DEFINE T == {}
  <2>1. base \in [T -> Int]
    <3>1. <<>> \in Seq(Int) /\ Len(<<>>) = 0
      OBVIOUS
    <3>2. <<>> \in [1 .. 0 -> Int]
      BY <3>1, LenProperties
    <3>3. 1 .. 0 = {}
      OBVIOUS
    <3>4. QED  BY <3>2, <3>3
  <2>2. T \in SUBSET TasksOf(plan)
    OBVIOUS
  <2> HIDE DEF T, base
  <2>3. QED  BY <2>1, <2>2 DEF LatestSoFar
<1>4. /\ step \in [State \X (1 .. n) -> State]
      /\ \A x \in State : \A k \in 1 .. n : step[<<x, k>>] = BoundIn(plan, placed, x, back[k])
  <2>1. \A x \in State : \A k \in 1 .. n : BoundIn(plan, placed, x, back[k]) \in State
    BY <1>2, BoundInFacts
  <2> HIDE DEF State, n
  <2>2. QED  BY <2>1
<1> HIDE DEF step, State, n, base
<1>5. PICK it \in [SUBSET (1 .. n) -> State] : IsFold(it, step, base, 1 .. n)
  <2>1. n \in Nat /\ step \in [State \X (1 .. n) -> State]
    BY <1>2, <1>4
  <2>2. QED  BY <1>3, <2>1, FoldExists
<1>6. Folds(it)
  <2>1. \A s \in SUBSET (1 .. n) : s # {} =>
           step[<<it[Before(s)], Max(s)>>] = BoundIn(plan, placed, it[Before(s)], back[Max(s)])
    <3>1. \A s \in SUBSET (1 .. n) : s # {} => Before(s) \in SUBSET (1 .. n) /\ Max(s) \in 1 .. n
      BY <1>2, Shorter
    <3>2. QED  BY <1>4, <1>5, <3>1
  <2>2. it = [s \in SUBSET (1 .. n) |->
                 IF s = {} THEN base ELSE BoundIn(plan, placed, it[Before(s)], back[Max(s)])]
    BY <1>5, <2>1 DEF IsFold
  <2>3. QED  BY <1>2, <2>2 DEF Before
<1>7. Folds(any)
  <2> HIDE DEF Folds
  <2>1. QED  BY <1>6
<1> HIDE DEF any
<1>8. \A s \in SUBSET (1 .. n) :
         any[s] = IF s = {} THEN base ELSE BoundIn(plan, placed, any[Before(s)], back[Max(s)])
  BY <1>2, <1>7 DEF Before
<1>9. TakesSteps(any, step, base, State, n)
  <2>1. \A s \in SUBSET (1 .. n) : s # {} => Max(s) \in 1 .. n
    BY <1>2, Shorter
  <2>2. any[{}] = base
    BY <1>8
  <2>3. QED  BY <1>4, <1>8, <2>1, <2>2 DEF TakesSteps
<1>10. PICK run \in [0 .. n -> State] :
          /\ run[0] = base /\ run[n] = any[1 .. n]
          /\ \A k \in 1 .. n : run[k] = step[<<run[k - 1], k>>]
  <2>1. n \in Nat /\ step \in [State \X (1 .. n) -> State]
    BY <1>2, <1>4
  <2>2. HasRun(any, step, base, State, n)
    BY <1>3, <1>9, <2>1, FoldRuns
  <2>3. QED  BY <2>2 DEF HasRun
<1>11. \A k \in 1 .. n : run[k] = BoundIn(plan, placed, run[k - 1], back[k])
  <2>1. \A k \in 1 .. n : k - 1 \in 0 .. n
    BY <1>2
  <2>2. QED  BY <1>4, <1>10, <2>1
<1>12. run[0] = base /\ LatestFinish(plan, placed) = run[n]
  BY <1>1, <1>2, <1>10
<1>13. QED  BY <1>10, <1>11, <1>12 DEF n, State, base

\* No end is later than the whole, or than every task that waits for it leaves.
LatestIsRight(plan, placed, latest) ==
    \A t \in DOMAIN latest :
        /\ placed[t].end <= latest[t] /\ latest[t] <= TotalWorkingDays(placed)
        /\ \A l \in LinksFrom(plan, t) : l.to \in DOMAIN latest
        /\ \/ latest[t] = placed[t].end
           \/ \A l \in LinksFrom(plan, t) : latest[t] <= LatestBound(plan, placed, l, latest)

LEMMA BoundingStaysRight ==
    ASSUME NEW plan, IsPlan(plan), NEW placed \in [TasksOf(plan) -> Dates],
           NEW latest \in LatestSoFar(plan), LatestIsRight(plan, placed, latest),
           NEW task \in TasksOf(plan), task \notin DOMAIN latest,
           \A l \in LinksFrom(plan, task) : l.to \in DOMAIN latest
    PROVE  LatestIsRight(plan, placed, BoundIn(plan, placed, latest, task))
<1> DEFINE next == BoundIn(plan, placed, latest, task)
           finish == LatestOf(plan, placed, latest, task)
<1>1. /\ next \in LatestSoFar(plan) /\ DOMAIN next = DOMAIN latest \cup {task}
      /\ next[task] = finish
      /\ \A t \in DOMAIN latest : t # task => next[t] = latest[t]
  BY BoundInFacts
<1>2. /\ placed[task].end <= finish /\ finish <= TotalWorkingDays(placed)
      /\ \/ finish = placed[task].end
         \/ \A l \in LinksFrom(plan, task) : finish <= LatestBound(plan, placed, l, latest)
  BY LatestFacts
<1> HIDE DEF next, finish
<1>3. \A t \in DOMAIN latest : t # task /\ next[t] = latest[t]
  BY <1>1
<1>4. ASSUME NEW l, l.to \in DOMAIN latest
      PROVE  LatestBound(plan, placed, l, next) = LatestBound(plan, placed, l, latest)
  <2>1. next[l.to] = latest[l.to]
    BY <1>3, <1>4
  <2>2. QED  BY <2>1 DEF LatestBound
<1>5. ASSUME NEW t \in DOMAIN next
      PROVE  /\ placed[t].end <= next[t] /\ next[t] <= TotalWorkingDays(placed)
             /\ \A l \in LinksFrom(plan, t) : l.to \in DOMAIN next
             /\ \/ next[t] = placed[t].end
                \/ \A l \in LinksFrom(plan, t) : next[t] <= LatestBound(plan, placed, l, next)
  <2>1. CASE t = task
    <3>1. \A l \in LinksFrom(plan, task) :
             /\ l.to \in DOMAIN next
             /\ LatestBound(plan, placed, l, next) = LatestBound(plan, placed, l, latest)
      BY <1>1, <1>4
    <3>2. QED  BY <1>1, <1>2, <2>1, <3>1
  <2>2. CASE t \in DOMAIN latest
    <3>1. /\ placed[t].end <= latest[t] /\ latest[t] <= TotalWorkingDays(placed)
          /\ \A l \in LinksFrom(plan, t) : l.to \in DOMAIN latest
          /\ \/ latest[t] = placed[t].end
             \/ \A l \in LinksFrom(plan, t) : latest[t] <= LatestBound(plan, placed, l, latest)
      BY <2>2 DEF LatestIsRight
    <3>2. \A l \in LinksFrom(plan, t) :
             /\ l.to \in DOMAIN next
             /\ LatestBound(plan, placed, l, next) = LatestBound(plan, placed, l, latest)
      BY <1>1, <1>4, <3>1
    <3>3. next[t] = latest[t]
      BY <1>3, <2>2
    <3>4. QED  BY <3>1, <3>2, <3>3
  <2>3. QED  BY <1>1, <2>1, <2>2
<1>6. QED  BY <1>5 DEF LatestIsRight, next

LEMMA LatestFinishIsRight ==
    ASSUME NEW plan, IsPlan(plan), Acyclic(plan), NEW placed \in [TasksOf(plan) -> Dates]
    PROVE  /\ LatestFinish(plan, placed) \in [TasksOf(plan) -> Int]
           /\ LatestIsRight(plan, placed, LatestFinish(plan, placed))
<1>0. PICK back : back = Reverse(TopologicalOrder(plan))
  OBVIOUS
<1> DEFINE n == Len(back)
<1>1. /\ back \in Seq(TasksOf(plan)) /\ n \in Nat
      /\ TasksOf(plan) = {back[i] : i \in 1 .. n}
      /\ \A i, j \in 1 .. n : back[i] = back[j] => i = j
      /\ \A i \in 1 .. n : \A l \in LinksFrom(plan, back[i]) : \E j \in 1 .. (i - 1) : back[j] = l.to
  BY <1>0, ReverseFacts
<1>2. PICK run \in [0 .. n -> LatestSoFar(plan)] :
         /\ run[0] = <<>>
         /\ \A k \in 1 .. n : run[k] = BoundIn(plan, placed, run[k - 1], back[k])
         /\ LatestFinish(plan, placed) = run[n]
  <2>1. back \in Seq(TasksOf(plan))
    BY <1>1
  <2>2. QED  BY <1>0, <2>1, LatestRuns
<1> HIDE DEF n
<1> DEFINE Good(k) == DOMAIN run[k] = {back[i] : i \in 1 .. k} /\ LatestIsRight(plan, placed, run[k])
           Lost == {k \in Nat : k <= n /\ ~Good(k)}
<1>3. Good(0)
  <2>1. DOMAIN run[0] = {}
    <3>1. <<>> \in Seq(Int) /\ Len(<<>>) = 0
      OBVIOUS
    <3>2. <<>> \in [1 .. 0 -> Int] /\ 1 .. 0 = {}
      BY <3>1, LenProperties
    <3>3. QED  BY <1>2, <3>2
  <2>2. {back[i] : i \in 1 .. 0} = {}
    OBVIOUS
  <2>3. LatestIsRight(plan, placed, run[0])
    BY <2>1 DEF LatestIsRight
  <2>4. QED  BY <2>1, <2>2, <2>3
<1>4. ASSUME NEW k \in 1 .. n, Good(k - 1) PROVE Good(k)
  <2>1. /\ run[k - 1] \in LatestSoFar(plan) /\ LatestIsRight(plan, placed, run[k - 1])
        /\ DOMAIN run[k - 1] = {back[i] : i \in 1 .. (k - 1)}
        /\ run[k] = BoundIn(plan, placed, run[k - 1], back[k]) /\ back[k] \in TasksOf(plan)
    <3>1. k - 1 \in 0 .. n
      BY <1>1
    <3>2. QED  BY <1>1, <1>2, <1>4, <3>1
  <2>2. back[k] \notin DOMAIN run[k - 1]
    <3>1. \A i \in 1 .. (k - 1) : i \in 1 .. n /\ i # k
      BY <1>1
    <3>2. QED  BY <1>1, <2>1, <3>1
  <2>3. \A l \in LinksFrom(plan, back[k]) : l.to \in DOMAIN run[k - 1]
    BY <1>1, <2>1
  <2>4. DOMAIN run[k] = DOMAIN run[k - 1] \cup {back[k]}
    <3>1. run[k] = BoundIn(plan, placed, run[k - 1], back[k])
      BY <2>1
    <3>2. QED  BY <3>1 DEF BoundIn
  <2>5. LatestIsRight(plan, placed, run[k])
    BY <2>1, <2>2, <2>3, BoundingStaysRight
  <2>6. {back[i] : i \in 1 .. (k - 1)} \cup {back[k]} = {back[i] : i \in 1 .. k}
    <3>1. \A i : i \in 1 .. k <=> i \in 1 .. (k - 1) \/ i = k
      BY <1>1
    <3>2. QED  BY <3>1
  <2>7. QED  BY <2>1, <2>4, <2>5, <2>6
<1> HIDE DEF Good
<1>5. Lost = {}
  <2> SUFFICES ASSUME Lost # {} PROVE FALSE
    OBVIOUS
  <2>1. PICK k \in Lost : \A m \in Lost : k <= m
    <3>1. Lost \subseteq Nat
      OBVIOUS
    <3> HIDE DEF Lost
    <3>2. QED  BY <3>1, Smallest
  <2>2. k \in Nat /\ k <= n /\ ~Good(k)
    BY <2>1
  <2>3. k # 0
    BY <1>3, <2>2
  <2>4. k - 1 \in Nat /\ k - 1 <= n /\ ~(k <= k - 1) /\ k \in 1 .. n
    BY <1>1, <2>2, <2>3
  <2>5. Good(k - 1)
    BY <2>1, <2>4
  <2>6. QED  BY <1>4, <2>2, <2>4, <2>5
<1>6. Good(n) /\ run[n] \in LatestSoFar(plan)
  BY <1>1, <1>2, <1>5
<1>7. DOMAIN run[n] = TasksOf(plan) /\ LatestIsRight(plan, placed, run[n])
  BY <1>1, <1>6 DEF Good
<1>8. run[n] \in [TasksOf(plan) -> Int]
  BY <1>6, <1>7 DEF LatestSoFar
<1>9. QED  BY <1>2, <1>7, <1>8

LEMMA SlackFacts ==
    ASSUME NEW plan, IsPlan(plan), Acyclic(plan), NEW placed \in [TasksOf(plan) -> Dates]
    PROVE  LET latest == LatestFinish(plan, placed)
               slipped == Slipped(plan, placed, Slack(plan, placed))
           IN  /\ slipped \in [TasksOf(plan) -> Dates]
               /\ \A t \in TasksOf(plan) :
                     /\ slipped[t].end = latest[t]
                     /\ slipped[t].start = placed[t].start + latest[t] - placed[t].end
                     /\ placed[t].end <= latest[t] /\ latest[t] <= TotalWorkingDays(placed)
<1> DEFINE latest == LatestFinish(plan, placed)
           slack == Slack(plan, placed)
           slipped == Slipped(plan, placed, slack)
<1>1. latest \in [TasksOf(plan) -> Int] /\ LatestIsRight(plan, placed, latest)
  BY LatestFinishIsRight
<1>2. slack = [t \in TasksOf(plan) |-> Max({0, latest[t] - placed[t].end})]
  BY DEF Slack
<1>3. slipped = [t \in TasksOf(plan) |-> [start |-> placed[t].start + slack[t],
                                         end |-> placed[t].end + slack[t]]]
  BY DEF Slipped
<1> HIDE DEF latest, slack, slipped
<1>4. ASSUME NEW t \in TasksOf(plan)
      PROVE  /\ latest[t] \in Int /\ placed[t].end \in Int /\ placed[t].start \in Int
             /\ placed[t].end <= latest[t] /\ latest[t] <= TotalWorkingDays(placed)
             /\ slack[t] = latest[t] - placed[t].end
  <2>1. /\ latest[t] \in Int /\ placed[t].end \in Int /\ placed[t].start \in Int
        /\ placed[t].end <= latest[t] /\ latest[t] <= TotalWorkingDays(placed)
    BY <1>1 DEF LatestIsRight, Dates
  <2> DEFINE days == latest[t] - placed[t].end
  <2>2. days \in Int /\ 0 <= days /\ 0 \in Int
    BY <2>1
  <2>3. slack[t] = Max({0, days})
    BY <1>2
  <2> HIDE DEF days
  <2>4. Max({0, days}) = days
    <3>1. Max({0, days}) \in {0, days} /\ days <= Max({0, days})
      BY <2>2, Larger
    <3>2. QED  BY <2>2, <3>1
  <2>5. QED  BY <2>1, <2>3, <2>4 DEF days
<1>5. ASSUME NEW t \in TasksOf(plan)
      PROVE  /\ slipped[t].end = latest[t] /\ slipped[t] \in Dates
             /\ slipped[t].start = placed[t].start + latest[t] - placed[t].end
  <2>1. slipped[t] = [start |-> placed[t].start + slack[t], end |-> placed[t].end + slack[t]]
    BY <1>3
  <2>2. slipped[t].start = placed[t].start + slack[t] /\ slipped[t].end = placed[t].end + slack[t]
    BY <2>1
  <2>3. placed[t].start + slack[t] \in Int /\ placed[t].end + slack[t] \in Int
    BY <1>4
  <2>4. QED  BY <1>4, <2>1, <2>2, <2>3 DEF Dates
<1>6. slipped \in [TasksOf(plan) -> Dates]
  BY <1>3, <1>5
<1>7. QED  BY <1>4, <1>5, <1>6 DEF latest, slipped, slack

LEMMA SlippedIsFollowed ==
    ASSUME NEW plan, IsPlan(plan), Acyclic(plan), LagsAreKnown(plan),
           NEW placed, IsPlacement(plan, placed)
    PROVE  Followed(plan, Slipped(plan, placed, Slack(plan, placed)))
<1> DEFINE latest == LatestFinish(plan, placed)
           slipped == Slipped(plan, placed, Slack(plan, placed))
<1>1. latest \in [TasksOf(plan) -> Int] /\ LatestIsRight(plan, placed, latest)
  BY LatestFinishIsRight DEF IsPlacement
<1>2. /\ slipped \in [TasksOf(plan) -> Dates]
      /\ \A t \in TasksOf(plan) :
            /\ slipped[t].end = latest[t]
            /\ slipped[t].start = placed[t].start + latest[t] - placed[t].end
            /\ placed[t].end <= latest[t]
  BY SlackFacts DEF IsPlacement
<1> HIDE DEF latest, slipped
<1>3. ASSUME NEW t \in TasksOf(plan)
      PROVE  /\ placed[t].start \in Int /\ placed[t].end \in Int
             /\ slipped[t].start \in Int /\ slipped[t].end \in Int
             /\ 1 <= placed[t].start /\ placed[t].start <= slipped[t].start
             /\ placed[t].end = placed[t].start + Duration(plan, t) - 1
             /\ slipped[t].end = slipped[t].start + Duration(plan, t) - 1
             /\ slipped[t].end = latest[t]
             /\ Duration(plan, t) \in Int
  <2>1. placed[t] \in Dates /\ slipped[t] \in Dates
    BY <1>2 DEF IsPlacement
  <2>2. 1 <= placed[t].start /\ placed[t].end = placed[t].start + Duration(plan, t) - 1
    BY DEF IsPlacement, Waits
  <2>3. Duration(plan, t) \in Int
    BY PlanFacts
  <2>4. /\ placed[t].start \in Int /\ placed[t].end \in Int
        /\ slipped[t].start \in Int /\ slipped[t].end \in Int
    BY <2>1 DEF Dates
  <2>5. /\ slipped[t].end = latest[t] /\ placed[t].end <= latest[t]
        /\ slipped[t].start = placed[t].start + latest[t] - placed[t].end
    BY <1>2
  <2>6. latest[t] \in Int
    BY <1>1
  <2>7. placed[t].start <= slipped[t].start /\ slipped[t].end = slipped[t].start + Duration(plan, t) - 1
    BY <2>2, <2>3, <2>4, <2>5, <2>6
  <2>8. QED  BY <2>2, <2>3, <2>4, <2>5, <2>7
<1>4. ASSUME NEW l \in plan.links, {l.from, l.to} \subseteq TasksOf(plan)
      PROVE  Respected(plan, slipped, l)
  <2> DEFINE from == l.from
             to == l.to
             lag == l.lagDays
             duration == Duration(plan, to)
             day(dates) == ConstraintDay(l.type, dates, duration)
  <2>1. /\ from \in TasksOf(plan) /\ to \in TasksOf(plan)
        /\ l \in LinksInto(plan, to) /\ l \in LinksFrom(plan, from)
        /\ lag \in Int /\ l.type \in LinkTypes
        /\ lag > 0 => l.type \in {"FINISH_TO_START", "FINISH_TO_FINISH"}
    BY <1>4 DEF LinksInto, LinksFrom, IsPlan, LagsAreKnown
  <2>2. day(placed[from]) + lag <= placed[to].start
    BY <2>1 DEF IsPlacement, Waits
  <2>3. /\ placed[from] \in Dates /\ slipped[from] \in Dates
    BY <1>2, <2>1 DEF IsPlacement
  <2>4. day(placed[from]) \in Int /\ day(slipped[from]) \in Int
    <3>1. duration \in Int
      BY <1>3, <2>1
    <3>2. QED  BY <2>1, <2>3, <3>1, ConstraintFacts
  <2>5. latest[from] = placed[from].end \/ latest[from] <= LatestBound(plan, placed, l, latest)
    BY <1>1, <2>1 DEF LatestIsRight
  <2>6. Respected(plan, slipped, l) <=> slipped[to].start >= day(slipped[from]) + lag
    BY DEF Respected
  <2> DEFINE dt == Duration(plan, from)
  <2>7. /\ placed[to].start \in Int /\ slipped[to].start \in Int
        /\ placed[to].start <= slipped[to].start /\ duration \in Int /\ dt \in Int
        /\ slipped[from].start \in Int /\ placed[from].start \in Int
        /\ placed[from].end = placed[from].start + dt - 1
        /\ slipped[from].end = slipped[from].start + dt - 1 /\ slipped[from].end = latest[from]
        /\ slipped[to].end = slipped[to].start + duration - 1 /\ slipped[to].end = latest[to]
    BY <1>3, <2>1
  <2> HIDE DEF dt
  <2>8. CASE latest[from] = placed[from].end
    <3> DEFINE a == slipped[from]
               b == placed[from]
    <3>1. /\ a.start \in Int /\ b.start \in Int /\ dt \in Int
          /\ a.end = a.start + dt - 1 /\ b.end = b.start + dt - 1 /\ a.end = b.end
      <4>1. slipped[from].end = placed[from].end
        <5> DEFINE last == latest[from]
        <5>1. slipped[from].end = last /\ last = placed[from].end
          BY <2>7, <2>8
        <5> HIDE DEF last
        <5>2. QED  BY <5>1
      <4>2. QED  BY <2>7, <4>1
    <3>2. a \in Dates /\ b \in Dates
      BY <2>3
    <3> HIDE DEF a, b
    <3>3. a.start = b.start
      <4> DEFINE p == a.start
                 q == b.start
                 last == a.end
      <4>1. p \in Int /\ q \in Int /\ dt \in Int /\ last = p + dt - 1 /\ last = q + dt - 1
        BY <3>1
      <4> HIDE DEF p, q, last
      <4>2. p = q
        BY <4>1
      <4>3. QED  BY <4>2 DEF p, q
    <3>4. a = b
      BY <3>1, <3>2, <3>3 DEF Dates
    <3> DEFINE due == day(placed[from]) + lag
               began == placed[to].start
               begins == slipped[to].start
    <3>5. day(slipped[from]) + lag = due
      BY <3>4 DEF a, b
    <3>6. due \in Int /\ due <= began /\ began \in Int /\ begins \in Int /\ began <= begins
      BY <2>1, <2>2, <2>4, <2>7
    <3> HIDE DEF due, began
    <3>7. begins >= due
      <4> HIDE DEF begins
      <4>1. QED  BY <3>6
    <3>8. QED  BY <2>6, <3>5, <3>7 DEF begins
  <2>9. ASSUME latest[from] <= LatestBound(plan, placed, l, latest)
        PROVE  day(slipped[from]) + lag <= slipped[to].start
    <3>1. LatestBound(plan, placed, l, latest) =
            CASE l.type = "FINISH_TO_START" -> slipped[to].start - 1 - lag
              [] l.type = "START_TO_START" -> slipped[to].start + dt - 1
              [] l.type = "FINISH_TO_FINISH" -> slipped[to].end - lag
              [] l.type = "START_TO_FINISH" -> slipped[to].end
      <4>1. latest[to] - duration + 1 = slipped[to].start
        BY <2>7
      <4>2. placed[from].end - placed[from].start = dt - 1
        BY <2>7
      <4>3. slipped[to].start + (dt - 1) = slipped[to].start + dt - 1
        BY <2>7
      <4>4. latest[to] = slipped[to].end
        BY <2>7
      <4>5. QED  BY <4>1, <4>2, <4>3, <4>4 DEF LatestBound
    <3>2. latest[from] = slipped[from].start + dt - 1
      BY <2>7
    <3>3. CASE l.type = "FINISH_TO_START"
      <4>1. day(slipped[from]) = slipped[from].end + 1
        BY <3>3 DEF ConstraintDay
      <4>2. slipped[from].start + dt - 1 <= slipped[to].start - 1 - lag
        BY <2>9, <3>1, <3>2, <3>3
      <4>3. QED  BY <2>1, <2>7, <4>1, <4>2
    <3>4. CASE l.type = "START_TO_START"
      <4>1. day(slipped[from]) = slipped[from].start
        BY <3>4 DEF ConstraintDay
      <4>2. slipped[from].start + dt - 1 <= slipped[to].start + dt - 1
        BY <2>9, <3>1, <3>2, <3>4
      <4>3. lag <= 0
        BY <2>1, <3>4
      <4>4. QED  BY <2>1, <2>7, <4>1, <4>2, <4>3
    <3>5. CASE l.type = "FINISH_TO_FINISH"
      <4> DEFINE e == slipped[from].end - duration + 1
                 f == placed[from].end - duration + 1
      <4>1. day(slipped[from]) = Max({1, e}) /\ day(placed[from]) = Max({1, f})
        BY <3>5 DEF ConstraintDay
      <4>2. e \in Int /\ f \in Int /\ 1 \in Int
        BY <2>7
      <4>3. slipped[from].start + dt - 1 <= slipped[to].end - lag
        BY <2>9, <3>1, <3>2, <3>5
      <4>4. e + lag <= slipped[to].start
        BY <2>1, <2>7, <4>3
      <4> HIDE DEF e, f
      <4>5. Max({1, e}) \in {1, e} /\ 1 <= Max({1, f}) /\ Max({1, f}) \in Int
        BY <4>2, Larger
      <4>6. 1 + lag <= slipped[to].start
        BY <2>1, <2>2, <2>7, <4>1, <4>5
      <4>7. QED  BY <4>1, <4>4, <4>5, <4>6
    <3>6. CASE l.type = "START_TO_FINISH"
      <4> DEFINE e == slipped[from].start - duration + 1
                 f == placed[from].start - duration + 1
      <4>1. day(slipped[from]) = Max({1, e}) /\ day(placed[from]) = Max({1, f})
        BY <3>6 DEF ConstraintDay
      <4>2. e \in Int /\ f \in Int /\ 1 \in Int
        BY <2>7
      <4>3. slipped[from].start + dt - 1 <= slipped[to].end /\ lag <= 0 /\ 1 <= dt
        <5>1. 1 <= dt
          BY <2>1, PlanFacts DEF dt
        <5>2. slipped[from].start + dt - 1 <= slipped[to].end
          BY <2>9, <3>1, <3>2, <3>6
        <5>3. QED  BY <2>1, <3>6, <5>1, <5>2
      <4>4. e + lag <= slipped[to].start
        BY <2>1, <2>7, <4>3
      <4> HIDE DEF e, f
      <4>5. Max({1, e}) \in {1, e} /\ 1 <= Max({1, f}) /\ Max({1, f}) \in Int
        BY <4>2, Larger
      <4>6. 1 + lag <= slipped[to].start
        BY <2>1, <2>2, <2>7, <4>1, <4>5
      <4>7. QED  BY <4>1, <4>4, <4>5, <4>6
    <3>7. QED  BY <2>1, <3>3, <3>4, <3>5, <3>6 DEF LinkTypes
  <2>10. QED
    <3> HIDE DEF day
    <3>1. QED  BY <2>1, <2>4, <2>5, <2>6, <2>7, <2>8, <2>9
<1>5. QED  BY <1>4 DEF Followed, slipped

LEMMA SlippedEndsAlike ==
    ASSUME NEW plan, IsPlan(plan), Acyclic(plan), NEW placed \in [TasksOf(plan) -> Dates]
    PROVE  TotalWorkingDays(Slipped(plan, placed, Slack(plan, placed))) = TotalWorkingDays(placed)
<1> DEFINE T == TasksOf(plan)
           slipped == Slipped(plan, placed, Slack(plan, placed))
           total == TotalWorkingDays(placed)
           after == TotalWorkingDays(slipped)
<1>1. /\ slipped \in [T -> Dates]
      /\ \A t \in T : placed[t].end <= slipped[t].end /\ slipped[t].end <= total
  BY SlackFacts
<1>2. IsFiniteSet(T)
  BY DEF IsPlan
<1> HIDE DEF slipped, T
<1>3. /\ total \in {0} \cup {placed[t].end : t \in T} /\ total \in Int /\ 0 <= total
  BY <1>2, TotalFacts DEF T
<1>4. /\ after \in {0} \cup {slipped[t].end : t \in T} /\ after \in Int /\ 0 <= after
      /\ \A t \in T : slipped[t].end <= after
  BY <1>1, <1>2, TotalFacts
<1> HIDE DEF total, after
<1>5. \A t \in T : slipped[t].end \in Int /\ placed[t].end \in Int
  BY <1>1 DEF Dates, T
<1>6. total <= after
  <2>1. CASE total = 0
    BY <1>4, <2>1
  <2>2. ASSUME NEW t \in T, total = placed[t].end PROVE total <= after
    BY <1>1, <1>3, <1>4, <1>5, <2>2
  <2>3. QED  BY <1>3, <2>1, <2>2
<1>7. after <= total
  BY <1>1, <1>3, <1>4
<1>8. QED  BY <1>3, <1>4, <1>6, <1>7 DEF total, after, slipped

\* Every plan, whatever its lines, links, lags and people: if no loop is found in it then its
\* schedule respects every link, no role works on more than it has people, and with lags that the
\* backward pass knows every task can slip by its slack without a link broken or the finish moved;
\* and what is found is a loop. (detectCycles, topologicalOrder, buildSchedule and
\* computeLatestFinish, each a pass of its own over the same links)
THEOREM AnyPlanCanBeFollowed ==
    ASSUME NEW plan, IsPlan(plan)
    PROVE  CanBeFollowed(plan)
<1> DEFINE placed == Placement(plan)
           slipped == Slipped(plan, placed, Slack(plan, placed))
<1>1. /\ DetectCycles(plan) = {} => Acyclic(plan)
      /\ \A loop \in DetectCycles(plan) : \A t \in loop : \E l \in LinksFrom(plan, t) : l.to \in loop
  BY LoopsAreFound
<1>2. ASSUME Acyclic(plan)
      PROVE  /\ Followed(plan, placed)
             /\ \A r \in Roles(plan) : \A day \in 1 .. TotalWorkingDays(placed) :
                   Cardinality(AtOnce(plan, placed, r, day)) <= PersonsOf(plan, r)
             /\ LagsAreKnown(plan) => /\ Followed(plan, slipped)
                                      /\ TotalWorkingDays(slipped) = TotalWorkingDays(placed)
  <2>1. PICK done \in PlacedSoFar(plan) :
           placed = done.at /\ DOMAIN done.at = TasksOf(plan) /\ PlacedRight(plan, done)
    BY <1>2, PlacementIsRight
  <2> HIDE DEF placed
  <2>2. placed \in [TasksOf(plan) -> Dates]
    BY <2>1, PlacedTypes
  <2>3. IsPlacement(plan, placed)
    <3>1. ASSUME NEW t \in TasksOf(plan) PROVE Waits(plan, [at |-> placed], t)
      <4>1. Waits(plan, done, t) /\ done.at = placed
        BY <2>1 DEF PlacedRight
      <4>2. QED  BY <4>1 DEF Waits
    <3>2. QED  BY <2>2, <3>1 DEF IsPlacement
  <2>4. /\ Followed(plan, placed)
        /\ \A r \in Roles(plan) : \A day \in Int :
              Cardinality(AtOnce(plan, placed, r, day)) <= PersonsOf(plan, r)
    BY <1>2, PlacedIsFollowed DEF placed
  <2>5. \A day \in 1 .. TotalWorkingDays(placed) : day \in Int
    OBVIOUS
  <2>6. LagsAreKnown(plan) => Followed(plan, slipped)
    BY <1>2, <2>3, SlippedIsFollowed
  <2>7. TotalWorkingDays(slipped) = TotalWorkingDays(placed)
    BY <1>2, <2>2, SlippedEndsAlike
  <2>8. QED  BY <2>4, <2>5, <2>6, <2>7
<1> HIDE DEF placed, slipped
<1>3. CanBeFollowed(plan) <=>
         /\ \A loop \in DetectCycles(plan) : \A t \in loop : \E l \in LinksFrom(plan, t) : l.to \in loop
         /\ DetectCycles(plan) = {} =>
               /\ Followed(plan, placed)
               /\ \A r \in Roles(plan) : \A day \in 1 .. TotalWorkingDays(placed) :
                     Cardinality(AtOnce(plan, placed, r, day)) <= PersonsOf(plan, r)
               /\ LagsAreKnown(plan) => /\ Followed(plan, slipped)
                                        /\ TotalWorkingDays(slipped) = TotalWorkingDays(placed)
  BY DEF CanBeFollowed, placed, slipped
<1>4. QED  BY <1>1, <1>2, <1>3

\* The schedule of the plan at hand can be followed, whichever of all plans it is. (buildSchedule)
THEOREM SchedulesAreFollowed ==
    ASSUME input.kind = "plan" => IsPlan(input)
    PROVE  PlanCanBeFollowed
  BY AnyPlanCanBeFollowed DEF PlanCanBeFollowed

-----------------------------------------------------------------------------
(* The verdict on a plan, from its lines *)

\* Of some numbers, the i-th.
LEMMA InOrderExists ==
    ASSUME NEW tasks, IsFiniteSet(tasks), tasks \subseteq Int, NEW i \in 1 .. Cardinality(tasks)
    PROVE  \E t \in tasks : Cardinality({u \in tasks : u < t}) = i - 1
<1> DEFINE Good(s) == \A k \in 1 .. Cardinality(s) :
               \E t \in s : Cardinality({u \in s : u < t}) = k - 1
           Bad == {n \in Nat : \E s \in SUBSET tasks : Cardinality(s) = n /\ ~Good(s)}
<1>1. \A s \in SUBSET tasks : IsFiniteSet(s) /\ Cardinality(s) \in Nat
  BY FS_Subset, FS_CardinalityType
<1>2. ASSUME NEW s \in SUBSET tasks, s # {}, NEW x \in s, \A y \in s : y <= x, Good(s \ {x}),
             Cardinality(s \ {x}) = Cardinality(s) - 1
      PROVE  Good(s)
  <2> DEFINE n == Cardinality(s)
  <2>1. n \in Nat /\ Cardinality(s \ {x}) = n - 1
    BY <1>1, <1>2
  <2>2. \A y \in s : y \in Int
    OBVIOUS
  <2>3. SUFFICES ASSUME NEW k \in 1 .. n
                 PROVE  \E t \in s : Cardinality({u \in s : u < t}) = k - 1
    OBVIOUS
  <2> HIDE DEF n
  <2>4. CASE k = n
    <3>1. {u \in s : u < x} = s \ {x}
      <4>1. \A y \in s : y < x <=> y # x
        BY <1>2, <2>2
      <4>2. QED  BY <4>1
    <3>2. QED  BY <1>2, <2>1, <2>4, <3>1
  <2>5. CASE k # n
    <3>1. k \in 1 .. Cardinality(s \ {x})
      BY <2>1, <2>5
    <3>2. PICK t \in s \ {x} : Cardinality({u \in s \ {x} : u < t}) = k - 1
      BY <1>2, <3>1
    <3>3. {u \in s \ {x} : u < t} = {u \in s : u < t}
      <4>1. t \in Int /\ x \in Int /\ ~(x < t)
        BY <1>2, <2>2
      <4>2. QED  BY <4>1
    <3>4. QED  BY <3>2, <3>3
  <2>6. QED  BY <2>4, <2>5
<1>3. ASSUME NEW s \in SUBSET tasks, s # {}
      PROVE  \E x \in s : /\ \A y \in s : y <= x
                          /\ Cardinality(s \ {x}) = Cardinality(s) - 1
  <2>1. IsFiniteSet(s) /\ s \subseteq Int
    BY <1>1
  <2>2. Max(s) \in s /\ \A y \in s : y <= Max(s)
    BY <1>3, <2>1, Extremes
  <2>3. \A x \in s : Cardinality(s \ {x}) = Cardinality(s) - 1
    BY <2>1, FS_RemoveElement
  <2>4. QED  BY <2>2, <2>3
<1>4. Good({})
  <2>1. Cardinality({}) = 0
    BY FS_EmptySet
  <2>2. QED  BY <2>1
<1> HIDE DEF Good
<1>5. Bad = {}
  <2> SUFFICES ASSUME Bad # {} PROVE FALSE
    OBVIOUS
  <2>1. PICK n \in Bad : \A m \in Bad : n <= m
    <3>1. Bad \subseteq Nat
      OBVIOUS
    <3> HIDE DEF Bad
    <3>2. QED  BY <3>1, Smallest
  <2>2. PICK s \in SUBSET tasks : Cardinality(s) = n /\ ~Good(s)
    BY <2>1
  <2>3. s # {}
    BY <1>4, <2>2
  <2>4. PICK x \in s : (\A y \in s : y <= x) /\ Cardinality(s \ {x}) = Cardinality(s) - 1
    BY <1>3, <2>3
  <2>5. ~Good(s \ {x})
    BY <1>2, <2>2, <2>3, <2>4
  <2>6. s \ {x} \in SUBSET tasks /\ Cardinality(s \ {x}) \in Nat /\ n \in Nat
    BY <1>1, <2>2
  <2>7. Cardinality(s \ {x}) \in Bad
    BY <2>5, <2>6
  <2>8. n <= Cardinality(s \ {x})
    BY <2>1, <2>7
  <2>9. QED  BY <2>2, <2>4, <2>6, <2>8
<1>6. Good(tasks)
  <2>1. tasks \in SUBSET tasks /\ Cardinality(tasks) \in Nat
    BY <1>1
  <2>2. QED  BY <1>5, <2>1
<1>7. QED  BY <1>6 DEF Good

LEMMA OrderTypes ==
    ASSUME NEW plan, IsPlan(plan)
    PROVE  TopologicalOrder(plan) \in Seq(TasksOf(plan))
<1> DEFINE n == Cardinality(TasksOf(plan))
<1>1. n \in Nat
  BY SequenceOfSet DEF IsPlan
<1>2. PICK run \in [0 .. n -> Seq(TasksOf(plan))] :
         TopologicalOrder(plan) = run[n] \o InOrderOfId(TasksOf(plan) \ ToSet(run[n]))
  BY OrderRuns
<1> DEFINE left == TasksOf(plan) \ ToSet(run[n])
           m == Cardinality(left)
           rest == InOrderOfId(left)
<1>3. run[n] \in Seq(TasksOf(plan))
  BY <1>1, <1>2
<1>4. IsFiniteSet(left) /\ left \subseteq Int /\ left \subseteq TasksOf(plan)
  BY FS_Subset DEF IsPlan
<1>5. TopologicalOrder(plan) = run[n] \o rest
  BY <1>2
<1> HIDE DEF n, left
<1>6. m \in Nat
  BY <1>4, FS_CardinalityType
<1>7. rest \in [1 .. m -> left]
  <2> DEFINE Is(t, i) == Cardinality({u \in left : u < t}) = i - 1
             at(i) == CHOOSE t \in left : Is(t, i)
  <2>1. ASSUME NEW i \in 1 .. m PROVE at(i) \in left
    <3>1. \E t \in left : Is(t, i)
      BY <1>4, InOrderExists
    <3> HIDE DEF Is
    <3>2. QED  BY <3>1
  <2>2. rest = [i \in 1 .. m |-> at(i)]
    BY DEF InOrderOfId
  <2> HIDE DEF at, rest, m
  <2>3. QED  BY <2>1, <2>2
<1> HIDE DEF rest, m
<1>8. rest \in Seq(TasksOf(plan))
  <2>1. rest \in [1 .. m -> TasksOf(plan)]
    BY <1>4, <1>7
  <2>2. rest \in UNION {[1 .. k -> TasksOf(plan)] : k \in Nat}
    BY <1>6, <2>1
  <2>3. QED  BY <2>2, SeqDef
<1>9. run[n] \o rest \in Seq(TasksOf(plan))
  <2> DEFINE first == run[n]
  <2>1. first \in Seq(TasksOf(plan))
    BY <1>3
  <2> HIDE DEF first
  <2>2. first \o rest \in Seq(TasksOf(plan))
    BY <1>8, <2>1, ConcatProperties
  <2>3. QED  BY <2>2 DEF first
<1>10. QED  BY <1>5, <1>9

\* A plan takes some days, with loops too.
LEMMA PlacementEnds ==
    ASSUME NEW plan, IsPlan(plan)
    PROVE  TotalWorkingDays(Placement(plan)) \in Nat
<1>1. PICK order : order = TopologicalOrder(plan)
  OBVIOUS
<1>2. order \in Seq(TasksOf(plan)) /\ Len(order) \in Nat
  BY <1>1, OrderTypes
<1>3. PICK run \in [0 .. Len(order) -> PlacedSoFar(plan)] : Placement(plan) = run[Len(order)].at
  BY <1>1, <1>2, PlacementRuns
<1> DEFINE done == run[Len(order)]
<1>4. done \in PlacedSoFar(plan) /\ Placement(plan) = done.at
  BY <1>2, <1>3
<1> HIDE DEF done
<1> DEFINE T == DOMAIN done.at
           placed == done.at
<1>5. T \subseteq TasksOf(plan) /\ placed \in [T -> Dates]
  BY <1>4, PlacedTypes
<1>6. IsFiniteSet(T)
  <2>1. IsFiniteSet(TasksOf(plan))
    BY DEF IsPlan
  <2>2. QED  BY <1>5, <2>1, FS_Subset
<1>7. Placement(plan) = placed
  BY <1>4
<1> HIDE DEF T, placed
<1>8. TotalWorkingDays(placed) \in Int /\ 0 <= TotalWorkingDays(placed)
  BY <1>5, <1>6, TotalFacts
<1>9. QED  BY <1>7, <1>8

LEMMA SumRestricts ==
    ASSUME NEW S, NEW g, NEW h, \A x \in S : g[x] = h[x], NEW sum, IsSum(sum, g, S)
    PROVE  IsSum(sum, h, S)
<1>1. \A s \in SUBSET S : s # {} => Picked(s) \in S
  BY DEF Picked
<1>2. [s \in SUBSET S |-> IF s = {} THEN 0 ELSE g[Picked(s)] + sum[s \ {Picked(s)}]]
         = [s \in SUBSET S |-> IF s = {} THEN 0 ELSE h[Picked(s)] + sum[s \ {Picked(s)}]]
  BY <1>1
<1>3. QED  BY <1>2 DEF IsSum

\* A sum of naturals is zero when all of them are, and only then.
LEMMA SumIsZero ==
    ASSUME NEW S, IsFiniteSet(S), NEW g \in [S -> Nat], NEW sum, IsSum(sum, g, S)
    PROVE  sum[S] \in Nat /\ (sum[S] = 0 <=> \A x \in S : g[x] = 0)
<1> DEFINE Good(s) == sum[s] \in Nat /\ (sum[s] = 0 <=> \A x \in s : g[x] = 0)
           Bad == {n \in Nat : \E s \in SUBSET S : Cardinality(s) = n /\ ~Good(s)}
<1>1. \A s \in SUBSET S : IsFiniteSet(s) /\ Cardinality(s) \in Nat
  BY FS_Subset, FS_CardinalityType
<1>2. \A s \in SUBSET S : sum[s] = IF s = {} THEN 0 ELSE g[Picked(s)] + sum[s \ {Picked(s)}]
  BY DEF IsSum
<1>3. ASSUME NEW s \in SUBSET S, s # {} => Good(s \ {Picked(s)}) PROVE Good(s)
  <2>1. CASE s = {}
    <3>1. sum[s] = 0
      BY <1>2, <2>1
    <3>2. QED  BY <2>1, <3>1
  <2>2. CASE s # {}
    <3>1. Picked(s) \in s
      BY <1>1, <2>2, Fewer
    <3> DEFINE p == Picked(s)
    <3>2. p \in s /\ g[p] \in Nat /\ sum[s] = g[p] + sum[s \ {p}]
      BY <1>2, <2>2, <3>1
    <3>3. sum[s \ {p}] \in Nat /\ (sum[s \ {p}] = 0 <=> \A x \in s \ {p} : g[x] = 0)
      BY <1>3, <2>2
    <3> HIDE DEF p
    <3>4. (\A x \in s : g[x] = 0) <=> g[p] = 0 /\ \A x \in s \ {p} : g[x] = 0
      BY <3>2
    <3>5. sum[s] \in Nat /\ (sum[s] = 0 <=> g[p] = 0 /\ sum[s \ {p}] = 0)
      BY <3>2, <3>3
    <3>6. QED  BY <3>3, <3>4, <3>5
  <2>3. QED  BY <2>1, <2>2
<1> HIDE DEF Good
<1>4. Bad = {}
  <2> SUFFICES ASSUME Bad # {} PROVE FALSE
    OBVIOUS
  <2>1. PICK n \in Bad : \A m \in Bad : n <= m
    <3>1. Bad \subseteq Nat
      OBVIOUS
    <3> HIDE DEF Bad
    <3>2. QED  BY <3>1, Smallest
  <2>2. PICK s \in SUBSET S : Cardinality(s) = n /\ ~Good(s)
    BY <2>1
  <2>3. s # {} /\ ~Good(s \ {Picked(s)})
    BY <1>3, <2>2
  <2>4. s \ {Picked(s)} \in SUBSET S
    OBVIOUS
  <2>5. Cardinality(s \ {Picked(s)}) \in Nat /\ Cardinality(s \ {Picked(s)}) < Cardinality(s)
    BY <1>1, <2>3, Fewer
  <2>6. Cardinality(s \ {Picked(s)}) \in Bad
    BY <2>3, <2>4, <2>5
  <2>7. QED
    <3> HIDE DEF Bad
    <3>1. n \in Nat /\ n <= Cardinality(s \ {Picked(s)})
      BY <2>1, <2>2, <2>6, <1>1
    <3>2. QED  BY <2>2, <2>5, <3>1
<1>5. Good(S)
  <2>1. S \in SUBSET S /\ Cardinality(S) \in Nat
    BY <1>1
  <2>2. QED  BY <1>4, <2>1
<1>6. QED  BY <1>5 DEF Good

\* What the verdict on a plan is asked about: the plan, the time there is, and perhaps a team.
PlanFields == {"hours", "role", "perDay", "links", "allowParallel", "people", "excluded"}
IsQuestion(q) ==
    /\ IsPlan(q) /\ PlanFields \subseteq DOMAIN q
    /\ \A t \in TasksOf(q) : q.hours[t] \in Nat
    /\ q.days \in Nat
    /\ \E Role : q.team \in [supplied : BOOLEAN, lines : Seq(WorkLine(Role))]

WithPeople(plan, people) == [plan EXCEPT !.people = people]

LEMMA StaffedIsPlan ==
    ASSUME NEW plan, IsPlan(plan), PlanFields \subseteq DOMAIN plan,
           NEW people, \A r \in DOMAIN people : people[r] \in Int
    PROVE  IsPlan(WithPeople(plan, people))
<1> DEFINE staffed == WithPeople(plan, people)
<1>1. /\ staffed.hours = plan.hours /\ staffed.perDay = plan.perDay /\ staffed.links = plan.links
      /\ staffed.allowParallel = plan.allowParallel /\ staffed.excluded = plan.excluded
      /\ staffed.people = people
  BY DEF WithPeople, PlanFields
<1> HIDE DEF staffed
<1>2. TasksOf(staffed) = TasksOf(plan)
  BY <1>1 DEF TasksOf
<1>3. IsPlan(staffed)
  BY <1>1, <1>2 DEF IsPlan
<1>4. QED  BY <1>3 DEF staffed

LEMMA PlannedFacts ==
    ASSUME NEW plan, IsPlan(plan), \A t \in TasksOf(plan) : plan.hours[t] \in Nat
    PROVE  /\ PlannedEffort(plan) \in [Roles(plan) -> Nat] /\ IsFiniteSet(Roles(plan))
<1> DEFINE tasks(r) == {t \in TasksOf(plan) : plan.role[t] = r}
           hours(r) == SumOver(tasks(r), LAMBDA t : plan.hours[t])
<1>1. IsFiniteSet(TasksOf(plan))
  BY DEF IsPlan
<1>2. ASSUME NEW r PROVE hours(r) \in Nat
  <2> DEFINE S == tasks(r)
             g == [t \in S |-> plan.hours[t]]
             sum == CHOOSE sum : IsSum(sum, plan.hours, S)
  <2>1. hours(r) = sum[S]
    BY DEF SumOver, MapThenSumSet, MapThenFoldSet, IsSum, Picked
  <2>2. IsFiniteSet(S) /\ g \in [S -> Nat] /\ \A t \in S : plan.hours[t] = g[t]
    <3>1. S \in SUBSET TasksOf(plan)
      OBVIOUS
    <3>2. IsFiniteSet(S)
      BY <1>1, <3>1, FS_Subset
    <3>3. QED  BY <3>2
  <2> HIDE DEF S, g
  <2>3. IsSum(sum, plan.hours, S)
    BY <2>2, SumExists
  <2> HIDE DEF sum
  <2>4. IsSum(sum, g, S)
    BY <2>2, <2>3, SumRestricts
  <2>5. sum[S] \in Nat
    BY <2>2, <2>4, SumIsZero
  <2>6. QED  BY <2>1, <2>5
<1>3. PlannedEffort(plan) = [r \in Roles(plan) |-> hours(r)]
  BY DEF PlannedEffort
<1> HIDE DEF hours
<1>4. IsFiniteSet(Roles(plan))
  <2> DEFINE role == [t \in TasksOf(plan) |-> plan.role[t]]
             S == TasksOf(plan)
             any == Roles(plan)
  <2>1. Roles(plan) = {role[t] : t \in S}
    BY DEF Roles
  <2>2. IsFiniteSet(S) /\ role \in [S -> any]
    BY <1>1 DEF Roles
  <2> HIDE DEF role, S, any
  <2>3. IsFiniteSet({role[t] : t \in S})
    BY <2>2, ImageIsFinite
  <2>4. QED  BY <2>1, <2>3
<1>5. QED  BY <1>2, <1>3, <1>4

LEMMA PeopleNeeded ==
    ASSUME NEW hours \in Int, NEW hoursPerDay \in Int, NEW days \in Int
    PROVE  PeopleForHours(hours, hoursPerDay, days) \in Nat
<1>1. CASE hours <= 0 \/ days <= 0 \/ hoursPerDay <= 0
  BY <1>1 DEF PeopleForHours
<1>2. CASE ~(hours <= 0 \/ days <= 0 \/ hoursPerDay <= 0)
  <2> DEFINE whole == hoursPerDay * days
             needed == 100 * hours + whole - 1
             people == needed \div whole
  <2>1. hoursPerDay \in Nat \ {0} /\ days \in Nat \ {0}
    BY <1>2
  <2>2. whole \in Nat \ {0} /\ needed \in Int
    BY <2>1, Products
  <2>3. people \in Int
    <3>1. whole \in Nat \ {0} /\ needed \in Int
      BY <2>2
    <3> HIDE DEF whole, needed
    <3>2. QED  BY <3>1, Quotient
  <2>4. PeopleForHours(hours, hoursPerDay, days) = Max({1, people})
    BY <1>2 DEF PeopleForHours
  <2> HIDE DEF people
  <2>5. 1 \in Int
    OBVIOUS
  <2>6. Max({1, people}) \in Int /\ 1 <= Max({1, people})
    BY <2>3, <2>5, Larger
  <2>7. QED  BY <2>4, <2>6
<1>3. QED  BY <1>1, <1>2

\* The people a plan is scheduled with are numbers, those it has or those it would need.
LEMMA PeopleFacts ==
    ASSUME NEW q, IsQuestion(q), NEW days \in Nat
    PROVE  LET planned == PlannedEffort(q)
               people == PeoplePerRole(planned, q.team, q.perDay, days)
           IN  /\ \A r \in DOMAIN people : people[r] \in Int
               /\ TotalWorkingDays(Placement(WithPeople(q, people))) \in Nat
<1> DEFINE planned == PlannedEffort(q)
           people == PeoplePerRole(planned, q.team, q.perDay, days)
           lines == q.team.lines
           mine(r) == {i \in DOMAIN lines : lines[i].role = r}
           named == {lines[i].role : i \in DOMAIN lines}
           sum(r) == SumOver(mine(r), LAMBDA i : lines[i].people)
<1>1. IsPlan(q) /\ PlanFields \subseteq DOMAIN q /\ planned \in [Roles(q) -> Nat]
  BY PlannedFacts DEF IsQuestion
<1>2. PICK Role : q.team \in [supplied : BOOLEAN, lines : Seq(WorkLine(Role))]
  BY DEF IsQuestion
<1>3. /\ DOMAIN lines = 1 .. Len(lines) /\ IsFiniteSet(DOMAIN lines)
      /\ \A i \in DOMAIN lines : lines[i].people \in Nat
  <2>1. lines \in Seq(WorkLine(Role))
    BY <1>2
  <2> HIDE DEF lines
  <2>2. DOMAIN lines = 1 .. Len(lines) /\ Len(lines) \in Nat
    BY <2>1
  <2>3. \A i \in DOMAIN lines : lines[i] \in WorkLine(Role)
    BY <2>1
  <2>4. IsFiniteSet(DOMAIN lines)
    BY <2>2, FS_Interval
  <2>5. \A i \in DOMAIN lines : lines[i].people \in Nat
    BY <2>3 DEF WorkLine
  <2>6. QED  BY <2>2, <2>4, <2>5
<1>4. ASSUME NEW r PROVE sum(r) \in Int
  <2> DEFINE S == mine(r)
             hours(i) == lines[i].people
             g == [i \in S |-> hours(i)]
             Sums(any) == any = [s \in SUBSET S |->
                 IF s = {} THEN 0
                 ELSE hours(CHOOSE x \in s : TRUE) + any[s \ {CHOOSE x \in s : TRUE}]]
             total == CHOOSE any : Sums(any)
  <2>1. sum(r) = total[S]
    BY DEF SumOver, MapThenSumSet, MapThenFoldSet
  <2>2. IsFiniteSet(S) /\ g \in [S -> Nat]
    <3>1. S \in SUBSET DOMAIN lines
      OBVIOUS
    <3>2. IsFiniteSet(S)
      BY <1>3, <3>1, FS_Subset
    <3>3. \A i \in S : hours(i) \in Nat
      BY <1>3
    <3> HIDE DEF hours, S
    <3>4. QED  BY <3>2, <3>3
  <2> HIDE DEF lines, S
  <2>3. ASSUME NEW any PROVE IsSum(any, g, S) <=> Sums(any)
    <3>1. \A s \in SUBSET S : s # {} => g[Picked(s)] = hours(Picked(s))
      <4>1. \A s \in SUBSET S : s # {} => Picked(s) \in S
        BY DEF Picked
      <4> HIDE DEF hours
      <4>2. QED  BY <4>1
    <3> HIDE DEF g, hours
    <3>2. [s \in SUBSET S |-> IF s = {} THEN 0 ELSE g[Picked(s)] + any[s \ {Picked(s)}]]
             = [s \in SUBSET S |-> IF s = {} THEN 0 ELSE hours(Picked(s)) + any[s \ {Picked(s)}]]
      BY <3>1
    <3>3. QED  BY <3>2 DEF IsSum, Picked
  <2>4. \E any : IsSum(any, g, S)
    <3> HIDE DEF g
    <3>1. QED  BY <2>2, SumExists
  <2> HIDE DEF g, Sums
  <2>5. Sums(total)
    BY <2>3, <2>4
  <2> HIDE DEF total
  <2>6. IsSum(total, g, S)
    BY <2>3, <2>5
  <2>7. total[S] \in Nat
    BY <2>2, <2>6, SumIsZero
  <2>8. QED  BY <2>1, <2>7
<1>5. ASSUME NEW r \in DOMAIN people PROVE people[r] \in Int
  <2>1. CASE q.team.supplied /\ lines # <<>>
    <3>1. people = [x \in named |-> sum(x)]
      BY <2>1 DEF PeoplePerRole
    <3> HIDE DEF people, sum
    <3>2. QED  BY <1>4, <3>1
  <2>2. CASE ~(q.team.supplied /\ lines # <<>>)
    <3>1. people = RecommendStaffing(planned, q.perDay, days)
      BY <2>2 DEF PeoplePerRole
    <3>2. CASE days <= 0
      <4>1. people = <<>>
        BY <3>1, <3>2 DEF RecommendStaffing
      <4> HIDE DEF people
      <4>2. QED  BY <4>1
    <3>3. CASE ~(days <= 0)
      <4>1. people = [x \in {y \in DOMAIN planned : planned[y] > 0} |->
                        PeopleForHours(planned[x], q.perDay, days)]
        BY <3>1, <3>3 DEF RecommendStaffing
      <4> HIDE DEF people, planned
      <4>2. r \in DOMAIN planned /\ people[r] = PeopleForHours(planned[r], q.perDay, days)
        BY <1>5, <4>1
      <4>3. planned[r] \in Int /\ q.perDay \in Int
        BY <1>1, <4>2 DEF IsPlan
      <4>4. PeopleForHours(planned[r], q.perDay, days) \in Nat
        BY <4>3, PeopleNeeded
      <4>5. QED  BY <4>2, <4>4
    <3>4. QED  BY <3>2, <3>3
  <2>3. QED  BY <2>1, <2>2
<1> HIDE DEF people
<1>6. IsPlan(WithPeople(q, people))
  BY <1>1, <1>5, StaffedIsPlan
<1>7. TotalWorkingDays(Placement(WithPeople(q, people))) \in Nat
  BY <1>6, PlacementEnds
<1>8. QED  BY <1>5, <1>7 DEF people

\* Evaluate, in terms of what it is worked out from.
NeededDays(q, team, days) ==
    TotalWorkingDays(Placement(WithPeople(q, PeoplePerRole(PlannedEffort(q), team, q.perDay, days))))
LEMMA EvaluateIs ==
    ASSUME NEW q, NEW team, NEW days
    PROVE  Evaluate(q, team, days) =
              AssessFeasibility(NeededDays(q, team, days), days,
                                CapacityOf(PlannedEffort(q), team, q.perDay, days))
  BY DEF Evaluate, NeededDays, WithPeople

LEMMA NamedIsFinite ==
    ASSUME NEW lines, IsFiniteSet(DOMAIN lines)
    PROVE  IsFiniteSet({lines[i].role : i \in DOMAIN lines})
<1> DEFINE S == DOMAIN lines
           role == [i \in S |-> lines[i].role]
           any == {role[i] : i \in S}
<1>1. any = {lines[i].role : i \in DOMAIN lines} /\ role \in [S -> any]
  OBVIOUS
<1>2. IsFiniteSet(S)
  OBVIOUS
<1> HIDE DEF role, S
<1>3. IsFiniteSet(any)
  <2>1. any = {role[i] : i \in S}
    OBVIOUS
  <2> HIDE DEF any
  <2>2. IsFiniteSet(S) /\ role \in [S -> any]
    BY <1>1, <1>2
  <2>3. IsFiniteSet({role[i] : i \in S})
    BY <2>2, ImageIsFinite
  <2>4. QED  BY <2>1, <2>3
<1>4. QED  BY <1>1, <1>3

\* No hours are missing exactly when no role misses any.
LEMMA TotalGapFacts ==
    ASSUME NEW P, IsFiniteSet(P), NEW planned \in [P -> Nat],
           NEW Role, NEW team \in [supplied : BOOLEAN, lines : Seq(WorkLine(Role))],
           NEW hoursPerDay, NEW days \in Nat
    PROVE  LET capacity == CapacityOf(planned, team, hoursPerDay, days)
           IN  /\ capacity.capacityUnknown = ~team.supplied
               /\ capacity.totalGap \in Nat
               /\ capacity.totalGap = 0 <=>
                     \A r \in RolesOf(planned, team) : GapOf(planned, team, r, days) = 0
<1> DEFINE lines == team.lines
           roles == RolesOf(planned, team)
           g == [r \in roles |-> GapOf(planned, team, r, days)]
           capacity == CapacityOf(planned, team, hoursPerDay, days)
<1>1. lines \in Seq(WorkLine(Role))
  OBVIOUS
<1>2. IsFiniteSet(roles)
  <2>1. DOMAIN lines = 1 .. Len(lines) /\ Len(lines) \in Nat
    BY <1>1
  <2>2. IsFiniteSet(DOMAIN lines)
    BY <2>1, FS_Interval
  <2>3. IsFiniteSet({lines[i].role : i \in DOMAIN lines})
    BY <2>2, NamedIsFinite
  <2>4. QED  BY <2>3, FS_Union DEF RolesOf
<1>3. ASSUME NEW r PROVE GapOf(planned, team, r, days) \in Nat
  <2>1. AvailableHours(team, r, days) \in Nat
    BY <1>1, AvailableGrows
  <2>2. PlannedFor(planned, r) \in Nat
    BY DEF PlannedFor
  <2>3. Gap(PlannedFor(planned, r), AvailableHours(team, r, days)) \in Nat
    <3> DEFINE work == PlannedFor(planned, r)
               hours == AvailableHours(team, r, days)
    <3>1. work \in Nat /\ hours \in Nat /\ hours <= hours
      BY <2>1, <2>2
    <3> HIDE DEF work, hours
    <3>2. Gap(work, hours) \in Nat
      BY <3>1, GapFalls
    <3>3. QED  BY <3>2 DEF work, hours
  <2>4. QED  BY <2>3 DEF GapOf
<1>4. g \in [roles -> Nat] /\ \A r \in roles : g[r] = GapOf(planned, team, r, days)
  <2> HIDE DEF roles
  <2>1. QED  BY <1>3
<1>5. /\ capacity.capacityUnknown = ~team.supplied
      /\ \E sum : IsSum(sum, g, roles) /\ capacity.totalGap = sum[roles]
  <2>1. roles = RolesOf(planned, team)
    OBVIOUS
  <2> HIDE DEF roles
  <2>2. QED  BY <1>2, <2>1, CapacityFacts
<1>6. PICK sum : IsSum(sum, g, roles) /\ capacity.totalGap = sum[roles]
  BY <1>5
<1> HIDE DEF g, roles, capacity
<1>7. sum[roles] \in Nat /\ (sum[roles] = 0 <=> \A r \in roles : g[r] = 0)
  BY <1>2, <1>4, <1>6, SumIsZero
<1>8. QED  BY <1>4, <1>5, <1>6, <1>7 DEF roles, capacity

LEMMA VerdictRanks ==
    ASSUME NEW required \in Nat, NEW available \in Nat, NEW capacity,
           ~capacity.capacityUnknown, capacity.totalGap \in Nat
    PROVE  LET verdict == AssessFeasibility(required, available, capacity)
           IN  /\ RankOf(verdict) \in 1 .. 5
               /\ verdict = "NOT_FEASIBLE_WITH_CURRENT_CAPACITY" <=> capacity.totalGap # 0
<1> DEFINE headroom == IF available = 0 THEN 0 ELSE (100 * (available - required)) \div available
           verdict == AssessFeasibility(required, available, capacity)
<1>1. verdict = IF capacity.totalGap > 0 THEN "NOT_FEASIBLE_WITH_CURRENT_CAPACITY"
                ELSE IF required > available THEN "HIGH_RISK"
                ELSE IF capacity.overloaded # {} \/ headroom < 10 THEN "AGGRESSIVE"
                ELSE IF headroom < 25 THEN "FEASIBLE" ELSE "COMFORTABLE"
  <2> HIDE DEF headroom
  <2>1. QED  BY DEF AssessFeasibility, headroom
<1> HIDE DEF verdict, headroom
<1>2. capacity.totalGap > 0 <=> capacity.totalGap # 0
  OBVIOUS
<1>3. verdict \in {"NOT_FEASIBLE_WITH_CURRENT_CAPACITY", "HIGH_RISK", "AGGRESSIVE", "FEASIBLE", "COMFORTABLE"}
  BY <1>1
<1>4. RankOf(verdict) \in 1 .. 5
  BY <1>3, Ranked
<1>5. verdict = "NOT_FEASIBLE_WITH_CURRENT_CAPACITY" <=> capacity.totalGap # 0
  BY <1>1, <1>2
<1>6. QED  BY <1>4, <1>5 DEF verdict

\* A day more for a team, whether or not it names anybody.
LEMMA EvaluateGrows ==
    ASSUME NEW q, IsQuestion(q), q.team.supplied
    PROVE  RankOf(Evaluate(q, q.team, q.days)) <= RankOf(Evaluate(q, q.team, q.days + 1))
<1> DEFINE planned == PlannedEffort(q)
           P == Roles(q)
           lines == q.team.lines
           days == q.days
           needed(d) == NeededDays(q, q.team, d)
           capacity(d) == CapacityOf(planned, q.team, q.perDay, d)
<1>1. planned \in [P -> Nat] /\ IsFiniteSet(P) /\ days \in Nat /\ days + 1 \in Nat
  BY PlannedFacts DEF IsQuestion
<1>2. PICK Role : q.team \in [supplied : BOOLEAN, lines : Seq(WorkLine(Role))]
  BY DEF IsQuestion
<1>3. q.team = [supplied |-> TRUE, lines |-> lines] /\ lines \in Seq(WorkLine(Role))
  BY <1>2
<1>4. needed(days) \in Nat /\ needed(days + 1) \in Nat
  BY <1>1, PeopleFacts DEF NeededDays
<1>5. /\ Evaluate(q, q.team, days) = AssessFeasibility(needed(days), days, capacity(days))
      /\ Evaluate(q, q.team, days + 1) = AssessFeasibility(needed(days + 1), days + 1, capacity(days + 1))
  BY EvaluateIs
<1>6. ASSUME needed(days) = needed(days + 1)
      PROVE  RankOf(Evaluate(q, q.team, days)) <= RankOf(Evaluate(q, q.team, days + 1))
  <2> DEFINE required == needed(days)
             team == [supplied |-> TRUE, lines |-> lines]
             later == days + 1
  <2>1. required \in Nat /\ later \in Nat /\ days <= later
    BY <1>1, <1>4
  <2>2. /\ Evaluate(q, q.team, days)
              = AssessFeasibility(required, days, CapacityOf(planned, team, q.perDay, days))
        /\ Evaluate(q, q.team, days + 1)
              = AssessFeasibility(required, later, CapacityOf(planned, team, q.perDay, later))
    BY <1>3, <1>5, <1>6
  <2> HIDE DEF required, later, planned, P, lines, days
  <2>3. RankOf(AssessFeasibility(required, days, CapacityOf(planned, team, q.perDay, days)))
           <= RankOf(AssessFeasibility(required, later, CapacityOf(planned, team, q.perDay, later)))
    BY <1>1, <1>3, <2>1, MoreTimeIsNoWorse
  <2>4. QED  BY <2>2, <2>3
<1>7. CASE lines # <<>>
  <2>1. needed(days) = needed(days + 1)
    BY <1>3, <1>7 DEF NeededDays, PeoplePerRole
  <2>2. QED  BY <1>6, <2>1
<1>8. CASE lines = <<>> /\ \A r \in P : planned[r] = 0
  <2> DEFINE none == {r \in DOMAIN planned : planned[r] > 0}
             people(d) == RecommendStaffing(planned, q.perDay, d)
  <2>1. none = {}
    BY <1>1, <1>8
  <2>2. ASSUME NEW d PROVE people(d) = <<>>
    <3>1. people(d) = IF d <= 0 THEN <<>> ELSE [r \in none |-> PeopleForHours(planned[r], q.perDay, d)]
      BY DEF RecommendStaffing
    <3>2. [r \in none |-> PeopleForHours(planned[r], q.perDay, d)] = <<>>
      <4>1. [r \in {} |-> PeopleForHours(planned[r], q.perDay, d)] = <<>>
        OBVIOUS
      <4> HIDE DEF none
      <4>2. QED  BY <2>1, <4>1
    <3> HIDE DEF people, none
    <3>3. QED  BY <3>1, <3>2
  <2>3. \A d : PeoplePerRole(planned, q.team, q.perDay, d) = people(d)
    BY <1>8 DEF PeoplePerRole
  <2> HIDE DEF people
  <2>4. needed(days) = needed(days + 1)
    BY <2>2, <2>3 DEF NeededDays
  <2>5. QED  BY <1>6, <2>4
<1>9. ASSUME lines = <<>>, NEW r \in P, planned[r] # 0
      PROVE  RankOf(Evaluate(q, q.team, days)) <= RankOf(Evaluate(q, q.team, days + 1))
  <2>1. AvailableHours(q.team, r, days) = 0
    <3>1. LinesOf(q.team, r) = {}
      BY <1>9 DEF LinesOf
    <3>2. IsFiniteSet({})
      BY FS_EmptySet
    <3>3. PICK sum : /\ IsSum(sum, HoursOf(q.team, r, days), LinesOf(q.team, r))
                     /\ AvailableHours(q.team, r, days) = sum[LinesOf(q.team, r)]
      BY <3>1, <3>2, AvailableIsSum
    <3>4. QED  BY <3>1, <3>3 DEF IsSum
  <2>2. GapOf(planned, q.team, r, days) # 0
    <3> DEFINE more == planned[r]
    <3>1. PlannedFor(planned, r) = more /\ more \in Nat /\ more # 0
      BY <1>1, <1>9 DEF PlannedFor
    <3>2. Gap(more, 0) = Max({0, more - 0})
      BY DEF Gap
    <3> HIDE DEF more
    <3>3. more - 0 = more /\ 0 \in Int /\ more \in Int
      BY <3>1
    <3>4. more <= Max({0, more})
      BY <3>3, Larger
    <3>5. Gap(more, 0) # 0
      BY <3>1, <3>2, <3>3, <3>4
    <3>6. QED  BY <2>1, <3>1, <3>5 DEF GapOf
  <2>3. r \in RolesOf(planned, q.team)
    BY <1>1 DEF RolesOf
  <2>4. ASSUME NEW d \in Nat
        PROVE  /\ ~capacity(d).capacityUnknown /\ capacity(d).totalGap \in Nat
               /\ capacity(d).totalGap = 0 <=>
                     \A x \in RolesOf(planned, q.team) : GapOf(planned, q.team, x, d) = 0
    <3> HIDE DEF planned, P
    <3>1. QED  BY <1>1, <1>2, TotalGapFacts
  <2> HIDE DEF capacity, needed, planned, P
  <2>5. capacity(days).totalGap # 0
    BY <1>1, <2>2, <2>3, <2>4
  <2>6. RankOf(Evaluate(q, q.team, days)) = 1
    <3>1. ~capacity(days).capacityUnknown /\ capacity(days).totalGap \in Nat
      BY <1>1, <2>4
    <3>2. AssessFeasibility(needed(days), days, capacity(days)) = "NOT_FEASIBLE_WITH_CURRENT_CAPACITY"
      BY <1>1, <1>4, <2>5, <3>1, VerdictRanks
    <3>3. QED  BY <1>5, <3>2, Ranked
  <2>7. RankOf(Evaluate(q, q.team, days + 1)) \in 1 .. 5
    <3> DEFINE later == days + 1
    <3>1. later \in Nat /\ ~capacity(later).capacityUnknown /\ capacity(later).totalGap \in Nat
      BY <1>1, <2>4
    <3>2. needed(later) \in Nat /\ Evaluate(q, q.team, later) = AssessFeasibility(needed(later), later, capacity(later))
      BY <1>4, <1>5
    <3> HIDE DEF later
    <3>3. RankOf(AssessFeasibility(needed(later), later, capacity(later))) \in 1 .. 5
      BY <3>1, <3>2, VerdictRanks
    <3>4. QED  BY <3>2, <3>3 DEF later
  <2>8. QED  BY <2>6, <2>7
<1>10. QED  BY <1>7, <1>8, <1>9

\* A set as a sequence has each of its elements at one place.
LEMMA SequenceIsOnto ==
    ASSUME NEW S, IsFiniteSet(S), NEW x \in S
    PROVE  \E i \in 1 .. Cardinality(S) :
              /\ SetToSeq(S)[i] = x
              /\ \A j \in 1 .. Cardinality(S) : SetToSeq(S)[j] = x => j = i
<1> DEFINE n == Cardinality(S)
           f == SetToSeq(S)
           places == 1 .. n
           image == {f[i] : i \in places}
<1>1. n \in Nat /\ ExistsBijection(places, S)
  BY FS_CardinalityType
<1>2. PICK g : g \in Bijection(places, S)
  BY <1>1 DEF ExistsBijection
<1>3. g \in [places -> S] /\ IsInjective(g)
  BY <1>2 DEF Bijection, Injection
<1>4. f \in [places -> S] /\ IsInjective(f)
  BY <1>3 DEF SetToSeq
<1>5. \A i, j \in places : f[i] = f[j] => i = j
  BY <1>4 DEF IsInjective
<1>6. IsFiniteSet(places) /\ Cardinality(places) = n
  BY <1>1, FS_Interval
<1>7. image \subseteq S /\ f \in [places -> image]
  BY <1>4
<1> HIDE DEF n, f, places
<1>8. \A y \in image : \E i \in places : f[i] = y
  OBVIOUS
<1> HIDE DEF image
<1>9. f \in Bijection(places, image)
  BY <1>5, <1>7, <1>8, Fun_IsBij
<1>10. Cardinality(image) = n
  <2>1. ExistsBijection(places, image)
    BY <1>9 DEF ExistsBijection
  <2>2. QED  BY <1>6, <2>1, FS_Bijection
<1>11. Cardinality(image) = Cardinality(S)
  BY <1>10 DEF n
<1>12. image = S
  BY <1>7, <1>11, FS_Subset
<1>13. PICK i \in places : f[i] = x
  BY <1>8, <1>12
<1>14. \A j \in places : f[j] = x => j = i
  BY <1>5, <1>13
<1>15. QED  BY <1>13, <1>14 DEF places, n, f

LEMMA SumOfOne ==
    ASSUME NEW i, NEW g, g[i] \in Nat, NEW sum, IsSum(sum, g, {i})
    PROVE  sum[{i}] = g[i]
<1>1. \A s \in SUBSET {i} : sum[s] = IF s = {} THEN 0 ELSE g[Picked(s)] + sum[s \ {Picked(s)}]
  BY DEF IsSum
<1>2. Picked({i}) = i
  BY DEF Picked
<1>3. sum[{}] = 0
  BY <1>1
<1>4. sum[{i}] = g[Picked({i})] + sum[{i} \ {Picked({i})}]
  BY <1>1
<1>5. {i} \ {i} = {}
  OBVIOUS
<1>6. sum[{i}] = g[i] + 0
  BY <1>2, <1>3, <1>4, <1>5
<1>7. QED  BY <1>6

\* The team recommended for a plan has a line for each role with work, and the hours for it.
LEMMA RecommendedHours ==
    ASSUME NEW P, IsFiniteSet(P), NEW planned \in [P -> Nat],
           NEW hoursPerDay \in Nat \ {0}, NEW days \in Nat \ {0}
    PROVE  LET team == TeamOf(RecommendStaffing(planned, hoursPerDay, days), hoursPerDay)
           IN  /\ team \in [supplied : BOOLEAN, lines : Seq(WorkLine(P))] /\ team.supplied
               /\ RolesOf(planned, team) \subseteq P
               /\ \A r \in P : GapOf(planned, team, r, days) = 0
<1> DEFINE need == {r \in P : planned[r] > 0}
           people(r) == PeopleForHours(planned[r], hoursPerDay, days)
           staffing == RecommendStaffing(planned, hoursPerDay, days)
           team == TeamOf(staffing, hoursPerDay)
           lines == team.lines
           roles == SetToSeq(need)
           n == Cardinality(need)
           places == 1 .. n
           line(r) == [role |-> r, people |-> people(r), hoursPerDay |-> hoursPerDay,
                       availability |-> 100, availableFromDay |-> 0]
<1>1. IsFiniteSet(need)
  <2>1. need \in SUBSET P
    OBVIOUS
  <2>2. QED  BY <2>1, FS_Subset
<1>2. \A r \in P : people(r) \in Nat
  <2>1. ASSUME NEW r \in P PROVE people(r) \in Nat
    <3>1. planned[r] \in Int /\ hoursPerDay \in Int /\ days \in Int
      OBVIOUS
    <3> DEFINE hours == planned[r]
    <3>2. hours \in Int
      BY <3>1
    <3> HIDE DEF hours
    <3>3. PeopleForHours(hours, hoursPerDay, days) \in Nat
      BY <3>1, <3>2, PeopleNeeded
    <3>4. QED  BY <3>3 DEF hours
  <2>2. QED  BY <2>1
<1>3. staffing = [r \in need |-> people(r)]
  BY DEF RecommendStaffing
<1>4. n \in Nat /\ roles \in [places -> need]
  BY <1>1, SequenceOfSet
<1>5. team.supplied = TRUE /\ lines = [i \in DOMAIN roles |->
          [role |-> roles[i], people |-> staffing[roles[i]], hoursPerDay |-> hoursPerDay,
           availability |-> 100, availableFromDay |-> 0]]
  <2> HIDE DEF people
  <2>1. DOMAIN staffing = need
    BY <1>3
  <2> HIDE DEF staffing, need
  <2>2. QED  BY <2>1 DEF TeamOf
<1>6. team = [supplied |-> TRUE, lines |-> lines]
  BY DEF TeamOf
<1> HIDE DEF people, staffing, team, roles, n, need
<1>7. DOMAIN lines = places /\ \A i \in places : lines[i] = line(roles[i])
  <2>1. \A i \in places : staffing[roles[i]] = people(roles[i])
    BY <1>3, <1>4
  <2>2. DOMAIN roles = places
    BY <1>4
  <2> DEFINE made == lines
  <2>3. made = [i \in places |->
          [role |-> roles[i], people |-> staffing[roles[i]], hoursPerDay |-> hoursPerDay,
           availability |-> 100, availableFromDay |-> 0]]
    BY <1>5, <2>2
  <2> HIDE DEF made, places
  <2>4. DOMAIN made = places /\ \A i \in places : made[i] = line(roles[i])
    BY <2>1, <2>3
  <2>5. QED  BY <2>4 DEF made
<1>8. need \subseteq P
  BY DEF need
<1>9. \A i \in places : lines[i].role = roles[i] /\ lines[i] \in WorkLine(P)
  <2>1. ASSUME NEW i \in places PROVE lines[i].role = roles[i] /\ lines[i] \in WorkLine(P)
    <3> DEFINE mine == lines[i]
               r == roles[i]
    <3>1. mine = line(r)
      BY <1>7
    <3>2. r \in P
      BY <1>4, <1>8
    <3>3. people(r) \in Nat
      BY <1>2, <3>2
    <3> HIDE DEF mine, r
    <3>4. mine.role = r /\ mine \in WorkLine(P)
      BY <3>1, <3>2, <3>3 DEF WorkLine
    <3>5. QED  BY <3>4 DEF mine, r
  <2>2. QED  BY <2>1
<1>10. lines \in Seq(WorkLine(P))
  <2>1. \A i \in places : lines[i] \in WorkLine(P)
    BY <1>9
  <2>2. lines = [i \in places |-> lines[i]]
    BY <1>5, <1>7
  <2>3. lines \in [1 .. n -> WorkLine(P)]
    <3> DEFINE made == lines
    <3>1. DOMAIN made = places /\ made = [i \in places |-> made[i]]
          /\ \A i \in places : made[i] \in WorkLine(P)
      BY <1>7, <2>1, <2>2
    <3> HIDE DEF made
    <3>2. made \in [places -> WorkLine(P)]
      BY <3>1
    <3>3. QED  BY <3>2 DEF made
  <2>4. lines \in UNION {[1 .. k -> WorkLine(P)] : k \in Nat}
    BY <1>4, <2>3
  <2>5. QED  BY <2>4, SeqDef
<1>11. RolesOf(planned, team) \subseteq P
  <2>1. \A i \in places : lines[i].role = roles[i] /\ roles[i] \in P
    BY <1>4, <1>8, <1>9
  <2>2. \A i \in DOMAIN lines : lines[i].role \in P
    <3>1. DOMAIN lines = places
      BY <1>7
    <3> HIDE DEF places
    <3>2. QED  BY <2>1, <3>1
  <2>3. QED  BY <2>2 DEF RolesOf
<1>12. ASSUME NEW r \in P PROVE GapOf(planned, team, r, days) = 0
  <2> DEFINE hours == planned[r]
             available == AvailableHours(team, r, days)
  <2>1. PlannedFor(planned, r) = hours /\ hours \in Nat
    BY DEF PlannedFor
  <2>2. CASE hours = 0
    <3>1. available \in Nat
      BY <1>10, AvailableGrows
    <3>2. GapOf(planned, team, r, days) = Max({0, hours - available})
      BY <2>1 DEF GapOf, Gap
    <3> DEFINE more == hours - available
    <3> HIDE DEF hours, available
    <3>3. more \in Int /\ more <= 0 /\ 0 \in Int
      BY <2>2, <3>1
    <3>4. GapOf(planned, team, r, days) = Max({0, more})
      BY <3>2
    <3> HIDE DEF more
    <3>5. 0 <= Max({0, more}) /\ Max({0, more}) \in {0, more}
      BY <3>3, Larger
    <3>6. QED  BY <3>3, <3>4, <3>5
  <2>3. CASE hours # 0
    <3>1. r \in need
      BY <2>1, <2>3 DEF need
    <3>2. PICK i \in places : /\ roles[i] = r
                              /\ \A j \in places : roles[j] = r => j = i
      BY <1>1, <3>1, SequenceIsOnto DEF roles, n
    <3>3. LinesOf(team, r) = {i}
      <4>1. \A j \in places : lines[j].role = r <=> j = i
        <5> HIDE DEF places
        <5>1. QED  BY <1>9, <3>2
      <4>2. DOMAIN lines = places
        BY <1>7
      <4> HIDE DEF places
      <4>3. QED  BY <4>1, <4>2, <3>2 DEF LinesOf
    <3>4. IsFiniteSet(LinesOf(team, r))
      <4>1. IsFiniteSet({i})
        BY FS_Singleton
      <4>2. QED  BY <3>3, <4>1
    <3> DEFINE g == HoursOf(team, r, days)
               capacity == LineCapacityHours(lines[i], Max({0, days}))
    <3>5. PICK sum : IsSum(sum, g, LinesOf(team, r)) /\ available = sum[LinesOf(team, r)]
      BY <3>4, AvailableIsSum
    <3>6. g[i] = capacity
      BY <3>3 DEF HoursOf
    <3>7. Max({0, days}) = days
      <4>1. 0 \in Int /\ days \in Int /\ 0 < days
        OBVIOUS
      <4>2. days <= Max({0, days}) /\ Max({0, days}) \in {0, days}
        BY <4>1, Larger
      <4>3. QED  BY <4>1, <4>2
    <3>8. LineCapacityHours(lines[i], days)
             = LineCapacityHours(RecommendedLine(hours, hoursPerDay, days), days)
      <4> DEFINE recommended == RecommendedLine(hours, hoursPerDay, days)
                 mine == lines[i]
      <4>1. mine = line(r)
        BY <1>7, <3>2
      <4> HIDE DEF mine
      <4>2. /\ mine.people = people(r) /\ mine.hoursPerDay = hoursPerDay
            /\ mine.availability = 100 /\ mine.availableFromDay = 0
        BY <4>1
      <4>3. /\ recommended.people = people(r) /\ recommended.hoursPerDay = hoursPerDay
            /\ recommended.availability = 100 /\ recommended.availableFromDay = 0
        BY DEF RecommendedLine, people
      <4> HIDE DEF recommended
      <4>4. LineCapacityHours(mine, days) = LineCapacityHours(recommended, days)
        BY <4>2, <4>3 DEF LineCapacityHours
      <4>5. QED  BY <4>4 DEF mine, recommended
    <3>9. Gap(hours, capacity) = 0
      <4>1. hours \in Nat \ {0}
        BY <2>1, <2>3
      <4> HIDE DEF hours
      <4>2. Gap(hours, LineCapacityHours(RecommendedLine(hours, hoursPerDay, days), days)) = 0
        BY <4>1, StaffingSuffices
      <4>3. QED  BY <3>7, <3>8, <4>2
    <3>10. capacity \in Nat
      <4>1. lines[i] \in WorkLine(P) /\ days \in Nat
        BY <1>9
      <4> DEFINE mine == lines[i]
      <4>2. mine \in WorkLine(P)
        BY <4>1
      <4> HIDE DEF mine
      <4>3. LineCapacityHours(mine, days) \in Nat
        BY <4>1, <4>2, LineGrows
      <4>4. QED  BY <3>7, <4>3 DEF mine
    <3>11. available = capacity
      <4>1. IsSum(sum, g, {i}) /\ available = sum[{i}] /\ g[i] \in Nat
        BY <3>3, <3>5, <3>6, <3>10
      <4> HIDE DEF g, available, capacity
      <4>2. sum[{i}] = g[i]
        BY <4>1, SumOfOne
      <4>3. QED  BY <3>6, <4>1, <4>2
    <3>12. QED  BY <2>1, <3>9, <3>11 DEF GapOf
  <2>4. QED  BY <2>2, <2>3
<1>13. team \in [supplied : BOOLEAN, lines : Seq(WorkLine(P))] /\ team.supplied
  BY <1>5, <1>6, <1>10
<1>14. QED  BY <1>11, <1>12, <1>13 DEF team, staffing

\* The team recommended for a plan is never told it has too few hours for it.
LEMMA RecommendedIsEnough ==
    ASSUME NEW q, IsQuestion(q), q.days > 0
    PROVE  LET staffing == RecommendStaffing(PlannedEffort(q), q.perDay, q.days)
           IN  Evaluate(q, TeamOf(staffing, q.perDay), q.days) # "NOT_FEASIBLE_WITH_CURRENT_CAPACITY"
<1> DEFINE planned == PlannedEffort(q)
           P == Roles(q)
           perDay == q.perDay
           days == q.days
           team == TeamOf(RecommendStaffing(planned, perDay, days), perDay)
           capacity == CapacityOf(planned, team, perDay, days)
           needed == NeededDays(q, team, days)
           verdict == AssessFeasibility(needed, days, capacity)
<1>1. planned \in [P -> Nat] /\ IsFiniteSet(P)
  BY PlannedFacts DEF IsQuestion
<1>2. perDay \in Nat \ {0} /\ days \in Nat \ {0}
  BY DEF IsQuestion, IsPlan
<1>3. Evaluate(q, team, days) = verdict
  BY EvaluateIs
<1> HIDE DEF planned, P, perDay, days, needed
<1>4. /\ team \in [supplied : BOOLEAN, lines : Seq(WorkLine(P))] /\ team.supplied
      /\ RolesOf(planned, team) \subseteq P
      /\ \A r \in P : GapOf(planned, team, r, days) = 0
  BY <1>1, <1>2, RecommendedHours
<1> HIDE DEF team
<1>5. /\ capacity.capacityUnknown = ~team.supplied /\ capacity.totalGap \in Nat
      /\ capacity.totalGap = 0 <=>
            \A r \in RolesOf(planned, team) : GapOf(planned, team, r, days) = 0
  <2>1. days \in Nat
    BY <1>2
  <2>2. QED  BY <1>1, <1>4, <2>1, TotalGapFacts
<1> HIDE DEF capacity
<1>6. ~capacity.capacityUnknown /\ capacity.totalGap = 0
  BY <1>4, <1>5
<1>7. verdict \in {"HIGH_RISK", "AGGRESSIVE", "FEASIBLE", "COMFORTABLE"}
  <2>1. ~(days < 0) /\ ~(capacity.totalGap > 0)
    BY <1>2, <1>6
  <2> DEFINE headroom == IF days = 0 THEN 0 ELSE (100 * (days - needed)) \div days
  <2>2. verdict = IF needed > days THEN "HIGH_RISK"
                  ELSE IF capacity.overloaded # {} \/ headroom < 10 THEN "AGGRESSIVE"
                  ELSE IF headroom < 25 THEN "FEASIBLE" ELSE "COMFORTABLE"
    BY <1>6, <2>1 DEF AssessFeasibility
  <2> HIDE DEF verdict, headroom
  <2>3. QED  BY <2>2
<1>8. QED
  <2>1. Evaluate(q, team, days) # "NOT_FEASIBLE_WITH_CURRENT_CAPACITY"
    <3> HIDE DEF verdict
    <3>1. QED  BY <1>3, <1>7
  <2>2. QED  BY <2>1 DEF team, planned, perDay, days

\* What a deadline is measured with: a start, a deadline within the days that are looked at, and
\* work that takes a day or more.
IsTimeline(dates) ==
    /\ dates.start \in Nat /\ dates.total \in Nat \ {0}
    /\ dates.deadline \in Nat /\ dates.deadline < dates.start + MaxScheduleDays

\* The verdicts agree for every calendar, start, deadline and amount of work, and for every plan,
\* team and number of days: measuring in days and in dates comes to the same, a day more never makes
\* the verdict on a team worse, and the team recommended has the hours. (workingDaysBetween and
\* addWorkingDays; assessFeasibility; recommendStaffing and peopleForHours)
THEOREM VerdictsAlwaysAgree ==
    ASSUME input.kind = "dates" => IsTimeline(input),
           input.kind = "verdict" => IsQuestion(input)
    PROVE  VerdictsAgree
<1>1. ASSUME input.kind = "dates"
      PROVE  LET first == NextWorkingDay(input.start, input.calendar)
                 finish == AddWorkingDays(first, input.total, input.calendar)
                 available == TimelineWorkingDays([mode |-> "FIXED_DEADLINE", amount |-> input.deadline],
                                                  input.calendar, input.start)
             IN  input.total <= available <=> finish <= input.deadline
  <2> DEFINE start == input.start
             deadline == input.deadline
             total == input.total
             calendar == input.calendar
  <2>1. /\ start \in Nat /\ total \in Nat \ {0} /\ deadline \in Nat
        /\ deadline < start + MaxScheduleDays
    BY <1>1 DEF IsTimeline
  <2> HIDE DEF start, deadline, total, calendar
  <2>2. LET first == NextWorkingDay(start, calendar)
            finish == AddWorkingDays(first, total, calendar)
            available == TimelineWorkingDays([mode |-> "FIXED_DEADLINE", amount |-> deadline],
                                             calendar, start)
        IN  total <= available <=> finish <= deadline
    BY <2>1, DeadlineMeasuresAgree
  <2>3. QED  BY <2>2 DEF start, deadline, total, calendar
<1>2. ASSUME input.kind = "verdict", input.team.supplied
      PROVE  RankOf(Evaluate(input, input.team, input.days))
                <= RankOf(Evaluate(input, input.team, input.days + 1))
  BY <1>2, EvaluateGrows
<1>3. ASSUME input.kind = "verdict", input.days > 0
      PROVE  LET staffing == RecommendStaffing(PlannedEffort(input), input.perDay, input.days)
             IN  Evaluate(input, TeamOf(staffing, input.perDay), input.days)
                    # "NOT_FEASIBLE_WITH_CURRENT_CAPACITY"
  BY <1>3, RecommendedIsEnough
<1>4. QED  BY <1>1, <1>2, <1>3 DEF VerdictsAgree

-----------------------------------------------------------------------------
(* The hours of a line, over the roles *)

LEMMA NearestFacts ==
    ASSUME NEW n \in Nat, NEW d \in Nat \ {0}
    PROVE  /\ Nearest(n, d) \in Nat
           /\ 2 * (d * Nearest(n, d)) <= 2 * n + d /\ 2 * n <= 2 * (d * Nearest(n, d)) + d
<1> DEFINE m == 2 * n + d
           e == 2 * d
           k == m \div e
<1>1. m \in Int /\ e \in Nat \ {0} /\ Nearest(n, d) = k
  BY DEF Nearest
<1>2. Nearest(n, d) \in Nat
  BY NearestGrows
<1>3. e * k <= m /\ m < e * k + e
  <2> HIDE DEF m, e
  <2>1. QED  BY <1>1, Quotient
<1>4. k \in Nat
  BY <1>1, <1>2
<1> HIDE DEF k
<1>5. e * k = 2 * (d * k) /\ d * k \in Int
  BY <1>4
<1> DEFINE whole == d * k
<1>6. whole \in Int /\ e * k = 2 * whole
  BY <1>5
<1>7. 2 * whole <= 2 * n + d /\ 2 * n + d < 2 * whole + 2 * d
  BY <1>3, <1>6
<1> HIDE DEF whole
<1>8. 2 * whole <= 2 * n + d /\ 2 * n <= 2 * whole + d
  BY <1>6, <1>7
<1>9. QED  BY <1>1, <1>2, <1>8 DEF whole

LEMMA Distributes ==
    ASSUME NEW a \in Int, NEW b \in Int, NEW c \in Int
    PROVE  c * (a + b) = c * a + c * b /\ c * a \in Int /\ c * b \in Int
  OBVIOUS

\* A part and its share of the hours are within n halves of each other.
Close(part, share, hours, T, n) ==
    /\ 2 * (T * part) <= 2 * (hours * share) + T * n
    /\ 2 * (hours * share) <= 2 * (T * part) + T * n

\* Each part rounded to the nearest, the sum is off by half of one for each part.
LEMMA RoundedParts ==
    ASSUME NEW S, IsFiniteSet(S), NEW share \in [S -> Nat], NEW part \in [S -> Nat],
           NEW T \in Nat \ {0}, NEW hours \in Nat,
           \A r \in S : Close(part[r], share[r], hours, T, 1),
           NEW parts, IsSum(parts, part, S), NEW shares, IsSum(shares, share, S)
    PROVE  /\ Cardinality(S) \in Nat /\ parts[S] \in Nat /\ shares[S] \in Nat
           /\ Close(parts[S], shares[S], hours, T, Cardinality(S))
<1> DEFINE Good(s) ==
               /\ parts[s] \in Nat /\ shares[s] \in Nat
               /\ Close(parts[s], shares[s], hours, T, Cardinality(s))
           Bad == {n \in Nat : \E s \in SUBSET S : Cardinality(s) = n /\ ~Good(s)}
<1>1. \A s \in SUBSET S : IsFiniteSet(s) /\ Cardinality(s) \in Nat
  BY FS_Subset, FS_CardinalityType
<1>2. \A s \in SUBSET S :
         /\ parts[s] = IF s = {} THEN 0 ELSE part[Picked(s)] + parts[s \ {Picked(s)}]
         /\ shares[s] = IF s = {} THEN 0 ELSE share[Picked(s)] + shares[s \ {Picked(s)}]
  BY DEF IsSum
<1>3. Good({})
  <2>1. parts[{}] = 0 /\ shares[{}] = 0 /\ Cardinality({}) = 0
    BY <1>2, FS_EmptySet
  <2>2. QED  BY <2>1 DEF Close
<1>4. ASSUME NEW s \in SUBSET S, s # {}, Good(s \ {Picked(s)}) PROVE Good(s)
  <2> DEFINE p == Picked(s)
             rest == s \ {p}
             a == part[p]
             b == parts[rest]
             c == share[p]
             d == shares[rest]
             n == Cardinality(rest)
  <2>1. p \in s
    BY <1>1, <1>4, Fewer
  <2>2. Cardinality(s) = n + 1 /\ n \in Nat
    <3> HIDE DEF p
    <3>1. IsFiniteSet(s) /\ Cardinality(s) \in Nat
      BY <1>1
    <3>2. Cardinality(s \ {p}) = Cardinality(s) - 1 /\ IsFiniteSet(s \ {p})
      BY <2>1, <3>1, FS_RemoveElement
    <3>3. Cardinality(s \ {p}) \in Nat
      BY <3>2, FS_CardinalityType
    <3>4. QED  BY <3>1, <3>2, <3>3
  <2>3. parts[s] = a + b /\ shares[s] = c + d
    BY <1>2, <1>4
  <2>4. a \in Nat /\ c \in Nat /\ 2 * (T * a) <= 2 * (hours * c) + T /\ 2 * (hours * c) <= 2 * (T * a) + T
    <3>1. a \in Nat /\ c \in Nat /\ Close(a, c, hours, T, 1)
      BY <2>1
    <3> HIDE DEF a, c
    <3>2. QED  BY <3>1 DEF Close
  <2>5. b \in Nat /\ d \in Nat /\ 2 * (T * b) <= 2 * (hours * d) + T * n
        /\ 2 * (hours * d) <= 2 * (T * b) + T * n
    BY <1>4 DEF Close
  <2> HIDE DEF p, rest, a, b, c, d, n
  <2>6. T * (a + b) = T * a + T * b /\ T * a \in Int /\ T * b \in Int
    BY <2>4, <2>5, Distributes
  <2>7. hours * (c + d) = hours * c + hours * d /\ hours * c \in Int /\ hours * d \in Int
    BY <2>4, <2>5, Distributes
  <2>8. T * (n + 1) = T * n + T /\ T * n \in Int
    BY <2>2, Distributes
  <2> DEFINE Ta == T * a
             Tb == T * b
             hc == hours * c
             hd == hours * d
             Tn == T * n
  <2>9. /\ Ta \in Int /\ Tb \in Int /\ hc \in Int /\ hd \in Int /\ Tn \in Int
        /\ 2 * Ta <= 2 * hc + T /\ 2 * hc <= 2 * Ta + T
        /\ 2 * Tb <= 2 * hd + Tn /\ 2 * hd <= 2 * Tb + Tn
    BY <2>4, <2>5, <2>6, <2>7, <2>8
  <2>10. T * parts[s] = Ta + Tb /\ hours * shares[s] = hc + hd /\ T * Cardinality(s) = Tn + T
    BY <2>2, <2>3, <2>6, <2>7, <2>8
  <2>11. parts[s] \in Nat /\ shares[s] \in Nat
    BY <2>3, <2>4, <2>5
  <2> HIDE DEF Ta, Tb, hc, hd, Tn
  <2>12. 2 * (Ta + Tb) <= 2 * (hc + hd) + (Tn + T) /\ 2 * (hc + hd) <= 2 * (Ta + Tb) + (Tn + T)
    BY <2>9
  <2>13. QED  BY <2>10, <2>11, <2>12 DEF Close
<1> HIDE DEF Good
<1>5. Bad = {}
  <2> SUFFICES ASSUME Bad # {} PROVE FALSE
    OBVIOUS
  <2>1. PICK n \in Bad : \A m \in Bad : n <= m
    <3>1. Bad \subseteq Nat
      OBVIOUS
    <3> HIDE DEF Bad
    <3>2. QED  BY <3>1, Smallest
  <2>2. PICK s \in SUBSET S : Cardinality(s) = n /\ ~Good(s)
    BY <2>1
  <2>3. s # {} /\ ~Good(s \ {Picked(s)})
    BY <1>3, <1>4, <2>2
  <2>4. s \ {Picked(s)} \in SUBSET S
    OBVIOUS
  <2>5. Cardinality(s \ {Picked(s)}) \in Nat /\ Cardinality(s \ {Picked(s)}) < Cardinality(s)
    BY <1>1, <2>3, Fewer
  <2>6. Cardinality(s \ {Picked(s)}) \in Bad
    BY <2>3, <2>4, <2>5
  <2>7. QED
    <3> HIDE DEF Bad
    <3>1. n \in Nat /\ n <= Cardinality(s \ {Picked(s)})
      BY <2>1, <2>2, <2>6, <1>1
    <3>2. QED  BY <2>2, <2>5, <3>1
<1>6. Good(S)
  <2>1. S \in SUBSET S /\ Cardinality(S) \in Nat
    BY <1>1
  <2>2. QED  BY <1>5, <2>1
<1>7. Cardinality(S) \in Nat
  BY <1>1
<1>8. QED  BY <1>6, <1>7 DEF Good

\* Of a factor that is positive, an inequality can be freed.
LEMMA Cancels ==
    ASSUME NEW T \in Nat \ {0}, NEW a \in Int, NEW b \in Int, T * a <= T * b
    PROVE  a <= b
<1>1. SUFFICES ASSUME b + 1 <= a PROVE FALSE
  OBVIOUS
<1>2. T * (b + 1) <= T * a /\ T * (b + 1) \in Int /\ T * a \in Int
  BY <1>1, Products
<1>3. T * (b + 1) = T * b + T /\ T * b \in Int
  BY Distributes
<1>4. QED  BY <1>2, <1>3

\* The parts of a whole, in proportion to shares, add up to it but for their rounding.
LEMMA PartsAddUp ==
    ASSUME NEW S, IsFiniteSet(S), NEW share \in [S -> Nat], NEW part,
           NEW T \in Nat \ {0}, NEW hours \in Nat,
           part = [r \in S |-> Nearest(hours * share[r], T)],
           NEW parts, IsSum(parts, part, S), NEW shares, IsSum(shares, share, S), shares[S] = T
    PROVE  /\ Cardinality(S) \in Nat /\ parts[S] \in Nat
           /\ hours - parts[S] \in -Cardinality(S) .. Cardinality(S)
<1> DEFINE n == Cardinality(S)
           total == parts[S]
<1>1. ASSUME NEW r \in S
      PROVE  part[r] \in Nat /\ Close(part[r], share[r], hours, T, 1)
  <2> DEFINE work == hours * share[r]
  <2>1. work \in Nat
    OBVIOUS
  <2> HIDE DEF work
  <2>2. /\ Nearest(work, T) \in Nat /\ 2 * (T * Nearest(work, T)) <= 2 * work + T
        /\ 2 * work <= 2 * (T * Nearest(work, T)) + T
    BY <2>1, NearestFacts
  <2>3. part[r] = Nearest(work, T)
    BY DEF work
  <2>4. QED  BY <2>2, <2>3 DEF work, Close
<1>2. part \in [S -> Nat]
  BY <1>1
<1>3. /\ n \in Nat /\ total \in Nat
      /\ 2 * (T * total) <= 2 * (hours * T) + T * n
      /\ 2 * (hours * T) <= 2 * (T * total) + T * n
  <2>1. n \in Nat /\ total \in Nat /\ Close(total, T, hours, T, n)
    BY <1>1, <1>2, RoundedParts
  <2> HIDE DEF n, total
  <2>2. QED  BY <2>1 DEF Close
<1> HIDE DEF n, total
<1>4. T * (2 * total) <= T * (2 * hours + n) /\ T * (2 * hours) <= T * (2 * total + n)
  <2>1. T * (2 * total) = 2 * (T * total) /\ T * (2 * hours) = 2 * (hours * T)
    BY <1>3
  <2>2. T * (2 * hours + n) = T * (2 * hours) + T * n /\ T * (2 * total + n) = T * (2 * total) + T * n
    BY <1>3, Distributes
  <2>3. QED  BY <1>3, <2>1, <2>2
<1>5. 2 * total <= 2 * hours + n
  <2> DEFINE a == 2 * total
             b == 2 * hours + n
  <2>1. a \in Int /\ b \in Int /\ T * a <= T * b
    BY <1>3, <1>4
  <2> HIDE DEF a, b
  <2>2. a <= b
    BY <2>1, Cancels
  <2>3. QED  BY <2>2 DEF a, b
<1>6. 2 * hours <= 2 * total + n
  <2> DEFINE a == 2 * hours
             b == 2 * total + n
  <2>1. a \in Int /\ b \in Int /\ T * a <= T * b
    BY <1>3, <1>4
  <2> HIDE DEF a, b
  <2>2. a <= b
    BY <2>1, Cancels
  <2>3. QED  BY <2>2 DEF a, b
<1>7. hours - total \in -n .. n
  BY <1>3, <1>5, <1>6
<1>8. QED  BY <1>3, <1>7 DEF n, total

LEMMA PairsAreFinite ==
    ASSUME NEW x, NEW y
    PROVE  /\ IsFiniteSet({}) /\ IsFiniteSet({x}) /\ IsFiniteSet({x, y}) /\ IsFiniteSet({x} \cup {y})
           /\ Cardinality({}) = 0 /\ Cardinality({x}) = 1
<1>1. IsFiniteSet({x}) /\ IsFiniteSet({y}) /\ Cardinality({x}) = 1
  BY FS_Singleton
<1>2. IsFiniteSet({x} \cup {y})
  BY <1>1, FS_Union
<1>3. {x, y} = {x} \cup {y}
  OBVIOUS
<1>4. IsFiniteSet({}) /\ Cardinality({}) = 0
  BY FS_EmptySet
<1>5. QED  BY <1>1, <1>2, <1>3, <1>4

LEMMA TriplesAreFinite ==
    ASSUME NEW x, NEW y, NEW z
    PROVE  IsFiniteSet({x, y, z})
<1>1. IsFiniteSet({x, y}) /\ IsFiniteSet({z})
  BY PairsAreFinite
<1>2. IsFiniteSet({x, y} \cup {z})
  BY <1>1, FS_Union
<1>3. {x, y, z} = {x, y} \cup {z}
  OBVIOUS
<1>4. QED  BY <1>2, <1>3

IsSplit(shares) == IsFiniteSet(DOMAIN shares) /\ \A r \in DOMAIN shares : shares[r] \in Nat \ {0}

\* The shares of a category are positive.
LEMMA ShareFacts == \A category \in WorkCategories : IsSplit(RoleShares[category])
<1>1. IsSplit(RoleShares["scaffolding"])
  <2>1. PICK shares : shares = RoleShares["scaffolding"] /\ shares = [BACKEND |-> 60, DEVOPS |-> 40]
    BY DEF RoleShares
  <2>2. DOMAIN shares = {"BACKEND", "DEVOPS"}
        /\ shares["BACKEND"] = 60 /\ shares["DEVOPS"] = 40
    BY <2>1
  <2>3. IsFiniteSet({"BACKEND", "DEVOPS"})
    BY PairsAreFinite, TriplesAreFinite
  <2>4. QED  BY <2>1, <2>2, <2>3 DEF IsSplit
<1>2. IsSplit(RoleShares["crud"])
  <2>1. PICK shares : shares = RoleShares["crud"] /\ shares = [BACKEND |-> 45, FRONTEND |-> 35, QA |-> 20]
    BY DEF RoleShares
  <2>2. DOMAIN shares = {"BACKEND", "FRONTEND", "QA"}
        /\ shares["BACKEND"] = 45 /\ shares["FRONTEND"] = 35 /\ shares["QA"] = 20
    BY <2>1
  <2>3. IsFiniteSet({"BACKEND", "FRONTEND", "QA"})
    BY PairsAreFinite, TriplesAreFinite
  <2>4. QED  BY <2>1, <2>2, <2>3 DEF IsSplit
<1>3. IsSplit(RoleShares["business_logic"])
  <2>1. PICK shares : shares = RoleShares["business_logic"] /\ shares = [BACKEND |-> 60, QA |-> 25, BA |-> 15]
    BY DEF RoleShares
  <2>2. DOMAIN shares = {"BACKEND", "QA", "BA"}
        /\ shares["BACKEND"] = 60 /\ shares["QA"] = 25 /\ shares["BA"] = 15
    BY <2>1
  <2>3. IsFiniteSet({"BACKEND", "QA", "BA"})
    BY PairsAreFinite, TriplesAreFinite
  <2>4. QED  BY <2>1, <2>2, <2>3 DEF IsSplit
<1>4. IsSplit(RoleShares["validation"])
  <2>1. PICK shares : shares = RoleShares["validation"] /\ shares = [BACKEND |-> 55, QA |-> 35, BA |-> 10]
    BY DEF RoleShares
  <2>2. DOMAIN shares = {"BACKEND", "QA", "BA"}
        /\ shares["BACKEND"] = 55 /\ shares["QA"] = 35 /\ shares["BA"] = 10
    BY <2>1
  <2>3. IsFiniteSet({"BACKEND", "QA", "BA"})
    BY PairsAreFinite, TriplesAreFinite
  <2>4. QED  BY <2>1, <2>2, <2>3 DEF IsSplit
<1>5. IsSplit(RoleShares["integration"])
  <2>1. PICK shares : shares = RoleShares["integration"] /\ shares = [BACKEND |-> 60, QA |-> 25, SOLUTION_ARCHITECT |-> 15]
    BY DEF RoleShares
  <2>2. DOMAIN shares = {"BACKEND", "QA", "SOLUTION_ARCHITECT"}
        /\ shares["BACKEND"] = 60 /\ shares["QA"] = 25 /\ shares["SOLUTION_ARCHITECT"] = 15
    BY <2>1
  <2>3. IsFiniteSet({"BACKEND", "QA", "SOLUTION_ARCHITECT"})
    BY PairsAreFinite, TriplesAreFinite
  <2>4. QED  BY <2>1, <2>2, <2>3 DEF IsSplit
<1>6. IsSplit(RoleShares["ui_implementation"])
  <2>1. PICK shares : shares = RoleShares["ui_implementation"] /\ shares = [FRONTEND |-> 70, UI_UX |-> 15, QA |-> 15]
    BY DEF RoleShares
  <2>2. DOMAIN shares = {"FRONTEND", "UI_UX", "QA"}
        /\ shares["FRONTEND"] = 70 /\ shares["UI_UX"] = 15 /\ shares["QA"] = 15
    BY <2>1
  <2>3. IsFiniteSet({"FRONTEND", "UI_UX", "QA"})
    BY PairsAreFinite, TriplesAreFinite
  <2>4. QED  BY <2>1, <2>2, <2>3 DEF IsSplit
<1>7. IsSplit(RoleShares["ui_design"])
  <2>1. PICK shares : shares = RoleShares["ui_design"] /\ shares = [UI_UX |-> 85, FRONTEND |-> 15]
    BY DEF RoleShares
  <2>2. DOMAIN shares = {"UI_UX", "FRONTEND"}
        /\ shares["UI_UX"] = 85 /\ shares["FRONTEND"] = 15
    BY <2>1
  <2>3. IsFiniteSet({"UI_UX", "FRONTEND"})
    BY PairsAreFinite, TriplesAreFinite
  <2>4. QED  BY <2>1, <2>2, <2>3 DEF IsSplit
<1>8. IsSplit(RoleShares["data_modelling"])
  <2>1. PICK shares : shares = RoleShares["data_modelling"] /\ shares = [BACKEND |-> 55, SOLUTION_ARCHITECT |-> 25, DATA_ENGINEER |-> 20]
    BY DEF RoleShares
  <2>2. DOMAIN shares = {"BACKEND", "SOLUTION_ARCHITECT", "DATA_ENGINEER"}
        /\ shares["BACKEND"] = 55 /\ shares["SOLUTION_ARCHITECT"] = 25 /\ shares["DATA_ENGINEER"] = 20
    BY <2>1
  <2>3. IsFiniteSet({"BACKEND", "SOLUTION_ARCHITECT", "DATA_ENGINEER"})
    BY PairsAreFinite, TriplesAreFinite
  <2>4. QED  BY <2>1, <2>2, <2>3 DEF IsSplit
<1>9. IsSplit(RoleShares["migration"])
  <2>1. PICK shares : shares = RoleShares["migration"] /\ shares = [DATA_ENGINEER |-> 50, BACKEND |-> 30, QA |-> 20]
    BY DEF RoleShares
  <2>2. DOMAIN shares = {"DATA_ENGINEER", "BACKEND", "QA"}
        /\ shares["DATA_ENGINEER"] = 50 /\ shares["BACKEND"] = 30 /\ shares["QA"] = 20
    BY <2>1
  <2>3. IsFiniteSet({"DATA_ENGINEER", "BACKEND", "QA"})
    BY PairsAreFinite, TriplesAreFinite
  <2>4. QED  BY <2>1, <2>2, <2>3 DEF IsSplit
<1>10. IsSplit(RoleShares["ai_ml"])
  <2>1. PICK shares : shares = RoleShares["ai_ml"] /\ shares = [AI_ML |-> 65, BACKEND |-> 20, QA |-> 15]
    BY DEF RoleShares
  <2>2. DOMAIN shares = {"AI_ML", "BACKEND", "QA"}
        /\ shares["AI_ML"] = 65 /\ shares["BACKEND"] = 20 /\ shares["QA"] = 15
    BY <2>1
  <2>3. IsFiniteSet({"AI_ML", "BACKEND", "QA"})
    BY PairsAreFinite, TriplesAreFinite
  <2>4. QED  BY <2>1, <2>2, <2>3 DEF IsSplit
<1>11. IsSplit(RoleShares["infrastructure"])
  <2>1. PICK shares : shares = RoleShares["infrastructure"] /\ shares = [DEVOPS |-> 75, BACKEND |-> 25]
    BY DEF RoleShares
  <2>2. DOMAIN shares = {"DEVOPS", "BACKEND"}
        /\ shares["DEVOPS"] = 75 /\ shares["BACKEND"] = 25
    BY <2>1
  <2>3. IsFiniteSet({"DEVOPS", "BACKEND"})
    BY PairsAreFinite, TriplesAreFinite
  <2>4. QED  BY <2>1, <2>2, <2>3 DEF IsSplit
<1>12. IsSplit(RoleShares["testing"])
  <2>1. PICK shares : shares = RoleShares["testing"] /\ shares = [QA |-> 100]
    BY DEF RoleShares
  <2>2. DOMAIN shares = {"QA"}
        /\ shares["QA"] = 100
    BY <2>1
  <2>3. IsFiniteSet({"QA"})
    BY PairsAreFinite, TriplesAreFinite
  <2>4. QED  BY <2>1, <2>2, <2>3 DEF IsSplit
<1>13. IsSplit(RoleShares["analysis"])
  <2>1. PICK shares : shares = RoleShares["analysis"] /\ shares = [BA |-> 70, SOLUTION_ARCHITECT |-> 30]
    BY DEF RoleShares
  <2>2. DOMAIN shares = {"BA", "SOLUTION_ARCHITECT"}
        /\ shares["BA"] = 70 /\ shares["SOLUTION_ARCHITECT"] = 30
    BY <2>1
  <2>3. IsFiniteSet({"BA", "SOLUTION_ARCHITECT"})
    BY PairsAreFinite, TriplesAreFinite
  <2>4. QED  BY <2>1, <2>2, <2>3 DEF IsSplit
<1>14. IsSplit(RoleShares["coordination"])
  <2>1. PICK shares : shares = RoleShares["coordination"] /\ shares = [PM |-> 100]
    BY DEF RoleShares
  <2>2. DOMAIN shares = {"PM"}
        /\ shares["PM"] = 100
    BY <2>1
  <2>3. IsFiniteSet({"PM"})
    BY PairsAreFinite, TriplesAreFinite
  <2>4. QED  BY <2>1, <2>2, <2>3 DEF IsSplit
<1>15. QED  BY <1>1, <1>2, <1>3, <1>4, <1>5, <1>6, <1>7, <1>8, <1>9, <1>10, <1>11, <1>12, <1>13, <1>14 DEF WorkCategories

\* Who stands in for a role is somebody the project has, and no more than two.
LEMMA TakersFacts ==
    ASSUME NEW role, NEW available
    PROVE  LET takers == ResolveRole(role, available)
           IN  /\ takers \subseteq available /\ IsFiniteSet(takers)
               /\ Cardinality(takers) \in 0 .. 2 /\ (takers # {} => Cardinality(takers) \in 1 .. 2)
<1> DEFINE takers == ResolveRole(role, available)
           interface == {"FRONTEND", "MOBILE"} \cap available
           instead == {i \in DOMAIN RoleSubstitutes(role) : RoleSubstitutes(role)[i] \in available}
           first == RoleSubstitutes(role)[Min(instead)]
<1>1. takers = IF role = "FRONTEND" /\ Cardinality(interface) > 1 THEN interface
               ELSE IF role \in available THEN {role}
               ELSE IF instead # {} THEN {first} ELSE {}
  BY DEF ResolveRole
<1>2. interface \subseteq available /\ IsFiniteSet(interface) /\ Cardinality(interface) \in 0 .. 2
  <2> DEFINE both == {"FRONTEND", "MOBILE"}
  <2>1. IsFiniteSet(both) /\ Cardinality(both) = 2
    <3>1. IsFiniteSet({"FRONTEND"}) /\ Cardinality({"FRONTEND"}) = 1
      BY PairsAreFinite
    <3>2. Cardinality({"FRONTEND"} \cup {"MOBILE"}) = 2
      BY <3>1, FS_AddElement
    <3>3. both = {"FRONTEND"} \cup {"MOBILE"}
      OBVIOUS
    <3>4. QED  BY <3>2, <3>3, PairsAreFinite
  <2>2. interface \in SUBSET both /\ interface \subseteq available
    OBVIOUS
  <2> HIDE DEF interface, both
  <2>3. IsFiniteSet(interface) /\ Cardinality(interface) <= Cardinality(both)
    BY <2>1, <2>2, FS_Subset
  <2>4. Cardinality(interface) \in Nat
    BY <2>3, FS_CardinalityType
  <2>5. QED  BY <2>1, <2>2, <2>3, <2>4
<1>3. instead # {} => first \in available
  <2>1. DOMAIN RoleSubstitutes(role) \subseteq {1, 2}
    BY DEF RoleSubstitutes
  <2>2. instead \subseteq {1, 2} /\ instead \subseteq Int
    BY <2>1
  <2>3. IsFiniteSet(instead)
    <3>1. IsFiniteSet({1, 2})
      BY PairsAreFinite
    <3> HIDE DEF instead
    <3>2. QED  BY <2>2, <3>1, FS_Subset
  <2>4. ASSUME instead # {} PROVE Min(instead) \in instead
    <3> HIDE DEF instead
    <3>1. QED  BY <2>2, <2>3, <2>4, Extremes
  <2>5. QED  BY <2>4
<1> HIDE DEF takers, interface, instead, first
<1> DEFINE Fits(s) == /\ s \subseteq available /\ IsFiniteSet(s) /\ Cardinality(s) \in 0 .. 2
                     /\ (s # {} => Cardinality(s) \in 1 .. 2)
<1>4. ASSUME NEW r \in available PROVE Fits({r})
  <2>1. IsFiniteSet({r}) /\ Cardinality({r}) = 1
    BY PairsAreFinite
  <2>2. QED  BY <2>1
<1>5. Fits({})
  <2>1. IsFiniteSet({}) /\ Cardinality({}) = 0
    BY FS_EmptySet
  <2>2. QED  BY <2>1
<1>6. Fits(interface)
  <2>1. interface # {} => Cardinality(interface) # 0
    BY <1>2, FS_EmptySet
  <2>2. QED  BY <1>2, <2>1
<1> HIDE DEF Fits
<1>7. Fits(takers)
  BY <1>1, <1>3, <1>4, <1>5, <1>6
<1>8. QED  BY <1>7 DEF Fits, takers

\* SplitAcrossRoles, in terms of what it is worked out from.
Usable(category, available) == UNION {ResolveRole(r, available) : r \in DOMAIN RoleShares[category]}
TakenFrom(category, available, role) ==
    {r \in DOMAIN RoleShares[category] : role \in ResolveRole(r, available)}
PortionOf(category, available, r) ==
    (2 * RoleShares[category][r]) \div Cardinality(ResolveRole(r, available))
ShareOf(category, available, role) ==
    SumOver(TakenFrom(category, available, role), LAMBDA r : PortionOf(category, available, r))
TotalShare(category, available) ==
    SumOver(Usable(category, available), LAMBDA r : ShareOf(category, available, r))

LEMMA SplitIs ==
    ASSUME NEW hours, NEW category, NEW available
    PROVE  SplitAcrossRoles(hours, category, available) =
              IF Usable(category, available) # {}
              THEN [r \in Usable(category, available) |->
                      Nearest(hours * ShareOf(category, available, r), TotalShare(category, available))]
              ELSE [r \in {CHOOSE r \in available : TRUE} |-> hours]
  BY DEF SplitAcrossRoles, Usable, TakenFrom, PortionOf, ShareOf, TotalShare

LEMMA UsableFacts ==
    ASSUME NEW category \in WorkCategories, NEW available
    PROVE  /\ Usable(category, available) \subseteq available /\ IsFiniteSet(Usable(category, available))
           /\ \A role \in Usable(category, available) : TakenFrom(category, available, role) # {}
           /\ \A role : IsFiniteSet(TakenFrom(category, available, role))
           /\ \A role : \A r \in TakenFrom(category, available, role) :
                 PortionOf(category, available, r) \in Nat \ {0}
<1> DEFINE shares == RoleShares[category]
           D == DOMAIN shares
           takers(r) == ResolveRole(r, available)
           usable == Usable(category, available)
           behind(role) == TakenFrom(category, available, role)
<1>1. IsFiniteSet(D) /\ \A r \in D : shares[r] \in Nat \ {0}
  BY ShareFacts DEF IsSplit
<1>2. \A r : takers(r) \subseteq available /\ IsFiniteSet(takers(r))
  BY TakersFacts
<1>3. usable = UNION {takers(r) : r \in D}
  BY DEF Usable
<1>4. usable \subseteq available
  <2> HIDE DEF takers, usable
  <2>1. QED  BY <1>2, <1>3
<1>5. IsFiniteSet(usable)
  <2> DEFINE f == [r \in D |-> takers(r)]
             any == {takers(r) : r \in D}
  <2>1. f \in [D -> any] /\ any = {f[r] : r \in D}
    OBVIOUS
  <2> HIDE DEF f, D, any
  <2>2. IsFiniteSet(D) /\ f \in [D -> any]
    BY <1>1, <2>1
  <2>3. IsFiniteSet({f[r] : r \in D})
    BY <2>2, ImageIsFinite
  <2>4. IsFiniteSet(any)
    BY <2>1, <2>3
  <2>5. \A s \in any : IsFiniteSet(s)
    <3> HIDE DEF takers
    <3>1. QED  BY <1>2 DEF any
  <2>6. IsFiniteSet(UNION any)
    BY <2>4, <2>5, FS_UNION
  <2>7. QED  BY <1>3, <2>6 DEF any
<1>6. \A role : behind(role) = {r \in D : role \in takers(r)}
  BY DEF TakenFrom
<1>7. \A role : IsFiniteSet(behind(role))
  <2>1. ASSUME NEW role PROVE IsFiniteSet(behind(role))
    <3> HIDE DEF D, takers, behind
    <3>1. behind(role) \in SUBSET D
      BY <1>6
    <3>2. QED  BY <1>1, <3>1, FS_Subset
  <2>2. QED  BY <2>1
<1>8. \A role \in usable : behind(role) # {}
  <2> HIDE DEF D, takers, behind, usable
  <2>1. QED  BY <1>3, <1>6
<1>9. ASSUME NEW role, NEW r \in behind(role)
      PROVE  PortionOf(category, available, r) \in Nat \ {0}
  <2> DEFINE n == Cardinality(takers(r))
             share == shares[r]
  <2>1. r \in D /\ takers(r) # {}
    BY <1>6, <1>9
  <2>2. n \in 1 .. 2
    BY <2>1, TakersFacts
  <2>3. share \in Nat \ {0}
    BY <1>1, <2>1
  <2>4. PortionOf(category, available, r) = (2 * share) \div n
    BY DEF PortionOf
  <2> HIDE DEF n, share
  <2>5. (2 * share) \div 1 \in Nat \ {0} /\ (2 * share) \div 2 \in Nat \ {0}
    BY <2>3
  <2>6. n = 1 \/ n = 2
    BY <2>2
  <2>7. QED  BY <2>4, <2>5, <2>6
<1>10. QED  BY <1>4, <1>5, <1>7, <1>8, <1>9

\* What a role takes over of a category's work is something, when it takes any.
LEMMA ShareIsPositive ==
    ASSUME NEW category \in WorkCategories, NEW available, NEW role
    PROVE  /\ ShareOf(category, available, role) \in Nat
           /\ role \in Usable(category, available) => ShareOf(category, available, role) # 0
<1> DEFINE S == TakenFrom(category, available, role)
           portion(r) == PortionOf(category, available, r)
           g == [r \in S |-> portion(r)]
           Sums(any) == any = [s \in SUBSET S |->
               IF s = {} THEN 0
               ELSE portion(CHOOSE x \in s : TRUE) + any[s \ {CHOOSE x \in s : TRUE}]]
           total == CHOOSE any : Sums(any)
<1>1. ShareOf(category, available, role) = total[S]
  BY DEF ShareOf, SumOver, MapThenSumSet, MapThenFoldSet
<1>2. /\ IsFiniteSet(S) /\ \A r \in S : portion(r) \in Nat \ {0}
      /\ role \in Usable(category, available) => S # {}
  BY UsableFacts
<1> HIDE DEF S, portion
<1>3. g \in [S -> Nat] /\ \A r \in S : g[r] # 0
  BY <1>2
<1>4. ASSUME NEW any PROVE IsSum(any, g, S) <=> Sums(any)
  <2>1. \A s \in SUBSET S : s # {} => g[Picked(s)] = portion(Picked(s))
    <3>1. \A s \in SUBSET S : s # {} => Picked(s) \in S
      BY DEF Picked
    <3>2. QED  BY <3>1
  <2> HIDE DEF g
  <2>2. [s \in SUBSET S |-> IF s = {} THEN 0 ELSE g[Picked(s)] + any[s \ {Picked(s)}]]
           = [s \in SUBSET S |-> IF s = {} THEN 0 ELSE portion(Picked(s)) + any[s \ {Picked(s)}]]
    BY <2>1
  <2>3. QED  BY <2>2 DEF IsSum, Picked
<1> HIDE DEF g
<1>5. \E any : IsSum(any, g, S)
  BY <1>2, <1>3, SumExists
<1> HIDE DEF Sums
<1>6. Sums(total)
  BY <1>4, <1>5
<1> HIDE DEF total
<1>7. IsSum(total, g, S)
  BY <1>4, <1>6
<1>8. total[S] \in Nat /\ (total[S] = 0 <=> \A x \in S : g[x] = 0)
  BY <1>2, <1>3, <1>7, SumIsZero
<1>9. QED  BY <1>1, <1>2, <1>3, <1>8

SharesOf(category, available) ==
    [r \in Usable(category, available) |-> ShareOf(category, available, r)]

LEMMA TotalIsSum ==
    ASSUME NEW category \in WorkCategories, NEW available
    PROVE  /\ SharesOf(category, available) \in [Usable(category, available) -> Nat]
           /\ \E shares :
                 /\ IsSum(shares, SharesOf(category, available), Usable(category, available))
                 /\ TotalShare(category, available) = shares[Usable(category, available)]
           /\ TotalShare(category, available) \in Nat
           /\ Usable(category, available) # {} => TotalShare(category, available) # 0
<1> DEFINE S == Usable(category, available)
           share(r) == ShareOf(category, available, r)
           g == [r \in S |-> share(r)]
           Sums(any) == any = [s \in SUBSET S |->
               IF s = {} THEN 0
               ELSE share(CHOOSE x \in s : TRUE) + any[s \ {CHOOSE x \in s : TRUE}]]
           total == CHOOSE any : Sums(any)
<1>1. TotalShare(category, available) = total[S] /\ SharesOf(category, available) = g
  BY DEF TotalShare, SharesOf, SumOver, MapThenSumSet, MapThenFoldSet
<1>2. IsFiniteSet(S)
  BY UsableFacts
<1>3. \A r \in S : share(r) \in Nat \ {0}
  BY ShareIsPositive
<1> HIDE DEF S, share
<1>4. g \in [S -> Nat] /\ \A r \in S : g[r] # 0
  BY <1>3
<1>5. ASSUME NEW any PROVE IsSum(any, g, S) <=> Sums(any)
  <2>1. \A s \in SUBSET S : s # {} => g[Picked(s)] = share(Picked(s))
    <3>1. \A s \in SUBSET S : s # {} => Picked(s) \in S
      BY DEF Picked
    <3>2. QED  BY <3>1
  <2> HIDE DEF g
  <2>2. [s \in SUBSET S |-> IF s = {} THEN 0 ELSE g[Picked(s)] + any[s \ {Picked(s)}]]
           = [s \in SUBSET S |-> IF s = {} THEN 0 ELSE share(Picked(s)) + any[s \ {Picked(s)}]]
    BY <2>1
  <2>3. QED  BY <2>2 DEF IsSum, Picked
<1> HIDE DEF g
<1>6. \E any : IsSum(any, g, S)
  BY <1>2, <1>4, SumExists
<1> HIDE DEF Sums
<1>7. Sums(total)
  BY <1>5, <1>6
<1> HIDE DEF total
<1>8. IsSum(total, g, S)
  BY <1>5, <1>7
<1>9. total[S] \in Nat /\ (total[S] = 0 <=> \A x \in S : g[x] = 0)
  BY <1>2, <1>4, <1>8, SumIsZero
<1>10. QED  BY <1>1, <1>4, <1>8, <1>9 DEF S

\* What a split adds up to.
LEMMA EffortIsSum ==
    ASSUME NEW effort, IsFiniteSet(DOMAIN effort), effort \in [DOMAIN effort -> Nat]
    PROVE  \E parts : /\ IsSum(parts, effort, DOMAIN effort)
                      /\ SumOver(DOMAIN effort, LAMBDA r : effort[r]) = parts[DOMAIN effort]
<1> DEFINE S == DOMAIN effort
           Sums(any) == any = [s \in SUBSET S |->
               IF s = {} THEN 0
               ELSE effort[CHOOSE x \in s : TRUE] + any[s \ {CHOOSE x \in s : TRUE}]]
           total == CHOOSE any : Sums(any)
<1>1. SumOver(DOMAIN effort, LAMBDA r : effort[r]) = total[S]
  BY DEF SumOver, MapThenSumSet, MapThenFoldSet
<1>2. ASSUME NEW any PROVE IsSum(any, effort, S) <=> Sums(any)
  BY DEF IsSum, Picked
<1>3. \E any : IsSum(any, effort, S)
  <2> HIDE DEF S
  <2>1. IsFiniteSet(S) /\ effort \in [S -> Nat]
    BY DEF S
  <2>2. QED  BY <2>1, SumExists
<1> HIDE DEF Sums
<1>4. Sums(total)
  BY <1>2, <1>3
<1> HIDE DEF total
<1>5. IsSum(total, effort, S)
  BY <1>2, <1>4
<1>6. QED  BY <1>1, <1>5

\* A split gives work to the roles there are, and loses none but what rounding does.
LEMMA SplitAddsUp ==
    ASSUME NEW hours \in Nat, NEW category \in WorkCategories,
           NEW available, IsFiniteSet(available), available # {}
    PROVE  LET effort == SplitAcrossRoles(hours, category, available)
           IN  /\ DOMAIN effort \subseteq available
               /\ hours - SumOver(DOMAIN effort, LAMBDA r : effort[r])
                     \in -Cardinality(available) .. Cardinality(available)
<1> DEFINE effort == SplitAcrossRoles(hours, category, available)
           sum == SumOver(DOMAIN effort, LAMBDA r : effort[r])
           usable == Usable(category, available)
           T == TotalShare(category, available)
           share == SharesOf(category, available)
           N == Cardinality(available)
<1>1. /\ usable \subseteq available /\ IsFiniteSet(usable)
      /\ share \in [usable -> Nat] /\ T \in Nat /\ (usable # {} => T # 0)
      /\ \E shares : IsSum(shares, share, usable) /\ T = shares[usable]
  BY UsableFacts, TotalIsSum
<1>2. \A r \in usable : share[r] = ShareOf(category, available, r)
  BY DEF SharesOf
<1>3. effort = IF usable # {}
               THEN [r \in usable |-> Nearest(hours * ShareOf(category, available, r), T)]
               ELSE [r \in {CHOOSE r \in available : TRUE} |-> hours]
  BY SplitIs
<1>4. N \in Nat
  BY FS_CardinalityType
<1>5. IsFiniteSet(DOMAIN effort) /\ effort \in [DOMAIN effort -> Nat] =>
         \E parts : IsSum(parts, effort, DOMAIN effort) /\ sum = parts[DOMAIN effort]
  <2> HIDE DEF effort
  <2>1. QED  BY EffortIsSum
<1> HIDE DEF effort, sum, usable, T, share, N
<1>6. CASE usable # {}
  <2>1. effort = [r \in usable |-> Nearest(hours * share[r], T)] /\ DOMAIN effort = usable
    BY <1>2, <1>3, <1>6
  <2>2. T \in Nat \ {0}
    BY <1>1, <1>6
  <2>3. ASSUME NEW r \in usable PROVE effort[r] \in Nat
    <3> DEFINE work == hours * share[r]
    <3>1. work \in Nat /\ effort[r] = Nearest(work, T)
      BY <1>1, <2>1
    <3> HIDE DEF work
    <3>2. QED  BY <2>2, <3>1, NearestFacts
  <2>4. effort \in [usable -> Nat]
    BY <2>1, <2>3
  <2>5. PICK parts : IsSum(parts, effort, usable) /\ sum = parts[usable]
    BY <1>1, <1>5, <2>1, <2>4
  <2>6. PICK shares : IsSum(shares, share, usable) /\ T = shares[usable]
    BY <1>1
  <2>7. /\ Cardinality(usable) \in Nat /\ parts[usable] \in Nat
        /\ hours - parts[usable] \in -Cardinality(usable) .. Cardinality(usable)
    BY <1>1, <2>1, <2>2, <2>5, <2>6, PartsAddUp
  <2>8. Cardinality(usable) <= N
    BY <1>1, FS_Subset DEF N
  <2>9. hours - sum \in -N .. N
    BY <1>4, <2>5, <2>7, <2>8
  <2>10. QED  BY <1>1, <2>1, <2>9 DEF effort, sum, N
<1>7. CASE usable = {}
  <2> DEFINE one == CHOOSE r \in available : TRUE
  <2>1. one \in available
    OBVIOUS
  <2>2. effort = [r \in {one} |-> hours]
    BY <1>3, <1>7
  <2> HIDE DEF one
  <2>3. DOMAIN effort = {one} /\ effort[one] = hours /\ effort \in [{one} -> Nat]
    BY <2>2
  <2>4. IsFiniteSet({one})
    BY PairsAreFinite
  <2>5. PICK parts : IsSum(parts, effort, {one}) /\ sum = parts[{one}]
    BY <1>5, <2>3, <2>4
  <2>6. parts[{one}] = hours
    BY <2>3, <2>5, SumOfOne
  <2>7. hours - sum \in -N .. N
    BY <1>4, <2>5, <2>6
  <2>8. QED  BY <2>1, <2>3, <2>7 DEF effort, sum, N
<1>8. QED  BY <1>6, <1>7

\* A project has some roles, and finitely many.
LEMMA RolesFacts ==
    ASSUME NEW types, NEW categories
    PROVE  /\ IsFiniteSet(ApplicableRoles(types, categories))
           /\ ApplicableRoles(types, categories) # {}
<1> DEFINE roles == ApplicableRoles(types, categories)
           any == {"BACKEND", "FRONTEND", "MOBILE"} \cup {"AI_ML", "DATA_ENGINEER", "UI_UX"}
                    \cup {"SOLUTION_ARCHITECT", "QA", "DEVOPS"} \cup {"BA", "PM"}
<1>1. roles \subseteq any /\ "QA" \in roles
  BY DEF ApplicableRoles
<1>2. IsFiniteSet(any)
  <2>1. /\ IsFiniteSet({"BACKEND", "FRONTEND", "MOBILE"}) /\ IsFiniteSet({"AI_ML", "DATA_ENGINEER", "UI_UX"})
        /\ IsFiniteSet({"SOLUTION_ARCHITECT", "QA", "DEVOPS"}) /\ IsFiniteSet({"BA", "PM"})
    BY PairsAreFinite, TriplesAreFinite
  <2>2. QED  BY <2>1, FS_Union
<1> HIDE DEF roles, any
<1>3. QED  BY <1>1, <1>2, FS_Subset DEF roles

ComplexityLevels == DOMAIN ComplexityMultipliers

LEMMA LevelsAre == ComplexityLevels = {"TRIVIAL", "LOW", "MEDIUM", "HIGH", "VERY_HIGH"}
  BY DEF ComplexityLevels, ComplexityMultipliers

LEMMA DerivedIsLevel ==
    ASSUME NEW drivers
    PROVE  DeriveComplexity(drivers) \in ComplexityLevels
<1> DEFINE score == SumOver(drivers, LAMBDA d : DriverWeights[d])
<1>1. DeriveComplexity(drivers) = IF score = 0 THEN "TRIVIAL"
        ELSE IF score <= 15 THEN "LOW"
        ELSE IF score <= 30 THEN "MEDIUM"
        ELSE IF score <= 50 THEN "HIGH" ELSE "VERY_HIGH"
  BY DEF DeriveComplexity
<1> HIDE DEF score
<1>2. QED  BY <1>1, LevelsAre

\* The figures a line is worked out from are whole numbers.
LEMMA FactorsAreNat ==
    /\ BaseHours \in [WorkCategories -> Nat]
    /\ AiAssistanceFactors \in [WorkCategories -> Nat]
    /\ ComplexityMultipliers \in [ComplexityLevels -> Nat]
<1>1. BaseHours \in [WorkCategories -> Nat]
  BY DEF BaseHours, WorkCategories
<1>2. AiAssistanceFactors \in [WorkCategories -> Nat]
  BY DEF AiAssistanceFactors, WorkCategories
<1>3. ComplexityMultipliers \in [ComplexityLevels -> Nat]
  BY LevelsAre DEF ComplexityMultipliers
<1>4. QED  BY <1>1, <1>2, <1>3

LEMMA BaseIsNat ==
    ASSUME NEW category \in WorkCategories, NEW complexity \in ComplexityLevels
    PROVE  BaseEffortHours(category, complexity) \in Nat
<1> DEFINE work == BaseHours[category] * ComplexityMultipliers[complexity] * AiAssistanceFactors[category]
           raw == Nearest(work, 1000)
           low == {MaximumFeatureHours, raw}
           cut == Min(low)
           high == {MinimumFeatureHours, cut}
<1>1. work \in Nat
  <2> DEFINE a == BaseHours[category]
             b == ComplexityMultipliers[complexity]
             c == AiAssistanceFactors[category]
  <2>1. a \in Nat /\ b \in Nat /\ c \in Nat
    BY FactorsAreNat
  <2> HIDE DEF a, b, c
  <2>2. a * b * c \in Nat
    BY <2>1
  <2>3. QED  BY <2>2 DEF a, b, c
<1> HIDE DEF work
<1>2. raw \in Nat
  BY <1>1, NearestFacts
<1> HIDE DEF raw
<1>3. IsFiniteSet(low) /\ IsFiniteSet(high)
  <2> HIDE DEF cut
  <2>1. QED  BY PairsAreFinite
<1>4. low \subseteq Nat /\ low # {}
  BY <1>2 DEF MaximumFeatureHours
<1>5. cut \in Nat
  <2> HIDE DEF low
  <2>1. low \subseteq Int
    BY <1>4
  <2>2. Min(low) \in low
    BY <1>3, <1>4, <2>1, Extremes
  <2>3. QED  BY <1>4, <2>2
<1>6. high \subseteq Nat /\ high # {}
  <2> HIDE DEF cut
  <2>1. QED  BY <1>5 DEF MinimumFeatureHours
<1>7. Max(high) \in Nat
  <2> HIDE DEF high
  <2>1. high \subseteq Int
    BY <1>6
  <2>2. Max(high) \in high
    BY <1>3, <1>6, <2>1, Extremes
  <2>3. QED  BY <1>6, <2>2
<1>8. QED  BY <1>7 DEF BaseEffortHours, work, raw

LEMMA ImpactIsNat ==
    ASSUME NEW stack, NEW category \in WorkCategories
    PROVE  TechnologyImpact(stack, category) \in Nat
<1> DEFINE work == BaseHours[category] * 8
<1>1. work \in Nat
  BY FactorsAreNat
<1>2. Nearest(work, 10) \in Nat
  <2> HIDE DEF work
  <2>1. QED  BY <1>1, NearestFacts
<1>3. QED  BY <1>2 DEF TechnologyImpact

\* What a line is worked out from: a kind of work there is, and a level there is, or none proposed.
IsLine(line) ==
    /\ line.category \in WorkCategories
    /\ line.level \in {"derived"} \cup ComplexityLevels

\* Whatever a stack has or lacks, whatever kind of work and level is proposed, drivers and unknowns:
\* the hours of a line are split among roles the project has, and add up to it but for the rounding
\* of each. (EstimateUnit: substitutes first, then the shares of the others are scaled up)
THEOREM HoursAreNeverLost ==
    ASSUME input.kind = "effort" => IsLine(input)
    PROVE  NoHoursLost
<1> SUFFICES ASSUME input.kind = "effort", IsLine(input) PROVE NoHoursLost
  BY DEF NoHoursLost
<1> DEFINE roles == ApplicableRoles(input.types, input.stack)
           category == input.category
           complexity == IF input.level # "derived" THEN input.level
                         ELSE DeriveComplexity(input.drivers \cup PlatformComplexity(input.stack))
           total == BaseEffortHours(category, complexity) + TechnologyImpact(input.stack, category)
           unit == EstimateUnit(input.stack, roles, category, input.drivers, input.level, input.unknowns)
           effort == SplitAcrossRoles(total, category, roles)
<1>1. IsFiniteSet(roles) /\ roles # {}
  BY RolesFacts
<1>2. category \in WorkCategories /\ complexity \in ComplexityLevels
  BY DerivedIsLevel DEF IsLine
<1>3. unit.total = total /\ unit.effort = effort
  BY DEF EstimateUnit
<1>4. total \in Nat
  <2> HIDE DEF category, complexity
  <2>1. QED  BY <1>2, BaseIsNat, ImpactIsNat
<1> HIDE DEF roles, category, total
<1>5. /\ DOMAIN effort \subseteq roles
      /\ total - SumOver(DOMAIN effort, LAMBDA r : effort[r]) \in -Cardinality(roles) .. Cardinality(roles)
  BY <1>1, <1>2, <1>4, SplitAddsUp
<1> HIDE DEF unit, effort
<1>6. /\ DOMAIN unit.effort \subseteq roles
      /\ unit.total - SumOver(DOMAIN unit.effort, LAMBDA r : unit.effort[r])
            \in -Cardinality(roles) .. Cardinality(roles)
  BY <1>3, <1>5
<1>7. QED  BY <1>6 DEF NoHoursLost, unit, roles, category

-----------------------------------------------------------------------------
(* Cutting documents into chunks *)

\* What holds at first and from each number to the next holds of all.
LEMMA UpTo ==
    ASSUME NEW n \in Nat, NEW Good, 0 \in Good, \A k \in 1 .. n : k - 1 \in Good => k \in Good
    PROVE  \A k \in 0 .. n : k \in Good
<1> DEFINE Bad == {k \in Nat : k <= n /\ k \notin Good}
<1>1. Bad = {}
  <2> SUFFICES ASSUME Bad # {} PROVE FALSE
    OBVIOUS
  <2>1. PICK k \in Bad : \A m \in Bad : k <= m
    <3>1. Bad \subseteq Nat
      OBVIOUS
    <3> HIDE DEF Bad
    <3>2. QED  BY <3>1, Smallest
  <2>2. k \in Nat /\ k <= n /\ k \notin Good /\ k # 0
    BY <2>1
  <2>3. k - 1 \in Nat /\ k - 1 <= n /\ ~(k <= k - 1) /\ k \in 1 .. n
    BY <2>2
  <2>4. k - 1 \in Good
    BY <2>1, <2>3
  <2>5. QED  BY <2>2, <2>3, <2>4
<1>2. QED  BY <1>1

\* The states a fold goes through.
IsRun(run, n, State, base, step) ==
    /\ run \in [0 .. n -> State] /\ run[0] = base
    /\ \A k \in 1 .. n : run[k] = step[<<run[k - 1], k>>]

LEMMA RunExists ==
    ASSUME NEW n \in Nat, NEW State, NEW base \in State, NEW step \in [State \X (1 .. n) -> State]
    PROVE  \E run : IsRun(run, n, State, base, step)
<1>1. PICK it \in [SUBSET (1 .. n) -> State] : IsFold(it, step, base, 1 .. n)
  BY FoldExists
<1>2. TakesSteps(it, step, base, State, n)
  <2>1. \A s \in SUBSET (1 .. n) : it[s] = IF s = {} THEN base ELSE step[<<it[Before(s)], Max(s)>>]
    BY <1>1 DEF IsFold
  <2>2. QED  BY <2>1 DEF TakesSteps
<1>3. HasRun(it, step, base, State, n)
  BY <1>2, FoldRuns
<1>4. QED  BY <1>3 DEF HasRun, IsRun

\* Sequences joined, after each of them.
IsJoin(f, seqs, T) ==
    /\ f \in [0 .. Len(seqs) -> Seq(T)] /\ f[0] = <<>>
    /\ \A k \in 1 .. Len(seqs) : f[k] = f[k - 1] \o seqs[k]
    /\ FlattenSeq(seqs) = f[Len(seqs)]

LEMMA JoinExists ==
    ASSUME NEW T, NEW seqs \in Seq(Seq(T))
    PROVE  \E f : IsJoin(f, seqs, T)
<1> DEFINE n == Len(seqs)
           State == Seq(T)
           step == [x \in State \X (1 .. n) |-> x[1] \o seqs[x[2]]]
           Joins(any) == any = [i \in 1 .. n |-> IF i = 1 THEN seqs[i] ELSE any[i - 1] \o seqs[i]]
           any == CHOOSE any : Joins(any)
           nothing == <<>>
<1>1. n \in Nat /\ DOMAIN seqs = 1 .. n /\ \A k \in 1 .. n : seqs[k] \in State
  OBVIOUS
<1>2. FlattenSeq(seqs) = IF n = 0 THEN seqs ELSE any[n]
  BY DEF FlattenSeq
<1>3. nothing \in State /\ \A x \in State : nothing \o x = x
  OBVIOUS
<1>4. n = 0 => seqs = nothing
  OBVIOUS
<1>5. \A x, y \in State : x \o y \in State
  OBVIOUS
<1> HIDE DEF n, State, nothing
<1>6. step \in [State \X (1 .. n) -> State] /\ \A x \in State : \A k \in 1 .. n : step[<<x, k>>] = x \o seqs[k]
  BY <1>1, <1>5
<1> HIDE DEF step
<1>7. PICK run \in [0 .. n -> State] :
         run[0] = nothing /\ \A k \in 1 .. n : run[k] = step[<<run[k - 1], k>>]
  <2>1. n \in Nat /\ nothing \in State /\ step \in [State \X (1 .. n) -> State]
    BY <1>1, <1>3, <1>6
  <2>2. \E run : IsRun(run, n, State, nothing, step)
    BY <2>1, RunExists
  <2>3. QED  BY <2>2 DEF IsRun
<1>8. \A k \in 1 .. n : run[k] = run[k - 1] \o seqs[k]
  <2>1. \A k \in 1 .. n : k - 1 \in 0 .. n
    BY <1>1
  <2>2. QED  BY <1>6, <1>7, <2>1
<1>12. 1 \in 1 .. n => run[1] = seqs[1]
  <2>1. 1 \in 1 .. n => run[1] = run[1 - 1] \o seqs[1]
    BY <1>8
  <2>2. 1 - 1 = 0
    OBVIOUS
  <2>3. QED  BY <1>1, <1>3, <1>7, <2>1, <2>2
<1> DEFINE flat == [i \in 1 .. n |-> run[i]]
<1>9. Joins(flat)
  <2>1. ASSUME NEW i \in 1 .. n
        PROVE  run[i] = IF i = 1 THEN seqs[i] ELSE flat[i - 1] \o seqs[i]
    <3>1. CASE i = 1
      <4>1. run[i] = seqs[i]
        BY <1>12, <3>1
      <4>2. QED  BY <3>1, <4>1
    <3>2. CASE i # 1
      <4>1. i - 1 \in 1 .. n
        BY <1>1, <3>2
      <4>2. QED  BY <1>8, <3>2, <4>1
    <3>3. QED  BY <3>1, <3>2
  <2> HIDE DEF flat
  <2>2. flat = [i \in 1 .. n |-> IF i = 1 THEN seqs[i] ELSE flat[i - 1] \o seqs[i]]
    BY <2>1 DEF flat
  <2>3. QED  BY <2>2
<1> HIDE DEF flat
<1>10. Joins(any)
  <2> HIDE DEF Joins
  <2>1. QED  BY <1>9
<1> HIDE DEF any
<1>11. \A k \in 0 .. n : k \in {j \in 0 .. n : j = 0 \/ any[j] = run[j]}
  <2> DEFINE Good == {j \in 0 .. n : j = 0 \/ any[j] = run[j]}
  <2>1. 0 \in Good
    BY <1>1
  <2>2. ASSUME NEW k \in 1 .. n, k - 1 \in Good PROVE k \in Good
    <3>1. any[k] = IF k = 1 THEN seqs[k] ELSE any[k - 1] \o seqs[k]
      BY <1>10
    <3>2. CASE k = 1
      <4>1. run[k] = seqs[k]
        BY <1>12, <3>2
      <4>2. QED  BY <3>1, <3>2, <4>1
    <3>3. CASE k # 1
      <4>1. k - 1 # 0
        BY <1>1, <3>3
      <4>2. any[k - 1] = run[k - 1]
        BY <2>2, <4>1
      <4>3. run[k] = run[k - 1] \o seqs[k]
        BY <1>8
      <4>4. any[k] = run[k]
        BY <3>1, <3>3, <4>2, <4>3
      <4>5. QED  BY <1>1, <4>4
    <3>4. QED  BY <3>2, <3>3
  <2> HIDE DEF Good
  <2>3. \A k \in 0 .. n : k \in Good
    BY <1>1, <2>1, <2>2, UpTo
  <2>4. QED  BY <2>3 DEF Good
<1>13. FlattenSeq(seqs) = run[n]
  <2>1. CASE n = 0
    BY <1>2, <1>4, <1>7, <2>1
  <2>2. CASE n # 0
    <3>1. n \in 0 .. n
      BY <1>1
    <3>2. QED  BY <1>2, <1>11, <2>2, <3>1
  <2>3. QED  BY <2>1, <2>2
<1>14. IsJoin(run, seqs, T)
  BY <1>7, <1>8, <1>13 DEF IsJoin, n, State, nothing
<1>15. QED  BY <1>14

LEMMA JoinNothing == FlattenSeq(<<>>) = <<>>
  BY DEF FlattenSeq

\* One sequence more is joined at the end.
LEMMA JoinMore ==
    ASSUME NEW T, NEW seqs \in Seq(Seq(T)), NEW more \in Seq(T)
    PROVE  FlattenSeq(Append(seqs, more)) = FlattenSeq(seqs) \o more /\ FlattenSeq(seqs) \in Seq(T)
<1> DEFINE n == Len(seqs)
           all == Append(seqs, more)
<1>1. PICK f : IsJoin(f, seqs, T)
  BY JoinExists
<1>2. all \in Seq(Seq(T)) /\ Len(all) = n + 1 /\ n \in Nat /\ all[n + 1] = more
      /\ \A k \in 1 .. n : all[k] = seqs[k]
  OBVIOUS
<1> HIDE DEF all
<1>3. PICK g : IsJoin(g, all, T)
  BY <1>2, JoinExists
<1>4. f[0] = <<>> /\ g[0] = <<>> /\ f[n] \in Seq(T)
  <2>1. f \in [0 .. n -> Seq(T)] /\ f[0] = <<>> /\ g[0] = <<>>
    BY <1>1, <1>3 DEF IsJoin
  <2> HIDE DEF n
  <2>2. n \in 0 .. n
    BY <1>2
  <2>3. QED  BY <2>1, <2>2
<1>5. \A k \in 1 .. n : f[k] = f[k - 1] \o seqs[k] /\ g[k] = g[k - 1] \o all[k]
  <2>1. \A k \in 1 .. n : k \in 1 .. Len(all)
    BY <1>2
  <2>2. QED  BY <1>1, <1>3, <2>1 DEF IsJoin
<1> HIDE DEF n
<1> DEFINE Good == {k \in 0 .. n : f[k] = g[k]}
<1>6. 0 \in Good
  BY <1>2, <1>4
<1>7. ASSUME NEW k \in 1 .. n, k - 1 \in Good PROVE k \in Good
  <2>1. f[k] = g[k]
    BY <1>2, <1>5, <1>7
  <2>2. QED  BY <1>2, <2>1
<1>8. f[n] = g[n]
  <2> HIDE DEF Good
  <2>1. \A k \in 0 .. n : k \in Good
    BY <1>2, <1>6, <1>7, UpTo
  <2>2. n \in Good
    BY <1>2, <2>1
  <2>3. QED  BY <2>2 DEF Good
<1>9. g[n + 1] = g[n] \o more
  <2>1. n + 1 \in 1 .. Len(all) /\ (n + 1) - 1 = n
    BY <1>2
  <2>2. QED  BY <1>2, <1>3, <2>1 DEF IsJoin
<1>10. FlattenSeq(seqs) = f[n] /\ FlattenSeq(all) = g[n + 1]
  BY <1>1, <1>2, <1>3 DEF IsJoin, n
<1>11. QED  BY <1>4, <1>8, <1>9, <1>10 DEF all

\* A sum does not depend on the order: any of the elements may be the last.
TakesAny(sum, g, S) ==
    \A s \in SUBSET S : sum[s] \in Nat /\ \A x \in s : sum[s] = g[x] + sum[s \ {x}]

LEMMA SumWithout ==
    ASSUME NEW S, IsFiniteSet(S), NEW g \in [S -> Nat], NEW sum, IsSum(sum, g, S)
    PROVE  TakesAny(sum, g, S)
<1> DEFINE Right(s) == sum[s] \in Nat /\ \A x \in s : sum[s] = g[x] + sum[s \ {x}]
           n == Cardinality(S)
           Good == {k \in 0 .. n : \A s \in SUBSET S : Cardinality(s) <= k => Right(s)}
<1>1. n \in Nat /\ \A s \in SUBSET S : IsFiniteSet(s) /\ Cardinality(s) \in Nat /\ Cardinality(s) <= n
  BY FS_Subset, FS_CardinalityType
<1>2. \A s \in SUBSET S : sum[s] = IF s = {} THEN 0 ELSE g[Picked(s)] + sum[s \ {Picked(s)}]
  BY DEF IsSum
<1>3. Right({})
  <2>1. sum[{}] = 0
    BY <1>2
  <2>2. QED  BY <2>1
<1>4. \A s \in SUBSET S : \A x \in s :
         s \ {x} \in SUBSET S /\ Cardinality(s \ {x}) = Cardinality(s) - 1 /\ Cardinality(s) > 0
  <2> TAKE s \in SUBSET S
  <2> TAKE x \in s
  <2>1. IsFiniteSet(s) /\ x \in s /\ Cardinality(s) \in Nat
    BY <1>1
  <2>2. Cardinality(s \ {x}) = Cardinality(s) - 1 /\ IsFiniteSet(s \ {x})
    BY <2>1, FS_RemoveElement
  <2>3. Cardinality(s \ {x}) \in Nat
    BY <2>2, FS_CardinalityType
  <2>4. QED  BY <2>1, <2>2, <2>3
<1> HIDE DEF n
<1>5. 0 \in Good
  <2>1. ASSUME NEW s \in SUBSET S, Cardinality(s) <= 0 PROVE s = {}
    <3>1. IsFiniteSet(s) /\ Cardinality(s) = 0
      BY <1>1, <2>1
    <3>2. QED  BY <3>1, FS_EmptySet
  <2> HIDE DEF Right
  <2>2. QED  BY <1>1, <1>3, <2>1
<1>6. ASSUME NEW k \in 1 .. n, k - 1 \in Good PROVE k \in Good
  <2>1. \A s \in SUBSET S : Cardinality(s) <= k - 1 => Right(s)
    BY <1>6
  <2>2. ASSUME NEW s \in SUBSET S, Cardinality(s) <= k PROVE Right(s)
    <3>1. CASE s = {}
      <4> HIDE DEF Right
      <4>1. QED  BY <1>3, <3>1
    <3>2. CASE s # {}
      <4> DEFINE p == Picked(s)
      <4>1. p \in s
        BY <3>2 DEF Picked
      <4>2. sum[s] = g[p] + sum[s \ {p}]
        BY <1>2, <3>2
      <4> HIDE DEF p
      <4>3. ASSUME NEW x \in s PROVE Right(s \ {x})
        <5>1. s \ {x} \in SUBSET S /\ Cardinality(s \ {x}) <= k - 1
          BY <1>1, <1>4, <2>2
        <5> HIDE DEF Right
        <5>2. QED  BY <2>1, <5>1
      <4>4. g[p] \in Nat /\ sum[s \ {p}] \in Nat
        BY <4>1, <4>3
      <4>5. ASSUME NEW x \in s, x # p PROVE sum[s] = g[x] + sum[s \ {x}]
        <5> DEFINE both == (s \ {p}) \ {x}
        <5>1. both = (s \ {x}) \ {p} /\ x \in s \ {p} /\ p \in s \ {x}
          BY <4>1, <4>5
        <5>2. sum[s \ {p}] = g[x] + sum[both]
          BY <4>1, <4>3, <5>1
        <5>3. sum[s \ {x}] = g[p] + sum[both]
          BY <4>3, <5>1
        <5>4. g[x] \in Nat /\ sum[both] \in Nat
          <6>1. Right(both)
            <7>1. both \in SUBSET S /\ Cardinality(both) <= k - 1
              <8>1. Cardinality(s \ {p}) <= k - 1 /\ s \ {p} \in SUBSET S /\ Cardinality(s) \in Nat
                BY <1>1, <1>4, <2>2, <4>1
              <8> DEFINE rest == s \ {p}
              <8>2. rest \in SUBSET S /\ x \in rest /\ Cardinality(rest) <= k - 1 /\ both = rest \ {x}
                BY <5>1, <8>1
              <8> HIDE DEF rest, both
              <8>3. both \in SUBSET S /\ Cardinality(both) = Cardinality(rest) - 1
                BY <1>4, <8>2
              <8>4. Cardinality(rest) \in Nat
                BY <1>1, <8>2
              <8>5. QED  BY <8>2, <8>3, <8>4
            <7> HIDE DEF Right, both
            <7>2. QED  BY <2>1, <7>1
          <6>2. QED  BY <6>1
        <5> HIDE DEF both
        <5>5. QED  BY <4>2, <4>4, <5>2, <5>3, <5>4
      <4>6. sum[s] \in Nat
        BY <4>2, <4>4
      <4>7. \A x \in s : sum[s] = g[x] + sum[s \ {x}]
        BY <4>2, <4>5
      <4>8. QED  BY <4>6, <4>7
    <3>3. QED  BY <3>1, <3>2
  <2> HIDE DEF Right
  <2>3. QED  BY <2>2
<1>7. ASSUME NEW s \in SUBSET S PROVE Right(s)
  <2> HIDE DEF Good
  <2>1. \A k \in 0 .. n : k \in Good
    BY <1>1, <1>5, <1>6, UpTo
  <2>2. n \in Good
    BY <1>1, <2>1
  <2> HIDE DEF Right
  <2>3. QED  BY <1>1, <2>2 DEF Good
<1>8. QED  BY <1>7 DEF TakesAny

\* Nor on what else there is.
LEMMA SumWithin ==
    ASSUME NEW S, NEW T, S \subseteq T, IsFiniteSet(T), NEW g, NEW h, \A x \in S : g[x] = h[x],
           NEW low, IsSum(low, g, S), NEW high, IsSum(high, h, T)
    PROVE  low[S] = high[S]
<1> DEFINE n == Cardinality(S)
           Good == {k \in 0 .. n : \A s \in SUBSET S : Cardinality(s) <= k => low[s] = high[s]}
<1>1. IsFiniteSet(S)
  BY FS_Subset
<1>2. n \in Nat /\ \A s \in SUBSET S : IsFiniteSet(s) /\ Cardinality(s) \in Nat /\ Cardinality(s) <= n
  BY <1>1, FS_Subset, FS_CardinalityType
<1>3. \A s \in SUBSET S :
         /\ low[s] = IF s = {} THEN 0 ELSE g[Picked(s)] + low[s \ {Picked(s)}]
         /\ high[s] = IF s = {} THEN 0 ELSE h[Picked(s)] + high[s \ {Picked(s)}]
  BY DEF IsSum
<1> HIDE DEF n
<1>4. 0 \in Good
  <2>1. ASSUME NEW s \in SUBSET S, Cardinality(s) <= 0 PROVE low[s] = high[s]
    <3>1. IsFiniteSet(s) /\ Cardinality(s) = 0
      BY <1>2, <2>1
    <3>2. s = {}
      BY <3>1, FS_EmptySet
    <3>3. QED  BY <1>3, <3>2
  <2>2. QED  BY <1>2, <2>1
<1>5. ASSUME NEW k \in 1 .. n, k - 1 \in Good PROVE k \in Good
  <2>1. ASSUME NEW s \in SUBSET S, Cardinality(s) <= k PROVE low[s] = high[s]
    <3>1. CASE s = {}
      BY <1>3, <3>1
    <3>2. CASE s # {}
      <4> DEFINE p == Picked(s)
                 rest == s \ {p}
      <4>1. p \in s /\ rest \in SUBSET S /\ Cardinality(rest) \in Nat /\ Cardinality(rest) < Cardinality(s)
        BY <1>2, <3>2, Fewer
      <4>2. low[s] = g[p] + low[rest] /\ high[s] = h[p] + high[rest] /\ g[p] = h[p]
        BY <1>3, <3>2, <4>1
      <4> HIDE DEF p, rest
      <4>3. Cardinality(rest) <= k - 1
        BY <1>2, <2>1, <4>1
      <4>4. QED  BY <1>5, <4>1, <4>2, <4>3
    <3>3. QED  BY <3>1, <3>2
  <2>2. QED  BY <2>1
<1>6. S \in SUBSET S /\ n <= n /\ n \in 0 .. n
  BY <1>2
<1>7. n \in Good
  <2> HIDE DEF Good
  <2>1. \A k \in 0 .. n : k \in Good
    BY <1>2, <1>4, <1>5, UpTo
  <2>2. QED  BY <1>6, <2>1
<1>8. QED  BY <1>6, <1>7 DEF n

\* The size of some contents is the sum of the sizes of its pieces.
SizesOf(contents) == [i \in DOMAIN contents |-> contents[i].size]

LEMMA SizeIsSum ==
    ASSUME NEW contents, IsFiniteSet(DOMAIN contents)
    PROVE  \E sum : IsSum(sum, SizesOf(contents), DOMAIN contents) /\ SizeOf(contents) = sum[DOMAIN contents]
<1> DEFINE S == DOMAIN contents
           size(i) == contents[i].size
           g == [i \in S |-> size(i)]
           Sums(any) == any = [s \in SUBSET S |->
               IF s = {} THEN 0
               ELSE size(CHOOSE x \in s : TRUE) + any[s \ {CHOOSE x \in s : TRUE}]]
           total == CHOOSE any : Sums(any)
<1>1. SizeOf(contents) = total[S] /\ SizesOf(contents) = g /\ IsFiniteSet(S)
  BY DEF SizeOf, SizesOf, MapThenSumSet, MapThenFoldSet
<1> HIDE DEF S, size
<1>2. ASSUME NEW any PROVE IsSum(any, g, S) <=> Sums(any)
  <2>1. \A s \in SUBSET S : s # {} => g[Picked(s)] = size(Picked(s))
    <3>1. \A s \in SUBSET S : s # {} => Picked(s) \in S
      BY DEF Picked
    <3>2. QED  BY <3>1
  <2> HIDE DEF g
  <2>2. [s \in SUBSET S |-> IF s = {} THEN 0 ELSE g[Picked(s)] + any[s \ {Picked(s)}]]
           = [s \in SUBSET S |-> IF s = {} THEN 0 ELSE size(Picked(s)) + any[s \ {Picked(s)}]]
    BY <2>1
  <2>3. QED  BY <2>2 DEF IsSum, Picked
<1> HIDE DEF g
<1>3. \E any : IsSum(any, g, S)
  BY <1>1, SumExists
<1> HIDE DEF Sums
<1>4. Sums(total)
  BY <1>2, <1>3
<1> HIDE DEF total
<1>5. IsSum(total, g, S)
  BY <1>2, <1>4
<1>6. QED  BY <1>1, <1>5 DEF S

LEMMA SizeMore ==
    ASSUME NEW Piece, \A x \in Piece : x.size \in Nat, NEW contents \in Seq(Piece), NEW piece \in Piece
    PROVE  /\ SizeOf(Append(contents, piece)) = SizeOf(contents) + piece.size
           /\ SizeOf(contents) \in Nat /\ SizeOf(<<>>) = 0
<1> DEFINE n == Len(contents)
           more == Append(contents, piece)
           D == 1 .. n
           E == 1 .. (n + 1)
           g == SizesOf(contents)
           h == SizesOf(more)
<1>1. n \in Nat /\ DOMAIN contents = D /\ DOMAIN more = E
  OBVIOUS
<1>2. /\ \A i \in D : contents[i] \in Piece /\ more[i] = contents[i]
      /\ more[n + 1] = piece
  OBVIOUS
<1>3. \A i \in E : i \in D \/ i = n + 1
  BY <1>1
<1>4. D \subseteq E /\ n + 1 \in E /\ E \ {n + 1} = D
  BY <1>1
<1>5. IsFiniteSet(D) /\ IsFiniteSet(E)
  BY <1>1, FS_Interval
<1> HIDE DEF n, more, D, E
<1>6. g \in [D -> Nat] /\ h \in [E -> Nat] /\ h[n + 1] = piece.size /\ \A i \in D : g[i] = h[i]
  <2>1. g = [i \in D |-> contents[i].size] /\ h = [i \in E |-> more[i].size]
    BY <1>1 DEF SizesOf
  <2>2. \A i \in E : more[i].size \in Nat
    BY <1>2, <1>3
  <2>3. \A i \in D : contents[i].size \in Nat
    BY <1>2
  <2> HIDE DEF g, h
  <2>4. QED  BY <1>2, <1>4, <2>1, <2>2, <2>3
<1>7. PICK low : IsSum(low, g, D) /\ SizeOf(contents) = low[D]
  BY <1>1, <1>5, SizeIsSum
<1>8. PICK high : IsSum(high, h, E) /\ SizeOf(more) = high[E]
  BY <1>1, <1>5, SizeIsSum
<1> HIDE DEF g, h
<1>9. high[E] = h[n + 1] + high[D]
  <2>1. E \in SUBSET E
    OBVIOUS
  <2>2. \A x \in E : high[E] = h[x] + high[E \ {x}]
    <3>1. IsFiniteSet(E) /\ h \in [E -> Nat] /\ IsSum(high, h, E)
      BY <1>5, <1>6, <1>8
    <3>2. TakesAny(high, h, E)
      BY <3>1, SumWithout
    <3>3. QED  BY <2>1, <3>2 DEF TakesAny
  <2>3. QED  BY <1>4, <2>2
<1>10. low[D] = high[D]
  BY <1>4, <1>5, <1>6, <1>7, <1>8, SumWithin
<1>11. low[D] \in Nat
  <2>1. IsFiniteSet(D) /\ g \in [D -> Nat] /\ IsSum(low, g, D)
    BY <1>5, <1>6, <1>7
  <2>2. TakesAny(low, g, D) /\ D \in SUBSET D
    BY <2>1, SumWithout
  <2>3. QED  BY <2>2 DEF TakesAny
<1>12. SizeOf(<<>>) = 0
  <2> DEFINE nothing == <<>>
  <2>1. DOMAIN nothing = {}
    OBVIOUS
  <2> HIDE DEF nothing
  <2>2. PICK sum : IsSum(sum, SizesOf(nothing), {}) /\ SizeOf(nothing) = sum[{}]
    BY <2>1, FS_EmptySet, SizeIsSum
  <2>3. sum[{}] = 0
    BY <2>2 DEF IsSum
  <2>4. QED  BY <2>2, <2>3 DEF nothing
<1>13. piece.size \in Nat
  OBVIOUS
<1>14. QED  BY <1>6, <1>7, <1>8, <1>9, <1>10, <1>11, <1>12, <1>13 DEF more

\* A document as the extraction leaves it: no piece is larger than a chunk may be.
BlockOf(budget) == [heading : BOOLEAN, pieces : Seq(0 .. budget)]
PieceOf(blocks, budget) == [block : DOMAIN blocks, part : Nat, size : 0 .. budget, heading : BOOLEAN]

LEMMA PiecesTypes ==
    ASSUME NEW budget \in Nat, NEW blocks \in Seq(BlockOf(budget))
    PROVE  PiecesOf(blocks) \in Seq(PieceOf(blocks, budget))
<1> DEFINE T == PieceOf(blocks, budget)
           D == DOMAIN blocks
           sizes(b) == blocks[b].pieces
           of(b) == [p \in DOMAIN sizes(b) |->
                       [block |-> b, part |-> p, size |-> sizes(b)[p], heading |-> blocks[b].heading]]
           seqs == [b \in D |-> of(b)]
<1>1. PiecesOf(blocks) = FlattenSeq(seqs)
  BY DEF PiecesOf
<1>2. D = 1 .. Len(blocks) /\ Len(blocks) \in Nat
  OBVIOUS
<1>3. ASSUME NEW b \in D PROVE of(b) \in Seq(T)
  <2>1. blocks[b] \in BlockOf(budget)
    OBVIOUS
  <2>2. sizes(b) \in Seq(0 .. budget) /\ blocks[b].heading \in BOOLEAN
    BY <2>1 DEF BlockOf
  <2> DEFINE size == sizes(b)
             heading == blocks[b].heading
             m == Len(size)
  <2>3. DOMAIN size = 1 .. m /\ m \in Nat /\ \A p \in 1 .. m : size[p] \in 0 .. budget
    BY <2>2
  <2>4. of(b) = [p \in 1 .. m |-> [block |-> b, part |-> p, size |-> size[p], heading |-> heading]]
    BY <2>3
  <2> HIDE DEF size, heading, of, D, m
  <2>5. heading \in BOOLEAN
    BY <2>2 DEF heading
  <2>6. \A p \in 1 .. m : [block |-> b, part |-> p, size |-> size[p], heading |-> heading] \in T
    BY <1>3, <2>3, <2>5 DEF PieceOf, D
  <2> HIDE DEF T
  <2>7. of(b) \in [1 .. m -> T]
    BY <2>4, <2>6
  <2>8. QED  BY <2>3, <2>7
<1> HIDE DEF of, D, T
<1>4. seqs \in Seq(Seq(T))
  BY <1>2, <1>3
<1>5. PICK f : IsJoin(f, seqs, T)
  <2> HIDE DEF seqs
  <2>1. QED  BY <1>4, JoinExists
<1>6. FlattenSeq(seqs) \in Seq(T)
  <2> DEFINE n == Len(seqs)
  <2>1. n \in Nat
    BY <1>4
  <2>2. f \in [0 .. n -> Seq(T)] /\ FlattenSeq(seqs) = f[n]
    BY <1>5 DEF IsJoin
  <2> HIDE DEF n
  <2>3. n \in 0 .. n
    BY <2>1
  <2>4. QED  BY <2>2, <2>3
<1>7. QED  BY <1>1, <1>6 DEF T

LEMMA AppendFacts ==
    ASSUME NEW T, NEW s \in Seq(T), NEW x \in T
    PROVE  /\ Append(s, x) \in Seq(T) /\ Append(s, x) # <<>>
           /\ Len(s) \in Nat /\ Len(Append(s, x)) = Len(s) + 1
           /\ DOMAIN Append(s, x) = 1 .. (Len(s) + 1)
           /\ Append(s, x)[Len(s) + 1] = x /\ \A i \in 1 .. Len(s) : Append(s, x)[i] = s[i]
  OBVIOUS

LEMMA LastAndFront ==
    ASSUME NEW T, NEW s \in Seq(T), s # <<>>
    PROVE  /\ Len(s) \in Nat \ {0} /\ Last(s) = s[Len(s)] /\ Last(s) \in T
           /\ Front(s) \in Seq(T) /\ Len(Front(s)) = Len(s) - 1
           /\ \A i \in 1 .. (Len(s) - 1) : Front(s)[i] = s[i]
           /\ s = Append(Front(s), Last(s))
<1> DEFINE n == Len(s)
           front == Front(s)
           last == Last(s)
<1>1. n \in Nat \ {0} /\ last = s[n] /\ last \in T
  BY DEF Last
<1>2. front \in Seq(T) /\ Len(front) = n - 1 /\ \A i \in 1 .. (n - 1) : front[i] = s[i]
  BY PathFacts
<1>3. DOMAIN s = 1 .. n /\ s = [i \in 1 .. n |-> s[i]]
  <2>1. DOMAIN s = 1 .. n
    OBVIOUS
  <2>2. s = [i \in DOMAIN s |-> s[i]]
    OBVIOUS
  <2>3. QED  BY <2>1, <2>2
<1> HIDE DEF front, last, n
<1> DEFINE all == Append(front, last)
<1>4. DOMAIN all = 1 .. ((n - 1) + 1) /\ all[(n - 1) + 1] = last
      /\ all = [i \in 1 .. ((n - 1) + 1) |-> all[i]] /\ \A i \in 1 .. (n - 1) : all[i] = front[i]
  <2>1. all \in Seq(T) /\ DOMAIN all = 1 .. (Len(front) + 1) /\ all[Len(front) + 1] = last
        /\ \A i \in 1 .. Len(front) : all[i] = front[i]
    BY <1>1, <1>2, AppendFacts
  <2>2. all = [i \in DOMAIN all |-> all[i]]
    <3>1. all \in Seq(T)
      BY <2>1
    <3> HIDE DEF all
    <3>2. QED  BY <3>1
  <2> HIDE DEF all
  <2>3. QED  BY <1>2, <2>1, <2>2
<1> HIDE DEF all
<1>5. (n - 1) + 1 = n /\ \A i \in 1 .. n : i \in 1 .. (n - 1) \/ i = n
  BY <1>1
<1>6. DOMAIN all = 1 .. n /\ \A i \in 1 .. n : all[i] = s[i]
  BY <1>1, <1>2, <1>4, <1>5
<1>7. all = s
  BY <1>3, <1>4, <1>5, <1>6
<1>8. QED  BY <1>1, <1>2, <1>7 DEF n, front, last, all

\* One piece more: place, in PlanSource.
Placing(chunks, piece, budget) ==
    LET current == Last(chunks)
    IN  IF current # <<>> /\ (SizeOf(current) + piece.size > budget \/ piece.heading)
        THEN Append(chunks, <<piece>>)
        ELSE Append(Front(chunks), Append(current, piece))

WithinBudget(chunks, budget) == \A c \in DOMAIN chunks : SizeOf(chunks[c]) <= budget

LEMMA PlacingFacts ==
    ASSUME NEW budget \in Nat, NEW T, \A x \in T : x.size \in 0 .. budget,
           NEW chunks \in Seq(Seq(T)), chunks # <<>>, NEW piece \in T
    PROVE  /\ Placing(chunks, piece, budget) \in Seq(Seq(T)) /\ Placing(chunks, piece, budget) # <<>>
           /\ FlattenSeq(Placing(chunks, piece, budget)) = Append(FlattenSeq(chunks), piece)
           /\ WithinBudget(chunks, budget) => WithinBudget(Placing(chunks, piece, budget), budget)
<1> DEFINE current == Last(chunks)
           front == Front(chunks)
           n == Len(chunks)
           more == Append(current, piece)
           alone == <<piece>>
           new == Append(chunks, alone)
           longer == Append(front, more)
           placed == Placing(chunks, piece, budget)
<1>1. n \in Nat \ {0} /\ DOMAIN chunks = 1 .. n /\ current = chunks[n] /\ current \in Seq(T)
  BY LastAndFront
<1>2. front \in Seq(Seq(T)) /\ Len(front) = n - 1 /\ \A c \in 1 .. (n - 1) : front[c] = chunks[c]
  BY LastAndFront
<1>3. chunks = Append(front, current)
  BY LastAndFront
<1>4. alone \in Seq(T) /\ more \in Seq(T)
  BY <1>1
<1>5. new \in Seq(Seq(T)) /\ new # <<>> /\ longer \in Seq(Seq(T)) /\ longer # <<>>
  <2> DEFINE contents == Seq(T)
  <2>1. alone \in contents /\ more \in contents /\ chunks \in Seq(contents) /\ front \in Seq(contents)
    BY <1>2, <1>4
  <2> HIDE DEF alone, more, front, contents
  <2>2. new \in Seq(contents) /\ new # <<>> /\ longer \in Seq(contents) /\ longer # <<>>
    BY <2>1, AppendFacts
  <2>3. QED  BY <2>2 DEF contents
<1>6. FlattenSeq(new) = Append(FlattenSeq(chunks), piece)
  <2>1. FlattenSeq(new) = FlattenSeq(chunks) \o alone /\ FlattenSeq(chunks) \in Seq(T)
    <3> HIDE DEF alone
    <3>1. QED  BY <1>4, JoinMore
  <2> DEFINE joined == FlattenSeq(chunks)
  <2> HIDE DEF joined
  <2>2. joined \in Seq(T) => joined \o <<piece>> = Append(joined, piece)
    OBVIOUS
  <2>3. QED  BY <2>1, <2>2 DEF joined
<1>7. FlattenSeq(longer) = Append(FlattenSeq(chunks), piece)
  <2>1. FlattenSeq(longer) = FlattenSeq(front) \o more /\ FlattenSeq(front) \in Seq(T)
    <3> HIDE DEF front, more
    <3>1. QED  BY <1>2, <1>4, JoinMore
  <2>2. FlattenSeq(chunks) = FlattenSeq(front) \o current
    <3> HIDE DEF front, current
    <3>1. FlattenSeq(Append(front, current)) = FlattenSeq(front) \o current
      BY <1>1, <1>2, JoinMore
    <3>2. QED  BY <1>3, <3>1
  <2> DEFINE joined == FlattenSeq(front)
  <2> HIDE DEF joined, current
  <2>3. joined \in Seq(T) => joined \o Append(current, piece) = Append(joined \o current, piece)
    BY <1>1
  <2>4. QED  BY <2>1, <2>2, <2>3 DEF joined
<1>8. placed = IF current # <<>> /\ (SizeOf(current) + piece.size > budget \/ piece.heading)
               THEN new ELSE longer
  BY DEF Placing
<1>9. SizeOf(alone) <= budget
  <2>1. alone = Append(<<>>, piece) /\ <<>> \in Seq(T)
    OBVIOUS
  <2>2. \A x \in T : x.size \in Nat
    OBVIOUS
  <2>3. SizeOf(Append(<<>>, piece)) = SizeOf(<<>>) + piece.size /\ SizeOf(<<>>) = 0
    BY <2>1, <2>2, SizeMore
  <2>4. QED  BY <2>1, <2>3
<1>10. current = <<>> \/ SizeOf(current) + piece.size <= budget => SizeOf(more) <= budget
  <2>1. \A x \in T : x.size \in Nat
    OBVIOUS
  <2> HIDE DEF current
  <2>2. SizeOf(more) = SizeOf(current) + piece.size /\ SizeOf(<<>>) = 0 /\ SizeOf(current) \in Nat
    BY <1>1, <2>1, SizeMore
  <2>3. piece.size \in 0 .. budget
    OBVIOUS
  <2>4. QED  BY <2>2, <2>3
<1>11. ASSUME WithinBudget(chunks, budget) PROVE WithinBudget(placed, budget)
  <2>1. \A c \in 1 .. n : SizeOf(chunks[c]) <= budget
    BY <1>1, <1>11 DEF WithinBudget
  <2>2. CASE placed = new
    <3>1. Len(new) = n + 1 /\ new[n + 1] = alone /\ \A c \in 1 .. n : new[c] = chunks[c]
      OBVIOUS
    <3>2. DOMAIN new = 1 .. (n + 1)
      BY <1>5, <3>1
    <3> HIDE DEF new, alone, n
    <3>3. \A c \in 1 .. (n + 1) : c \in 1 .. n \/ c = n + 1
      BY <1>1
    <3>4. \A c \in 1 .. (n + 1) : SizeOf(new[c]) <= budget
      BY <1>9, <2>1, <3>1, <3>3
    <3>5. QED  BY <2>2, <3>2, <3>4 DEF WithinBudget
  <2>3. CASE placed = longer /\ placed # new
    <3> HIDE DEF front, more, n
    <3> DEFINE contents == Seq(T)
    <3>1. front \in Seq(contents) /\ more \in contents
      BY <1>2, <1>4
    <3> HIDE DEF contents
    <3>2. /\ DOMAIN longer = 1 .. (Len(front) + 1) /\ longer[Len(front) + 1] = more
          /\ \A c \in 1 .. Len(front) : longer[c] = front[c]
      BY <3>1, AppendFacts
    <3>3. Len(front) = n - 1 /\ (n - 1) + 1 = n
      BY <1>1, <1>2
    <3> HIDE DEF longer
    <3>4. longer[n] = more /\ \A c \in 1 .. (n - 1) : longer[c] = chunks[c]
      BY <1>2, <3>2, <3>3
    <3>5. DOMAIN longer = 1 .. n
      BY <3>2, <3>3
    <3> HIDE DEF longer, n
    <3>6. \A c \in 1 .. n : c \in 1 .. (n - 1) \/ c = n
      BY <1>1
    <3>7. SizeOf(more) <= budget
      <4>1. current = <<>> \/ ~(SizeOf(current) + piece.size > budget)
        BY <1>8, <2>3
      <4>2. \A x \in T : x.size \in Nat
        OBVIOUS
      <4> HIDE DEF current
      <4>3. SizeOf(current) \in Nat /\ piece.size \in Nat
        BY <1>1, <4>2, SizeMore
      <4>4. QED  BY <1>10, <4>1, <4>3
    <3>8. \A c \in 1 .. n : c \in 1 .. (n - 1) => c \in 1 .. n
      OBVIOUS
    <3>9. \A c \in 1 .. n : SizeOf(longer[c]) <= budget
      BY <2>1, <3>4, <3>6, <3>7
    <3>10. QED  BY <2>3, <3>5, <3>9 DEF WithinBudget
  <2>4. QED  BY <1>8, <2>2, <2>3
<1> HIDE DEF new, longer
<1>12. QED  BY <1>5, <1>6, <1>7, <1>8, <1>11

IsPlanRun(run, pieces, budget, T) ==
    /\ run \in [0 .. Len(pieces) -> Seq(Seq(T)) \ {<<>>}]
    /\ run[0] = << <<>> >>
    /\ \A k \in 1 .. Len(pieces) : run[k] = Placing(run[k - 1], pieces[k], budget)

LEMMA PlanRuns ==
    ASSUME NEW budget \in Nat, NEW blocks, blocks # <<>>, NEW T, \A x \in T : x.size \in 0 .. budget,
           PiecesOf(blocks) \in Seq(T)
    PROVE  \E run : IsPlanRun(run, PiecesOf(blocks), budget, T)
                    /\ PlanSource(blocks, budget) = run[Len(PiecesOf(blocks))]
<1> DEFINE seq == PiecesOf(blocks)
           n == Len(seq)
           State == Seq(Seq(T)) \ {<<>>}
           base == << <<>> >>
           Folds(any) == any = [s \in SUBSET DOMAIN seq |->
               IF s = {} THEN base
               ELSE Placing(any[s \ {Max(s)}], seq[Max(s)], budget)]
           any == CHOOSE any : Folds(any)
           step == [x \in State \X (1 .. n) |-> Placing(x[1], seq[x[2]], budget)]
<1>1. PlanSource(blocks, budget) = any[DOMAIN seq]
  BY DEF PlanSource, FoldLeft, MapThenFoldSet, Placing
<1>2. n \in Nat /\ DOMAIN seq = 1 .. n /\ \A k \in 1 .. n : seq[k] \in T
  OBVIOUS
<1>3. base \in State
  <2>1. <<>> \in Seq(T)
    OBVIOUS
  <2> DEFINE contents == Seq(T)
             nothing == <<>>
  <2>2. nothing \in contents
    BY <2>1
  <2> HIDE DEF contents, nothing
  <2>3. <<nothing>> \in Seq(contents) /\ <<nothing>> # <<>>
    BY <2>2
  <2>4. QED  BY <2>3 DEF contents, nothing
<1> HIDE DEF seq, n, base
<1>4. /\ step \in [State \X (1 .. n) -> State]
      /\ \A x \in State : \A k \in 1 .. n : step[<<x, k>>] = Placing(x, seq[k], budget)
  <2>1. \A x \in State : \A k \in 1 .. n : Placing(x, seq[k], budget) \in State
    BY <1>2, PlacingFacts
  <2> HIDE DEF State
  <2>2. QED  BY <2>1
<1> HIDE DEF step, State
<1>5. PICK it \in [SUBSET (1 .. n) -> State] : IsFold(it, step, base, 1 .. n)
  BY <1>2, <1>3, <1>4, FoldExists
<1>6. Folds(it)
  <2>1. \A s \in SUBSET (1 .. n) : s # {} =>
           step[<<it[Before(s)], Max(s)>>] = Placing(it[Before(s)], seq[Max(s)], budget)
    <3>1. \A s \in SUBSET (1 .. n) : s # {} => Before(s) \in SUBSET (1 .. n) /\ Max(s) \in 1 .. n
      BY <1>2, Shorter
    <3>2. QED  BY <1>4, <1>5, <3>1
  <2>2. it = [s \in SUBSET (1 .. n) |->
                IF s = {} THEN base ELSE Placing(it[Before(s)], seq[Max(s)], budget)]
    BY <1>5, <2>1 DEF IsFold
  <2>3. QED  BY <1>2, <2>2 DEF Before
<1>7. Folds(any)
  <2> HIDE DEF Folds
  <2>1. QED  BY <1>6
<1> HIDE DEF any
<1>8. \A s \in SUBSET (1 .. n) : any[s] = IF s = {} THEN base ELSE Placing(any[Before(s)], seq[Max(s)], budget)
  BY <1>2, <1>7 DEF Before
<1>9. TakesSteps(any, step, base, State, n)
  <2>1. \A s \in SUBSET (1 .. n) : s # {} => Max(s) \in 1 .. n
    BY <1>2, Shorter
  <2>2. any[{}] = base
    BY <1>8
  <2>3. QED  BY <1>3, <1>4, <1>8, <2>1, <2>2 DEF TakesSteps
<1>10. PICK run \in [0 .. n -> State] :
          /\ run[0] = base /\ run[n] = any[1 .. n]
          /\ \A k \in 1 .. n : run[k] = step[<<run[k - 1], k>>]
  <2>1. n \in Nat /\ step \in [State \X (1 .. n) -> State]
    BY <1>2, <1>4
  <2>2. HasRun(any, step, base, State, n)
    BY <1>3, <1>9, <2>1, FoldRuns
  <2>3. QED  BY <2>2 DEF HasRun
<1>11. \A k \in 1 .. n : run[k] = Placing(run[k - 1], seq[k], budget)
  <2>1. \A k \in 1 .. n : k - 1 \in 0 .. n
    BY <1>2
  <2>2. QED  BY <1>4, <1>10, <2>1
<1>12. IsPlanRun(run, seq, budget, T)
  BY <1>10, <1>11 DEF IsPlanRun, n, State, base
<1>13. QED  BY <1>1, <1>2, <1>10, <1>12 DEF n, seq

\* No piece of a document is lost or repeated, and no chunk of it is too large.
LEMMA PlanSourceFacts ==
    ASSUME NEW budget \in Nat, NEW blocks, NEW T, \A x \in T : x.size \in 0 .. budget,
           PiecesOf(blocks) \in Seq(T)
    PROVE  /\ PlanSource(blocks, budget) \in Seq(Seq(T))
           /\ FlattenSeq(PlanSource(blocks, budget)) = PiecesOf(blocks)
           /\ WithinBudget(PlanSource(blocks, budget), budget)
<1>1. CASE blocks = <<>>
  <2>1. PlanSource(blocks, budget) = <<>>
    BY <1>1 DEF PlanSource
  <2>2. PiecesOf(blocks) = <<>>
    <3>1. DOMAIN blocks = {}
      BY <1>1
    <3>2. [b \in DOMAIN blocks |->
             [p \in DOMAIN blocks[b].pieces |->
               [block |-> b, part |-> p, size |-> blocks[b].pieces[p], heading |-> blocks[b].heading]]] = <<>>
      BY <3>1
    <3>3. QED  BY <3>2, JoinNothing DEF PiecesOf
  <2>3. WithinBudget(<<>>, budget) /\ <<>> \in Seq(Seq(T))
    BY DEF WithinBudget
  <2>4. QED  BY <2>1, <2>2, <2>3, JoinNothing
<1>2. CASE blocks # <<>>
  <2> DEFINE pieces == PiecesOf(blocks)
             n == Len(pieces)
             planned == PlanSource(blocks, budget)
  <2>1. pieces \in Seq(T) /\ n \in Nat /\ \A k \in 1 .. n : pieces[k] \in T
    OBVIOUS
  <2>2. PICK run : IsPlanRun(run, pieces, budget, T) /\ planned = run[n]
    BY <1>2, PlanRuns
  <2> DEFINE Right(k) == FlattenSeq(run[k]) = SubSeq(pieces, 1, k) /\ WithinBudget(run[k], budget)
             Good == {k \in 0 .. n : Right(k)}
  <2>3. /\ run \in [0 .. n -> Seq(Seq(T)) \ {<<>>}] /\ run[0] = << <<>> >>
        /\ \A k \in 1 .. n : run[k] = Placing(run[k - 1], pieces[k], budget)
    BY <2>2 DEF IsPlanRun
  <2> HIDE DEF pieces, n, planned
  <2>4. Right(0)
    <3> DEFINE nothing == <<>>
    <3>1. SubSeq(pieces, 1, 0) = <<>>
      BY <2>1
    <3>2. FlattenSeq(<<nothing>>) = nothing
      <4>1. <<nothing>> = Append(<<>>, nothing) /\ nothing \in Seq(T) /\ <<>> \in Seq(Seq(T))
        OBVIOUS
      <4>2. FlattenSeq(Append(<<>>, nothing)) = FlattenSeq(<<>>) \o nothing
        <5> DEFINE none == <<>>
        <5>1. none \in Seq(Seq(T))
          BY <4>1
        <5> HIDE DEF nothing, none
        <5>2. FlattenSeq(Append(none, nothing)) = FlattenSeq(none) \o nothing
          BY <4>1, <5>1, JoinMore
        <5>3. QED  BY <5>2 DEF none
      <4>3. FlattenSeq(<<>>) \o nothing = nothing
        BY JoinNothing
      <4>4. QED  BY <4>1, <4>2, <4>3
    <3>3. WithinBudget(<<nothing>>, budget)
      <4>1. SizeOf(nothing) = 0
        <5>1. \A x \in T : x.size \in Nat
          OBVIOUS
        <5>2. CASE T = {}
          <6> DEFINE One == {[size |-> 0]}
          <6>1. \A x \in One : x.size \in Nat
            OBVIOUS
          <6>2. [size |-> 0] \in One /\ <<>> \in Seq(One)
            OBVIOUS
          <6>3. QED  BY <6>1, <6>2, SizeMore
        <5>3. CASE T # {}
          <6>1. PICK x : x \in T
            BY <5>3
          <6>2. <<>> \in Seq(T)
            OBVIOUS
          <6>3. QED  BY <5>1, <6>1, <6>2, SizeMore
        <5>4. QED  BY <5>2, <5>3
      <4>2. DOMAIN <<nothing>> = {1} /\ <<nothing>>[1] = nothing
        OBVIOUS
      <4>3. QED  BY <4>1, <4>2 DEF WithinBudget
    <3>4. QED  BY <2>3, <3>1, <3>2, <3>3
  <2>5. ASSUME NEW k \in 1 .. n, Right(k - 1) PROVE Right(k)
    <3> DEFINE before == run[k - 1]
    <3>1. k - 1 \in 0 .. n /\ (k - 1) + 1 = k /\ k \in 0 .. n
      BY <2>1
    <3>2. before \in Seq(Seq(T)) /\ before # <<>>
      BY <2>3, <3>1
    <3>3. /\ FlattenSeq(Placing(before, pieces[k], budget)) = Append(FlattenSeq(before), pieces[k])
          /\ WithinBudget(before, budget) => WithinBudget(Placing(before, pieces[k], budget), budget)
      <4> HIDE DEF before
      <4>1. QED  BY <2>1, <3>2, PlacingFacts
    <3>4. SubSeq(pieces, 1, k) = Append(SubSeq(pieces, 1, k - 1), pieces[k])
      BY <2>1, <3>1 DEF n
    <3>5. run[k] = Placing(before, pieces[k], budget)
      BY <2>3
    <3>6. QED  BY <2>5, <3>3, <3>4, <3>5
  <2>6. Right(n)
    <3>1. 0 \in Good /\ \A k \in 1 .. n : k - 1 \in Good => k \in Good
      <4> HIDE DEF Right
      <4>1. QED  BY <2>1, <2>4, <2>5
    <3> HIDE DEF Good
    <3>2. \A k \in 0 .. n : k \in Good
      BY <2>1, <3>1, UpTo
    <3>3. n \in Good
      BY <2>1, <3>2
    <3> HIDE DEF Right
    <3>4. QED  BY <3>3 DEF Good
  <2>7. SubSeq(pieces, 1, n) = pieces
    BY <2>1 DEF n
  <2>8. run[n] \in Seq(Seq(T))
    BY <2>1, <2>3
  <2>9. QED  BY <2>2, <2>6, <2>7, <2>8 DEF planned, pieces
<1>3. QED  BY <1>1, <1>2

\* What chunks hold of one document.
Portion(chunk, s) == IF chunk.source = s THEN chunk.contents ELSE <<>>
Part(chunks, s) == FlattenSeq([c \in DOMAIN chunks |-> Portion(chunks[c], s)])

LEMMA ShareTypes ==
    ASSUME NEW T, NEW chunk, chunk.contents \in Seq(T), NEW s
    PROVE  Portion(chunk, s) \in Seq(T)
  BY DEF Portion

PartGrows(chunks, more, s, T) ==
    /\ Part(Append(chunks, more), s) = Part(chunks, s) \o Portion(more, s)
    /\ Part(chunks, s) \in Seq(T)

LEMMA PartMore ==
    ASSUME NEW T, NEW Chunk, \A x \in Chunk : x.contents \in Seq(T),
           NEW chunks \in Seq(Chunk), NEW more \in Chunk, NEW s
    PROVE  PartGrows(chunks, more, s, T)
<1> DEFINE n == Len(chunks)
           all == Append(chunks, more)
           part == [c \in 1 .. n |-> Portion(chunks[c], s)]
           last == Portion(more, s)
           parts == [c \in 1 .. (n + 1) |-> Portion(all[c], s)]
           contents == Seq(T)
           new == Append(part, last)
<1>1. n \in Nat /\ DOMAIN chunks = 1 .. n /\ \A c \in 1 .. n : chunks[c] \in Chunk
  OBVIOUS
<1>2. DOMAIN all = 1 .. (n + 1) /\ all[n + 1] = more /\ \A c \in 1 .. n : all[c] = chunks[c]
  BY AppendFacts
<1>3. Part(chunks, s) = FlattenSeq(part) /\ Part(all, s) = FlattenSeq(parts)
  BY <1>1, <1>2 DEF Part
<1> HIDE DEF n, all
<1>4. \A c \in 1 .. n : Portion(chunks[c], s) \in contents
  BY <1>1, ShareTypes
<1>5. last \in contents
  BY ShareTypes
<1> HIDE DEF contents, last
<1>6. part \in Seq(contents) /\ Len(part) = n /\ \A c \in 1 .. n : part[c] = Portion(chunks[c], s)
  BY <1>1, <1>4
<1> HIDE DEF part
<1>7. new \in Seq(contents) /\ DOMAIN new = 1 .. (n + 1) /\ new[n + 1] = last
      /\ \A c \in 1 .. n : new[c] = part[c]
  BY <1>5, <1>6, AppendFacts
<1> HIDE DEF new
<1>8. \A c \in 1 .. (n + 1) : Portion(all[c], s) = new[c]
  <2>1. \A c \in 1 .. (n + 1) : c \in 1 .. n \/ c = n + 1
    BY <1>1
  <2>2. QED  BY <1>2, <1>6, <1>7, <2>1 DEF last
<1>9. parts = new
  <2>1. new = [c \in 1 .. (n + 1) |-> new[c]]
    BY <1>7
  <2>2. QED  BY <1>8, <2>1
<1> HIDE DEF parts
<1>10. part \in Seq(Seq(T)) /\ last \in Seq(T)
  BY <1>5, <1>6 DEF contents
<1>11. FlattenSeq(new) = FlattenSeq(part) \o last /\ FlattenSeq(part) \in Seq(T)
  BY <1>10, JoinMore DEF new
<1>12. QED  BY <1>3, <1>9, <1>11 DEF PartGrows, all, last

LEMMA JoinIsTyped ==
    ASSUME NEW T, NEW seqs \in Seq(Seq(T))
    PROVE  FlattenSeq(seqs) \in Seq(T)
<1> DEFINE n == Len(seqs)
<1>1. PICK f : IsJoin(f, seqs, T)
  BY JoinExists
<1>2. n \in Nat /\ f \in [0 .. n -> Seq(T)] /\ FlattenSeq(seqs) = f[n]
  BY <1>1 DEF IsJoin
<1> HIDE DEF n
<1>3. QED  BY <1>2

LEMMA PartTypes ==
    ASSUME NEW T, NEW Chunk, \A x \in Chunk : x.contents \in Seq(T), NEW chunks \in Seq(Chunk), NEW s
    PROVE  Part(chunks, s) \in Seq(T)
<1> DEFINE n == Len(chunks)
           part == [c \in 1 .. n |-> Portion(chunks[c], s)]
<1>1. n \in Nat /\ DOMAIN chunks = 1 .. n /\ \A c \in 1 .. n : chunks[c] \in Chunk
  OBVIOUS
<1>2. Part(chunks, s) = FlattenSeq(part)
  BY <1>1 DEF Part
<1>3. \A c \in 1 .. n : Portion(chunks[c], s) \in Seq(T)
  BY <1>1, ShareTypes
<1> HIDE DEF n
<1>4. part \in Seq(Seq(T))
  BY <1>1, <1>3
<1> HIDE DEF part
<1>5. QED  BY <1>2, <1>4, JoinIsTyped

\* Of a number of chunks: the first k of them.
LEMMA FirstMore ==
    ASSUME NEW T, NEW s \in Seq(T), NEW k \in 1 .. Len(s)
    PROVE  /\ SubSeq(s, 1, k) = Append(SubSeq(s, 1, k - 1), s[k])
           /\ SubSeq(s, 1, k - 1) \in Seq(T) /\ SubSeq(s, 1, 0) = <<>> /\ SubSeq(s, 1, Len(s)) = s
  OBVIOUS

Regroups(a, b, c) == (a \o b) \o c = a \o (b \o c)

LEMMA Associative ==
    ASSUME NEW T, NEW a \in Seq(T), NEW b \in Seq(T), NEW c \in Seq(T)
    PROVE  Regroups(a, b, c)
<1>1. (a \o b) \o c = a \o (b \o c)
  OBVIOUS
<1>2. QED  BY <1>1 DEF Regroups

PartsJoin(a, b, s) == Part(a \o b, s) = Part(a, s) \o Part(b, s)

LEMMA PartOfBoth ==
    ASSUME NEW T, NEW Chunk, \A x \in Chunk : x.contents \in Seq(T),
           NEW a \in Seq(Chunk), NEW b \in Seq(Chunk), NEW s
    PROVE  PartsJoin(a, b, s)
<1> DEFINE n == Len(b)
           first(k) == SubSeq(b, 1, k)
           Right(k) == Part(a \o first(k), s) = Part(a, s) \o Part(first(k), s)
           Good == {k \in 0 .. n : Right(k)}
<1>1. n \in Nat /\ first(n) = b /\ first(0) = <<>> /\ \A k \in 1 .. n : b[k] \in Chunk
  OBVIOUS
<1>2. \A k \in 1 .. n : first(k) = Append(first(k - 1), b[k]) /\ first(k - 1) \in Seq(Chunk)
  BY FirstMore
<1> HIDE DEF n, first
<1>3. Right(0)
  <2>1. Part(<<>>, s) = <<>>
    <3> DEFINE none == <<>>
               part == [c \in DOMAIN none |-> Portion(none[c], s)]
    <3>1. DOMAIN none = {}
      OBVIOUS
    <3> HIDE DEF none
    <3>2. part = <<>>
      BY <3>1
    <3>3. Part(none, s) = FlattenSeq(part)
      BY DEF Part
    <3>4. QED  BY <3>2, <3>3, JoinNothing DEF none
  <2> DEFINE part == Part(a, s)
  <2>2. part \in Seq(T)
    BY PartTypes
  <2> HIDE DEF part
  <2>3. part \o <<>> = part /\ a \o <<>> = a
    BY <2>2
  <2>4. QED  BY <1>1, <2>1, <2>3 DEF part
<1>4. ASSUME NEW k \in 1 .. n, Right(k - 1) PROVE Right(k)
  <2> DEFINE before == first(k - 1)
             x == b[k]
             more == Portion(x, s)
             p == Part(a, s)
             q == Part(before, s)
             both == a \o before
  <2>1. before \in Seq(Chunk) /\ x \in Chunk /\ first(k) = Append(before, x)
    BY <1>1, <1>2
  <2> HIDE DEF before, x
  <2>2. both \in Seq(Chunk) /\ a \o Append(before, x) = Append(both, x)
    BY <2>1
  <2> HIDE DEF both
  <2>3. more \in Seq(T)
    BY <2>1, ShareTypes
  <2>4. p \in Seq(T) /\ q \in Seq(T)
    BY <2>1, PartTypes
  <2>5. Part(Append(both, x), s) = Part(both, s) \o more
    <3>1. PartGrows(both, x, s, T)
      BY <2>1, <2>2, PartMore
    <3>2. QED  BY <3>1 DEF PartGrows
  <2>6. Part(Append(before, x), s) = q \o more
    <3>1. PartGrows(before, x, s, T)
      BY <2>1, PartMore
    <3>2. QED  BY <3>1 DEF PartGrows
  <2>7. Part(both, s) = p \o q
    BY <1>4 DEF both, before
  <2> HIDE DEF more, p, q
  <2>8. (p \o q) \o more = p \o (q \o more)
    <3>1. Regroups(p, q, more)
      BY <2>3, <2>4, Associative
    <3>2. QED  BY <3>1 DEF Regroups
  <2>9. Part(a \o Append(before, x), s) = p \o Part(Append(before, x), s)
    BY <2>2, <2>5, <2>6, <2>7, <2>8
  <2>10. QED  BY <2>1, <2>9 DEF p
<1>5. Right(n)
  <2>1. 0 \in Good /\ \A k \in 1 .. n : k - 1 \in Good => k \in Good
    <3> HIDE DEF Right
    <3>1. QED  BY <1>1, <1>3, <1>4
  <2> HIDE DEF Good
  <2>2. \A k \in 0 .. n : k \in Good
    BY <1>1, <2>1, UpTo
  <2>3. n \in Good
    BY <1>1, <2>2
  <2> HIDE DEF Right
  <2>4. QED  BY <2>3 DEF Good
<1>6. QED  BY <1>1, <1>5 DEF PartsJoin

LEMMA JoinOfNothing ==
    ASSUME NEW T, NEW seqs \in Seq(Seq(T)), \A k \in 1 .. Len(seqs) : seqs[k] = <<>>
    PROVE  FlattenSeq(seqs) = <<>>
<1> DEFINE n == Len(seqs)
           nothing == <<>>
<1>1. PICK f : IsJoin(f, seqs, T)
  BY JoinExists
<1>2. /\ n \in Nat /\ f[0] = nothing /\ FlattenSeq(seqs) = f[n]
      /\ \A k \in 1 .. n : f[k] = f[k - 1] \o nothing
      /\ nothing \o nothing = nothing
  <2>1. n \in Nat /\ \A k \in 1 .. n : seqs[k] = nothing
    OBVIOUS
  <2>2. /\ f[0] = nothing /\ FlattenSeq(seqs) = f[n]
        /\ \A k \in 1 .. n : f[k] = f[k - 1] \o seqs[k]
    BY <1>1 DEF IsJoin
  <2>3. nothing \o nothing = nothing
    OBVIOUS
  <2> HIDE DEF n, nothing
  <2>4. QED  BY <2>1, <2>2, <2>3
<1> HIDE DEF n, nothing
<1> DEFINE Good == {k \in 0 .. n : f[k] = nothing}
<1>3. 0 \in Good /\ \A k \in 1 .. n : k - 1 \in Good => k \in Good
  BY <1>2
<1> HIDE DEF Good
<1>4. n \in Good
  <2>1. \A k \in 0 .. n : k \in Good
    BY <1>2, <1>3, UpTo
  <2>2. QED  BY <1>2, <2>1
<1>5. QED  BY <1>2, <1>4 DEF Good, nothing

AnyPiece(budget) == [block : Nat, part : Nat, size : 0 .. budget, heading : BOOLEAN]

LEMMA PiecesAreAny ==
    ASSUME NEW budget \in Nat, NEW blocks \in Seq(BlockOf(budget))
    PROVE  /\ Seq(PieceOf(blocks, budget)) \subseteq Seq(AnyPiece(budget))
           /\ \A x \in PieceOf(blocks, budget) : x.size \in 0 .. budget
           /\ \A x \in AnyPiece(budget) : x.size \in 0 .. budget
<1>1. PieceOf(blocks, budget) \subseteq AnyPiece(budget)
  <2>1. DOMAIN blocks \subseteq Nat
    OBVIOUS
  <2>2. QED  BY <2>1 DEF PieceOf, AnyPiece
<1>2. \A x \in AnyPiece(budget) : x.size \in 0 .. budget
  BY DEF AnyPiece
<1> DEFINE P == PieceOf(blocks, budget)
           A == AnyPiece(budget)
<1> HIDE DEF P, A
<1>3. P \subseteq A => Seq(P) \subseteq Seq(A)
  OBVIOUS
<1>4. QED  BY <1>1, <1>2, <1>3 DEF P, A

\* Chunks as they should be: within the budget, of blocks their document has.
ChunksOf(documents, budget) ==
    {x \in [source : DOMAIN documents, contents : Seq(AnyPiece(budget))] :
        /\ SizeOf(x.contents) <= budget
        /\ x.contents \in Seq(PieceOf(documents[x.source], budget))}

Labelled(planned, s) == [c \in DOMAIN planned |-> [source |-> s, contents |-> planned[c]]]

\* The chunks of one document: all of it, and nothing of another.
AreChunksOf(chunks, documents, budget, s) ==
    /\ chunks \in Seq(ChunksOf(documents, budget))
    /\ \A r : Part(chunks, r) = IF r = s THEN PiecesOf(documents[s]) ELSE <<>>

LEMMA LabelledFacts ==
    ASSUME NEW budget \in Nat, NEW documents \in Seq(Seq(BlockOf(budget))), NEW s \in DOMAIN documents
    PROVE  AreChunksOf(Labelled(PlanSource(documents[s], budget), s), documents, budget, s)
<1> DEFINE blocks == documents[s]
           T == PieceOf(blocks, budget)
           planned == PlanSource(blocks, budget)
           n == Len(planned)
           chunk(c) == [source |-> s, contents |-> planned[c]]
           labelled == Labelled(planned, s)
           C == ChunksOf(documents, budget)
           PartIsRight(r) == Part(labelled, r) = IF r = s THEN PiecesOf(blocks) ELSE <<>>
<1>1. blocks \in Seq(BlockOf(budget))
  OBVIOUS
<1>2. PiecesOf(blocks) \in Seq(T)
  BY <1>1, PiecesTypes
<1>3. Seq(T) \subseteq Seq(AnyPiece(budget)) /\ \A x \in T : x.size \in 0 .. budget
  BY <1>1, PiecesAreAny
<1> HIDE DEF T, blocks
<1>4. planned \in Seq(Seq(T)) /\ FlattenSeq(planned) = PiecesOf(blocks) /\ WithinBudget(planned, budget)
  BY <1>2, <1>3, PlanSourceFacts
<1> HIDE DEF planned
<1>5. n \in Nat /\ DOMAIN planned = 1 .. n /\ \A c \in 1 .. n : planned[c] \in Seq(T)
  BY <1>4
<1>6. labelled = [c \in 1 .. n |-> chunk(c)]
  BY <1>5 DEF Labelled
<1> HIDE DEF n, labelled
<1>7. ASSUME NEW c \in 1 .. n PROVE chunk(c) \in C
  <2>1. planned[c] \in Seq(AnyPiece(budget)) /\ SizeOf(planned[c]) <= budget
    BY <1>3, <1>4, <1>5 DEF WithinBudget
  <2> DEFINE contents == planned[c]
  <2>2. contents \in Seq(PieceOf(documents[s], budget))
    BY <1>5 DEF T, blocks
  <2> HIDE DEF contents
  <2> DEFINE x == [source |-> s, contents |-> contents]
  <2>3. x.source = s /\ x.contents = contents
    OBVIOUS
  <2>4. x \in [source : DOMAIN documents, contents : Seq(AnyPiece(budget))]
    BY <2>1 DEF contents
  <2> HIDE DEF x
  <2>5. x \in C
    BY <2>1, <2>2, <2>3, <2>4 DEF ChunksOf, contents
  <2>6. QED  BY <2>5 DEF x, contents
<1>8. labelled \in Seq(C)
  <2> HIDE DEF chunk, C
  <2>1. QED  BY <1>5, <1>6, <1>7
<1>9. ASSUME NEW r PROVE PartIsRight(r)
  <2> DEFINE part == [c \in 1 .. n |-> Portion(chunk(c), r)]
  <2>1. Part(labelled, r) = FlattenSeq(part)
    <3>1. DOMAIN labelled = 1 .. n /\ \A c \in 1 .. n : labelled[c] = chunk(c)
      BY <1>6
    <3> HIDE DEF chunk
    <3>2. [c \in DOMAIN labelled |-> Portion(labelled[c], r)] = part
      BY <3>1
    <3>3. QED  BY <3>2 DEF Part
  <2>2. CASE r = s
    <3>1. \A c \in 1 .. n : Portion(chunk(c), r) = planned[c]
      BY <2>2 DEF Portion
    <3> HIDE DEF chunk
    <3>2. part = [c \in 1 .. n |-> planned[c]]
      BY <3>1
    <3>3. planned = [c \in 1 .. n |-> planned[c]]
      <4>1. planned = [c \in DOMAIN planned |-> planned[c]]
        BY <1>4
      <4>2. QED  BY <1>5, <4>1
    <3>4. QED  BY <1>4, <2>1, <2>2, <3>2, <3>3
  <2>3. CASE r # s
    <3>1. \A c \in 1 .. n : Portion(chunk(c), r) = <<>>
      BY <2>3 DEF Portion
    <3> HIDE DEF chunk
    <3> DEFINE none == <<>>
    <3>2. none \in Seq(T)
      OBVIOUS
    <3> HIDE DEF none
    <3>3. part = [c \in 1 .. n |-> none]
      BY <3>1 DEF none
    <3> HIDE DEF part
    <3>4. part \in Seq(Seq(T)) /\ Len(part) = n /\ \A c \in 1 .. n : part[c] = none
      BY <1>5, <3>2, <3>3
    <3>5. FlattenSeq(part) = <<>>
      BY <3>4, JoinOfNothing DEF none
    <3>6. QED  BY <2>1, <2>3, <3>5
  <2>4. QED  BY <2>2, <2>3
<1> HIDE DEF PartIsRight, C
<1>10. labelled \in Seq(C) /\ \A r : PartIsRight(r)
  BY <1>8, <1>9
<1>11. QED  BY <1>10 DEF AreChunksOf, PartIsRight, C, labelled, planned, blocks

\* Of all documents: nothing lost or repeated, and every chunk as it should be.
LEMMA AllChunksFacts ==
    ASSUME NEW budget \in Nat, NEW documents \in Seq(Seq(BlockOf(budget)))
    PROVE  /\ AllChunks(documents, budget) \in Seq(ChunksOf(documents, budget))
           /\ \A s \in DOMAIN documents : Part(AllChunks(documents, budget), s) = PiecesOf(documents[s])
<1> DEFINE n == Len(documents)
           C == ChunksOf(documents, budget)
           T == AnyPiece(budget)
           of(s) == Labelled(PlanSource(documents[s], budget), s)
           seqs == [s \in 1 .. n |-> of(s)]
           pieces(s) == PiecesOf(documents[s])
<1>1. n \in Nat /\ DOMAIN documents = 1 .. n
  OBVIOUS
<1>2. AllChunks(documents, budget) = FlattenSeq(seqs)
  BY <1>1 DEF AllChunks, Labelled
<1>3. \A x \in C : x.contents \in Seq(T)
  BY DEF ChunksOf
<1>4. \A s \in 1 .. n : of(s) \in Seq(C) /\ \A r : Part(of(s), r) = IF r = s THEN pieces(s) ELSE <<>>
  <2>1. \A s \in 1 .. n : AreChunksOf(of(s), documents, budget, s)
    BY <1>1, LabelledFacts
  <2> HIDE DEF of
  <2>2. QED  BY <2>1 DEF AreChunksOf
<1>5. \A s \in 1 .. n : pieces(s) \in Seq(T)
  <2> TAKE s \in 1 .. n
  <2>1. documents[s] \in Seq(BlockOf(budget))
    BY <1>1
  <2>2. pieces(s) \in Seq(PieceOf(documents[s], budget))
    BY <2>1, PiecesTypes
  <2>3. Seq(PieceOf(documents[s], budget)) \subseteq Seq(T)
    BY <2>1, PiecesAreAny
  <2>4. QED  BY <2>2, <2>3
<1> HIDE DEF C, T, of, pieces, n
<1>6. seqs \in Seq(Seq(C)) /\ Len(seqs) = n /\ \A k \in 1 .. n : seqs[k] = of(k)
  <2>1. n \in Nat /\ \A s \in 1 .. n : of(s) \in Seq(C)
    BY <1>1, <1>4
  <2> DEFINE contents == Seq(C)
  <2> HIDE DEF contents
  <2>2. n \in Nat /\ \A s \in 1 .. n : of(s) \in contents
    BY <2>1 DEF contents
  <2>3. seqs \in Seq(contents) /\ Len(seqs) = n /\ \A k \in 1 .. n : seqs[k] = of(k)
    BY <2>2
  <2>4. QED  BY <2>3 DEF contents
<1> HIDE DEF seqs
<1>7. PICK f : IsJoin(f, seqs, C)
  BY <1>6, JoinExists
<1>8. /\ f \in [0 .. n -> Seq(C)] /\ f[0] = <<>> /\ FlattenSeq(seqs) = f[n]
      /\ \A k \in 1 .. n : f[k] = f[k - 1] \o of(k)
  BY <1>6, <1>7 DEF IsJoin
<1>9. ASSUME NEW s \in 1 .. n PROVE Part(f[n], s) = pieces(s)
  <2> DEFINE nothing == <<>>
             Right(k) == Part(f[k], s) = IF s <= k THEN pieces(s) ELSE nothing
             Good == {k \in 0 .. n : Right(k)}
  <2>1. Part(nothing, s) = nothing
    <3> DEFINE part == [c \in DOMAIN nothing |-> Portion(nothing[c], s)]
    <3>1. DOMAIN nothing = {}
      OBVIOUS
    <3> HIDE DEF nothing
    <3>2. part = <<>>
      BY <3>1
    <3>3. Part(nothing, s) = FlattenSeq(part)
      BY DEF Part
    <3>4. QED  BY <3>2, <3>3, JoinNothing DEF nothing
  <2>2. Right(0)
    <3>1. ~(s <= 0)
      BY <1>1
    <3>2. QED  BY <1>8, <2>1, <3>1
  <2>3. nothing \o nothing = nothing /\ \A x \in Seq(T) : x \o nothing = x /\ nothing \o x = x
    OBVIOUS
  <2>4. ASSUME NEW k \in 1 .. n, Right(k - 1) PROVE Right(k)
    <3> DEFINE before == f[k - 1]
               more == of(k)
    <3>1. before \in Seq(C) /\ more \in Seq(C)
      <4>1. k - 1 \in 0 .. n
        BY <1>1
      <4>2. before \in Seq(C)
        BY <1>8, <4>1
      <4>3. QED  BY <1>4, <4>2
    <3>2. f[k] = before \o more
      BY <1>8
    <3>3. Part(before, s) = IF s <= k - 1 THEN pieces(s) ELSE nothing
      BY <2>4
    <3>4. Part(more, s) = IF s = k THEN pieces(s) ELSE nothing
      BY <1>4
    <3> HIDE DEF before, more, nothing
    <3>5. Part(before \o more, s) = Part(before, s) \o Part(more, s)
      <4>1. PartsJoin(before, more, s)
        BY <1>3, <3>1, PartOfBoth
      <4>2. QED  BY <4>1 DEF PartsJoin
    <3>6. s <= k <=> s <= k - 1 \/ s = k
      BY <1>1
    <3>7. ~(s <= k - 1 /\ s = k)
      BY <1>1
    <3>8. pieces(s) \in Seq(T)
      BY <1>5
    <3>9. QED  BY <2>3, <3>2, <3>3, <3>4, <3>5, <3>6, <3>7, <3>8
  <2>5. Right(n)
    <3>1. 0 \in Good /\ \A k \in 1 .. n : k - 1 \in Good => k \in Good
      <4> HIDE DEF Right
      <4>1. QED  BY <1>1, <2>2, <2>4
    <3> HIDE DEF Good
    <3>2. n \in Good
      <4>1. \A k \in 0 .. n : k \in Good
        BY <1>1, <3>1, UpTo
      <4>2. QED  BY <1>1, <4>1
    <3> HIDE DEF Right
    <3>3. QED  BY <3>2 DEF Good
  <2>6. s <= n
    BY <1>1
  <2>7. QED  BY <2>5, <2>6
<1>10. f[n] \in Seq(C)
  BY <1>1, <1>8
<1>11. QED  BY <1>1, <1>2, <1>8, <1>9, <1>10 DEF C, pieces

-----------------------------------------------------------------------------
(* What was read of the documents, and what was not *)

\* The total of calculateCoverage.
CountOf(count) == MapThenSumSet(LAMBDA s : count[s], DOMAIN count)

LEMMA CountIsSum ==
    ASSUME NEW S, NEW count, S = DOMAIN count, IsFiniteSet(S)
    PROVE  \E sum : IsSum(sum, count, S) /\ CountOf(count) = sum[S]
<1> DEFINE Sums(any) == any = [s \in SUBSET S |->
               IF s = {} THEN 0
               ELSE count[CHOOSE x \in s : TRUE] + any[s \ {CHOOSE x \in s : TRUE}]]
           total == CHOOSE any : Sums(any)
<1>1. CountOf(count) = total[S]
  BY DEF CountOf, MapThenSumSet, MapThenFoldSet
<1>2. \A any : IsSum(any, count, S) <=> Sums(any)
  BY DEF IsSum, Picked
<1>3. \E any : IsSum(any, count, S)
  BY SumExists
<1> HIDE DEF Sums
<1>4. Sums(total)
  BY <1>2, <1>3
<1> HIDE DEF total
<1>5. IsSum(total, count, S)
  BY <1>2, <1>4
<1>6. QED  BY <1>1, <1>5

LEMMA BothCounted ==
    ASSUME NEW A, NEW B, IsFiniteSet(A), IsFiniteSet(B), A \cap B = {}
    PROVE  /\ IsFiniteSet(A \cup B) /\ Cardinality(A \cup B) = Cardinality(A) + Cardinality(B)
           /\ Cardinality(A) \in Nat /\ Cardinality(B) \in Nat
<1> DEFINE a == Cardinality(A)
           b == Cardinality(B)
           c == Cardinality(A \cup B)
<1>1. IsFiniteSet(A \cup B) /\ c = a + b - Cardinality(A \cap B)
  BY FS_Union
<1>2. a \in Nat /\ b \in Nat
  BY FS_CardinalityType
<1>3. Cardinality(A \cap B) = 0
  BY FS_EmptySet
<1> HIDE DEF a, b, c
<1>4. c = a + (b - 0)
  BY <1>1, <1>3
<1>5. c = a + b
  <2>1. b - 0 = b
    BY <1>2
  <2>2. QED  BY <1>4, <2>1
<1>6. QED  BY <1>1, <1>2, <1>5 DEF a, b, c

\* The blocks of some documents, each with its document.
KeysOf(documents) == {k \in (DOMAIN documents) \X Nat : k[2] \in DOMAIN documents[k[1]]}

LEMMA BlocksOfOne ==
    ASSUME NEW s, NEW m \in Nat
    PROVE  IsFiniteSet({s} \X (1 .. m)) /\ Cardinality({s} \X (1 .. m)) = m
<1>1. IsFiniteSet({s}) /\ Cardinality({s}) = 1
  BY FS_Singleton
<1>2. IsFiniteSet(1 .. m) /\ Cardinality(1 .. m) = m
  BY FS_Interval
<1> DEFINE A == {s}
           B == 1 .. m
<1>3. IsFiniteSet(A) /\ IsFiniteSet(B) /\ Cardinality(A) = 1 /\ Cardinality(B) = m
  BY <1>1, <1>2
<1> HIDE DEF A, B
<1>4. IsFiniteSet(A \X B) /\ Cardinality(A \X B) = Cardinality(A) * Cardinality(B)
  BY <1>3, FS_Product
<1>5. QED  BY <1>3, <1>4 DEF A, B

LEMMA BlocksCounted ==
    ASSUME NEW B, NEW documents \in Seq(Seq(B)), NEW count,
           count = [s \in DOMAIN documents |-> Len(documents[s])]
    PROVE  IsFiniteSet(KeysOf(documents)) /\ Cardinality(KeysOf(documents)) = CountOf(count)
<1> DEFINE n == Len(documents)
           keys(k) == {x \in (1 .. k) \X Nat : x[2] \in DOMAIN documents[x[1]]}
           S == 1 .. n
<1>1. n \in Nat /\ DOMAIN documents = S /\ IsFiniteSet(S)
  BY FS_Interval
<1>2. \A s \in S : documents[s] \in Seq(B) /\ count[s] \in Nat /\ DOMAIN documents[s] = 1 .. count[s]
  OBVIOUS
<1>3. count \in [S -> Nat] /\ DOMAIN count = S
  BY <1>1, <1>2
<1>4. PICK sum : IsSum(sum, count, S) /\ CountOf(count) = sum[S]
  BY <1>1, <1>3, CountIsSum
<1> HIDE DEF n
<1>5. sum[{}] = 0 /\ \A s \in SUBSET S : \A x \in s : sum[s] = count[x] + sum[s \ {x}]
  <2>1. TakesAny(sum, count, S)
    BY <1>1, <1>3, <1>4, SumWithout
  <2>2. sum[{}] = 0
    BY <1>4 DEF IsSum
  <2>3. QED  BY <2>1, <2>2 DEF TakesAny
<1> DEFINE Right(k) == IsFiniteSet(keys(k)) /\ Cardinality(keys(k)) = sum[1 .. k]
           Good == {k \in 0 .. n : Right(k)}
<1>6. Right(0)
  <2>1. keys(0) = {} /\ 1 .. 0 = {}
    OBVIOUS
  <2>2. QED  BY <1>5, <2>1, FS_EmptySet
<1>7. ASSUME NEW k \in 1 .. n, Right(k - 1) PROVE Right(k)
  <2> DEFINE before == keys(k - 1)
             more == {k} \X (1 .. count[k])
             m == count[k]
  <2>1. k \in S /\ 1 .. k \in SUBSET S /\ k \in 1 .. k /\ (1 .. k) \ {k} = 1 .. (k - 1)
    BY <1>1
  <2>2. sum[1 .. k] = m + sum[1 .. (k - 1)]
    <3> DEFINE s == 1 .. k
               rest == s \ {k}
    <3>1. s \in SUBSET S /\ k \in s /\ rest = 1 .. (k - 1)
      BY <2>1
    <3> HIDE DEF s, S, m
    <3>2. sum[s] = count[k] + sum[rest]
      BY <1>5, <3>1
    <3>3. QED  BY <3>1, <3>2 DEF m, s
  <2>3. m \in Nat
    BY <1>2, <2>1
  <2>4. IsFiniteSet(more) /\ Cardinality(more) = m
    BY <2>3, BlocksOfOne
  <2>5. IsFiniteSet(before) /\ Cardinality(before) = sum[1 .. (k - 1)]
    BY <1>7
  <2>6. keys(k) = before \cup more
    <3>1. \A x : x \in 1 .. k <=> x \in 1 .. (k - 1) \/ x = k
      BY <1>1
    <3>2. DOMAIN documents[k] = 1 .. m /\ 1 .. m \subseteq Nat
      BY <1>2, <2>1
    <3> HIDE DEF m
    <3>3. \A x \in keys(k) : x \in before \cup ({k} \X (1 .. m))
      BY <3>1, <3>2
    <3>4. \A x \in before : x \in keys(k)
      BY <3>1
    <3>5. \A x \in {k} \X (1 .. m) : x \in keys(k)
      BY <3>1, <3>2
    <3>6. QED  BY <3>3, <3>4, <3>5 DEF m
  <2>7. before \cap more = {}
    BY <1>1
  <2> HIDE DEF before, more, m, keys
  <2>8. /\ IsFiniteSet(before \cup more) /\ Cardinality(before) \in Nat
        /\ Cardinality(before \cup more) = Cardinality(before) + Cardinality(more)
    BY <2>4, <2>5, <2>7, BothCounted
  <2>9. QED  BY <2>2, <2>3, <2>4, <2>5, <2>6, <2>8
<1>8. Right(n)
  <2>1. 0 \in Good /\ \A k \in 1 .. n : k - 1 \in Good => k \in Good
    <3> HIDE DEF Right
    <3>1. QED  BY <1>1, <1>6, <1>7
  <2> HIDE DEF Good
  <2>2. n \in Good
    <3>1. \A k \in 0 .. n : k \in Good
      BY <1>1, <2>1, UpTo
    <3>2. QED  BY <1>1, <3>1
  <2> HIDE DEF Right
  <2>3. QED  BY <2>2 DEF Good
<1>9. KeysOf(documents) = keys(n)
  BY <1>1 DEF KeysOf
<1>10. QED  BY <1>4, <1>8, <1>9

\* What an analysis has not read is what is left of all, whatever it recorded as unread.
LEMMA NotAnalysedIs ==
    ASSUME NEW K, IsFiniteSet(K), NEW analysed \in SUBSET K, NEW unanalysed \in SUBSET K, NEW quoted,
           NEW count, CountOf(count) = Cardinality(K)
    PROVE  Coverage(AssignDispositions(analysed, unanalysed, quoted), count).notAnalysed
              = Cardinality(K \ analysed)
<1> DEFINE recorded == AssignDispositions(analysed, unanalysed, quoted)
           keys == analysed \cup unanalysed
           with == {k \in DOMAIN recorded : recorded[k] = "not_analysed"}
           more == keys \ analysed
           rest == K \ keys
<1>1. DOMAIN recorded = keys /\ with = more
  <2>1. recorded = [k \in keys |->
            IF k \notin analysed THEN "not_analysed" ELSE IF k \in quoted THEN "covered" ELSE "no_requirement"]
    BY DEF AssignDispositions
  <2> HIDE DEF recorded
  <2>2. \A k \in keys : recorded[k] = "not_analysed" <=> k \notin analysed
    BY <2>1
  <2>3. DOMAIN recorded = keys
    BY <2>1
  <2>4. QED  BY <2>2, <2>3
<1>2. Coverage(recorded, count).notAnalysed
         = Cardinality(with) + Max({0, CountOf(count) - Cardinality(DOMAIN recorded)})
  BY DEF Coverage, CountOf
<1>3. IsFiniteSet(keys) /\ IsFiniteSet(more) /\ IsFiniteSet(rest) /\ keys \subseteq K
  BY FS_Subset
<1>4. Cardinality(K) = Cardinality(keys) + Cardinality(rest)
  <2>1. keys \cup rest = K /\ keys \cap rest = {}
    OBVIOUS
  <2> HIDE DEF keys, rest
  <2>2. Cardinality(keys \cup rest) = Cardinality(keys) + Cardinality(rest)
    BY <1>3, <2>1, BothCounted
  <2>3. QED  BY <2>1, <2>2
<1>5. Cardinality(K \ analysed) = Cardinality(more) + Cardinality(rest)
  <2>1. more \cup rest = K \ analysed /\ more \cap rest = {}
    OBVIOUS
  <2> HIDE DEF more, rest
  <2>2. Cardinality(more \cup rest) = Cardinality(more) + Cardinality(rest)
    BY <1>3, <2>1, BothCounted
  <2>3. QED  BY <2>1, <2>2
<1>6. Cardinality(keys) \in Nat /\ Cardinality(rest) \in Nat /\ Cardinality(more) \in Nat
  BY <1>3, FS_CardinalityType
<1> DEFINE a == Cardinality(keys)
           b == Cardinality(rest)
           c == Cardinality(more)
<1> HIDE DEF a, b, c
<1>7. Cardinality(with) = c /\ CountOf(count) - Cardinality(DOMAIN recorded) = (a + b) - a
  BY <1>1, <1>4 DEF a, b, c
<1>8. a \in Nat /\ b \in Nat /\ c \in Nat
  BY <1>6 DEF a, b, c
<1>9. (a + b) - a = b
  BY <1>8
<1>10. Max({0, b}) = b
  <2>1. 0 \in Int /\ b \in Int /\ 0 <= b
    BY <1>8
  <2>2. Max({0, b}) \in {0, b} /\ 0 <= Max({0, b}) /\ b <= Max({0, b})
    BY <2>1, Larger
  <2>3. QED  BY <2>1, <2>2
<1>11. Coverage(recorded, count).notAnalysed = c + b
  BY <1>2, <1>7, <1>9, <1>10
<1>12. QED  BY <1>5, <1>11 DEF b, c

KeysOfChunk(chunk) == {BlockKey(chunk.source, b) : b \in BlocksOf(chunk.contents)}

LEMMA ChunkKeys ==
    ASSUME NEW budget, NEW documents, NEW n \in Nat, DOMAIN documents = 1 .. n,
           \A s \in 1 .. n : DOMAIN documents[s] \subseteq Nat,
           NEW chunk \in ChunksOf(documents, budget)
    PROVE  /\ chunk.source \in DOMAIN documents
           /\ BlocksOf(chunk.contents) \subseteq DOMAIN documents[chunk.source]
           /\ KeysOfChunk(chunk) \subseteq KeysOf(documents)
<1> DEFINE s == chunk.source
           contents == chunk.contents
           blocks == documents[s]
           P == PieceOf(blocks, budget)
<1>1. s \in DOMAIN documents /\ contents \in Seq(P)
  BY DEF ChunksOf
<1>2. \A x \in P : x.block \in DOMAIN blocks
  BY DEF PieceOf
<1> HIDE DEF P, contents
<1>3. \A i \in DOMAIN contents : contents[i].block \in DOMAIN blocks
  <2>1. \A i \in DOMAIN contents : contents[i] \in P
    BY <1>1
  <2>2. QED  BY <1>2, <2>1
<1>4. BlocksOf(contents) \subseteq DOMAIN blocks
  BY <1>3 DEF BlocksOf
<1>5. DOMAIN blocks \subseteq Nat
  BY <1>1
<1> HIDE DEF s, blocks
<1>6. \A b \in BlocksOf(contents) : <<s, b>> \in KeysOf(documents)
  <2> TAKE b \in BlocksOf(contents)
  <2>1. b \in DOMAIN blocks /\ b \in Nat
    BY <1>4, <1>5
  <2>2. b \in DOMAIN documents[s]
    BY <2>1 DEF blocks
  <2>3. QED  BY <1>1, <2>1, <2>2 DEF KeysOf
<1>7. KeysOfChunk(chunk) = {<<s, b>> : b \in BlocksOf(contents)}
  BY DEF KeysOfChunk, BlockKey, s, contents
<1>8. KeysOfChunk(chunk) \subseteq KeysOf(documents)
  BY <1>6, <1>7
<1>9. QED  BY <1>1, <1>4, <1>8 DEF s, contents, blocks

\* What is recorded is of the documents, and the unread is what was not analysed.
LEMMA RecordedBlocks ==
    ASSUME NEW budget, NEW documents, NEW n \in Nat, DOMAIN documents = 1 .. n,
           \A s \in 1 .. n : DOMAIN documents[s] \subseteq Nat,
           AllChunks(documents, budget) \in Seq(ChunksOf(documents, budget)),
           NEW ceiling \in Nat, NEW failed, NEW plan, plan = PlanChunks(documents, budget, ceiling)
    PROVE  /\ AnalysedBlocks(plan, failed) \in SUBSET KeysOf(documents)
           /\ UnanalysedBlocks(documents, plan, failed) \in SUBSET KeysOf(documents)
<1> DEFINE C == ChunksOf(documents, budget)
           chunks == AllChunks(documents, budget)
           m == Len(chunks)
           kept == Min({ceiling, m})
           first == SubSeq(chunks, 1, kept)
           K == KeysOf(documents)
<1>1. chunks \in Seq(C) /\ m \in Nat /\ \A c \in 1 .. m : chunks[c] \in C
  OBVIOUS
<1> HIDE DEF chunks, m
<1>2. kept \in Nat /\ kept <= m
  <2>1. ceiling \in Int /\ m \in Int
    BY <1>1
  <2>2. kept \in {ceiling, m} /\ kept <= m
    BY <2>1, Smaller
  <2>3. QED  BY <1>1, <2>2
<1>3. /\ plan.chunks = first
      /\ plan.unplaced = UNION {BlocksOf(chunks[c].contents) : c \in (ceiling + 1) .. m}
  BY DEF PlanChunks, chunks, m
<1> HIDE DEF kept
<1>4. first \in Seq(C)
  BY <1>1, <1>2, SubSeqProperties DEF m
<1> HIDE DEF first, C
<1>5. \A c \in DOMAIN first : first[c] \in C
  BY <1>4
<1>6. \A x \in C : /\ x.source \in DOMAIN documents /\ BlocksOf(x.contents) \subseteq DOMAIN documents[x.source]
                   /\ KeysOfChunk(x) \subseteq K
  BY ChunkKeys DEF C
<1>7. \A c \in DOMAIN plan.chunks : KeysOfChunk(plan.chunks[c]) \subseteq K
  BY <1>3, <1>5, <1>6
<1>8. AnalysedBlocks(plan, failed) \subseteq K
  <2>1. AnalysedBlocks(plan, failed) = UNION {KeysOfChunk(plan.chunks[c]) : c \in DOMAIN plan.chunks \ failed}
    BY DEF AnalysedBlocks, KeysOfChunk
  <2>2. QED  BY <1>7, <2>1
<1>9. ASSUME NEW b \in plan.unplaced
      PROVE  BlockKey(Min({s \in DOMAIN documents : b \in DOMAIN documents[s]}), b) \in K
  <2> DEFINE having == {s \in DOMAIN documents : b \in DOMAIN documents[s]}
             s0 == Min(having)
  <2>1. PICK c \in (ceiling + 1) .. m : b \in BlocksOf(chunks[c].contents)
    BY <1>3, <1>9
  <2>2. c \in 1 .. m
    BY <1>1, <2>1
  <2>3. chunks[c] \in C
    BY <1>1, <2>2
  <2>4. chunks[c].source \in having
    BY <1>6, <2>1, <2>3
  <2>5. IsFiniteSet(having) /\ having \subseteq Int
    <3>1. IsFiniteSet(1 .. n) /\ having \in SUBSET (1 .. n) /\ 1 .. n \subseteq Int
      BY FS_Interval
    <3> HIDE DEF having
    <3>2. IsFiniteSet(having)
      BY <3>1, FS_Subset
    <3>3. QED  BY <3>1, <3>2
  <2>6. s0 \in having
    <3>1. having # {}
      BY <2>4
    <3> HIDE DEF having
    <3>2. QED  BY <2>5, <3>1, Extremes
  <2>7. s0 \in DOMAIN documents /\ b \in DOMAIN documents[s0]
    BY <2>6
  <2> HIDE DEF s0
  <2>8. b \in Nat
    BY <2>7
  <2>9. <<s0, b>> \in K
    BY <2>7, <2>8 DEF KeysOf
  <2>10. QED  BY <2>9 DEF BlockKey, s0
<1>10. UnanalysedBlocks(documents, plan, failed) \subseteq K
  <2> DEFINE ofFailed == UNION {KeysOfChunk(plan.chunks[c]) : c \in DOMAIN plan.chunks \cap failed}
             dropped == {BlockKey(Min({s \in DOMAIN documents : b \in DOMAIN documents[s]}), b) :
                           b \in plan.unplaced}
  <2>1. UnanalysedBlocks(documents, plan, failed) = ofFailed \cup dropped
    BY DEF UnanalysedBlocks, KeysOfChunk
  <2>2. ofFailed \subseteq K
    BY <1>7
  <2>3. dropped \subseteq K
    BY <1>9
  <2>4. QED  BY <2>1, <2>2, <2>3
<1>11. QED  BY <1>8, <1>10

Read(plan, failed, s, b) ==
    \E c \in DOMAIN plan.chunks \ failed :
        plan.chunks[c].source = s /\ b \in BlocksOf(plan.chunks[c].contents)

LEMMA UnreadIs ==
    ASSUME NEW plan, NEW failed, NEW documents, NEW n \in Nat, DOMAIN documents = 1 .. n,
           \A s \in 1 .. n : DOMAIN documents[s] \subseteq Nat
    PROVE  UNION {{<<s, b>> : b \in {x \in DOMAIN documents[s] : ~Read(plan, failed, s, x)}} :
                    s \in DOMAIN documents}
              = KeysOf(documents) \ AnalysedBlocks(plan, failed)
<1>1. \A s, b : <<s, b>> \in AnalysedBlocks(plan, failed) <=> Read(plan, failed, s, b)
  <2>1. AnalysedBlocks(plan, failed)
           = UNION {{<<plan.chunks[c].source, b>> : b \in BlocksOf(plan.chunks[c].contents)} :
                      c \in DOMAIN plan.chunks \ failed}
    BY DEF AnalysedBlocks, BlockKey
  <2>2. QED  BY <2>1 DEF Read
<1>2. KeysOf(documents) = UNION {{<<s, b>> : b \in DOMAIN documents[s]} : s \in DOMAIN documents}
  <2>1. ASSUME NEW k \in KeysOf(documents)
        PROVE  k \in UNION {{<<s, b>> : b \in DOMAIN documents[s]} : s \in DOMAIN documents}
    <3>1. k = <<k[1], k[2]>> /\ k[1] \in DOMAIN documents /\ k[2] \in DOMAIN documents[k[1]]
      BY DEF KeysOf
    <3>2. QED  BY <3>1
  <2>2. ASSUME NEW s \in DOMAIN documents, NEW b \in DOMAIN documents[s]
        PROVE  <<s, b>> \in KeysOf(documents)
    BY DEF KeysOf
  <2>3. QED  BY <2>1, <2>2
<1>3. QED  BY <1>1, <1>2

\* What is handed to the chunker: documents as the extraction leaves them, and a ceiling.
IsReading(reading) ==
    reading.documents \in Seq(Seq(BlockOf(ChunkBudget))) /\ reading.ceiling \in Nat

\* No piece is lost or repeated, no chunk is too large, and what counts as unread is what was not read.
IsExact(reading) ==
    LET documents == reading.documents
        chunks == AllChunks(documents, ChunkBudget)
        plan == PlanChunks(documents, ChunkBudget, reading.ceiling)
        unread == UNION {{<<s, b>> : b \in {x \in DOMAIN documents[s] : ~Read(plan, reading.failed, s, x)}} :
                           s \in DOMAIN documents}
        recorded == Dispositions(documents, plan, reading.failed, {})
    IN  /\ \A s \in DOMAIN documents : Part(chunks, s) = PiecesOf(documents[s])
        /\ \A c \in DOMAIN chunks : SizeOf(chunks[c].contents) <= ChunkBudget
        /\ Coverage(recorded, [s \in DOMAIN documents |-> Len(documents[s])]).notAnalysed
              = Cardinality(unread)

LEMMA ReadingIsExact ==
    ASSUME ChunkBudget \in Nat, NEW reading, IsReading(reading)
    PROVE  IsExact(reading)
<1> DEFINE documents == reading.documents
           n == Len(documents)
           B == BlockOf(ChunkBudget)
           C == ChunksOf(documents, ChunkBudget)
           chunks == AllChunks(documents, ChunkBudget)
           plan == PlanChunks(documents, ChunkBudget, reading.ceiling)
           failed == reading.failed
           count == [s \in DOMAIN documents |-> Len(documents[s])]
           analysed == AnalysedBlocks(plan, failed)
           unanalysed == UnanalysedBlocks(documents, plan, failed)
           K == KeysOf(documents)
<1>1. documents \in Seq(Seq(B)) /\ reading.ceiling \in Nat
  BY DEF IsReading
<1> HIDE DEF documents, B
<1>2. n \in Nat /\ DOMAIN documents = 1 .. n /\ \A s \in 1 .. n : DOMAIN documents[s] \subseteq Nat
  <2>1. n \in Nat /\ DOMAIN documents = 1 .. n /\ \A s \in 1 .. n : documents[s] \in Seq(B)
    BY <1>1
  <2>2. \A d \in Seq(B) : DOMAIN d \subseteq Nat
    OBVIOUS
  <2>3. QED  BY <2>1, <2>2
<1>3. chunks \in Seq(C) /\ \A s \in DOMAIN documents : Part(chunks, s) = PiecesOf(documents[s])
  BY <1>1, AllChunksFacts DEF B
<1> HIDE DEF n, chunks
<1>4. \A c \in DOMAIN chunks : SizeOf(chunks[c].contents) <= ChunkBudget
  <2>1. \A x \in C : SizeOf(x.contents) <= ChunkBudget
    BY DEF ChunksOf
  <2> HIDE DEF C
  <2>2. \A c \in DOMAIN chunks : chunks[c] \in C
    BY <1>3
  <2>3. QED  BY <2>1, <2>2
<1>5. analysed \in SUBSET K /\ unanalysed \in SUBSET K
  <2>1. chunks \in Seq(C)
    BY <1>3
  <2>2. QED  BY <1>1, <1>2, <2>1, RecordedBlocks DEF chunks
<1> HIDE DEF plan
<1>6. IsFiniteSet(K) /\ CountOf(count) = Cardinality(K)
  <2>1. count = [s \in DOMAIN documents |-> Len(documents[s])]
    OBVIOUS
  <2> HIDE DEF count
  <2>2. QED  BY <1>1, <2>1, BlocksCounted
<1> HIDE DEF count, K, analysed, unanalysed
<1>7. Coverage(AssignDispositions(analysed, unanalysed, {}), count).notAnalysed = Cardinality(K \ analysed)
  BY <1>5, <1>6, NotAnalysedIs
<1>8. Dispositions(documents, plan, failed, {}) = AssignDispositions(analysed, unanalysed, {})
  BY DEF Dispositions, analysed, unanalysed
<1>9. UNION {{<<s, b>> : b \in {x \in DOMAIN documents[s] : ~Read(plan, failed, s, x)}} :
               s \in DOMAIN documents} = K \ analysed
  BY <1>2, UnreadIs DEF K, analysed
<1>10. QED  BY <1>3, <1>4, <1>7, <1>8, <1>9 DEF IsExact, documents, chunks, plan, count

\* The property ReadyIsComplete of every input, not only of those enumerated: of any documents, whose
\* blocks the extraction has split to the budget, any ceiling and any chunks that failed, and of any
\* review. (planChunks, reconcile, calculateCoverage, calculateAlignment and calculateBlockers)
THEOREM ReadyIsAlwaysComplete ==
    ASSUME ChunkBudget \in Nat,
           input.kind = "coverage" => IsReading(input),
           input.kind = "review" => IsReview(input)
    PROVE  ReadyIsComplete
<1>1. ASSUME input.kind = "coverage" PROVE IsExact(input)
  BY <1>1, ReadingIsExact
<1>2. ASSUME input.kind = "review"
      PROVE  /\ ApprovalBlockers(input) = {} => IncompleteReasons(input) \subseteq {"not_verified"}
             /\ Alignment(input).overall > IncompleteAlignmentCap =>
                   ApprovalBlockers(input) \cap {"empty_baseline", "untraceable_requirement",
                       "blocking_conflict", "unanswered_clarification", "unanalysed_content"} = {}
  BY <1>2, AlignedIsUnblocked
<1>3. QED  BY <1>1, <1>2 DEF ReadyIsComplete, IsExact, Part, Portion, Read
===============================================================================
