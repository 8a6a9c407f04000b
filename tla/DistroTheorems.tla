--------------------------- MODULE DistroTheorems ----------------------------
(***************************************************************************)
(* The halving schedule and x/distro, for any calendar, accounts,          *)
(* parameters and amounts.                                                 *)
(***************************************************************************)
EXTENDS Distro, SumTheorems

-----------------------------------------------------------------------------
(* Periods                                                                  *)

\* Schedules as Params.Validate lets them through.
IsSchedule(h) == h.month \in Nat /\ h.dayOfMonth \in Nat /\ h.months \in Nat \ {0}

\* The calendar reaches the end of the period.
Within(h, period) == h.month + period * h.months <= MaxMonth + 1

\* A later period starts after an earlier one ends, whichever days the months
\* between them lack: AddDate moves both ends by the same days.
LEMMA LaterPeriodStartsLater ==
  ASSUME NEW h, IsSchedule(h), NEW p \in Nat \ {0}, NEW q \in Nat \ {0},
         p < q, Within(h, q)
  PROVE  /\ PeriodEnd(h, p) \in Int /\ PeriodStart(h, q) \in Int
         /\ PeriodEnd(h, p) < PeriodStart(h, q)
<1>. DEFINE k == h.months
            m == h.month + p * k
            n == h.month + (q - 1) * k
<1>1. h.month \in Nat /\ k \in Nat /\ k > 0 /\ h.dayOfMonth \in Nat
  BY DEF IsSchedule
<1>2. p * k \in Nat /\ (q - 1) * k \in Nat /\ (q - 1) * k + k = q * k
  BY <1>1
<1>3. p * k <= (q - 1) * k
  <2>1. PICK j \in Nat : q - 1 = p + j
    <3>1. q - 1 - p \in Nat /\ q - 1 = p + (q - 1 - p)
      OBVIOUS
    <3>. QED BY <3>1
  <2>2. (q - 1) * k = p * k + j * k /\ j * k \in Nat
    BY <1>1, <2>1
  <2>. QED BY <1>2, <2>2
<1>4. m \in Nat /\ n \in Nat /\ m <= n /\ n <= MaxMonth + 1
  BY <1>1, <1>2, <1>3, CalendarAssumption DEF Within
<1>5. m \in 0 .. MaxMonth + 1 /\ n \in 0 .. MaxMonth + 1
  BY <1>4, CalendarAssumption
<1>6. MonthStart(m) \in Nat /\ MonthStart(n) \in Nat /\ MonthStart(m) <= MonthStart(n)
  <2>1. CASE m = n
    BY <1>5, <2>1, CalendarAssumption
  <2>2. CASE m < n
    BY <1>5, <2>2, CalendarAssumption
  <2>. QED BY <1>4, <2>1, <2>2
<1>7. PeriodEnd(h, p) = MonthStart(m) + h.dayOfMonth - 1
  BY DEF PeriodEnd
<1>8. PeriodStart(h, q) = MonthStart(n) + h.dayOfMonth
  BY DEF PeriodStart
<1>. QED BY <1>1, <1>6, <1>7, <1>8

\* No day lies in two periods: the loop of CurrentPeriod has no choice, and the
\* allocation of a day is that of one period.
THEOREM PeriodsDisjoint ==
  ASSUME NEW h, IsSchedule(h), NEW p \in Nat \ {0}, NEW q \in Nat \ {0},
         Within(h, p), Within(h, q),
         NEW date \in Nat, InPeriod(h, p, date), InPeriod(h, q, date)
  PROVE  p = q
<1>1. ASSUME NEW i \in Nat \ {0}, NEW j \in Nat \ {0}, i < j, Within(h, j),
             InPeriod(h, i, date), InPeriod(h, j, date)
      PROVE  FALSE
  <2>1. /\ PeriodEnd(h, i) \in Int /\ PeriodStart(h, j) \in Int
        /\ PeriodEnd(h, i) < PeriodStart(h, j)
    BY <1>1, LaterPeriodStartsLater
  <2>2. date <= PeriodEnd(h, i) /\ PeriodStart(h, j) <= date
    BY <1>1 DEF InPeriod
  <2>. QED BY <2>1, <2>2
<1>. QED BY <1>1

\* The day after a period's last is the first of the next: no day from the start
\* date on is left out.
THEOREM PeriodsAdjoin ==
  ASSUME NEW h, IsSchedule(h), NEW p \in Nat \ {0}, Within(h, p)
  PROVE  PeriodStart(h, p + 1) = PeriodEnd(h, p) + 1
<1>1. h.month + p * h.months \in 0 .. MaxMonth + 1
  <2>1. p * h.months \in Nat /\ h.month \in Nat
    BY DEF IsSchedule
  <2>. QED BY <2>1, CalendarAssumption DEF Within
<1>2. MonthStart(h.month + p * h.months) \in Nat
  BY <1>1, CalendarAssumption
<1>3. (p + 1) - 1 = p
  OBVIOUS
<1>4. PeriodStart(h, p + 1) = MonthStart(h.month + p * h.months) + h.dayOfMonth
  BY <1>3 DEF PeriodStart
<1>. QED BY <1>2, <1>4 DEF PeriodEnd, IsSchedule

\* Every day from the start date to the end of the last period lies in one
\* period, which is the one the loop of CurrentPeriod finds.
LEMMA PeriodOfDay ==
  ASSUME NEW h, IsSchedule(h), MaxPeriod > 0, Within(h, MaxPeriod), NEW date \in Nat,
         ~BeforeStart(h, date), date <= PeriodEnd(h, MaxPeriod)
  PROVE  LET c == CurrentPeriod(h, date)
         IN  /\ c \in 1 .. MaxPeriod
             /\ InPeriod(h, c, date)
             /\ {q \in 1 .. MaxPeriod : InPeriod(h, q, date)} = {c}
<1>. DEFINE T == {q \in 1 .. MaxPeriod : date <= PeriodEnd(h, q)}
            found == {q \in 1 .. MaxPeriod : InPeriod(h, q, date)}
<1>1. MaxPeriod \in Nat \ {0}
  BY CalendarAssumption
<1>2. \A q \in 1 .. MaxPeriod : Within(h, q)
  <2>. SUFFICES ASSUME NEW q \in 1 .. MaxPeriod
                PROVE  Within(h, q)
    OBVIOUS
  <2>1. h.month \in Nat /\ h.months \in Nat /\ MaxMonth \in Nat
    BY CalendarAssumption DEF IsSchedule
  <2>2. PICK j \in Nat : MaxPeriod = q + j
    <3>1. MaxPeriod - q \in Nat /\ MaxPeriod = q + (MaxPeriod - q)
      BY <1>1
    <3>. QED BY <3>1
  <2>3. MaxPeriod * h.months = q * h.months + j * h.months /\ j * h.months \in Nat
        /\ q * h.months \in Nat
    BY <2>1, <2>2
  <2>. QED BY <2>1, <2>3 DEF Within
<1>3. PICK p \in T : \A q \in T : p <= q
  <2>1. MaxPeriod \in T /\ T \in SUBSET Nat
    BY <1>1
  <2>. HIDE DEF T
  <2>. QED BY <2>1, LeastNumber
<1>4. p \in 1 .. MaxPeriod /\ p \in Nat \ {0} /\ date <= PeriodEnd(h, p)
  BY <1>1, <1>3
<1>5. PeriodStart(h, p) <= date
  <2>1. CASE p = 1
    <3>1. PeriodStart(h, 1) = StartDate(h)
      <4>1. h.month + (1 - 1) * h.months = h.month
        BY DEF IsSchedule
      <4>. QED BY <4>1 DEF PeriodStart, StartDate
    <3>2. StartDate(h) \in Int
      <4>1. h.month \in 0 .. MaxMonth + 1
        <5>1. h.month \in Nat /\ 1 * h.months \in Nat /\ Within(h, 1) /\ MaxMonth \in Nat
          BY <1>1, <1>2, CalendarAssumption DEF IsSchedule
        <5>. QED BY <5>1 DEF Within
      <4>2. MonthStart(h.month) \in Nat
        BY <4>1, CalendarAssumption
      <4>. QED BY <4>2 DEF StartDate, IsSchedule
    <3>. QED BY <2>1, <3>1, <3>2 DEF BeforeStart
  <2>2. CASE p # 1
    <3>. DEFINE q == p - 1
    <3>1. q \in Nat \ {0} /\ q \in 1 .. MaxPeriod /\ q < p /\ p = q + 1
      BY <1>1, <1>4, <2>2
    <3>2. ~(date <= PeriodEnd(h, q))
      BY <1>3, <1>4, <3>1
    <3>3. PeriodStart(h, p) = PeriodEnd(h, q) + 1 /\ PeriodEnd(h, q) \in Int
      <4>. HIDE DEF q
      <4>1. PeriodStart(h, q + 1) = PeriodEnd(h, q) + 1
        BY <1>2, <3>1, PeriodsAdjoin
      <4>2. PeriodEnd(h, q) \in Int
        BY <1>2, <1>4, <3>1, LaterPeriodStartsLater
      <4>. QED BY <3>1, <4>1, <4>2
    <3>. QED BY <3>2, <3>3
  <2>. QED BY <2>1, <2>2
<1>6. found = {p}
  <2>1. p \in found
    BY <1>4, <1>5 DEF InPeriod
  <2>2. \A q \in found : q = p
    BY <1>2, <1>4, <2>1, PeriodsDisjoint
  <2>. QED BY <2>1, <2>2
<1>7. CurrentPeriod(h, date) = p
  <2>1. CurrentPeriod(h, date) = Min({p})
    BY <1>6 DEF CurrentPeriod
  <2>. QED BY <1>4, <2>1 DEF Min
<1>. QED BY <1>4, <1>5, <1>6, <1>7 DEF InPeriod

-----------------------------------------------------------------------------
(* Powers of two and halves                                                 *)

\* The powers in use are positive.
LEMMA PowerPositive ==
  ASSUME NEW n \in 0 .. MaxPeriod + ShiftWidth + 1
  PROVE  2^n \in Nat \ {0}
<1>. DEFINE T == {k \in 0 .. MaxPeriod + ShiftWidth + 1 : ~(2^k \in Nat \ {0})}
<1>1. T = {}
  <2>. SUFFICES ASSUME T # {} PROVE FALSE
    OBVIOUS
  <2>1. T \in SUBSET Nat
    OBVIOUS
  <2>2. PICK k \in T : \A j \in T : k <= j
    <3>. HIDE DEF T
    <3>. QED BY <2>1, LeastNumber
  <2>3. k # 0
    <3>1. 2^0 \in Nat \ {0}
      BY PowerAssumption
    <3>2. ASSUME k = 0 PROVE 2^k = 2^0
      BY <3>2, Zenon
    <3>. QED BY <2>2, <3>1, <3>2
  <2>. DEFINE j == k - 1
  <2>4. j \in 0 .. MaxPeriod + ShiftWidth /\ k = j + 1 /\ j \notin T
    BY <2>2, <2>3, CalendarAssumption
  <2>5. 2^j \in Nat \ {0}
    BY <2>4, CalendarAssumption
  <2>6. 2^k = 2 * 2^j
    <3>. HIDE DEF j
    <3>. QED BY <2>4, PowerAssumption
  <2>7. 2^k \in Nat \ {0}
    <3>. HIDE DEF j
    <3>. QED BY <2>5, <2>6
  <2>. QED BY <2>2, <2>7
<1>. QED BY <1>1

\* A smaller exponent gives a smaller power.
LEMMA PowerGrows ==
  ASSUME NEW m \in Nat, NEW n \in 0 .. MaxPeriod + ShiftWidth + 1, m < n
  PROVE  2^m < 2^n
<1>. DEFINE T == {k \in 0 .. MaxPeriod + ShiftWidth + 1 : m < k /\ ~(2^m < 2^k)}
<1>0. 2^m \in Nat \ {0}
  BY PowerPositive, CalendarAssumption
<1>1. T = {}
  <2>. SUFFICES ASSUME T # {} PROVE FALSE
    OBVIOUS
  <2>1. T \in SUBSET Nat
    OBVIOUS
  <2>2. PICK k \in T : \A j \in T : k <= j
    <3>. HIDE DEF T
    <3>. QED BY <2>1, LeastNumber
  <2>. DEFINE j == k - 1
  <2>3. j \in 0 .. MaxPeriod + ShiftWidth /\ k = j + 1 /\ j \notin T /\ m <= j
    BY <2>2, CalendarAssumption
  <2>4. 2^j \in Nat \ {0}
    <3>. HIDE DEF j
    <3>. QED BY <2>3, PowerPositive, CalendarAssumption
  <2>5. 2^k = 2 * 2^j
    <3>. HIDE DEF j
    <3>. QED BY <2>3, PowerAssumption
  <2>6. 2^m <= 2^j
    <3>1. CASE m = j
      <4>1. 2^m = 2^j
        BY <3>1
      <4>. QED BY <1>0, <4>1
    <3>2. CASE m < j
      BY <2>3, <2>4, <1>0, <3>2, CalendarAssumption
    <3>. QED BY <2>3, <3>1, <3>2
  <2>7. 2^m < 2^k
    <3>. HIDE DEF j
    <3>. QED BY <1>0, <2>4, <2>5, <2>6
  <2>. QED BY <2>2, <2>7
<1>. QED BY <1>1

\* Integer division: the quotient is the number of whole parts.
LEMMA Quotient ==
  ASSUME NEW a \in Nat, NEW b \in Nat \ {0}
  PROVE  /\ a \div b \in Nat
         /\ (a \div b) * b <= a
         /\ a < ((a \div b) + 1) * b
<1>. DEFINE d == a \div b
            r == a % b
<1>1. d \in Int /\ r \in 0 .. b - 1 /\ a = b * d + r
  OBVIOUS
<1>2. d \in Nat
  OBVIOUS
<1>. HIDE DEF d, r
<1>3. d * b = b * d /\ (d + 1) * b = b * d + b
  BY <1>1
<1>4. d * b \in Int /\ b * d \in Int
  BY <1>1
<1>5. d * b <= a /\ a < (d + 1) * b
  BY <1>1, <1>3, <1>4
<1>. QED BY <1>2, <1>5 DEF d

\* A positive factor cancels.
LEMMA Cancel ==
  ASSUME NEW x \in Int, NEW y \in Int, NEW b \in Nat \ {0}, x * b < y * b
  PROVE  x < y
<1>. SUFFICES ASSUME y <= x PROVE FALSE
  OBVIOUS
<1>1. PICK j \in Nat : x = y + j
  <2>1. x - y \in Nat /\ x = y + (x - y)
    OBVIOUS
  <2>. QED BY <2>1
<1>2. x * b = y * b + j * b /\ j * b \in Nat /\ y * b \in Int
  BY <1>1
<1>. QED BY <1>2

\* Halving a quotient once more loses at most one.
LEMMA Halving ==
  ASSUME NEW a \in Nat, NEW b \in Nat \ {0}
  PROVE  /\ a \div b \in Nat /\ a \div (2 * b) \in Nat
         /\ 2 * (a \div (2 * b)) <= a \div b
         /\ a \div b <= 2 * (a \div (2 * b)) + 1
<1>. DEFINE x == a \div b
            y == a \div (2 * b)
<1>1. x \in Nat /\ x * b <= a /\ a < (x + 1) * b
  BY Quotient
<1>2. y \in Nat /\ y * (2 * b) <= a /\ a < (y + 1) * (2 * b)
  <2>1. 2 * b \in Nat \ {0}
    OBVIOUS
  <2>. QED BY Zenon, <2>1, Quotient
<1>. HIDE DEF x, y
<1>3. y * (2 * b) = (2 * y) * b /\ (y + 1) * (2 * b) = (2 * y + 2) * b
  BY <1>2
<1>4. x * b \in Int /\ (x + 1) * b \in Int /\ (2 * y) * b \in Int /\ (2 * y + 2) * b \in Int
  BY <1>1, <1>2
<1>5. 2 * y < x + 1
  <2>1. (2 * y) * b < (x + 1) * b
    BY <1>1, <1>2, <1>3, <1>4
  <2>2. 2 * y \in Int /\ x + 1 \in Int
    BY <1>1, <1>2
  <2>. QED BY <2>1, <2>2, Cancel
<1>6. x < 2 * y + 2
  <2>1. x * b < (2 * y + 2) * b
    BY <1>1, <1>2, <1>3, <1>4
  <2>2. 2 * y + 2 \in Int /\ x \in Int
    BY <1>1, <1>2
  <2>. QED BY <2>1, <2>2, Cancel
<1>7. 2 * y <= x /\ x <= 2 * y + 1
  BY <1>1, <1>2, <1>5, <1>6
<1>. QED BY <1>1, <1>2, <1>7 DEF x, y

-----------------------------------------------------------------------------
(* What is released                                                         *)

\* Schedules whose periods the calendar holds.
Covered(h) ==
    IsSchedule(h) /\ h.maxSupply \in Nat /\ MaxPeriod > 0 /\ Within(h, MaxPeriod)

\* Days on which TotalDistributableAt has an answer.
Answered(h, date) ==
    /\ ~BeforeStart(h, date) /\ date <= PeriodEnd(h, MaxPeriod)
    /\ ~Panics(h, date)

Allocations(h) == [p \in 1 .. MaxPeriod |-> PeriodAllocation(h, p)]

\* What the first n periods release together.
Released(h, n) == SumFunctionOnSet(Allocations(h), 1 .. n)

\* The loop of TotalDistributableAt over the full periods.
LEMMA FullIsReleased ==
  ASSUME NEW h, NEW n \in 0 .. MaxPeriod
  PROVE  SumFunction([p \in 1 .. n |-> PeriodAllocation(h, p)]) = Released(h, n)
<1>. DEFINE f == [p \in 1 .. n |-> PeriodAllocation(h, p)]
            g == Allocations(h)
<1>1. \A x \in 1 .. n : f[x] = g[x]
  BY CalendarAssumption DEF Allocations
<1>2. IsFiniteSet(1 .. n) /\ DOMAIN f = 1 .. n
  BY FS_Interval, CalendarAssumption
<1>3. SumFunction(f) = SumFunctionOnSet(f, 1 .. n)
  <2>. HIDE DEF f
  <2>. QED BY <1>2 DEF SumFunction
<1>. HIDE DEF f, g
<1>4. SumFunctionOnSet(f, 1 .. n) = SumFunctionOnSet(g, 1 .. n)
  BY <1>1, <1>2, SumSame
<1>. QED BY <1>3, <1>4 DEF f, g, Released

\* A sum over 1 .. n is the sum over 1 .. m and the sum of the rest.
LEMMA SumUpTo ==
  ASSUME NEW f, NEW n \in Nat, NEW m \in 0 .. n, \A x \in 1 .. n : f[x] \in Nat
  PROVE  /\ SumFunctionOnSet(f, 1 .. m) \in Nat
         /\ SumFunctionOnSet(f, (m + 1) .. n) \in Nat
         /\ SumFunctionOnSet(f, 1 .. n)
              = SumFunctionOnSet(f, 1 .. m) + SumFunctionOnSet(f, (m + 1) .. n)
<1>. DEFINE S == 1 .. m
            T == (m + 1) .. n
<1>1. IsFiniteSet(S) /\ IsFiniteSet(T)
  BY FS_Interval
<1>2. S \cap T = {} /\ S \cup T = 1 .. n
  OBVIOUS
<1>3. \A x \in S \cup T : f[x] \in Nat /\ f[x] \in Int
  BY <1>2
<1>. HIDE DEF S, T
<1>4. SumFunctionOnSet(f, S \cup T) = SumFunctionOnSet(f, S) + SumFunctionOnSet(f, T)
  BY <1>1, <1>2, <1>3, SumDisjoint
<1>5. SumFunctionOnSet(f, S) \in Nat /\ SumFunctionOnSet(f, T) \in Nat
  BY <1>1, <1>3, SumNat
<1>6. SumFunctionOnSet(f, 1 .. n) = SumFunctionOnSet(f, S \cup T)
  BY <1>2, Zenon
<1>. QED BY <1>4, <1>5, <1>6 DEF S, T

\* The sum over a single element.
LEMMA SumOne ==
  ASSUME NEW f, NEW x, f[x] \in Int
  PROVE  SumFunctionOnSet(f, {x}) = f[x]
<1>1. IsFiniteSet({x}) /\ \A y \in {x} : f[y] \in Int
  BY FS_Singleton, Zenon
<1>2. SumFunctionOnSet(f, {x}) = f[x] + SumFunctionOnSet(f, {x} \ {x})
  BY <1>1, SumRemove
<1>3. SumFunctionOnSet(f, {x} \ {x}) = SumFunctionOnSet(f, {})
  <2>1. {x} \ {x} = {}
    OBVIOUS
  <2>. QED BY <2>1, Zenon
<1>. QED BY <1>2, <1>3, SumEmpty

\* One more period releases its allocation, and more periods no less.
LEMMA ReleasedGrows ==
  ASSUME NEW h, NEW n \in 1 .. MaxPeriod, NEW m \in 0 .. n,
         \A p \in 1 .. n : PeriodAllocation(h, p) \in Nat
  PROVE  /\ Released(h, m) \in Nat /\ Released(h, n) \in Nat
         /\ Released(h, m) <= Released(h, n)
         /\ m = n - 1 => Released(h, n) = Released(h, m) + PeriodAllocation(h, n)
<1>. DEFINE f == Allocations(h)
<1>1. \A x \in 1 .. n : f[x] = PeriodAllocation(h, x) /\ f[x] \in Nat
  BY CalendarAssumption DEF Allocations
<1>2. n \in Nat /\ n \in 1 .. n
  BY CalendarAssumption
<1>. HIDE DEF f
<1>3. /\ SumFunctionOnSet(f, 1 .. m) \in Nat
      /\ SumFunctionOnSet(f, (m + 1) .. n) \in Nat
      /\ SumFunctionOnSet(f, 1 .. n)
           = SumFunctionOnSet(f, 1 .. m) + SumFunctionOnSet(f, (m + 1) .. n)
  BY Zenon, <1>1, <1>2, SumUpTo
<1>4. ASSUME m = n - 1
      PROVE  SumFunctionOnSet(f, (m + 1) .. n) = PeriodAllocation(h, n)
  <2>1. (m + 1) .. n = {n}
    BY <1>2, <1>4
  <2>2. SumFunctionOnSet(f, {n}) = f[n]
    <3>1. f[n] \in Int
      BY <1>1, <1>2
    <3>. QED BY <3>1, SumOne
  <2>3. SumFunctionOnSet(f, (m + 1) .. n) = SumFunctionOnSet(f, {n})
    BY <2>1, Zenon
  <2>. QED BY <1>1, <1>2, <2>2, <2>3
<1>5. Released(h, m) = SumFunctionOnSet(f, 1 .. m)
  BY DEF Released, f
<1>6. Released(h, n) = SumFunctionOnSet(f, 1 .. n)
  BY DEF Released, f
<1>. QED BY <1>3, <1>4, <1>5, <1>6

\* The days of a period, and those of it that have come.
LEMMA DayCounts ==
  ASSUME NEW s \in Int, NEW e \in Int, NEW date \in Int, s <= date, date <= e
  PROVE  /\ DaysInRange(s, e) \in Nat \ {0}
         /\ DaysSinceStart(s, date) + 1 \in 1 .. DaysInRange(s, e)
         /\ date = e => DaysSinceStart(s, date) + 1 = DaysInRange(s, e)
<1>1. MaxSpan \in Nat
  BY CalendarAssumption
<1>2. \A x \in Nat : Min({x, MaxSpan}) = IF x <= MaxSpan THEN x ELSE MaxSpan
  BY <1>1 DEF Min
<1>3. \A x \in Nat : Max({x, 0}) = x
  BY DEF Max
<1>4. DaysBetween(s, e) = IF e - s <= MaxSpan THEN e - s ELSE MaxSpan
  BY <1>2 DEF DaysBetween
<1>5. DaysBetween(s, date) = IF date - s <= MaxSpan THEN date - s ELSE MaxSpan
  BY <1>2 DEF DaysBetween
<1>6. DaysBetween(s, date) \in Nat
  BY <1>1, <1>5
<1>7. DaysSinceStart(s, date) = DaysBetween(s, date)
  BY <1>3, <1>6 DEF DaysSinceStart
<1>. QED BY <1>1, <1>4, <1>5, <1>7 DEF DaysInRange

\* A share of a whole: c of b parts of a.
LEMMA Share ==
  ASSUME NEW a \in Nat, NEW b \in Nat \ {0}, NEW c \in 0 .. b, NEW d \in 0 .. c
  PROVE  /\ (a * c) \div b \in Nat /\ (a * c) \div b <= a
         /\ (a * d) \div b <= (a * c) \div b
         /\ c = b => (a * c) \div b = a
<1>1. a * c \in Nat /\ a * d \in Nat /\ a * b \in Nat
  OBVIOUS
<1>2. a * c <= a * b /\ a * d <= a * c
  <2>1. \A x \in Nat : \A y \in 0 .. x : a * y <= a * x
    <3>. SUFFICES ASSUME NEW x \in Nat, NEW y \in 0 .. x
                  PROVE  a * y <= a * x
      OBVIOUS
    <3>1. x - y \in Nat /\ x = y + (x - y)
      OBVIOUS
    <3>2. PICK z \in Nat : x = y + z
      BY <3>1
    <3>3. a * x = a * y + a * z /\ a * z \in Nat /\ a * y \in Nat
      BY <3>2
    <3>. QED BY <3>3
  <2>. QED BY <2>1
<1>3. \A x, y \in Nat : x <= y => x \div b <= y \div b
  OBVIOUS
<1>4. (a * b) \div b = a
  OBVIOUS
<1>. QED BY <1>1, <1>2, <1>3, <1>4

\* On a day with an answer TotalDistributableAt is between what the full
\* periods release and what they and the current one do, and it is that on the
\* period's last day.
LEMMA TotalBounds ==
  ASSUME NEW h, Covered(h), NEW date \in Nat, Answered(h, date)
  PROVE  LET c == CurrentPeriod(h, date)
             s == PeriodStart(h, c)
             e == PeriodEnd(h, c)
         IN  /\ c \in 1 .. MaxPeriod /\ InPeriod(h, c, date)
             /\ s \in Int /\ e \in Int
             /\ \A p \in 1 .. c : PeriodAllocation(h, p) \in Nat
             /\ TotalDistributableAt(h, date)
                  = Released(h, c - 1)
                    + (PeriodAllocation(h, c) * (DaysSinceStart(s, date) + 1))
                          \div DaysInRange(s, e)
             /\ TotalDistributableAt(h, date) \in Nat
             /\ Released(h, c - 1) <= TotalDistributableAt(h, date)
             /\ TotalDistributableAt(h, date) <= Released(h, c)
             /\ date = e => TotalDistributableAt(h, date) = Released(h, c)
<1>. DEFINE c == CurrentPeriod(h, date)
            s == PeriodStart(h, c)
            e == PeriodEnd(h, c)
            A == PeriodAllocation(h, c)
            days == DaysInRange(s, e)
            elapsed == DaysSinceStart(s, date) + 1
<1>1. c \in 1 .. MaxPeriod /\ InPeriod(h, c, date)
  BY PeriodOfDay DEF Covered, Answered
<1>2. s \in Int /\ e \in Int
  <2>1. /\ h.month \in Nat /\ h.dayOfMonth \in Nat /\ h.months \in Nat \ {0}
        /\ MaxMonth \in Nat /\ MaxPeriod \in Nat
    BY CalendarAssumption DEF Covered, IsSchedule
  <2>2. \A n \in 0 .. MaxPeriod : MonthStart(h.month + n * h.months) \in Nat
    <3>. SUFFICES ASSUME NEW n \in 0 .. MaxPeriod
                  PROVE  h.month + n * h.months \in 0 .. MaxMonth + 1
      BY CalendarAssumption
    <3>1. PICK j \in Nat : MaxPeriod = n + j
      <4>1. MaxPeriod - n \in Nat /\ MaxPeriod = n + (MaxPeriod - n)
        BY <2>1
      <4>. QED BY <4>1
    <3>2. MaxPeriod * h.months = n * h.months + j * h.months
          /\ j * h.months \in Nat /\ n * h.months \in Nat
      BY <2>1, <3>1
    <3>. QED BY <2>1, <3>2 DEF Covered, Within
  <2>3. c \in 0 .. MaxPeriod /\ c - 1 \in 0 .. MaxPeriod
    <3>. HIDE DEF c
    <3>. QED BY <1>1, <2>1
  <2>. HIDE DEF c
  <2>4. MonthStart(h.month + c * h.months) \in Nat
        /\ MonthStart(h.month + (c - 1) * h.months) \in Nat
    BY <2>2, <2>3
  <2>. QED BY <2>1, <2>4 DEF PeriodStart, PeriodEnd
<1>3. \A p \in 1 .. c : PeriodAllocation(h, p) \in Nat
  <2>. SUFFICES ASSUME NEW p \in 1 .. c
                PROVE  PeriodAllocation(h, p) \in Nat
    OBVIOUS
  <2>1. Divisor(p) # 0
    BY DEF Answered, Panics
  <2>. HIDE DEF c
  <2>2. /\ p \in 0 .. MaxPeriod + ShiftWidth + 1 /\ p # 0
        /\ ShiftWidth \in 0 .. MaxPeriod + ShiftWidth + 1
    BY <1>1, CalendarAssumption
  <2>3. 2^p \in Nat \ {0} /\ 2^ShiftWidth \in Nat \ {0}
    BY <2>2, PowerPositive
  <2>4. Divisor(p) \in Nat
    BY <2>3 DEF Divisor
  <2>. QED BY <2>1, <2>2, <2>4 DEF PeriodAllocation, Covered
<1>4. SumFunction([p \in 1 .. c - 1 |-> PeriodAllocation(h, p)]) = Released(h, c - 1)
  <2>. HIDE DEF c
  <2>1. c - 1 \in 0 .. MaxPeriod
    BY <1>1, CalendarAssumption
  <2>. QED BY <2>1, FullIsReleased
<1>5. /\ days \in Nat \ {0} /\ elapsed \in 1 .. days
      /\ date = e => elapsed = days
  <2>1. s <= date /\ date <= e /\ date \in Int
    BY <1>1 DEF InPeriod
  <2>. HIDE DEF c, s, e
  <2>. QED BY Zenon, <1>2, <2>1, DayCounts
<1>6. TotalDistributableAt(h, date) = Released(h, c - 1) + (A * elapsed) \div days
  <2>1. ~(days <= 0)
    <3>. HIDE DEF days
    <3>. QED BY <1>5
  <2>. QED BY <1>4, <2>1 DEF TotalDistributableAt
<1>7. /\ Released(h, c - 1) \in Nat /\ Released(h, c) = Released(h, c - 1) + A
      /\ A \in Nat
  <2>. HIDE DEF c
  <2>1. c - 1 \in 0 .. c /\ c \in 1 .. c
    BY <1>1, CalendarAssumption
  <2>2. /\ Released(h, c - 1) \in Nat
        /\ c - 1 = c - 1 => Released(h, c) = Released(h, c - 1) + PeriodAllocation(h, c)
    BY <1>1, <1>3, <2>1, ReleasedGrows
  <2>. QED BY <1>3, <2>1, <2>2
<1>8. /\ (A * elapsed) \div days \in Nat /\ (A * elapsed) \div days <= A
      /\ elapsed = days => (A * elapsed) \div days = A
  <2>. HIDE DEF A, elapsed, days
  <2>1. elapsed \in 0 .. days /\ 0 \in 0 .. elapsed
    BY <1>5
  <2>. QED BY <1>5, <1>7, <2>1, Share
<1>. DEFINE tda == TotalDistributableAt(h, date)
            share == (A * elapsed) \div days
<1>9. /\ tda \in Nat /\ Released(h, c - 1) <= tda /\ tda <= Released(h, c)
      /\ date = e => tda = Released(h, c)
  <2>1. tda = Released(h, c - 1) + share /\ share \in Nat /\ share <= A
        /\ (date = e => share = A)
    BY <1>5, <1>6, <1>8
  <2>. HIDE DEF tda, share, c, e, A
  <2>. QED BY <1>7, <2>1
<1>. QED BY <1>1, <1>2, <1>3, <1>6, <1>9

\* The limit never falls: neither within a period, nor where one ends.
THEOREM LimitGrows ==
  ASSUME NEW h, Covered(h), NEW d \in Nat, NEW date \in Nat, d <= date,
         Answered(h, d), Answered(h, date)
  PROVE  TotalDistributableAt(h, d) <= TotalDistributableAt(h, date)
<1>. DEFINE b == CurrentPeriod(h, d)
            c == CurrentPeriod(h, date)
            s == PeriodStart(h, c)
            e == PeriodEnd(h, c)
            x == TotalDistributableAt(h, d)
            y == TotalDistributableAt(h, date)
<1>1. /\ b \in 1 .. MaxPeriod /\ InPeriod(h, b, d) /\ x \in Nat /\ x <= Released(h, b)
      /\ PeriodStart(h, b) \in Int /\ PeriodEnd(h, b) \in Int
      /\ x = Released(h, b - 1)
               + (PeriodAllocation(h, b) * (DaysSinceStart(PeriodStart(h, b), d) + 1))
                     \div DaysInRange(PeriodStart(h, b), PeriodEnd(h, b))
  BY TotalBounds
<1>2. /\ c \in 1 .. MaxPeriod /\ InPeriod(h, c, date) /\ s \in Int /\ e \in Int
      /\ \A p \in 1 .. c : PeriodAllocation(h, p) \in Nat
      /\ y = Released(h, c - 1)
               + (PeriodAllocation(h, c) * (DaysSinceStart(s, date) + 1))
                     \div DaysInRange(s, e)
      /\ y \in Nat /\ Released(h, c - 1) <= y
  BY TotalBounds
<1>3. MaxPeriod \in Nat
  BY CalendarAssumption
<1>. HIDE DEF b, c, x, y
<1>4. CASE b < c
  <2>1. c - 1 \in 1 .. MaxPeriod /\ b \in 0 .. c - 1 /\ c - 1 \in 0 .. c
    BY <1>1, <1>2, <1>3, <1>4
  <2>2. \A p \in 1 .. c - 1 : PeriodAllocation(h, p) \in Nat
    BY <1>2, <1>3
  <2>3. /\ Released(h, b) \in Nat /\ Released(h, c - 1) \in Nat
        /\ Released(h, b) <= Released(h, c - 1)
    BY <2>1, <2>2, ReleasedGrows
  <2>. QED BY <1>1, <1>2, <2>3 DEF x, y
<1>5. CASE b = c
  <2>. DEFINE A == PeriodAllocation(h, c)
              days == DaysInRange(s, e)
              i == DaysSinceStart(s, d) + 1
              j == DaysSinceStart(s, date) + 1
  <2>1. x = Released(h, c - 1) + (A * i) \div days
    BY <1>1, <1>5
  <2>2. s <= d /\ d <= e /\ s <= date /\ date <= e
    BY <1>1, <1>2, <1>5 DEF InPeriod
  <2>3. days \in Nat \ {0} /\ i \in 1 .. days /\ j \in 1 .. days
    BY <1>2, <2>2, DayCounts
  <2>4. i <= j
    <3>1. i \in 1 .. DaysInRange(s, date) /\ DaysInRange(s, date) = j
      BY <1>2, <2>2, DayCounts
    <3>. HIDE DEF s, e
    <3>. QED BY <2>3, <3>1
  <2>5. Released(h, c - 1) \in Nat /\ A \in Nat
    <3>1. c - 1 \in 0 .. c /\ c \in 1 .. c
      BY <1>2, <1>3
    <3>. QED BY <1>2, <3>1, ReleasedGrows
  <2>6. y = Released(h, c - 1) + (A * j) \div days
    BY <1>2
  <2>. HIDE DEF A, days, i, j
  <2>7. /\ (A * j) \div days \in Nat /\ (A * i) \div days <= (A * j) \div days
    <3>1. j \in 0 .. days /\ i \in 0 .. j
      BY <2>3, <2>4
    <3>. QED BY <2>3, <2>5, <3>1, Share
  <2>8. (A * i) \div days \in Nat
    <3>1. i \in 0 .. days /\ 0 \in 0 .. i
      BY <2>3
    <3>. QED BY <2>3, <2>5, <3>1, Share
  <2>9. x <= y
    BY <2>1, <2>5, <2>6, <2>7, <2>8
  <2>. QED BY <2>9 DEF x, y
<1>6. CASE c < b
  <2>1. Within(h, b) /\ IsSchedule(h)
    <3>1. b \in Nat /\ MaxPeriod - b \in Nat /\ MaxPeriod = b + (MaxPeriod - b)
      BY <1>1, <1>3
    <3>2. PICK k \in Nat : MaxPeriod = b + k
      BY <3>1
    <3>3. h.months \in Nat /\ h.month \in Nat /\ MaxMonth \in Nat
      BY CalendarAssumption DEF Covered, IsSchedule
    <3>4. MaxPeriod * h.months = b * h.months + k * h.months
          /\ k * h.months \in Nat /\ b * h.months \in Nat
      BY <3>1, <3>2, <3>3
    <3>. QED BY <3>3, <3>4 DEF Covered, Within
  <2>2. c \in Nat \ {0} /\ b \in Nat \ {0}
    BY <1>1, <1>2, <1>3
  <2>3. PeriodEnd(h, c) < PeriodStart(h, b)
    BY <1>6, <2>1, <2>2, LaterPeriodStartsLater
  <2>4. PeriodStart(h, b) <= d /\ date <= PeriodEnd(h, c)
    BY <1>1, <1>2 DEF InPeriod
  <2>. QED BY <1>1, <1>2, <2>3, <2>4
<1>. QED BY <1>1, <1>2, <1>3, <1>4, <1>5, <1>6

-----------------------------------------------------------------------------
(* The limit of a day                                                       *)

AnsweredUpTo(h, date) == {d \in StartDate(h) .. date : ~Panics(h, d)}

\* The last day with an answer, when there is one.
LEMMA LastAnswered ==
  ASSUME NEW h, Covered(h), NEW date \in Nat, date <= PeriodEnd(h, MaxPeriod),
         PeriodEnd(h, MaxPeriod) \in Int
  PROVE  /\ StartDate(h) \in Nat
         /\ \A d \in AnsweredUpTo(h, date) : d \in Nat /\ d <= date /\ Answered(h, d)
         /\ AnsweredUpTo(h, date) # {} =>
               /\ Max(AnsweredUpTo(h, date)) \in AnsweredUpTo(h, date)
               /\ \A d \in AnsweredUpTo(h, date) : d <= Max(AnsweredUpTo(h, date))
<1>. DEFINE S == AnsweredUpTo(h, date)
            T == {date - d : d \in S}
<1>1. StartDate(h) \in Nat
  <2>1. h.month \in 0 .. MaxMonth + 1 /\ h.dayOfMonth \in Nat
    <3>1. /\ h.month \in Nat /\ MaxPeriod * h.months \in Nat /\ MaxMonth \in Nat
          /\ h.dayOfMonth \in Nat
      BY CalendarAssumption DEF Covered, IsSchedule
    <3>. QED BY <3>1 DEF Covered, Within
  <2>2. MonthStart(h.month) \in Nat
    BY <2>1, CalendarAssumption
  <2>. QED BY <2>1, <2>2 DEF StartDate
<1>2. \A d \in S : d \in Nat /\ d <= date /\ Answered(h, d)
  BY <1>1 DEF AnsweredUpTo, Answered, BeforeStart
<1>3. ASSUME S # {}
      PROVE  Max(S) \in S /\ \A d \in S : d <= Max(S)
  <2>. HIDE DEF S
  <2>1. T \in SUBSET Nat /\ T # {}
    BY <1>2, <1>3
  <2>2. PICK n \in T : \A m \in T : n <= m
    <3>. HIDE DEF T
    <3>. QED BY <2>1, LeastNumber
  <2>3. PICK x \in S : n = date - x
    BY <2>2
  <2>4. \A d \in S : x >= d
    BY <1>2, <2>2, <2>3
  <2>5. Max(S) \in S /\ \A d \in S : Max(S) >= d
    BY <2>3, <2>4, Zenon DEF Max
  <2>. QED BY <1>2, <2>5
<1>. QED BY <1>1, <1>2, <1>3

Smaller(x, y) == Min({x, y})

\* The smaller of two numbers.
LEMMA MinOfTwo ==
  ASSUME NEW x \in Int, NEW y \in Int
  PROVE  /\ Smaller(x, y) = x \/ Smaller(x, y) = y
         /\ Smaller(x, y) <= x /\ Smaller(x, y) <= y
<1>1. \E m \in {x, y} : \A z \in {x, y} : m <= z
  <2>1. CASE x <= y
    BY <2>1
  <2>2. CASE y <= x
    BY <2>2
  <2>. QED BY <2>1, <2>2
<1>. QED BY <1>1 DEF Min, Smaller

\* The limit of a day is a number, the answer of that day when it has one, and
\* no less than the limit of the day before.
LEMMA LimitFacts ==
  ASSUME NEW h, Covered(h), NEW date \in Nat, date <= PeriodEnd(h, MaxPeriod),
         PeriodEnd(h, MaxPeriod) \in Int
  PROVE  /\ Limit(h, date) \in Nat
         /\ ~BeforeStart(h, date) /\ ~Panics(h, date) =>
               \A n \in Int : n <= h.maxSupply /\ n <= TotalDistributableAt(h, date)
                                 => n <= Limit(h, date)
         /\ \A d \in Nat : d <= date => Limit(h, d) <= Limit(h, date)
<1>. DEFINE S(d) == AnsweredUpTo(h, d)
            tda(d) == TotalDistributableAt(h, d)
<1>0. h.maxSupply \in Nat
  BY DEF Covered
<1>1. \A d \in Nat :
         /\ S(d) = {} => Limit(h, d) = 0
         /\ S(d) # {} => Limit(h, d) = Smaller(h.maxSupply, tda(Max(S(d))))
  BY Zenon DEF Limit, AnsweredUpTo, Smaller
<1>2. ASSUME NEW d \in Nat, d <= date
      PROVE  /\ \A i \in S(d) : i \in Nat /\ i <= d /\ Answered(h, i)
             /\ S(d) # {} => Max(S(d)) \in S(d) /\ \A i \in S(d) : i <= Max(S(d))
  <2>1. d <= PeriodEnd(h, MaxPeriod)
    BY <1>2
  <2>. QED BY <1>2, <2>1, LastAnswered
<1>3. \A i \in Nat : Answered(h, i) => tda(i) \in Nat
  BY TotalBounds
<1>4. StartDate(h) \in Nat
  BY LastAnswered
<1>. HIDE DEF tda
<1>5. ASSUME NEW d \in Nat, d <= date
      PROVE  Limit(h, d) \in Nat
  <2>1. CASE S(d) = {}
    <3>1. Limit(h, d) = 0
      BY <1>1, <2>1, Zenon
    <3>. QED BY <3>1
  <2>2. CASE S(d) # {}
    <3>1. tda(Max(S(d))) \in Nat
      BY <1>2, <1>3, <1>5, <2>2
    <3>2. Smaller(h.maxSupply, tda(Max(S(d)))) = h.maxSupply \/ Smaller(h.maxSupply, tda(Max(S(d)))) = tda(Max(S(d)))
      BY <1>0, <3>1, MinOfTwo
    <3>. QED BY <1>0, <1>1, <1>5, <2>2, <3>1, <3>2
  <2>. QED BY <2>1, <2>2
<1>6. ASSUME ~BeforeStart(h, date), ~Panics(h, date), NEW n \in Int,
             n <= h.maxSupply, n <= tda(date)
      PROVE  n <= Limit(h, date)
  <2>1. date \in S(date)
    BY <1>4, <1>6 DEF AnsweredUpTo, BeforeStart
  <2>2. /\ Max(S(date)) \in Nat /\ Max(S(date)) <= date /\ date <= Max(S(date))
        /\ Answered(h, date)
    BY <1>2, <2>1
  <2>3. Max(S(date)) = date
    BY <2>2
  <2>4. Limit(h, date) = Smaller(h.maxSupply, tda(date))
    BY <1>1, <2>1, <2>3
  <2>5. tda(date) \in Nat
    BY <1>3, <2>2
  <2>6. Smaller(h.maxSupply, tda(date)) = h.maxSupply \/ Smaller(h.maxSupply, tda(date)) = tda(date)
    BY <1>0, <2>5, MinOfTwo
  <2>. QED BY <1>6, <2>4, <2>6
<1>7. ASSUME NEW d \in Nat, d <= date
      PROVE  Limit(h, d) <= Limit(h, date)
  <2>1. Limit(h, date) \in Nat
    BY <1>5
  <2>2. CASE S(d) = {}
    <3>1. Limit(h, d) = 0
      BY <1>1, <2>2, Zenon
    <3>. QED BY <2>1, <3>1
  <2>3. CASE S(d) # {}
    <3>. DEFINE i == Max(S(d))
                j == Max(S(date))
    <3>1. S(d) \subseteq S(date)
      BY <1>4, <1>7 DEF AnsweredUpTo
    <3>2. i \in S(d) /\ i \in Nat /\ Answered(h, i)
      BY <1>2, <1>7, <2>3
    <3>3. j \in S(date) /\ j \in Nat /\ Answered(h, j) /\ i <= j
      BY <1>2, <3>1, <3>2
    <3>4. Limit(h, d) = Smaller(h.maxSupply, tda(i))
      BY <1>1, <1>7, <2>3
    <3>5. Limit(h, date) = Smaller(h.maxSupply, tda(j))
      BY <1>1, <3>3
    <3>. HIDE DEF i, j
    <3>6. tda(i) \in Nat /\ tda(j) \in Nat
      BY <1>3, <3>2, <3>3
    <3>7. tda(i) <= tda(j)
      BY <3>2, <3>3, LimitGrows DEF tda
    <3>8. /\ Smaller(h.maxSupply, tda(i)) = h.maxSupply \/ Smaller(h.maxSupply, tda(i)) = tda(i)
          /\ Smaller(h.maxSupply, tda(i)) <= h.maxSupply
          /\ Smaller(h.maxSupply, tda(i)) <= tda(i)
      BY <1>0, <3>6, MinOfTwo
    <3>9. Smaller(h.maxSupply, tda(j)) = h.maxSupply \/ Smaller(h.maxSupply, tda(j)) = tda(j)
      BY <1>0, <3>6, MinOfTwo
    <3>. QED BY <1>0, <3>4, <3>5, <3>6, <3>7, <3>8, <3>9
  <2>. QED BY <2>2, <2>3
<1>. QED BY <1>5, <1>6, <1>7 DEF tda

-----------------------------------------------------------------------------
(* The module                                                               *)

\* The supply is what the accounts hold: a burn never takes it below zero.
SupplyHeld == supply = SumFunctionOnSet(balance, Account)

\* Valid parameters are a schedule whose periods hold every block day.
LEMMA ParamsCovered ==
  ASSUME TypeOK
  PROVE  /\ Covered(params) /\ params.maxSupply \in Nat \ {0}
         /\ PeriodEnd(params, MaxPeriod) \in Int
         /\ \A d \in 0 .. MaxDay : d \in Nat /\ d <= PeriodEnd(params, MaxPeriod)
<1>1. params \in ParamsSet /\ Validate(params)
  BY DEF TypeOK
<1>2. /\ params.month \in Nat /\ params.dayOfMonth \in Nat
      /\ params.months \in Nat \ {0} /\ params.maxSupply \in Nat \ {0}
      /\ params.month + MaxPeriod * params.months <= MaxMonth + 1
      /\ MaxDay <= PeriodEnd(params, MaxPeriod) /\ MaxDay \in Nat
      /\ MaxPeriod \in Nat \ {0}
  BY <1>1, DistroAssumption, CalendarAssumption DEF Validate
<1>3. Covered(params)
  BY <1>2 DEF Covered, IsSchedule, Within
<1>4. PeriodEnd(params, MaxPeriod) \in Int
  <2>1. params.month + MaxPeriod * params.months \in 0 .. MaxMonth + 1
    <3>1. MaxPeriod * params.months \in Nat
      BY <1>2
    <3>. QED BY <1>2, <3>1, CalendarAssumption
  <2>2. MonthStart(params.month + MaxPeriod * params.months) \in Nat
    BY <2>1, CalendarAssumption
  <2>. QED BY <1>2, <2>2 DEF PeriodEnd
<1>. QED BY <1>2, <1>3, <1>4

LEMMA DistroInit ==
  Init => TypeOK /\ SupplyHeld
<1>. SUFFICES ASSUME Init PROVE TypeOK /\ SupplyHeld
  OBVIOUS
<1>. USE DistroAssumption
<1>1. /\ params \in ParamsSet /\ Validate(params) /\ supply \in Nat /\ day = 0
      /\ provided = 0
      /\ balance = [a \in Account |-> IF a = Authority THEN supply ELSE 0]
  BY DEF Init, InitGenesis
<1>2. TypeOK
  BY <1>1 DEF TypeOK
<1>3. SumFunctionOnSet(balance, Account) = SumFunctionOnSet(balance, {Authority})
  <2>1. {Authority} \in SUBSET Account
    OBVIOUS
  <2>2. \A x \in Account : balance[x] \in Int
    BY <1>1
  <2>3. \A x \in Account \ {Authority} : balance[x] = 0
    BY <1>1
  <2>. QED BY <2>1, <2>2, <2>3, SumSupport
<1>4. SumFunctionOnSet(balance, {Authority}) = balance[Authority]
  <2>1. balance[Authority] \in Int
    BY <1>1
  <2>. QED BY Zenon, <2>1, SumOne
<1>. QED BY <1>1, <1>2, <1>3, <1>4 DEF SupplyHeld

\* Adding to one balance and to the supply, or taking from both.
LEMMA SupplyMoves ==
  ASSUME TypeOK, SupplyHeld, NEW a \in Account, NEW n \in Int, balance[a] + n \in Nat,
         supply' = supply + n, balance' = [balance EXCEPT ![a] = balance[a] + n]
  PROVE  supply' \in Nat /\ balance' \in [Account -> Nat] /\ SupplyHeld'
<1>1. balance \in [Account -> Nat] /\ balance' \in [Account -> Nat]
  BY DEF TypeOK
<1>2. balance'[a] = balance[a] + n /\ \A y \in Account \ {a} : balance'[y] = balance[y]
  BY <1>1
<1>3. SumFunctionOnSet(balance', Account)
        = SumFunctionOnSet(balance, Account) - balance[a] + balance'[a]
  <2>. DEFINE g == balance'
  <2>1. \A y \in Account : balance[y] \in Int /\ g[y] \in Int
    BY <1>1
  <2>2. \A y \in Account \ {a} : g[y] = balance[y]
    BY <1>2
  <2>. HIDE DEF g
  <2>3. SumFunctionOnSet(g, Account) = SumFunctionOnSet(balance, Account) - balance[a] + g[a]
    BY <2>1, <2>2, SumChange, DistroAssumption
  <2>. QED BY <2>3 DEF g
<1>4. SumFunctionOnSet(balance', Account) \in Nat
  <2>1. \A y \in Account : balance'[y] \in Nat
    BY <1>1
  <2>. QED BY Zenon, <2>1, SumNat, DistroAssumption
<1>5. supply \in Nat /\ balance[a] \in Nat
  BY <1>1 DEF TypeOK
<1>6. supply' = SumFunctionOnSet(balance', Account)
  BY <1>2, <1>3, <1>5 DEF SupplyHeld
<1>. QED BY <1>1, <1>4, <1>6 DEF SupplyHeld

LEMMA DistroStep ==
  TypeOK /\ SupplyHeld /\ [Next]_vars => TypeOK' /\ SupplyHeld'
<1>. SUFFICES ASSUME TypeOK, SupplyHeld, [Next]_vars
              PROVE  TypeOK' /\ SupplyHeld'
  OBVIOUS
<1>1. ASSUME NEW a \in Account, NEW n \in 0 .. MaxMint, Mint(a, n)
      PROVE  TypeOK' /\ SupplyHeld'
  <2>1. /\ params' = params /\ day' = day /\ params.receiver \in Account /\ n \in Nat
        /\ provided' = provided
        /\ supply' = supply + n
        /\ balance' = [balance EXCEPT ![params.receiver] = balance[params.receiver] + n]
    BY <1>1, DistroAssumption DEF Mint, TypeOK, Validate
  <2>2. balance[params.receiver] + n \in Nat /\ n \in Int
    BY <2>1 DEF TypeOK
  <2>3. supply' \in Nat /\ balance' \in [Account -> Nat] /\ SupplyHeld'
    BY Zenon, <2>1, <2>2, SupplyMoves
  <2>. QED BY <2>1, <2>3 DEF TypeOK, Validate
<1>2. ASSUME NEW a \in Account, NEW p \in ParamsSet, UpdateParams(a, p)
      PROVE  TypeOK' /\ SupplyHeld'
  BY <1>2 DEF UpdateParams, TypeOK, SupplyHeld, Validate
<1>3. ASSUME NEW a \in Account, NEW n \in 1 .. MaxMint, Burn(a, n)
      PROVE  TypeOK' /\ SupplyHeld'
  <2>1. /\ params' = params /\ day' = day /\ provided' = provided
        /\ n \in Nat /\ n <= balance[a]
        /\ supply' = supply - n /\ balance' = [balance EXCEPT ![a] = balance[a] - n]
        /\ balance[a] \in Nat /\ supply \in Nat
    BY <1>3, DistroAssumption DEF Burn, TypeOK
  <2>. DEFINE k == 0 - n
  <2>2. k \in Int /\ balance[a] + k \in Nat /\ supply - n = supply + k
        /\ balance[a] - n = balance[a] + k
    BY <2>1
  <2>. HIDE DEF k
  <2>3. supply' \in Nat /\ balance' \in [Account -> Nat] /\ SupplyHeld'
    <3>1. supply' = supply + k /\ balance' = [balance EXCEPT ![a] = balance[a] + k]
      BY Zenon, <2>1, <2>2
    <3>. QED BY Zenon, <2>2, <3>1, SupplyMoves
  <2>. QED BY <2>1, <2>3 DEF TypeOK, Validate
<1>4. CASE NextDay
  BY <1>4, DistroAssumption DEF NextDay, TypeOK, SupplyHeld, Validate
<1>5. ASSUME NEW n \in 1 .. MaxMint, MintProvision(n)
      PROVE  TypeOK' /\ SupplyHeld'
  <2>1. /\ params' = params /\ day' = day /\ provided' = provided + n
        /\ n \in Nat /\ FeeCollector \in Account /\ supply' = supply + n
        /\ balance' = [balance EXCEPT ![FeeCollector] = balance[FeeCollector] + n]
    BY <1>5, DistroAssumption DEF MintProvision
  <2>2. balance[FeeCollector] + n \in Nat /\ n \in Int /\ provided' \in Nat
    BY <2>1 DEF TypeOK
  <2>3. supply' \in Nat /\ balance' \in [Account -> Nat] /\ SupplyHeld'
    BY Zenon, <2>1, <2>2, SupplyMoves
  <2>. QED BY <2>1, <2>2, <2>3 DEF TypeOK, Validate
<1>6. CASE UNCHANGED vars
  BY <1>6 DEF vars, TypeOK, SupplyHeld, Validate
<1>. QED BY <1>1, <1>2, <1>3, <1>4, <1>5, <1>6 DEF Next

\* x/distro keeps valid parameters and amounts that are not negative, and every
\* token of the supply is in an account, whatever is minted, burnt or proposed.
THEOREM DistroTypes == Spec => [](TypeOK /\ SupplyHeld)
<1>1. Init => TypeOK /\ SupplyHeld
  BY DistroInit
<1>2. TypeOK /\ SupplyHeld /\ [Next]_vars => TypeOK' /\ SupplyHeld'
  BY DistroStep
<1>. QED BY <1>1, <1>2, PTL DEF Spec

\* Every block day from the start date on lies in exactly one period.
THEOREM DaysHaveOnePeriod == Spec => []OnePeriodPerDay
<1>1. TypeOK => OnePeriodPerDay
  <2>. SUFFICES ASSUME TypeOK, ~BeforeStart(params, day)
                PROVE  Cardinality({p \in 1 .. MaxPeriod : InPeriod(params, p, day)}) = 1
    BY DEF OnePeriodPerDay
  <2>. DEFINE c == CurrentPeriod(params, day)
              found == {p \in 1 .. MaxPeriod : InPeriod(params, p, day)}
  <2>1. Covered(params) /\ day \in Nat /\ day <= PeriodEnd(params, MaxPeriod)
    BY ParamsCovered DEF TypeOK
  <2>2. found = {c}
    BY <2>1, PeriodOfDay DEF Covered
  <2>3. Cardinality({c}) = 1
    BY FS_Singleton
  <2>. HIDE DEF c, found
  <2>4. Cardinality(found) = Cardinality({c})
    BY <2>2, Zenon
  <2>5. Cardinality(found) = 1
    BY <2>3, <2>4
  <2>. QED BY <2>5 DEF found
<1>. QED BY <1>1, DistroTypes, PTL

\* What a mint message leaves is within the limit of its day.
LEMMA MintsWithinLimit ==
  ASSUME TypeOK, NEW a \in Account, NEW n \in 0 .. MaxMint, Mint(a, n)
  PROVE  supply' <= Limit(params, day) /\ Limit(params, day) \in Nat
<1>1. /\ Covered(params) /\ params.maxSupply \in Nat
      /\ PeriodEnd(params, MaxPeriod) \in Int
      /\ \A d \in 0 .. MaxDay : d \in Nat /\ d <= PeriodEnd(params, MaxPeriod)
  BY ParamsCovered
<1>2. day \in 0 .. MaxDay /\ supply \in Nat /\ MaxDay \in Nat
  BY DistroAssumption DEF TypeOK
<1>3. /\ supply' = supply + n /\ n \in Nat
      /\ supply + n <= params.maxSupply
      /\ ~BeforeStart(params, day) /\ ~Panics(params, day)
      /\ supply + n <= TotalDistributableAt(params, day)
  BY DistroAssumption DEF Mint, ValidateMintingLimits
<1>4. supply + n \in Int
  BY <1>2, <1>3
<1>5. supply + n <= Limit(params, day)
  BY <1>1, <1>2, <1>3, <1>4, LimitFacts
<1>6. Limit(params, day) \in Nat
  BY <1>1, <1>2, LimitFacts
<1>. QED BY <1>3, <1>5, <1>6

\* The mint handler keeps to the schedule on every day: what it lets through is
\* within the limit of its own day, the limit of a later day is no smaller, and
\* what is beyond the limit x/mint has provided.
THEOREM SupplyWithinSchedule == Spec => WithinSchedule
<1>1. ASSUME TypeOK, [Next]_vars, supply <= Limit(params, day) + provided,
             params' = params
      PROVE  supply' <= Limit(params, day') + provided'
  <2>1. /\ Covered(params) /\ params.maxSupply \in Nat
        /\ PeriodEnd(params, MaxPeriod) \in Int
        /\ \A d \in 0 .. MaxDay : d \in Nat /\ d <= PeriodEnd(params, MaxPeriod)
    BY <1>1, ParamsCovered
  <2>2. /\ day \in 0 .. MaxDay /\ supply \in Nat /\ MaxDay \in Nat
        /\ provided \in Nat
    BY <1>1, DistroAssumption DEF TypeOK
  <2>3. \A d \in 0 .. MaxDay : Limit(params, d) \in Nat
    BY <2>1, LimitFacts
  <2>4. ASSUME NEW a \in Account, NEW n \in 0 .. MaxMint, Mint(a, n)
        PROVE  supply' <= Limit(params, day') + provided'
    <3>1. day' = day /\ provided' = provided /\ supply' \in Int
      BY <2>2, <2>4, DistroAssumption DEF Mint
    <3>2. supply' <= Limit(params, day)
      BY <1>1, <2>4, MintsWithinLimit
    <3>. QED BY <2>2, <2>3, <3>1, <3>2
  <2>5. ASSUME NEW a \in Account, NEW p \in ParamsSet, UpdateParams(a, p)
        PROVE  supply' <= Limit(params, day') + provided'
    BY <1>1, <2>5 DEF UpdateParams
  <2>6. ASSUME NEW a \in Account, NEW n \in 1 .. MaxMint, Burn(a, n)
        PROVE  supply' <= Limit(params, day') + provided'
    <3>1. supply' = supply - n /\ day' = day /\ provided' = provided /\ n \in Nat
      BY <2>6, DistroAssumption DEF Burn
    <3>. QED BY <1>1, <2>2, <2>3, <3>1
  <2>7. ASSUME NEW n \in 1 .. MaxMint, MintProvision(n)
        PROVE  supply' <= Limit(params, day') + provided'
    <3>1. /\ supply' = supply + n /\ day' = day /\ provided' = provided + n
          /\ n \in Nat
      BY <2>7, DistroAssumption DEF MintProvision
    <3>. QED BY <1>1, <2>2, <2>3, <3>1
  <2>8. CASE NextDay
    <3>1. /\ day' = day + 1 /\ day' \in 0 .. MaxDay /\ supply' = supply
          /\ provided' = provided
      BY <2>2, <2>8 DEF NextDay
    <3>. DEFINE tomorrow == day + 1
    <3>2. tomorrow \in 0 .. MaxDay /\ day <= tomorrow /\ day \in Nat
      BY <2>2, <3>1
    <3>. HIDE DEF tomorrow
    <3>3. Limit(params, day) <= Limit(params, tomorrow)
      BY <2>1, <3>2, LimitFacts
    <3>4. supply <= Limit(params, tomorrow) + provided
      BY <1>1, <2>2, <2>3, <3>2, <3>3
    <3>. QED BY <3>1, <3>4 DEF tomorrow
  <2>9. CASE UNCHANGED vars
    BY <1>1, <2>9 DEF vars
  <2>. QED BY <1>1, <2>4, <2>5, <2>6, <2>7, <2>8, <2>9 DEF Next
<1>2. ASSUME TypeOK, [Next]_vars, supply' > Limit(params', day')
      PROVE  supply' - supply <= provided' - provided
  <2>1. supply \in Nat /\ provided \in Nat
    BY <1>2 DEF TypeOK
  <2>2. ASSUME NEW a \in Account, NEW n \in 0 .. MaxMint, Mint(a, n)
        PROVE  FALSE
    <3>1. day' = day /\ params' = params /\ supply' \in Int
      BY <2>1, <2>2, DistroAssumption DEF Mint
    <3>2. supply' <= Limit(params, day) /\ Limit(params, day) \in Nat
      BY <1>2, <2>2, MintsWithinLimit
    <3>3. supply' > Limit(params, day)
      BY <1>2, <3>1
    <3>. QED BY <3>1, <3>2, <3>3
  <2>3. ASSUME NEW a \in Account, NEW p \in ParamsSet, UpdateParams(a, p)
        PROVE  supply' - supply <= provided' - provided
    BY <2>1, <2>3 DEF UpdateParams
  <2>4. ASSUME NEW a \in Account, NEW n \in 1 .. MaxMint, Burn(a, n)
        PROVE  supply' - supply <= provided' - provided
    BY <2>1, <2>4, DistroAssumption DEF Burn
  <2>5. ASSUME NEW n \in 1 .. MaxMint, MintProvision(n)
        PROVE  supply' - supply <= provided' - provided
    BY <2>1, <2>5, DistroAssumption DEF MintProvision
  <2>6. CASE NextDay
    BY <2>1, <2>6 DEF NextDay
  <2>7. CASE UNCHANGED vars
    BY <2>1, <2>7 DEF vars
  <2>. QED BY <1>2, <2>2, <2>3, <2>4, <2>5, <2>6, <2>7 DEF Next
<1>3. TypeOK /\ [Next]_vars =>
        [/\ supply <= Limit(params, day) + provided
            => supply' <= Limit(params, day') + provided' \/ params' # params
         /\ supply' > Limit(params', day')
            => supply' - supply <= provided' - provided]_vars
  BY <1>1, <1>2
<1>4. Spec => [](TypeOK) /\ [][Next]_vars
  BY DistroTypes, PTL DEF Spec
<1>. QED BY <1>3, <1>4, PTL DEF WithinSchedule

-----------------------------------------------------------------------------
(* What the periods release together                                        *)

\* As long as 1 << p does not lose its bit, it is the power of two.
LEMMA DivisorIsPower ==
  ASSUME NEW p \in 1 .. MaxPeriod, \A q \in 1 .. p : Divisor(q) # 0
  PROVE  \A q \in 1 .. p : Divisor(q) = 2^q
<1>. DEFINE W == ShiftWidth
<1>1. MaxPeriod \in Nat /\ W \in Nat /\ W \in 0 .. MaxPeriod + ShiftWidth + 1
  BY CalendarAssumption
<1>2. 2^W \in Nat \ {0}
  BY <1>1, PowerPositive
<1>3. p < W
  <2>. SUFFICES ASSUME W <= p PROVE FALSE
    BY <1>1
  <2>1. CASE W = 0
    <3>1. 2^W = 1
      BY <2>1, PowerAssumption, Zenon
    <3>2. 2^1 \in Int
      OBVIOUS
    <3>3. Divisor(1) = 0
      BY <3>1, <3>2 DEF Divisor
    <3>. QED BY <1>1, <3>3
  <2>2. CASE W # 0
    <3>1. W \in 1 .. p
      BY <1>1, <2>2
    <3>2. Divisor(W) = 0
      BY <1>2 DEF Divisor
    <3>. QED BY <3>1, <3>2
  <2>. QED BY <2>1, <2>2
<1>. SUFFICES ASSUME NEW q \in 1 .. p
              PROVE  Divisor(q) = 2^q
  OBVIOUS
<1>4. q \in Nat /\ q < W /\ q \in 0 .. MaxPeriod + ShiftWidth + 1
  BY <1>1, <1>3
<1>5. 2^q \in Nat \ {0} /\ 2^q < 2^W
  BY <1>1, <1>4, PowerPositive, PowerGrows
<1>. QED BY <1>2, <1>5 DEF Divisor

\* The halves of m up to the p-th.
Halves(m) == [q \in 1 .. MaxPeriod |-> m \div 2^q]

\* The first p halves leave the p-th half of m once more, and what p roundings
\* have left.
LEMMA HalvesLeave ==
  ASSUME NEW m \in Nat, NEW p \in 1 .. MaxPeriod
  PROVE  /\ SumFunctionOnSet(Halves(m), 1 .. p) \in Nat
         /\ m \div 2^p \in Nat
         /\ m - SumFunctionOnSet(Halves(m), 1 .. p)
              \in m \div 2^p .. (m \div 2^p) + p
<1>. DEFINE f == Halves(m)
            G(k) == SumFunctionOnSet(f, 1 .. k)
            x(k) == m \div 2^k
            Leaves(k) == x(k) <= m - G(k) /\ m - G(k) <= x(k) + k
            T == {k \in 0 .. MaxPeriod : ~Leaves(k)}
<1>1. MaxPeriod \in Nat /\ \A k \in 0 .. MaxPeriod : k \in 0 .. MaxPeriod + ShiftWidth + 1
  BY CalendarAssumption
<1>2. \A k \in 0 .. MaxPeriod : 2^k \in Nat \ {0}
  BY <1>1, PowerPositive
<1>3. \A k \in 0 .. MaxPeriod : x(k) \in Nat
  BY <1>2
<1>4. \A k \in 1 .. MaxPeriod : f[k] = x(k) /\ f[k] \in Nat
  BY <1>1, <1>3 DEF Halves
<1>. HIDE DEF f, x
<1>5. \A k \in 0 .. MaxPeriod : G(k) \in Nat
  <2>. SUFFICES ASSUME NEW k \in 0 .. MaxPeriod
                PROVE  G(k) \in Nat
    OBVIOUS
  <2>1. IsFiniteSet(1 .. k) /\ \A i \in 1 .. k : f[i] \in Nat
    BY <1>1, <1>4, FS_Interval
  <2>. QED BY <2>1, SumNat
<1>6. \A k \in 1 .. MaxPeriod : G(k) = G(k - 1) + x(k)
  <2>. SUFFICES ASSUME NEW k \in 1 .. MaxPeriod
                PROVE  G(k) = G(k - 1) + x(k)
    OBVIOUS
  <2>. DEFINE j == k - 1
  <2>1. k \in Nat /\ j \in 0 .. k /\ (j + 1) .. k = {k}
    BY <1>1
  <2>2. \A i \in 1 .. k : f[i] \in Nat
    BY <1>1, <1>4
  <2>3. SumFunctionOnSet(f, {k}) = f[k]
    <3>1. f[k] \in Int
      BY <1>4
    <3>. QED BY <3>1, SumOne
  <2>. HIDE DEF j
  <2>4. SumFunctionOnSet(f, 1 .. k)
          = SumFunctionOnSet(f, 1 .. j) + SumFunctionOnSet(f, (j + 1) .. k)
    BY <2>1, <2>2, SumUpTo
  <2>5. SumFunctionOnSet(f, (j + 1) .. k) = SumFunctionOnSet(f, {k})
    BY <2>1, Zenon
  <2>6. G(k) = G(j) + x(k)
    BY <1>4, <2>3, <2>4, <2>5
  <2>. QED BY <2>6 DEF j
<1>7. x(0) = m
  BY PowerAssumption DEF x
<1>8. \A k \in 1 .. MaxPeriod : 2 * x(k) <= x(k - 1) /\ x(k - 1) <= 2 * x(k) + 1
  <2>. SUFFICES ASSUME NEW k \in 1 .. MaxPeriod
                PROVE  2 * x(k) <= x(k - 1) /\ x(k - 1) <= 2 * x(k) + 1
    OBVIOUS
  <2>. DEFINE j == k - 1
  <2>1. j \in 0 .. MaxPeriod /\ j \in 0 .. MaxPeriod + ShiftWidth /\ k = j + 1
    BY <1>1, CalendarAssumption
  <2>. HIDE DEF j
  <2>2. 2^k = 2 * 2^j /\ 2^j \in Nat \ {0}
    BY <1>2, <2>1, PowerAssumption
  <2>. DEFINE b == 2^j
  <2>3. x(j) = m \div b /\ x(k) = m \div (2 * b)
    BY <2>2 DEF x
  <2>4. b \in Nat \ {0}
    BY <2>2
  <2>. HIDE DEF b
  <2>5. 2 * x(k) <= x(j) /\ x(j) <= 2 * x(k) + 1
    BY Zenon, <2>3, <2>4, Halving
  <2>. QED BY <2>5 DEF j
<1>9. G(0) = 0
  <2>1. 1 .. 0 = {}
    OBVIOUS
  <2>2. SumFunctionOnSet(f, 1 .. 0) = SumFunctionOnSet(f, {})
    BY <2>1, Zenon
  <2>. QED BY <2>2, SumEmpty
<1>. HIDE DEF G
<1>10. T = {}
  <2>. SUFFICES ASSUME T # {} PROVE FALSE
    OBVIOUS
  <2>1. T \in SUBSET Nat
    OBVIOUS
  <2>2. PICK k \in T : \A i \in T : k <= i
    <3>. HIDE DEF T
    <3>. QED BY <2>1, LeastNumber
  <2>3. k # 0
    <3>1. Leaves(0)
      BY <1>7, <1>9
    <3>. HIDE DEF Leaves
    <3>. QED BY <2>2, <3>1
  <2>. DEFINE j == k - 1
  <2>4. k \in 1 .. MaxPeriod /\ j \in 0 .. MaxPeriod /\ j \notin T /\ k = j + 1
    <3>. HIDE DEF Leaves
    <3>. QED BY <1>1, <2>2, <2>3
  <2>5. Leaves(j)
    BY <2>4
  <2>6. G(k) = G(j) + x(k) /\ 2 * x(k) <= x(j) /\ x(j) <= 2 * x(k) + 1
    BY <1>6, <1>8, <2>4
  <2>7. x(j) \in Nat /\ x(k) \in Nat /\ G(j) \in Nat
    BY <1>1, <1>3, <1>5, <2>4
  <2>8. Leaves(k)
    <3>. HIDE DEF j
    <3>. QED BY <1>1, <2>4, <2>5, <2>6, <2>7
  <2>. HIDE DEF Leaves
  <2>. QED BY <2>2, <2>8
<1>11. Leaves(p) /\ x(p) \in Nat /\ G(p) \in Nat
  <2>1. p \in 0 .. MaxPeriod
    BY <1>1
  <2>. QED BY <1>3, <1>5, <1>10, <2>1
<1>12. m - G(p) \in x(p) .. x(p) + p
  BY <1>1, <1>11
<1>. QED BY <1>11, <1>12 DEF G, x, f

\* On the last day of each period x/distro has released the halves so far, and
\* what is missing to the maximal supply is the last of them once more and at
\* most one unit per period.
THEOREM PeriodsReleaseHalves == Spec => []PeriodsRelease
<1>1. TypeOK => PeriodsRelease
  <2>. SUFFICES ASSUME TypeOK, NEW p \in 1 .. MaxPeriod,
                       day = PeriodEnd(params, p), ~Panics(params, day)
                PROVE  LET released == TotalDistributableAt(params, day)
                           m        == params.maxSupply
                       IN  /\ released = SumFunction([q \in 1 .. p |-> m \div 2^q])
                           /\ m - released \in m \div 2^p .. (m \div 2^p) + p
    BY DEF PeriodsRelease
  <2>. DEFINE m == params.maxSupply
              f == [q \in 1 .. p |-> m \div 2^q]
              g == Halves(m)
              A == Allocations(params)
              released == TotalDistributableAt(params, day)
  <2>1. /\ Covered(params) /\ day \in Nat /\ day <= PeriodEnd(params, MaxPeriod)
        /\ m \in Nat /\ MaxPeriod \in Nat
    BY ParamsCovered, CalendarAssumption DEF TypeOK
  <2>2. PeriodStart(params, p) <= day /\ StartDate(params) <= PeriodStart(params, p)
        /\ StartDate(params) \in Int /\ PeriodStart(params, p) \in Int
    <3>1. /\ params.month \in Nat /\ params.months \in Nat \ {0}
          /\ params.dayOfMonth \in Nat /\ MaxMonth \in Nat
          /\ params.month + MaxPeriod * params.months <= MaxMonth + 1
      BY <2>1, CalendarAssumption DEF Covered, IsSchedule, Within
    <3>. DEFINE k == params.months
                a == params.month + (p - 1) * k
                b == params.month + p * k
    <3>2. PICK j \in Nat : MaxPeriod = p + j
      <4>1. MaxPeriod - p \in Nat /\ MaxPeriod = p + (MaxPeriod - p)
        BY <2>1
      <4>. QED BY <4>1
    <3>3. /\ MaxPeriod * k = p * k + j * k /\ j * k \in Nat /\ p * k \in Nat
          /\ (p - 1) * k \in Nat /\ p * k = (p - 1) * k + k
      BY <2>1, <3>1, <3>2
    <3>4. /\ params.month \in 0 .. MaxMonth + 1 /\ a \in 0 .. MaxMonth + 1
          /\ b \in 0 .. MaxMonth + 1 /\ a < b /\ params.month <= a
      BY <3>1, <3>3
    <3>. HIDE DEF a, b
    <3>5. MonthStart(a) < MonthStart(b) /\ MonthStart(a) \in Nat /\ MonthStart(b) \in Nat
          /\ MonthStart(params.month) \in Nat
      BY <3>4, CalendarAssumption
    <3>6. MonthStart(params.month) <= MonthStart(a)
      <4>1. CASE params.month = a
        BY <3>5, <4>1
      <4>2. CASE params.month < a
        BY <3>4, <3>5, <4>2, CalendarAssumption
      <4>. QED BY <3>1, <3>4, <4>1, <4>2
    <3>7. /\ StartDate(params) = MonthStart(params.month) + params.dayOfMonth
          /\ PeriodStart(params, p) = MonthStart(a) + params.dayOfMonth
          /\ PeriodEnd(params, p) = MonthStart(b) + params.dayOfMonth - 1
      BY DEF StartDate, PeriodStart, PeriodEnd, a, b
    <3>. QED BY <3>1, <3>5, <3>6, <3>7
  <2>3. ~BeforeStart(params, day) /\ InPeriod(params, p, day) /\ Answered(params, day)
    BY <2>1, <2>2 DEF BeforeStart, InPeriod, Answered
  <2>4. CurrentPeriod(params, day) = p
    <3>. DEFINE found == {q \in 1 .. MaxPeriod : InPeriod(params, q, day)}
    <3>1. found = {CurrentPeriod(params, day)}
      BY <2>1, <2>3, PeriodOfDay DEF Covered
    <3>2. p \in found
      BY <2>3
    <3>. HIDE DEF found
    <3>. QED BY <3>1, <3>2
  <2>5. released = Released(params, p)
    BY <2>1, <2>3, <2>4, TotalBounds
  <2>6. \A q \in 1 .. p : A[q] = g[q] /\ f[q] = g[q]
    <3>. SUFFICES ASSUME NEW q \in 1 .. p
                  PROVE  A[q] = g[q] /\ f[q] = g[q]
      OBVIOUS
    <3>1. q \in 1 .. MaxPeriod /\ q # 0
      BY <2>1
    <3>2. Divisor(q) = 2^q
      BY <2>4, DivisorIsPower DEF Panics
    <3>3. A[q] = m \div 2^q
      BY <3>1, <3>2 DEF Allocations, PeriodAllocation
    <3>4. g[q] = m \div 2^q /\ f[q] = m \div 2^q
      BY <3>1 DEF Halves
    <3>. QED BY <3>3, <3>4
  <2>7. IsFiniteSet(1 .. p) /\ DOMAIN f = 1 .. p
    BY <2>1, FS_Interval
  <2>8. SumFunction(f) = SumFunctionOnSet(f, 1 .. p)
    <3>. HIDE DEF f
    <3>. QED BY <2>7 DEF SumFunction
  <2>. HIDE DEF f, g, A
  <2>9. SumFunctionOnSet(A, 1 .. p) = SumFunctionOnSet(g, 1 .. p)
    BY <2>6, <2>7, SumSame
  <2>10. SumFunctionOnSet(f, 1 .. p) = SumFunctionOnSet(g, 1 .. p)
    BY <2>6, <2>7, SumSame
  <2>11. released = SumFunctionOnSet(g, 1 .. p)
    BY <2>5, <2>9 DEF Released, A
  <2>12. m - released \in m \div 2^p .. (m \div 2^p) + p
    <3>1. m - SumFunctionOnSet(g, 1 .. p) \in m \div 2^p .. (m \div 2^p) + p
      BY Zenon, <2>1, HalvesLeave DEF g
    <3>. HIDE DEF released, m
    <3>. QED BY <2>11, <3>1
  <2>13. released = SumFunction(f)
    BY <2>8, <2>10, <2>11
  <2>. QED BY <2>12, <2>13 DEF f
<1>. QED BY <1>1, DistroTypes, PTL
==============================================================================
