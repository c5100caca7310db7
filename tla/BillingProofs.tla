----------------------------- MODULE BillingProofs -----------------------------
(* What _ceil_div and compute_billing return, for every unit and duration. *)
EXTENDS Billing, FiniteSetTheorems, TLAPS

\* Integer division, the one fact about it that the proofs use.
LEMMA DivBounds ==
    ASSUME NEW a \in Nat, NEW b \in Nat \ {0}
    PROVE  a \div b \in Nat /\ b * (a \div b) <= a /\ a < b * (a \div b) + b
  OBVIOUS

\* _ceil_div is the ceiling: enough units, and not one too many.
LEMMA CeilDivIsCeiling ==
    ASSUME NEW s \in Nat, NEW u \in Nat \ {0}
    PROVE  /\ CeilDiv(s, u) \in Nat
           /\ s <= CeilDiv(s, u) * u
           /\ CeilDiv(s, u) > 0 => (CeilDiv(s, u) - 1) * u < s
  <1> DEFINE q == (s + u - 1) \div u
  <1>1. s + u - 1 \in Nat
    OBVIOUS
  <1>2. q \in Nat /\ u * q <= s + u - 1 /\ s + u - 1 < u * q + u
    BY <1>1, DivBounds
  <1> HIDE DEF q
  <1>3. s <= q * u
    BY <1>2
  <1>4. (q - 1) * u < s
    BY <1>2
  <1>5. CeilDiv(s, u) = q
    BY DEF CeilDiv, q
  <1> QED  BY <1>2, <1>3, <1>4, <1>5

\* TypeOK is an invariant of the running lease.
LEMMA TypeAlways == Spec => []TypeOK
  <1>1. Init => TypeOK
    BY BillingAssumption DEF Init, TypeOK
  <1>2. TypeOK /\ [Tick]_vars => TypeOK'
    BY BillingAssumption DEF TypeOK, Tick, vars
  <1> QED  BY <1>1, <1>2, PTL DEF Spec

\* Multiplication by a natural number keeps the order.
LEMMA MulMonotone ==
    ASSUME NEW b \in Nat, NEW x \in Int, NEW y \in Int, x <= y
    PROVE  b * x <= b * y
  <1>1. b * (y - x) >= 0
    OBVIOUS
  <1>2. b * (y - x) = b * y - b * x
    OBVIOUS
  <1> QED  BY <1>1, <1>2

\* What the bill leaves uncovered of the exact duration is less than a second,
\* and a further unit is charged only once a whole second of it has been used.
CoversToTheSecond ==
    unit \in SecondUnits /\ now >= started =>
        LET n == BilledUnits(started, now, unit)
            length == UnitSeconds[unit] * TicksPerSecond
        IN  /\ n \in Nat /\ n >= 1
            /\ now - started < n * length + TicksPerSecond
            /\ n > 1 => (n - 1) * length + TicksPerSecond <= now - started

\* Rounding down to seconds and up to units gives such a bill (lines 47 to 49
\* of billing.py).
LEMMA BillCovers == TypeOK => CoversToTheSecond
  <1> SUFFICES ASSUME TypeOK, unit \in SecondUnits, now >= started
               PROVE  LET n == BilledUnits(started, now, unit)
                          length == UnitSeconds[unit] * TicksPerSecond
                      IN  /\ n \in Nat /\ n >= 1
                          /\ now - started < n * length + TicksPerSecond
                          /\ n > 1 => (n - 1) * length + TicksPerSecond <= now - started
    BY DEF CoversToTheSecond
  <1> DEFINE k == TicksPerSecond
             d == now - started
             s == WholeSeconds(started, now)
             u == UnitSeconds[unit]
             c == CeilDiv(s, u)
             n == AtLeastOne(c)
  <1>1. d \in Nat /\ u \in Nat \ {0} /\ k \in Nat \ {0}
    BY BillingAssumption DEF TypeOK
  <1>2. s \in Nat /\ k * s <= d /\ d < k * s + k
    BY <1>1, DivBounds DEF WholeSeconds
  <1>3. BilledUnits(started, now, unit) = n
    BY BillingAssumption DEF BilledUnits, TypeOK
  <1> HIDE DEF s, u, k, d
  <1>4. c \in Nat /\ s <= c * u /\ (c > 0 => (c - 1) * u < s)
    BY <1>1, <1>2, CeilDivIsCeiling
  <1> HIDE DEF c
  <1>5. /\ n \in Nat /\ n >= 1 /\ c <= n
        /\ n > 1 => n = c
    BY <1>4 DEF AtLeastOne
  <1> HIDE DEF n
  <1>6. d < n * (u * k) + k
    <2>1. u * c <= u * n
      BY <1>1, <1>4, <1>5, MulMonotone
    <2>2. s <= n * u /\ n * u \in Nat
      BY <1>1, <1>2, <1>4, <1>5, <2>1
    <2>3. k * s <= k * (n * u)
      BY <1>1, <1>2, <2>2, MulMonotone
    <2>4. k * (n * u) = n * (u * k)
      BY <1>1, <1>5
    <2> QED  BY <1>1, <1>2, <1>5, <2>3, <2>4
  <1>7. ASSUME n > 1 PROVE (n - 1) * (u * k) + k <= d
    <2>1. (n - 1) * u + 1 <= s /\ (n - 1) * u + 1 \in Int
      BY <1>1, <1>2, <1>4, <1>5, <1>7
    <2>2. k * ((n - 1) * u + 1) <= k * s
      BY <1>1, <1>2, <2>1, MulMonotone
    <2>3. k * ((n - 1) * u + 1) = (n - 1) * (u * k) + k
      BY <1>1, <1>5
    <2> QED  BY <1>1, <1>2, <1>5, <2>2, <2>3
  <1> QED  BY <1>3, <1>5, <1>6, <1>7 DEF u, k, d

\* The bill of a lease in a unit of seconds is the plan's ceiling of the exact
\* duration, less a last unit of which less than a second was used.
THEOREM BillIsPlanned == Spec => []PlanButForPartSeconds
  <1>1. TypeOK => PlanButForPartSeconds
    <2> SUFFICES ASSUME TypeOK, unit \in SecondUnits, now >= started
                 PROVE  PlanButForPartSeconds
      BY DEF PlanButForPartSeconds
    <2> DEFINE d == now - started
               k == TicksPerSecond
               z == UnitSeconds[unit] * TicksPerSecond
               n == BilledUnits(started, now, unit)
    <2>1. d \in Nat /\ k \in Nat \ {0} /\ UnitSeconds[unit] \in Nat \ {0}
      BY BillingAssumption DEF TypeOK
    <2>2. z \in Nat /\ k <= z
      <3>1. k * 1 <= k * UnitSeconds[unit]
        BY <2>1, MulMonotone
      <3> QED  BY <2>1, <3>1
    <2>3. n \in Nat /\ n >= 1 /\ d < n * z + k /\ (n > 1 => (n - 1) * z + k <= d)
      BY BillCovers DEF CoversToTheSecond
    <2> DEFINE Right(m) == /\ d <= m * z
                           /\ m > 1 => (m - 1) * z < d
                           /\ n = IF m > 1 /\ d < (m - 1) * z + k THEN m - 1 ELSE m
    <2> SUFFICES \E m \in 1 .. (d + 1) : Right(m)
      BY DEF PlanButForPartSeconds
    <2> HIDE DEF d, k, z, n
    <2>4. CASE d <= n * z
      <3>1. n > 1 => n <= d + 1
        <4> SUFFICES ASSUME n > 1 PROVE n <= d + 1
          OBVIOUS
        <4>1. (n - 1) * 1 <= (n - 1) * z
          BY <2>1, <2>2, <2>3, MulMonotone
        <4> QED  BY <2>1, <2>2, <2>3, <4>1
      <3>2. n \in 1 .. (d + 1)
        BY <2>1, <2>3, <3>1
      <3>3. Right(n)
        BY <2>1, <2>2, <2>3, <2>4
      <3> QED  BY <3>2, <3>3
    <2>5. CASE d > n * z
      <3>1. n * 1 <= n * z
        BY <2>1, <2>2, <2>3, MulMonotone
      <3>2. n + 1 \in 1 .. (d + 1)
        BY <2>1, <2>2, <2>3, <2>5, <3>1
      <3>3. (n + 1) * z = n * z + z /\ (n + 1) - 1 = n
        BY <2>2, <2>3
      <3>4. Right(n + 1)
        BY <2>1, <2>2, <2>3, <2>5, <3>3
      <3> QED  BY <3>2, <3>4
    <2>6. n * z \in Int
      BY <2>2, <2>3
    <2> QED  BY <2>1, <2>4, <2>5, <2>6
  <1> QED  BY <1>1, TypeAlways, PTL

\* One more in the numerator is at most one more in the quotient.
LEMMA DivStep ==
    ASSUME NEW a \in Nat, NEW b \in Nat \ {0}
    PROVE  (a + 1) \div b - a \div b \in {0, 1}
  <1> DEFINE p == a \div b
             q == (a + 1) \div b
  <1>1. p \in Nat /\ b * p <= a /\ a < b * p + b
    BY DivBounds
  <1>2. q \in Nat /\ b * q <= a + 1 /\ a + 1 < b * q + b
    BY DivBounds
  <1> HIDE DEF p, q
  <1>3. ASSUME q <= p - 1 PROVE FALSE
    <2>1. b * q <= b * (p - 1)
      BY <1>1, <1>2, <1>3, MulMonotone
    <2>2. b * (p - 1) = b * p - b
      BY <1>1
    <2> QED  BY <1>1, <1>2, <2>1, <2>2
  <1>4. ASSUME p + 2 <= q PROVE FALSE
    <2>1. b * (p + 2) <= b * q
      BY <1>1, <1>2, <1>4, MulMonotone
    <2>2. b * (p + 2) = b * p + b + b
      BY <1>1
    <2> QED  BY <1>1, <1>2, <2>1, <2>2
  <1>5. q - p \in {0, 1}
    BY <1>1, <1>2, <1>3, <1>4
  <1> QED  BY <1>5 DEF p, q

\* A tick later the month is the same or the next one.
LEMMA MonthStep ==
    ASSUME NEW t \in Int
    PROVE  MonthIndex(t) \in Nat /\ MonthIndex(t + 1) - MonthIndex(t) \in {0, 1}
  <1> DEFINE A == {b \in MonthStarts : b <= t}
             B == {b \in MonthStarts : b <= t + 1}
  <1>1. IsFiniteSet(MonthStarts)
    <2>1. IsFiniteSet(0 .. Horizon)
      BY BillingAssumption, FS_Interval
    <2> QED  BY <2>1, BillingAssumption, FS_Subset
  <1>2. IsFiniteSet(A) /\ Cardinality(A) \in Nat
    BY <1>1, FS_Subset, FS_CardinalityType
  <1>3. \A b \in MonthStarts : b \in Int
    BY BillingAssumption
  <1>4. MonthIndex(t) = Cardinality(A) /\ MonthIndex(t + 1) = Cardinality(B)
    BY DEF MonthIndex
  <1> HIDE DEF A, B
  <1>5. CASE t + 1 \in MonthStarts
    <2>1. B = A \cup {t + 1} /\ t + 1 \notin A
      BY <1>3, <1>5 DEF A, B
    <2>2. Cardinality(B) = Cardinality(A) + 1
      BY <1>2, <2>1, FS_AddElement
    <2> QED  BY <1>2, <1>4, <2>2
  <1>6. CASE t + 1 \notin MonthStarts
    <2>1. B = A
      BY <1>3, <1>6 DEF A, B
    <2> QED  BY <1>2, <1>4, <2>1
  <1> QED  BY <1>5, <1>6

\* The bill as compute_billing returns it, for a lease that has begun.
LEMMA BillForms ==
    ASSUME NEW a \in Nat, NEW e \in Nat, NEW u \in Units, e >= a
    PROVE  /\ u \in SecondUnits =>
                 BilledUnits(a, e, u) = AtLeastOne(CeilDiv(WholeSeconds(a, e), UnitSeconds[u]))
           /\ u \notin SecondUnits => BilledUnits(a, e, u) = MonthsOf(a, e)
  BY BillingAssumption DEF BilledUnits, Units

\* A tick more, then the same or one more: AtLeastOne keeps that.
LEMMA AtLeastOneStep ==
    ASSUME NEW x \in Int, NEW y \in Int, y - x \in {0, 1}
    PROVE  AtLeastOne(y) - AtLeastOne(x) \in {0, 1}
  BY DEF AtLeastOne

\* One more second is at most one more unit.
LEMMA CeilStep ==
    ASSUME NEW s \in Nat, NEW t \in Nat, t - s \in {0, 1}, NEW u \in Nat \ {0}
    PROVE  /\ CeilDiv(s, u) \in Int /\ CeilDiv(t, u) \in Int
           /\ CeilDiv(t, u) - CeilDiv(s, u) \in {0, 1}
  <1>1. s + u - 1 \in Nat
    OBVIOUS
  <1>2. CeilDiv(s, u) \in Nat /\ CeilDiv(t, u) \in Nat
    BY CeilDivIsCeiling
  <1>3. CASE t = s
    BY <1>2, <1>3
  <1>4. CASE t = s + 1
    <2>1. ((s + u - 1) + 1) \div u - (s + u - 1) \div u \in {0, 1}
      BY <1>1, DivStep
    <2>2. (s + u - 1) + 1 = t + u - 1
      BY <1>4
    <2> QED  BY <1>2, <2>1, <2>2 DEF CeilDiv
  <1> QED  BY <1>3, <1>4

\* The meter only runs forward, by at most one unit a tick.
THEOREM MeterIsMonotone == Spec => MeterRunsForward
  <1> DEFINE Forward == BilledUnits(started, now', unit) - BilledUnits(started, now, unit)
                           \in {0, 1}
  <1>1. TypeOK /\ [Tick]_vars => [Forward]_now
    <2> SUFFICES ASSUME TypeOK, Tick PROVE Forward
      BY DEF vars
    <2>1. /\ started \in Nat /\ now \in Nat /\ now' = now + 1 /\ now' \in Nat
          /\ unit \in Units /\ TicksPerSecond \in Nat \ {0}
      BY BillingAssumption DEF TypeOK, Tick
    <2>2. CASE now' < started
      <3>1. BilledUnits(started, now', unit) = 0 /\ BilledUnits(started, now, unit) = 0
        BY <2>1, <2>2 DEF BilledUnits
      <3> QED  BY <3>1
    <2>3. CASE now' = started
      <3>1. BilledUnits(started, now, unit) = 0
        BY <2>1, <2>3 DEF BilledUnits
      <3>2. BilledUnits(started, now', unit) = 1
        <4>1. CASE unit \in SecondUnits
          <5>1. UnitSeconds[unit] \in Nat \ {0}
            BY <4>1, BillingAssumption
          <5>2. WholeSeconds(started, now') = 0
            BY <2>1, <2>3 DEF WholeSeconds
          <5>3. CeilDiv(0, UnitSeconds[unit]) = 0
            BY <5>1 DEF CeilDiv
          <5> QED  BY <2>1, <2>3, <4>1, <5>2, <5>3, BillForms DEF AtLeastOne
        <4>2. CASE unit \notin SecondUnits
          <5>1. /\ MonthIndex(started - 1) \in Nat
                /\ MonthIndex(started) - MonthIndex(started - 1) \in {0, 1}
                /\ MonthIndex(started) \in Nat
            <6>1. started - 1 \in Int /\ (started - 1) + 1 = started
              BY <2>1
            <6> QED  BY <2>1, <6>1, MonthStep
          <5>2. BilledUnits(started, now', unit) = MonthsOf(started, started)
            BY <2>1, <2>3, <4>2, BillForms
          <5>3. MonthIndex(started - 1) - MonthIndex(started) + 1 \in {0, 1}
            BY <5>1
          <5> QED  BY <5>2, <5>3 DEF MonthsOf, AtLeastOne
        <4> QED  BY <4>1, <4>2
      <3> QED  BY <3>1, <3>2
    <2>4. CASE now >= started
      <3>1. CASE unit \in SecondUnits
        <4> DEFINE u == UnitSeconds[unit]
                   s == WholeSeconds(started, now)
                   t == WholeSeconds(started, now')
        <4>1. u \in Nat \ {0} /\ now - started \in Nat /\ now' - started = (now - started) + 1
          BY <2>1, <2>4, <3>1, BillingAssumption
        <4>2. s \in Nat /\ t \in Nat /\ t - s \in {0, 1}
          <5>1. (now - started) \div TicksPerSecond \in Nat
            BY <2>1, <4>1, DivBounds
          <5>2. ((now - started) + 1) \div TicksPerSecond
                   - (now - started) \div TicksPerSecond \in {0, 1}
            BY <2>1, <4>1, DivStep
          <5>3. ((now - started) + 1) \div TicksPerSecond \in Nat
            BY <2>1, <4>1, DivBounds
          <5> QED  BY <4>1, <5>1, <5>2, <5>3 DEF WholeSeconds
        <4>3. /\ BilledUnits(started, now, unit) = AtLeastOne(CeilDiv(s, u))
              /\ BilledUnits(started, now', unit) = AtLeastOne(CeilDiv(t, u))
          BY <2>1, <2>4, <3>1, BillForms
        <4> HIDE DEF s, t, u
        <4> QED  BY <4>1, <4>2, <4>3, CeilStep, AtLeastOneStep
      <3>2. CASE unit \notin SecondUnits
        <4>1. /\ BilledUnits(started, now, unit) = MonthsOf(started, now)
              /\ BilledUnits(started, now', unit) = MonthsOf(started, now')
          BY <2>1, <2>4, <3>2, BillForms
        <4>2. /\ now - 1 \in Int /\ (now - 1) + 1 = now /\ now' - 1 = now
          BY <2>1
        <4>3. /\ MonthIndex(now - 1) \in Nat /\ MonthIndex(now) \in Nat
              /\ MonthIndex(now) - MonthIndex(now - 1) \in {0, 1}
              /\ MonthIndex(started) \in Nat
          BY <2>1, <4>2, MonthStep
        <4> DEFINE x == MonthIndex(now - 1) - MonthIndex(started) + 1
                   y == MonthIndex(now) - MonthIndex(started) + 1
        <4>4. x \in Int /\ y \in Int /\ y - x \in {0, 1}
          BY <4>3
        <4>5. MonthsOf(started, now) = AtLeastOne(x) /\ MonthsOf(started, now') = AtLeastOne(y)
          BY <4>2 DEF MonthsOf
        <4> HIDE DEF x, y
        <4> QED  BY <4>1, <4>4, <4>5, AtLeastOneStep
      <3> QED  BY <3>1, <3>2
    <2> QED  BY <2>1, <2>2, <2>3, <2>4
  <1> QED  BY <1>1, TypeAlways, PTL DEF Spec, MeterRunsForward

\* The months that the lease has touched so far are consecutive.
MonthsTouched ==
    now > started =>
        /\ MonthIndex(started) <= MonthIndex(now - 1)
        /\ {MonthIndex(t) : t \in started .. (now - 1)}
              = MonthIndex(started) .. MonthIndex(now - 1)

\* A tick adds the month that it lies in: the last one again, or the next.
LEMMA MonthsTouchedStep == TypeOK /\ MonthsTouched /\ Tick => MonthsTouched'
  <1> SUFFICES ASSUME TypeOK, MonthsTouched, Tick, now' > started
               PROVE  /\ MonthIndex(started) <= MonthIndex(now' - 1)
                      /\ {MonthIndex(t) : t \in started .. (now' - 1)}
                            = MonthIndex(started) .. MonthIndex(now' - 1)
    BY DEF MonthsTouched, Tick
  <1>1. /\ started \in Nat /\ now \in Nat /\ now' = now + 1 /\ now' - 1 = now
        /\ started <= now
    BY BillingAssumption DEF TypeOK, Tick
  <1>2. \A t \in Nat : MonthIndex(t) \in Nat
    BY MonthStep
  <1>3. CASE started = now
    <2>1. started .. (now' - 1) = {started}
      BY <1>1, <1>3
    <2>2. {MonthIndex(t) : t \in started .. (now' - 1)} = {MonthIndex(started)}
      BY <2>1
    <2>3. MonthIndex(started) .. MonthIndex(started) = {MonthIndex(started)}
      BY <1>1, <1>2
    <2> QED  BY <1>1, <1>2, <1>3, <2>2, <2>3
  <1>4. CASE started < now
    <2> DEFINE a == MonthIndex(started)
               m == MonthIndex(now - 1)
               n == MonthIndex(now)
    <2>1. now > started
      BY <1>1, <1>4
    <2>2. a <= m /\ {MonthIndex(t) : t \in started .. (now - 1)} = a .. m
      BY <2>1 DEF MonthsTouched
    <2>3. started .. (now' - 1) = (started .. (now - 1)) \cup {now}
      BY <1>1, <1>4
    <2>4. {MonthIndex(t) : t \in started .. (now' - 1)}
             = {MonthIndex(t) : t \in started .. (now - 1)} \cup {MonthIndex(now)}
      BY <2>3
    <2>5. a \in Nat /\ m \in Nat /\ n \in Nat /\ n - m \in {0, 1}
      <3>1. now - 1 \in Nat /\ (now - 1) + 1 = now
        BY <1>1, <1>4
      <3> QED  BY <1>1, <1>2, <3>1, MonthStep
    <2> HIDE DEF a, m, n
    <2>6. (a .. m) \cup {n} = a .. n /\ a <= n
      BY <2>2, <2>5
    <2>7. {MonthIndex(t) : t \in started .. (now' - 1)} = a .. n
      BY <2>2, <2>4, <2>6 DEF n
    <2> QED  BY <1>1, <2>6, <2>7 DEF a, n
  <1> QED  BY <1>1, <1>3, <1>4

\* The bill of a monthly lease counts every calendar month that the half-open
\* interval [started, now) touches, and none twice, for any calendar.
THEOREM MonthsAreCalendarMonths == Spec => []CalendarMonths
  <1>1. Init => MonthsTouched
    <2> SUFFICES ASSUME Init, now > started PROVE FALSE
      BY DEF MonthsTouched
    <2> QED  BY BillingAssumption DEF Init
  <1>2. TypeOK /\ MonthsTouched /\ [Tick]_vars => MonthsTouched'
    <2>1. CASE Tick
      BY <2>1, MonthsTouchedStep
    <2>2. CASE UNCHANGED vars
      BY <2>2 DEF vars, MonthsTouched
    <2> QED  BY <2>1, <2>2
  <1>3. TypeOK /\ MonthsTouched => CalendarMonths
    <2> SUFFICES ASSUME TypeOK, MonthsTouched, unit = "month", now >= started
                 PROVE  BilledUnits(started, now, unit) =
                           AtLeastOne(Cardinality({MonthIndex(t) : t \in started .. (now - 1)}))
      BY DEF CalendarMonths
    <2>1. started \in Nat /\ now \in Nat /\ unit \in Units /\ unit \notin SecondUnits
      BY BillingAssumption DEF TypeOK
    <2>2. BilledUnits(started, now, unit)
             = AtLeastOne(MonthIndex(now - 1) - MonthIndex(started) + 1)
      BY <2>1, BillForms DEF MonthsOf
    <2>3. CASE now = started
      <3>1. started .. (now - 1) = {}
        BY <2>1, <2>3
      <3>2. {MonthIndex(t) : t \in started .. (now - 1)} = {}
        BY <3>1
      <3>3. Cardinality({MonthIndex(t) : t \in started .. (now - 1)}) = 0
        BY <3>2, FS_EmptySet
      <3>4. /\ MonthIndex(started - 1) \in Nat /\ MonthIndex(started) \in Nat
            /\ MonthIndex(started) - MonthIndex(started - 1) \in {0, 1}
        <4>1. started - 1 \in Int /\ (started - 1) + 1 = started
          BY <2>1
        <4> QED  BY <2>1, <4>1, MonthStep
      <3>5. AtLeastOne(MonthIndex(started - 1) - MonthIndex(started) + 1) = 1 /\ AtLeastOne(0) = 1
        BY <3>4 DEF AtLeastOne
      <3> QED  BY <2>2, <2>3, <3>3, <3>5
    <2>4. CASE now > started
      <3> DEFINE a == MonthIndex(started)
                 m == MonthIndex(now - 1)
      <3>1. a \in Nat /\ m \in Nat
        <4>1. now - 1 \in Int
          BY <2>1
        <4> QED  BY <2>1, <4>1, MonthStep
      <3>2. a <= m /\ {MonthIndex(t) : t \in started .. (now - 1)} = a .. m
        BY <2>4 DEF MonthsTouched
      <3> HIDE DEF a, m
      <3>3. Cardinality(a .. m) = m - a + 1
        BY <3>1, <3>2, FS_Interval
      <3> QED  BY <2>2, <3>2, <3>3 DEF a, m
    <2> QED  BY <2>1, <2>3, <2>4
  <1> QED  BY <1>1, <1>2, <1>3, TypeAlways, PTL DEF Spec
================================================================================
