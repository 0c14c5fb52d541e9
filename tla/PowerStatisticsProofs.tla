----------------------- MODULE PowerStatisticsProofs -----------------------
(***************************************************************************)
(* Proofs about PowerStatistics, for tick counters and windows of every    *)
(* length and for every record: the average lies between the records of    *)
(* its window and fits its type, no peak gets lost, windows end in time    *)
(* and periods leave no record out.                                        *)
(***************************************************************************)
EXTENDS PowerStatistics, TLAPS

----------------------------------------------------------------------------
(* Arithmetic.                                                             *)

LEMMA Monotone ==
  ASSUME NEW a \in Int, NEW b \in Int, NEW y \in Nat, a <= b
  PROVE  y * a <= y * b
  BY SMT

LEMMA Division ==
  ASSUME NEW x \in Nat, NEW y \in Nat \ {0}
  PROVE  /\ x \div y \in Nat
         /\ y * (x \div y) <= x
         /\ x < y * (x \div y) + y
  BY SMT

\* The truncated quotient of a sum of y values lies between the least and
\* the greatest of them.
LEMMA QuotientIsBetween ==
  ASSUME NEW x \in Int, NEW y \in Nat \ {0}, NEW a \in Int, NEW b \in Int,
         y * a <= x, x <= y * b
  PROVE  /\ Quotient(x, y) \in Int
         /\ a <= Quotient(x, y)
         /\ Quotient(x, y) <= b
<1>1. CASE x < 0
  <2> DEFINE q == (-x) \div y
  <2>1. q \in Nat /\ y * q <= -x /\ -x < y * q + y
    BY <1>1, Division
  <2>2. Quotient(x, y) = -q
    BY <1>1 DEF Quotient
  <2> HIDE DEF q
  <2>3. y * (-q) = -(y * q) /\ y * (-q - 1) = -(y * q) - y
    BY <2>1, SMT
  <2>4. a <= -q
    <3> SUFFICES ASSUME -q + 1 <= a PROVE FALSE
      BY <2>1
    <3>1. y * (-q + 1) <= y * a /\ y * (-q + 1) = y * (-q) + y
      BY <2>1, Monotone, SMT
    <3> QED
      BY <2>1, <2>3, <3>1, SMT
  <2>5. -q <= b
    <3> SUFFICES ASSUME b <= -q - 1 PROVE FALSE
      BY <2>1
    <3>1. y * b <= y * (-q - 1)
      BY <2>1, Monotone, SMT
    <3> QED
      BY <2>1, <2>3, <3>1, SMT
  <2> QED
    BY <2>1, <2>2, <2>4, <2>5
<1>2. CASE ~(x < 0)
  <2> DEFINE q == x \div y
  <2>1. q \in Nat /\ y * q <= x /\ x < y * q + y
    BY <1>2, Division
  <2>2. Quotient(x, y) = q
    BY <1>2 DEF Quotient
  <2> HIDE DEF q
  <2>3. y * (q + 1) = y * q + y
    BY <2>1, SMT
  <2>4. a <= q
    <3> SUFFICES ASSUME q + 1 <= a PROVE FALSE
      BY <2>1
    <3>1. y * (q + 1) <= y * a
      BY <2>1, Monotone, SMT
    <3> QED
      BY <2>1, <2>3, <3>1, SMT
  <2>5. q <= b
    <3> SUFFICES ASSUME b <= q - 1 PROVE FALSE
      BY <2>1
    <3>1. y * b <= y * (q - 1) /\ y * (q - 1) = y * q - y
      BY <2>1, Monotone, SMT
    <3> QED
      BY <2>1, <3>1, SMT
  <2> QED
    BY <2>1, <2>2, <2>4, <2>5
<1> QED
  BY <1>1, <1>2

\* The sum of one value more.
LEMMA OneMoreRecord ==
  ASSUME NEW k \in Nat, NEW s \in Int, NEW c \in Int,
         NEW a \in Int, NEW b \in Int, NEW a1 \in Int, NEW b1 \in Int,
         k * a <= s, s <= k * b, a1 <= a, a1 <= c, b <= b1, c <= b1
  PROVE  (k + 1) * a1 <= s + c /\ s + c <= (k + 1) * b1
<1>1. k * a1 <= k * a /\ k * b <= k * b1
  BY Monotone
<1>2. (k + 1) * a1 = k * a1 + a1 /\ (k + 1) * b1 = k * b1 + b1
  BY SMT
<1> QED
  BY <1>1, <1>2, SMT

\* A sum of two values of the tick counter overflows at most once.
LEMMA Overflow ==
  ASSUME NEW x \in 0 .. TICKS - 1, NEW y \in Nat, y <= TICKS
  PROVE  (x + y) % TICKS = IF x + y < TICKS THEN x + y ELSE x + y - TICKS
<1>1. TICKS \in Nat /\ 0 < TICKS
  BY ClockAssumption
<1> QED
  BY <1>1, SMT

LEMMA QuotientIsNatural ==
  ASSUME NEW x \in Nat, NEW y \in Nat
  PROVE  Quotient(x, y) \in Nat
  BY Division DEF Quotient

\* The longer the period, the lower the frequency.
LEMMA FrequencyFits ==
  ASSUME period_length \in Nat
  PROVE  extadc_get_frequency \subseteq 0 .. UINT16 - 1
<1> DEFINE y == period_length * SAMPLE_TIME
           q == ONE_SECOND \div y
           top == ONE_SECOND \div SAMPLE_TIME
<1>1. ONE_SECOND \in Nat /\ SAMPLE_TIME \in Nat \ {0} /\ UINT16 \in Nat /\ top < UINT16
  BY SampleAssumption
<1>2. top \in Nat /\ ONE_SECOND < SAMPLE_TIME * top + SAMPLE_TIME
  BY <1>1, Division
<1>3. CASE period_length = 0
  BY <1>3 DEF extadc_get_frequency
<1>4. CASE period_length # 0
  <2>1. y \in Nat \ {0} /\ SAMPLE_TIME <= y
    BY <1>1, <1>4, SMT
  <2>2. q \in Nat /\ y * q <= ONE_SECOND
    BY <1>1, <2>1, Division
  <2>3. extadc_get_frequency = {q}
    BY <1>4 DEF extadc_get_frequency
  <2> HIDE DEF y, q, top
  <2>4. q <= top
    <3> SUFFICES ASSUME top + 1 <= q PROVE FALSE
      BY <1>2, <2>2
    <3>1. SAMPLE_TIME * (top + 1) <= SAMPLE_TIME * q
      BY <1>1, <1>2, <2>2, Monotone
    <3>2. q * SAMPLE_TIME <= q * y
      BY <1>1, <2>1, <2>2, Monotone
    <3>3. SAMPLE_TIME * (top + 1) = SAMPLE_TIME * top + SAMPLE_TIME
          /\ q * SAMPLE_TIME = SAMPLE_TIME * q /\ q * y = y * q
      BY <1>1, <1>2, <2>1, <2>2, SMT
    <3> QED
      BY <1>1, <1>2, <2>1, <2>2, <3>1, <3>2, <3>3, SMT
  <2> QED
    BY <1>1, <1>2, <2>2, <2>3, <2>4
<1> QED
  BY <1>3, <1>4

LEMMA AbsoluteValue ==
  ASSUME NEW x \in Int, -32767 <= x, x <= 32767
  PROVE  abs_i16(x) \in Nat /\ abs_i16(x) <= 32767
  BY DEF abs_i16

----------------------------------------------------------------------------
(* The inductive invariant.                                                *)

Numbers ==
  /\ tick \in 0 .. TICKS - 1 /\ start \in 0 .. TICKS - 1
  /\ age \in Nat /\ inTick \in Nat /\ n \in Nat /\ sum \in Int
  /\ step \in {None, "compare", "assign", "finish"}
  /\ rising \in BOOLEAN
  /\ counter \in Nat /\ cycles \in Nat /\ lengths \in Nat
  /\ unmeasured \in Nat /\ period_length \in Nat

Small ==
  /\ low \in Int /\ -32767 <= low /\ low <= 32767
  /\ high \in Int /\ -32767 <= high /\ high <= 32767
  /\ average \in Int /\ -32767 <= average /\ average <= 32767
  /\ peak \in Nat /\ peak <= 32767
  /\ hold \in Nat /\ hold <= 32767
  /\ unreported \in Nat /\ unreported <= 32767
  /\ voltPeak \in Nat /\ voltPeak <= 32767
  /\ threshold \in Nat /\ threshold <= 32767

\* The age of the window is what the tick counter and its start show, until
\* the counter comes round.
ClockInv ==
  age <= TICKS =>
    tick = IF start + age < TICKS THEN start + age ELSE start + age - TICKS

\* The sum is one of n values between low and high.
SumInv ==
  /\ step = None => n * low <= sum /\ sum <= n * high
  /\ step # None => sum = 0

\* While a peak is handed over it is known where the highest one is.
PeakInv ==
  /\ step = "assign" => unreported <= peak
  /\ step = "finish" => unreported <= hold

IInv ==
  /\ Numbers /\ Small
  /\ ClockInv /\ PublishedInTime
  /\ SumInv /\ AverageIsOfItsWindow
  /\ PeakInv /\ PeaksSurvive
  /\ PeriodsTileRecords

LEMMA Initially == Init => IInv
<1> SUFFICES ASSUME Init PROVE IInv
  OBVIOUS
<1>1. Numbers /\ Small
  BY ClockAssumption DEF Init, Numbers, Small
<1>2. ClockInv /\ PublishedInTime
  BY ClockAssumption DEF Init, ClockInv, PublishedInTime
<1>3. SumInv /\ AverageIsOfItsWindow
  BY DEF Init, SumInv, AverageIsOfItsWindow
<1>4. PeakInv /\ PeaksSurvive /\ PeriodsTileRecords
  BY ClockAssumption DEF Init, PeakInv, PeaksSurvive, Greater, PeriodsTileRecords
<1> QED
  BY <1>1, <1>2, <1>3, <1>4 DEF IInv

LEMMA TickStep == IInv /\ Tick => IInv'
<1> SUFFICES ASSUME IInv, Tick PROVE IInv'
  OBVIOUS
<1> USE DEF IInv
<1>1. /\ tick' = (tick + 1) % TICKS /\ age' = age + 1 /\ inTick' = 0
      /\ UNCHANGED <<start, averages, peaks, periods>>
  BY DEF Tick
<1>2. tick' = (IF tick + 1 < TICKS THEN tick + 1 ELSE tick + 1 - TICKS)
  BY <1>1, Overflow, ClockAssumption DEF Numbers
<1>3. Numbers' /\ Small'
  BY <1>1, <1>2, ClockAssumption DEF Numbers, Small, averages, peaks, periods
<1>4. ClockInv' /\ PublishedInTime'
  BY <1>1, <1>2, ClockAssumption DEF Numbers, ClockInv, PublishedInTime
<1>5. SumInv' /\ AverageIsOfItsWindow'
  BY <1>1 DEF SumInv, AverageIsOfItsWindow, averages, peaks
<1>6. PeakInv' /\ PeaksSurvive' /\ PeriodsTileRecords'
  BY <1>1 DEF PeakInv, PeaksSurvive, Greater, PeriodsTileRecords, peaks, periods
<1> QED
  BY <1>3, <1>4, <1>5, <1>6

\* A record of a window that goes on is not late.
LEMMA InTime ==
  ASSUME Numbers, ClockInv, ~WindowIsOver, age <= TICKS
  PROVE  \/ age <= WINDOW
         \/ start + WINDOW < TICKS /\ start + age >= TICKS
<1>1. WindowEnd = IF start + WINDOW < TICKS THEN start + WINDOW ELSE start + WINDOW - TICKS
  BY Overflow, ClockAssumption DEF WindowEnd, Numbers
<1> QED
  BY <1>1, ClockAssumption DEF WindowIsOver, Numbers, ClockInv

\* The record is in the sum, which is between the bounds of its window.
LEMMA RecordIsSummed ==
  ASSUME IInv, NEW c \in Int, NEW v \in Int, -32767 <= c, c <= 32767, Record(c, v)
  PROVE  \E l, h \in Int :
           /\ low' = l /\ -32767 <= l /\ l <= 32767
           /\ high' = h /\ -32767 <= h /\ h <= 32767
           /\ (n + 1) * l <= sum + c /\ sum + c <= (n + 1) * h
<1>1. /\ step = None
      /\ low' = IF n = 0 THEN c ELSE Less(low, c)
      /\ high' = IF n = 0 THEN c ELSE Greater(high, c)
  BY DEF Record
<1>2. n \in Nat /\ sum \in Int /\ low \in Int /\ high \in Int
  BY DEF IInv, Numbers, Small
<1>3. n * low <= sum /\ sum <= n * high
  BY <1>1 DEF IInv, SumInv
<1>4. CASE n = 0
  <2>1. sum = 0
    BY <1>2, <1>3, <1>4
  <2>2. low' = c /\ high' = c
    BY <1>1, <1>4
  <2>3. (n + 1) * c = c /\ sum + c = c
    BY <1>4, <2>1
  <2> QED
    BY <2>2, <2>3
<1>5. CASE n # 0
  <2> DEFINE l == Less(low, c)
             h == Greater(high, c)
  <2>1. low' = l /\ high' = h
    BY <1>1, <1>5
  <2>2. /\ l \in Int /\ l <= low /\ l <= c /\ l \in {low, c}
        /\ h \in Int /\ high <= h /\ c <= h /\ h \in {high, c}
    BY <1>2 DEF Less, Greater
  <2> HIDE DEF l, h
  <2>3. (n + 1) * l <= sum + c /\ sum + c <= (n + 1) * h
    BY <1>2, <1>3, <2>2, OneMoreRecord
  <2>4. -32767 <= l /\ l <= 32767 /\ -32767 <= h /\ h <= 32767
    BY <2>2 DEF IInv, Small
  <2> QED
    BY <2>1, <2>2, <2>3, <2>4
<1> QED
  BY <1>4, <1>5

LEMMA RecordStep ==
  ASSUME IInv, NEW r \in Records, Record(r[1], r[2])
  PROVE  IInv'
<1> DEFINE c == r[1]
           v == r[2]
<1>1. /\ c \in Int /\ -32767 <= c /\ c <= 32767
      /\ v \in Int /\ -32767 <= v /\ v <= 32767
  BY RecordsAssumption
<1> HIDE DEF c, v
<1>2. Record(c, v)
  BY DEF c, v
<1>3. /\ step = None /\ inTick' = inTick + 1 /\ n' = n + 1
      /\ peak' = Greater(peak, abs_i16(c))
      /\ unreported' = Greater(unreported, abs_i16(c))
      /\ voltPeak' = Greater(voltPeak, abs_i16(v))
      /\ unmeasured' = unmeasured + 1
      /\ UNCHANGED <<tick, start, age, hold, threshold, period_length>>
  BY <1>2 DEF Record
<1>4. PICK l \in Int, h \in Int :
        /\ low' = l /\ -32767 <= l /\ l <= 32767
        /\ high' = h /\ -32767 <= h /\ h <= 32767
        /\ (n + 1) * l <= sum + c /\ sum + c <= (n + 1) * h
  BY <1>1, <1>2, RecordIsSummed
<1>5. /\ rising' \in BOOLEAN /\ counter' \in Nat /\ lengths' \in Nat /\ cycles' \in Nat
      /\ unmeasured' = counter' + lengths'
  <2>1. MeasurePeriod(v)
    BY <1>2 DEF Record
  <2>2. /\ counter \in Nat /\ cycles \in Nat /\ lengths \in Nat /\ rising \in BOOLEAN
        /\ unmeasured = counter + lengths
    BY DEF IInv, Numbers, PeriodsTileRecords
  <2>3. rising' \in BOOLEAN
    BY <2>1, <2>2, Zenon DEF MeasurePeriod, Falls, Rises
  <2>4. \/ counter' = 0 /\ lengths' = lengths + counter + 1 /\ cycles' = cycles + 1
        \/ counter' = counter + 1 /\ lengths' = lengths /\ cycles' = cycles
    BY <2>1, Zenon DEF MeasurePeriod
  <2> QED
    BY <1>3, <2>2, <2>3, <2>4
<1>6. \/ ~WindowIsOver /\ sum' = sum + c /\ UNCHANGED <<average, step>>
      \/ WindowIsOver /\ average' = Average(c) /\ sum' = 0 /\ step' = "compare"
  BY <1>2 DEF Record
<1>7. /\ n \in Nat /\ sum \in Int /\ inTick \in Nat
      /\ average \in Int /\ -32767 <= average /\ average <= 32767
  BY DEF IInv, Numbers, Small
<1>8. WindowIsOver => average' \in Int /\ l <= average' /\ average' <= h
  <2> DEFINE s == sum + c
             k == n + 1
  <2>1. s \in Int /\ k \in Nat \ {0}
    BY <1>1, <1>7
  <2>2. k * l <= s /\ s <= k * h
    BY <1>4
  <2>3. WindowIsOver => average' = Quotient(s, k)
    BY <1>6 DEF Average
  <2> HIDE DEF s, k
  <2>4. Quotient(s, k) \in Int /\ l <= Quotient(s, k) /\ Quotient(s, k) <= h
    BY <2>1, <2>2, QuotientIsBetween
  <2> QED
    BY <2>3, <2>4
<1>9. Numbers'
  BY <1>1, <1>3, <1>5, <1>6, <1>7 DEF IInv, Numbers
<1>10. Small'
  <2>1. average' \in Int /\ -32767 <= average' /\ average' <= 32767
    BY <1>4, <1>6, <1>7, <1>8
  <2> QED
    BY <1>1, <1>3, <1>4, <2>1, AbsoluteValue DEF IInv, Small, Greater
<1>11. ClockInv' /\ PublishedInTime'
  <2>1. ClockInv'
    BY <1>3 DEF IInv, ClockInv
  <2>2. CASE WindowIsOver
    <3>1. step' # None
      BY <1>6, <2>2, ClockAssumption
    <3> QED
      BY <2>1, <3>1 DEF PublishedInTime
  <2>3. CASE ~WindowIsOver
    BY <1>3, <2>1, <2>3, InTime DEF IInv, PublishedInTime
  <2> QED
    BY <2>2, <2>3
<1>12. SumInv' /\ AverageIsOfItsWindow'
  <2>1. CASE WindowIsOver
    <3>1. step' = "compare" /\ sum' = 0 /\ step' # None
      BY <1>6, <2>1, ClockAssumption
    <3>2. low' <= average' /\ average' <= high'
      BY <1>4, <1>8, <2>1
    <3> QED
      BY <3>1, <3>2 DEF SumInv, AverageIsOfItsWindow
  <2>2. CASE ~WindowIsOver
    <3>1. step' = None /\ sum' = sum + c /\ n' # 0
      BY <1>3, <1>6, <1>7, <2>2
    <3> QED
      BY <1>3, <1>4, <3>1 DEF SumInv, AverageIsOfItsWindow
  <2> QED
    BY <2>1, <2>2
<1>13. PeakInv' /\ PeaksSurvive'
  <2>1. step' \in {None, "compare"} /\ step' # "assign" /\ step' # "finish"
    BY <1>3, <1>6, ClockAssumption
  <2> QED
    BY <1>1, <1>3, <2>1, AbsoluteValue DEF IInv, Small, PeakInv, PeaksSurvive, Greater
<1>14. PeriodsTileRecords'
  BY <1>5 DEF PeriodsTileRecords
<1> QED
  BY <1>9, <1>10, <1>11, <1>12, <1>13, <1>14 DEF IInv

LEMMA HandOverStep == IInv /\ (Compare \/ Assign) => IInv'
<1> SUFFICES ASSUME IInv, Compare \/ Assign PROVE IInv'
  OBVIOUS
<1> USE DEF IInv
<1>1. /\ step # None /\ step' # None /\ step' \in {"assign", "finish"}
      /\ UNCHANGED <<clock, averages, peak, unreported, periods>>
  BY ClockAssumption DEF Compare, Assign
<1>2. \/ step = "compare" /\ hold' = hold /\ step' = IF peak > hold THEN "assign" ELSE "finish"
      \/ step = "assign" /\ hold' = peak /\ step' = "finish"
  BY DEF Compare, Assign, IsHigher
<1>3. Numbers' /\ Small'
  BY <1>1, <1>2 DEF Numbers, Small, clock, averages, periods
<1>4. ClockInv' /\ PublishedInTime'
  BY <1>1 DEF ClockInv, PublishedInTime, clock
<1>5. SumInv' /\ AverageIsOfItsWindow'
  BY <1>1 DEF SumInv, AverageIsOfItsWindow, averages
<1>6. PeakInv' /\ PeaksSurvive'
  BY <1>1, <1>2 DEF Small, PeakInv, PeaksSurvive, Greater
<1>7. PeriodsTileRecords'
  BY <1>1 DEF PeriodsTileRecords, periods
<1> QED
  BY <1>3, <1>4, <1>5, <1>6, <1>7

LEMMA FinishStep == IInv /\ Finish => IInv'
<1> SUFFICES ASSUME IInv, Finish PROVE IInv'
  OBVIOUS
<1> USE DEF IInv
<1>1. /\ step = "finish" /\ step # None /\ step' = None
      /\ peak' = 0 /\ threshold' = voltPeak /\ voltPeak' = 0
      /\ period_length' = Quotient(lengths, cycles)
      /\ lengths' = 0 /\ cycles' = 0 /\ unmeasured' = unmeasured - lengths
      /\ start' = tick /\ age' = 0 /\ n' = 0
      /\ UNCHANGED <<tick, inTick, sum, low, high, average, hold, unreported, rising, counter>>
  BY ClockAssumption DEF Finish, StartWindow
<1>2. period_length' \in Nat
  BY <1>1, QuotientIsNatural DEF Numbers
<1>3. Numbers' /\ PeriodsTileRecords'
  BY <1>1, <1>2 DEF Numbers, PeriodsTileRecords
<1>4. Small'
  BY <1>1 DEF Small
<1>5. ClockInv' /\ PublishedInTime'
  BY <1>1, ClockAssumption DEF Numbers, ClockInv, PublishedInTime
<1>6. SumInv' /\ AverageIsOfItsWindow'
  BY <1>1 DEF SumInv, AverageIsOfItsWindow, Small
<1>7. PeakInv' /\ PeaksSurvive'
  BY <1>1, ClockAssumption DEF Small, PeakInv, PeaksSurvive, Greater
<1> QED
  BY <1>3, <1>4, <1>5, <1>6, <1>7

LEMMA GetMaxStep == IInv /\ extadc_get_currents_max => IInv'
<1> SUFFICES ASSUME IInv, extadc_get_currents_max PROVE IInv'
  OBVIOUS
<1> USE DEF IInv
<1>1. /\ hold' = 0
      /\ unreported' = IF hold >= unreported THEN 0 ELSE unreported
      /\ UNCHANGED <<clock, averages, peak, step, periods>>
  BY DEF extadc_get_currents_max
<1>2. Numbers' /\ Small'
  BY <1>1 DEF Numbers, Small, clock, averages, periods
<1>3. ClockInv' /\ PublishedInTime'
  BY <1>1 DEF ClockInv, PublishedInTime, clock, averages
<1>4. SumInv' /\ AverageIsOfItsWindow'
  BY <1>1 DEF SumInv, AverageIsOfItsWindow, averages
<1>5. PeakInv' /\ PeaksSurvive'
  BY <1>1 DEF Small, PeakInv, PeaksSurvive, Greater
<1>6. PeriodsTileRecords'
  BY <1>1 DEF PeriodsTileRecords, periods
<1> QED
  BY <1>2, <1>3, <1>4, <1>5, <1>6

LEMMA Stutter == IInv /\ UNCHANGED vars => IInv'
<1> SUFFICES ASSUME IInv, UNCHANGED vars PROVE IInv'
  OBVIOUS
<1> USE DEF IInv, vars, clock, averages, peaks, periods
<1>1. Numbers' /\ Small'
  BY DEF Numbers, Small
<1>2. ClockInv' /\ PublishedInTime' /\ SumInv' /\ AverageIsOfItsWindow'
  BY DEF ClockInv, PublishedInTime, SumInv, AverageIsOfItsWindow
<1>3. PeakInv' /\ PeaksSurvive' /\ PeriodsTileRecords'
  BY DEF PeakInv, PeaksSurvive, Greater, PeriodsTileRecords
<1> QED
  BY <1>1, <1>2, <1>3

LEMMA Inductive == Spec => []IInv
<1>1. IInv /\ [Next]_vars => IInv'
  <2> SUFFICES ASSUME IInv, [Next]_vars PROVE IInv'
    OBVIOUS
  <2>1. CASE Tick
    BY <2>1, TickStep
  <2>2. CASE \E r \in Records : Record(r[1], r[2])
    BY <2>2, RecordStep
  <2>3. CASE Compare \/ Assign
    BY <2>3, HandOverStep
  <2>4. CASE Finish
    BY <2>4, FinishStep
  <2>5. CASE extadc_get_currents_max
    BY <2>5, GetMaxStep
  <2>6. CASE UNCHANGED vars
    BY <2>6, Stutter
  <2> QED
    BY <2>1, <2>2, <2>3, <2>4, <2>5, <2>6 DEF Next
<1> QED
  BY Initially, <1>1, PTL DEF Spec

----------------------------------------------------------------------------
(* Theorems.                                                               *)

\* Averages, peaks and the frequency fit the 16 bits they are stored or returned
\* in, and every other variable has its type (task_external_adc.c:58-60, 317,
\* 702, 712).
THEOREM TypeCorrect == Spec => []TypeOK
<1>1. IInv => TypeOK
  <2> SUFFICES ASSUME IInv PROVE TypeOK
    OBVIOUS
  <2>1. Int16(low) /\ Int16(high) /\ Int16(average)
    BY DEF IInv, Small, Int16
  <2> QED
    BY <2>1, FrequencyFits DEF IInv, Numbers, Small, Magnitude, TypeOK
<1> QED
  BY Inductive, <1>1, PTL

\* The published average lies between the least and the greatest record of
\* its window, for windows of every length (lines 628, 681, 702, 730).
THEOREM AverageOfWindow == Spec => []AverageIsOfItsWindow
<1>1. IInv => AverageIsOfItsWindow
  BY DEF IInv
<1> QED
  BY Inductive, <1>1, PTL

\* No peak is lost between the task and its reader, wherever the reader
\* comes in (lines 632-634, 710-715 and 276-283).
THEOREM NoPeakIsLost == Spec => []PeaksSurvive
<1>1. IInv => PeaksSurvive
  BY DEF IInv
<1> QED
  BY Inductive, <1>1, PTL

\* A window ends with the first record after its time, for every width of
\* the tick counter, unless the counter overflows and the end does not
\* (line 682).
THEOREM WindowsEndInTime == Spec => []PublishedInTime
<1>1. IInv => PublishedInTime
  BY DEF IInv
<1> QED
  BY Inductive, <1>1, PTL

\* Periods leave no record out and count none twice, over any number of
\* windows (lines 592-600 and 724-726).
THEOREM PeriodsAreComplete == Spec => []PeriodsTileRecords
<1>1. IInv => PeriodsTileRecords
  BY DEF IInv
<1> QED
  BY Inductive, <1>1, PTL

============================================================================
