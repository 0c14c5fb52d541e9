-------------------------- MODULE PowerStatistics --------------------------
(***************************************************************************)
(* What taskExternalADC calculates from its records, for one current and   *)
(* for the voltage l21: the average and the peak of a window of about one  *)
(* second, and the length of the period of the voltage.  The power, the    *)
(* temperatures, the effective values and the other channels are sums and  *)
(* peaks of the same kind and left out.                                    *)
(*                                                                         *)
(* The end of a window is found by comparing the tick counter, which       *)
(* overflows, with a sum that overflows likewise.  The peak is handed over *)
(* without a critical section: here extadc_get_currents_max, which reads   *)
(* and resets it, may come between the comparison and the assignment, more *)
(* than the low priority of its only caller, the RPC task, allows.         *)
(***************************************************************************)
EXTENDS Integers

CONSTANTS
  TICKS,              (* values of TickType_t                     (2^32)   *)
  WINDOW,             (* EFFECTIVE_CALCULATION_PERIOD_LENGTH_ms   (1000)   *)
  OVERFLOW,           (* records effectiving_test_possible_overflow is     *)
                      (* good for                                 (2^39)   *)
  PER_TICK,           (* records the DMA delivers in a tick         (13)   *)
  Records,            (* pairs of the current and the voltage of a record  *)
  AgeBound,           (* ticks a window may last, a bound for the checking *)
  PeriodBound,        (* records of a period, a bound for the checking     *)
  ONE_SECOND,         (* in the unit of the time of a sample      (10^8)   *)
  SAMPLE_TIME,        (* sample_time_us_over_10, which comes from the      *)
                      (* registers of the clock                   (3848)   *)
  UINT16,             (* values of uint16_t                       (65536)  *)
  None

ASSUME ClockAssumption ==
  /\ TICKS \in Nat /\ WINDOW \in Nat /\ WINDOW < TICKS
  /\ OVERFLOW \in Nat /\ PER_TICK \in Nat
  /\ AgeBound \in Nat /\ PeriodBound \in Nat
  /\ None \notin {"compare", "assign", "finish"}

\* There are less than 65536 records in a second.
ASSUME SampleAssumption ==
  /\ ONE_SECOND \in Nat /\ SAMPLE_TIME \in Nat \ {0} /\ UINT16 \in Nat
  /\ ONE_SECOND \div SAMPLE_TIME < UINT16

\* A record holds differences of 12-bit words, calibrated: it is far from
\* -32768, for which abs_i16 has no value in int16_t.
ASSUME RecordsAssumption ==
  \A r \in Records :
    /\ r[1] \in Int /\ -32767 <= r[1] /\ r[1] <= 32767
    /\ r[2] \in Int /\ -32767 <= r[2] /\ r[2] <= 32767

VARIABLES
  tick,               (* xTaskGetTickCount                                 *)
  inTick,             (* records processed in this tick                    *)
  start,              (* effective_calculation_period_start_ms             *)
  age,                (* ticks since then, without overflow                *)
  n,                  (* effectiving_n, the records of the window          *)
  sum,                (* currents_avging                                   *)
  low, high,          (* least and greatest current of the window, of the  *)
                      (* last one while the new one is empty               *)
  average,            (* power_currents_average                            *)
  peak,               (* currents_max_abs                                  *)
  hold,               (* power_currents_max                                *)
  step,               (* of publishing a window, None outside              *)
  unreported,         (* highest current nobody has been told of           *)
  rising,             (* period_length_histeresis_rising                   *)
  counter,            (* period_length_counter                             *)
  cycles,             (* period_avg_cycles_n                               *)
  lengths,            (* period_length_avging                              *)
  voltPeak,           (* voltages_max_abs[u_l21]                           *)
  threshold,          (* value_volt_l21_old_max_abs                        *)
  period_length,
  unmeasured          (* records that are not part of a published period   *)

clock == <<tick, inTick, start, age>>
averages == <<n, sum, low, high, average>>
peaks == <<peak, hold, step, unreported>>
periods == <<rising, counter, cycles, lengths, voltPeak, threshold, period_length, unmeasured>>
vars == <<clock, averages, peaks, periods>>

----------------------------------------------------------------------------
abs_i16(x) == IF x < 0 THEN -x ELSE x

Greater(x, y) == IF x < y THEN y ELSE x
Less(x, y) == IF x < y THEN x ELSE y

\* C truncates a quotient towards zero.  0 divided by 0 is 0 in the division of
\* 64 bits that gcc links; no other number is divided by 0 here.
Quotient(x, y) ==
  IF y = 0 THEN 0 ELSE IF x < 0 THEN -((-x) \div y) ELSE x \div y

\* Mutant of WindowEnd: the sum does not overflow.
WideWindowEnd == start + WINDOW

WindowEnd == (start + WINDOW) % TICKS

WindowIsOver == WindowEnd < tick

\* Mutant of Average: the record is added before it is counted.
AverageBeforeCount(current) == Quotient(sum + current, Greater(1, n))

Average(current) == Quotient(sum + current, n + 1)

----------------------------------------------------------------------------
Init ==
  /\ tick = 0 /\ inTick = 0 /\ start = 0 /\ age = 0
  /\ n = 0 /\ sum = 0 /\ low = 0 /\ high = 0 /\ average = 0
  /\ peak = 0 /\ hold = 0 /\ step = None /\ unreported = 0
  /\ rising = TRUE /\ counter = 0 /\ cycles = 0 /\ lengths = 0
  /\ voltPeak = 0 /\ threshold = 0 /\ period_length = 0 /\ unmeasured = 0

\* The tick interrupt.
Tick ==
  /\ age < AgeBound
  /\ tick' = (tick + 1) % TICKS
  /\ age' = age + 1
  /\ inTick' = 0
  /\ UNCHANGED <<start, averages, peaks, periods>>

\* The voltage leaves the band of the hysteresis, half the peak of the last
\* window on either side.
Falls(volt) == rising /\ volt < -(threshold \div 2)
Rises(volt) == ~rising /\ volt > threshold \div 2

\* Mutant of MeasurePeriod: a rising voltage also starts a period.
MeasureHalfPeriod(volt) ==
  /\ rising' = IF rising THEN ~Falls(volt) ELSE Rises(volt)
  /\ IF Falls(volt)
     THEN lengths' = lengths + counter + 1 /\ cycles' = cycles + 1
     ELSE UNCHANGED <<lengths, cycles>>
  /\ counter' = IF Falls(volt) \/ Rises(volt) THEN 0 ELSE counter + 1

\* The period ends with the record in which the voltage falls.
MeasurePeriod(volt) ==
  /\ rising' = IF rising THEN ~Falls(volt) ELSE Rises(volt)
  /\ IF Falls(volt)
     THEN counter' = 0 /\ lengths' = lengths + counter + 1 /\ cycles' = cycles + 1
     ELSE counter' = counter + 1 /\ UNCHANGED <<lengths, cycles>>

\* The task adds a record to the window and, once the window is over,
\* publishes the average.
Record(current, volt) ==
  /\ step = None /\ inTick < PER_TICK /\ counter < PeriodBound
  /\ inTick' = inTick + 1
  /\ n' = n + 1
  /\ low' = IF n = 0 THEN current ELSE Less(low, current)
  /\ high' = IF n = 0 THEN current ELSE Greater(high, current)
  /\ peak' = Greater(peak, abs_i16(current))
  /\ unreported' = Greater(unreported, abs_i16(current))
  /\ voltPeak' = Greater(voltPeak, abs_i16(volt))
  /\ unmeasured' = unmeasured + 1
  /\ MeasurePeriod(volt)
  /\ \/ ~WindowIsOver /\ sum' = sum + current /\ UNCHANGED <<average, step>>
     \/ WindowIsOver /\ average' = Average(current) /\ sum' = 0 /\ step' = "compare"
  /\ UNCHANGED <<tick, start, age, hold, threshold, period_length>>

\* Mutant of IsHigher: the last peak replaces the one nobody has read.
IsAnything == TRUE

IsHigher == peak > hold

\* The peak is handed over, in two steps.
Compare ==
  /\ step = "compare"
  /\ step' = IF IsHigher THEN "assign" ELSE "finish"
  /\ UNCHANGED <<clock, averages, peak, hold, unreported, periods>>

Assign ==
  /\ step = "assign"
  /\ hold' = peak
  /\ step' = "finish"
  /\ UNCHANGED <<clock, averages, peak, unreported, periods>>

\* Mutant of StartWindow: the records of the last window stay counted.
RestartClock == start' = tick /\ age' = 0 /\ UNCHANGED n

StartWindow == start' = tick /\ age' = 0 /\ n' = 0

\* The rest is published and a new window starts.
Finish ==
  /\ step = "finish"
  /\ step' = None
  /\ peak' = 0
  /\ threshold' = voltPeak /\ voltPeak' = 0
  /\ period_length' = Quotient(lengths, cycles)
  /\ lengths' = 0 /\ cycles' = 0 /\ unmeasured' = unmeasured - lengths
  /\ StartWindow
  /\ UNCHANGED <<tick, inTick, sum, low, high, average, hold, unreported, rising, counter>>

\* The peak is read, and reset, in a critical section.
extadc_get_currents_max ==
  /\ hold' = 0
  /\ unreported' = IF hold >= unreported THEN 0 ELSE unreported
  /\ UNCHANGED <<clock, averages, peak, step, periods>>

\* What may be calculated from the published period, before it is cut to
\* uint16_t.  Without a period the code divides by 0: anything that is returned
\* then has been cut.
extadc_get_frequency ==
  IF period_length = 0
  THEN 0 .. UINT16 - 1
  ELSE {ONE_SECOND \div (period_length * SAMPLE_TIME)}

Next ==
  \/ Tick
  \/ \E r \in Records : Record(r[1], r[2])
  \/ Compare
  \/ Assign
  \/ Finish
  \/ extadc_get_currents_max

Spec == Init /\ [][Next]_vars

----------------------------------------------------------------------------
(* Properties.                                                             *)

Int16(x) == x \in Int /\ -32768 <= x /\ x <= 32767
Magnitude(x) == x \in Nat /\ x <= 32767

\* Every variable holds a value of its type; averages and peaks fit the 16
\* bits they are stored in, the frequency those it is returned in, whatever the
\* period (task_external_adc.c:58-60, 317, 480, 702, 712).
TypeOK ==
  /\ tick \in 0 .. TICKS - 1 /\ start \in 0 .. TICKS - 1
  /\ age \in Nat /\ inTick \in Nat
  /\ n \in Nat /\ sum \in Int
  /\ Int16(low) /\ Int16(high) /\ Int16(average)
  /\ Magnitude(peak) /\ Magnitude(hold) /\ Magnitude(unreported)
  /\ Magnitude(voltPeak) /\ Magnitude(threshold)
  /\ step \in {None, "compare", "assign", "finish"}
  /\ rising \in BOOLEAN
  /\ counter \in Nat /\ cycles \in Nat /\ lengths \in Nat /\ unmeasured \in Nat
  /\ period_length \in Nat
  /\ extadc_get_frequency \subseteq 0 .. UINT16 - 1

\* What is published is the average of the records of one window, however
\* long the window was: it lies between the least and the greatest of them
\* until the next window has its first record (lines 628, 681, 702, 730).
AverageIsOfItsWindow ==
  (n = 0 \/ step # None) => (low <= average /\ average <= high)

\* No peak gets lost between the task and its reader, wherever the reader
\* comes in: a current higher than all that were read is still to be read
\* (lines 632-634, 710-715 and 276-283).
PeaksSurvive == unreported <= Greater(peak, hold)

\* The statistics are published in time: after a record the window is no
\* older than WINDOW, unless the tick counter has overflowed since its start
\* and the sum the counter is compared with has not (line 682).  A task that
\* is held up for TICKS is left out.
PublishedInTime ==
  (inTick > 0 /\ step = None /\ n > 0 /\ age <= TICKS) =>
    \/ age <= WINDOW
    \/ start + WINDOW < TICKS /\ start + age >= TICKS

\* Every record is part of one period, those of a period that spans windows
\* included: none is counted twice and none is dropped where a window ends
\* (lines 592-600 and 724-726).
PeriodsTileRecords == unmeasured = counter + lengths

\* What the assertion says, that the sums of squares do not overflow
\* (lines 677-679).
SumsDoNotOverflow == n < OVERFLOW
============================================================================
