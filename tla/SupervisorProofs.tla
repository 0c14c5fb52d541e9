-------------------------- MODULE SupervisorProofs -------------------------
(***************************************************************************)
(* What taskADC and taskSupervisor keep, for every number of channels,     *)
(* every length of the queue, every smoothing, calibration, threshold and  *)
(* supply voltage.                                                         *)
(*                                                                         *)
(* The invariant says where the one conversion under way is: at the task,  *)
(* at the ADC or in the queue, and that it is the one of `index'.  For the *)
(* start of the system it also says how far the smoothing has come by the  *)
(* rounds of conversions, compared with that of a constant supply.         *)
(***************************************************************************)
EXTENDS Supervisor, TLAPS

Results == [index : Channels, value : Values]

\* A result the task waits for.
Awaited(r) == r.index = index /\ r.value.of = index

\* The steps of startConversion have been done for `index' one by one.
Started ==
  /\ pc \in {"index", "start", "receive"} => configured = index
  /\ pc \in {"start", "receive"} => adcSequenceIndex = index

\* Where the result is.
UnderWay ==
  IF pc = "receive"
  THEN \/ converting = index /\ adcConversionsQueue = <<>>
       \/ converting = None /\ \E r \in Results : Awaited(r) /\ adcConversionsQueue = <<r>>
  ELSE converting = None /\ adcConversionsQueue = <<>>

PlainOfChannel == \A c \in Channels : adcValuesPlain[c].of = c

\* A measured voltage, or the 0 before the first.
Measured == measured \cup {0}

\* Supply voltages the task holds have been measured.
SupplyMeasured ==
  /\ adcValuesPlain[SUPPLY].mV \in Measured
  /\ \A r \in Results : adcConversionsQueue = <<r>> /\ r.index = SUPPLY => r.value.mV \in Measured

\* The accumulator holds at most SMOOTHVALUE - 1 times a measured voltage and
\* what a division leaves.
Bounded(y, mV) == y <= (SMOOTHVALUE - 1) * mV + (SMOOTHVALUE - 1)

AccumulatorBounded == \E mV \in Measured : Bounded(accumulator, mV)

AdcInv ==
  /\ AdcTypeOK
  /\ Started
  /\ UnderWay
  /\ PlainOfChannel
  /\ SupplyMeasured
  /\ AccumulatorBounded
  /\ SmoothedInRange

----------------------------------------------------------------------------
(* Division.                                                               *)

\* A division of y by s, without the division.
LEMMA QuotientBounds ==
  ASSUME NEW s \in Nat \ {0}, NEW y \in Nat, NEW w \in Nat, NEW q \in Nat, NEW r \in Nat,
         y = s * q + r, r <= s - 1, y <= s * w + (s - 1)
  PROVE  /\ q <= w
         /\ y - q \in Nat
         /\ y - q <= (s - 1) * w + (s - 1)
<1>1. q <= w
  <2>1. SUFFICES ASSUME w + 1 <= q PROVE FALSE
    OBVIOUS
  <2>2. s * (w + 1) <= s * q
    BY <2>1
  <2>3. s * (w + 1) = s * w + s
    OBVIOUS
  <2> QED BY <2>2, <2>3
<1>2. (s - 1) * q = s * q - q
  OBVIOUS
<1>3. (s - 1) * q \in Nat /\ (s - 1) * q <= (s - 1) * w
  BY <1>1
<1> QED BY <1>1, <1>2, <1>3

LEMMA QuotientExists ==
  ASSUME NEW s \in Nat \ {0}, NEW y \in Nat
  PROVE  \E q \in Nat, r \in Nat : q = y \div s /\ y = s * q + r /\ r <= s - 1
<1>1. y \div s \in Nat /\ y % s \in Nat /\ y = s * (y \div s) + (y % s) /\ y % s <= s - 1
  BY SMT
<1> QED BY <1>1

LEMMA QuotientAtLeast ==
  ASSUME NEW s \in Nat \ {0}, NEW y \in Nat, NEW k \in Nat, k * s <= y
  PROVE  k <= y \div s
<1>1. PICK q \in Nat, r \in Nat : q = y \div s /\ y = s * q + r /\ r <= s - 1
  BY QuotientExists
<1>2. SUFFICES ASSUME q + 1 <= k PROVE FALSE
  BY <1>1
<1>3. (q + 1) * s <= k * s /\ (q + 1) * s = s * q + s
  BY <1>2
<1>4. s * q \in Nat /\ k * s \in Nat
  OBVIOUS
<1> QED BY <1>1, <1>3, <1>4

\* One smoothing: a voltage mV comes in, nothing of which is above w.
LEMMA SmoothingBounds ==
  ASSUME NEW s \in Nat \ {0}, NEW a \in Nat, NEW mV \in Nat, NEW w \in Nat,
         a <= (s - 1) * w + (s - 1), mV <= w
  PROVE  /\ (a + mV) \div s \in Nat
         /\ (a + mV) \div s <= w
         /\ (a + mV) - ((a + mV) \div s) \in Nat
         /\ (a + mV) - ((a + mV) \div s) <= (s - 1) * w + (s - 1)
<1>1. (s - 1) * w = s * w - w
  OBVIOUS
<1>2. s * w \in Nat
  OBVIOUS
<1>3. a + mV \in Nat /\ a + mV <= s * w + (s - 1)
  BY <1>1, <1>2
<1>4. PICK q \in Nat, r \in Nat : q = (a + mV) \div s /\ a + mV = s * q + r /\ r <= s - 1
  BY <1>3, QuotientExists
<1>5. /\ q <= w
      /\ (a + mV) - q \in Nat
      /\ (a + mV) - q <= (s - 1) * w + (s - 1)
  BY <1>3, <1>4, QuotientBounds
<1> QED BY <1>4, <1>5

\* The bound also holds for every higher voltage.
LEMMA BoundGrows ==
  ASSUME NEW s \in Nat \ {0}, NEW v \in Nat, NEW w \in Nat, NEW y \in Nat,
         v <= w, y <= (s - 1) * v + (s - 1)
  PROVE  y <= (s - 1) * w + (s - 1)
<1>1. (s - 1) * v <= (s - 1) * w
  OBVIOUS
<1> QED BY <1>1

\* Voltages are numbers.
LEMMA MeasuredNat == ASSUME AdcTypeOK PROVE Measured \subseteq Nat
  BY InternalAdcAssumption DEF AdcTypeOK, Measured

----------------------------------------------------------------------------
(* The invariant.                                                          *)

LEMMA InitInv == AdcInit => AdcInv
<1> SUFFICES ASSUME AdcInit PROVE AdcInv
  OBVIOUS
<1> USE InternalAdcAssumption
<1>1. AdcTypeOK
  BY DEF AdcInit, AdcTypeOK, Channels, Values, REF, smoothing
<1>2. Started /\ UnderWay /\ PlainOfChannel
  BY DEF AdcInit, Started, UnderWay, PlainOfChannel
<1>3. SupplyMeasured
  BY DEF AdcInit, SupplyMeasured, Measured, Channels
<1>4. AccumulatorBounded
  <2>1. 0 \in Measured /\ (SMOOTHVALUE - 1) * 0 = 0
    BY DEF Measured
  <2> QED BY <2>1 DEF AdcInit, AccumulatorBounded, Bounded
<1>5. SmoothedInRange
  BY DEF AdcInit, SmoothedInRange
<1> QED BY <1>1, <1>2, <1>3, <1>4, <1>5 DEF AdcInv

(* The steps that leave the values, the queue and the smoothing alone.     *)
LEMMA ValuesKept ==
  ASSUME AdcInv,
         UNCHANGED <<adcConversionsQueue, adcValuesPlain, smoothing, measured>>
  PROVE  PlainOfChannel' /\ SupplyMeasured' /\ AccumulatorBounded' /\ SmoothedInRange'
  BY DEF AdcInv, PlainOfChannel, SupplyMeasured, AccumulatorBounded, SmoothedInRange, Bounded,
         Measured, smoothing

LEMMA ConfigInv == ASSUME AdcInv, HAL_ADC_ConfigChannel PROVE AdcInv'
<1> USE DEF HAL_ADC_ConfigChannel, Following, smoothing
<1>1. AdcTypeOK'
  BY DEF AdcInv, AdcTypeOK
<1>2. Started'
  BY DEF Started
<1>3. UnderWay'
  BY DEF AdcInv, UnderWay
<1> QED BY <1>1, <1>2, <1>3, ValuesKept DEF AdcInv

LEMMA IndexInv == ASSUME AdcInv, SetSequenceIndex PROVE AdcInv'
<1> USE DEF SetSequenceIndex, Following, smoothing
<1>1. AdcTypeOK'
  BY DEF AdcInv, AdcTypeOK
<1>2. Started'
  BY DEF AdcInv, Started
<1>3. UnderWay'
  BY DEF AdcInv, UnderWay
<1> QED BY <1>1, <1>2, <1>3, ValuesKept DEF AdcInv

LEMMA StartInv == ASSUME AdcInv, HAL_ADC_Start_IT PROVE AdcInv'
<1> USE DEF HAL_ADC_Start_IT, Following, smoothing
<1>1. AdcTypeOK'
  BY DEF AdcInv, AdcTypeOK
<1>2. Started'
  BY DEF AdcInv, Started
<1>3. UnderWay'
  BY DEF AdcInv, UnderWay, Started
<1> QED BY <1>1, <1>2, <1>3, ValuesKept DEF AdcInv

LEMMA DelayInv == ASSUME AdcInv, DelayOver PROVE AdcInv'
<1> USE DEF DelayOver, smoothing
<1>1. AdcTypeOK'
  BY DEF AdcInv, AdcTypeOK
<1>2. Started'
  BY DEF Started
<1>3. UnderWay'
  BY DEF AdcInv, UnderWay
<1> QED BY <1>1, <1>2, <1>3, ValuesKept DEF AdcInv

LEMMA ClockInv == ASSUME AdcInv, Clock PROVE AdcInv'
<1> USE DEF Clock, smoothing
<1>1. AdcTypeOK'
  BY DEF AdcInv, AdcTypeOK
<1>2. Started'
  BY DEF AdcInv, Started
<1>3. UnderWay'
  BY DEF AdcInv, UnderWay, Awaited
<1> QED BY <1>1, <1>2, <1>3, ValuesKept DEF AdcInv

\* The interrupt finds the queue empty, the task waiting, and the index set.
LEMMA ResultArrives ==
  ASSUME AdcInv, NEW mV \in Supplies \cup {0}, HAL_ADC_ConvCpltCallback(mV)
  PROVE  LET result == [index |-> index, value |-> [of |-> index, mV |-> mV]]
         IN  /\ pc = "receive" /\ converting = index /\ adcSequenceIndex = index
             /\ adcConversionsQueue = <<>> /\ index \in Channels /\ None \notin Channels
             /\ result \in Results /\ adcConversionsQueue' = <<result>>
<1> USE DEF HAL_ADC_ConvCpltCallback
<1> DEFINE result == [index |-> index, value |-> [of |-> index, mV |-> mV]]
<1>1. /\ pc = "receive" /\ converting = index /\ adcSequenceIndex = index
      /\ adcConversionsQueue = <<>> /\ index \in Channels /\ None \notin Channels
  BY InternalAdcAssumption DEF AdcInv, UnderWay, Started, AdcTypeOK, Channels
<1>2. result \in Results
  BY <1>1, InternalAdcAssumption DEF Results, Values
<1>3. adcConversionsQueue' = <<result>>
  <2>1. Len(adcConversionsQueue) < QUEUE
    BY <1>1, InternalAdcAssumption
  <2>2. Append(<<>>, result) = <<result>>
    OBVIOUS
  <2> QED BY <1>1, <2>1, <2>2
<1> QED BY <1>1, <1>2, <1>3

LEMMA CallbackInv ==
  ASSUME AdcInv, NEW mV \in Supplies \cup {0}, HAL_ADC_ConvCpltCallback(mV)
  PROVE  AdcInv'
<1> USE DEF HAL_ADC_ConvCpltCallback, smoothing
<1> DEFINE result == [index |-> index, value |-> [of |-> index, mV |-> mV]]
<1>1. /\ pc = "receive" /\ converting = index /\ adcSequenceIndex = index
      /\ adcConversionsQueue = <<>> /\ index \in Channels /\ None \notin Channels
  BY ResultArrives
<1>2. result \in Results
  BY ResultArrives
<1>3. adcConversionsQueue' = <<result>>
  BY ResultArrives
<1>4. AdcTypeOK'
  <2>1. measured' \subseteq Supplies
    BY InternalAdcAssumption DEF AdcInv, AdcTypeOK
  <2>2. /\ adcConversionsQueue' \in Seq([index : Channels, value : Values])
        /\ Len(adcConversionsQueue') <= QUEUE
    <3> HIDE DEF result
    <3>1. <<result>> \in Seq(Results) /\ Len(<<result>>) = 1
      BY <1>2
    <3>2. 1 <= QUEUE
      BY InternalAdcAssumption
    <3> QED BY <1>3, <3>1, <3>2 DEF Results
  <2> QED BY <2>1, <2>2 DEF AdcInv, AdcTypeOK
<1>5. Started'
  BY DEF AdcInv, Started
<1>6. UnderWay'
  BY <1>1, <1>2, <1>3 DEF UnderWay, Awaited
<1>7. PlainOfChannel'
  BY DEF AdcInv, PlainOfChannel
<1>8. Measured \subseteq Measured'
  BY DEF Measured
<1>9. SupplyMeasured'
  <2>1. index = SUPPLY => mV \in Measured'
    BY <1>1 DEF Measured
  <2>2. adcValuesPlain'[SUPPLY].mV \in Measured'
    BY <1>8 DEF AdcInv, SupplyMeasured
  <2>3. ASSUME NEW r \in Results, adcConversionsQueue' = <<r>>, r.index = SUPPLY
        PROVE  r.value.mV \in Measured'
    <3>1. r = result
      <4> HIDE DEF result
      <4> QED BY <1>3, <2>3
    <3>2. r.index = index /\ r.value.mV = mV
      BY <3>1
    <3> QED BY <2>1, <2>3, <3>2
  <2> QED BY <2>2, <2>3 DEF SupplyMeasured
<1>10. AccumulatorBounded'
  BY <1>8 DEF AdcInv, AccumulatorBounded, Bounded
<1>11. SmoothedInRange'
  BY DEF AdcInv, SmoothedInRange
<1> QED BY <1>4, <1>5, <1>6, <1>7, <1>9, <1>10, <1>11 DEF AdcInv

\* Smoothing keeps the bounds, with the higher of the voltage that bounded the
\* accumulator and the one that comes in.
LEMMA SmoothInv ==
  ASSUME AdcTypeOK, AccumulatorBounded, NEW mV \in Measured, Smooth(mV)
  PROVE  /\ smoothed' \in Nat /\ accumulator' \in Nat
         /\ \E w \in Measured : Bounded(accumulator', w) /\ smoothed' <= w
<1>1. PICK v \in Measured : Bounded(accumulator, v)
  BY DEF AccumulatorBounded
<1>2. v \in Nat /\ mV \in Nat /\ accumulator \in Nat /\ SMOOTHVALUE \in Nat \ {0}
  BY MeasuredNat, InternalAdcAssumption DEF AdcTypeOK
<1>3. PICK w \in Measured : v <= w /\ mV <= w
  BY <1>2
<1>4. w \in Nat
  BY MeasuredNat
<1>5. accumulator <= (SMOOTHVALUE - 1) * w + (SMOOTHVALUE - 1)
  BY <1>1, <1>2, <1>3, <1>4, BoundGrows DEF Bounded
<1>6. /\ (accumulator + mV) \div SMOOTHVALUE \in Nat
      /\ (accumulator + mV) \div SMOOTHVALUE <= w
      /\ (accumulator + mV) - ((accumulator + mV) \div SMOOTHVALUE) \in Nat
      /\ (accumulator + mV) - ((accumulator + mV) \div SMOOTHVALUE)
           <= (SMOOTHVALUE - 1) * w + (SMOOTHVALUE - 1)
  BY <1>2, <1>3, <1>4, <1>5, SmoothingBounds
<1>7. /\ smoothed' = (accumulator + mV) \div SMOOTHVALUE
      /\ accumulator' = (accumulator + mV) - ((accumulator + mV) \div SMOOTHVALUE)
  BY DEF Smooth, Kept
<1>8. smoothed' \in Nat /\ smoothed' <= w /\ accumulator' \in Nat
  BY <1>6, <1>7
<1>9. Bounded(accumulator', w)
  BY <1>6, <1>7 DEF Bounded
<1> QED BY <1>8, <1>9

LEMMA ReceiveInv == ASSUME AdcInv, Receive PROVE AdcInv'
<1>1. PICK r \in Results : Awaited(r) /\ adcConversionsQueue = <<r>>
  BY DEF Receive, AdcInv, UnderWay
<1>2. Head(adcConversionsQueue) = r /\ Tail(adcConversionsQueue) = <<>>
  BY <1>1
<1>3. r.index = index /\ r.value.of = index /\ index \in Channels /\ r.value \in Values
  BY <1>1 DEF Awaited, Results, AdcInv, AdcTypeOK
<1> DEFINE plain == [adcValuesPlain EXCEPT ![index] = r.value]
<1>4. /\ adcValuesPlain' = plain /\ adcConversionsQueue' = <<>>
      /\ pc = "receive"
      /\ UNCHANGED <<now, configured, adcSequenceIndex, converting, measured>>
  BY <1>2, <1>3 DEF Receive
<1>5. plain \in [Channels -> Values] /\ PlainOfChannel'
  BY <1>3, <1>4 DEF AdcInv, AdcTypeOK, PlainOfChannel
<1>6. converting' = None
  BY <1>1, <1>4 DEF AdcInv, UnderWay
<1>7. plain[SUPPLY].mV \in Measured
  <2>1. SUPPLY \in Channels
    BY InternalAdcAssumption DEF Channels
  <2>2. index = SUPPLY => r.value.mV \in Measured
    BY <1>1, <1>3 DEF AdcInv, SupplyMeasured
  <2>3. plain[SUPPLY] = IF index = SUPPLY THEN r.value ELSE adcValuesPlain[SUPPLY]
    BY <1>3, <2>1 DEF AdcInv, AdcTypeOK
  <2> QED BY <2>2, <2>3 DEF AdcInv, SupplyMeasured
<1>8. SupplyMeasured'
  <2>1. \A q \in Results : <<>> # <<q>>
    OBVIOUS
  <2> QED BY <1>4, <1>7, <2>1 DEF SupplyMeasured, Measured
<1> HIDE DEF plain
<1>9. CASE EndsRound(index)
  <2>1. Smooth(plain[SUPPLY].mV) /\ index' = 0 /\ pc' = "delay" /\ wake' = now + 1
    BY <1>2, <1>3, <1>9 DEF Receive, plain
  <2>2. PICK w \in Measured : Bounded(accumulator', w) /\ smoothed' <= w
    BY <1>7, <2>1, SmoothInv DEF AdcInv
  <2>3. smoothed' \in Nat /\ accumulator' \in Nat
    BY <1>7, <2>1, SmoothInv DEF AdcInv
  <2>4. acquired' \in 0 .. (NEEDED + 1)
    BY <2>1, InternalAdcAssumption DEF AdcInv, AdcTypeOK, Smooth
  <2>5. 0 \in Channels
    BY InternalAdcAssumption DEF Channels
  <2>6. AdcTypeOK'
    BY <1>4, <1>5, <2>1, <2>3, <2>4, <2>5, InternalAdcAssumption DEF AdcInv, AdcTypeOK
  <2>7. Started' /\ UnderWay'
    BY <1>4, <1>6, <2>1 DEF Started, UnderWay
  <2>8. AccumulatorBounded' /\ SmoothedInRange'
    BY <1>4, <2>2 DEF AccumulatorBounded, SmoothedInRange, Measured, Bounded
  <2> QED BY <1>5, <1>8, <2>6, <2>7, <2>8 DEF AdcInv
<1>10. CASE ~EndsRound(index)
  <2>1. /\ index' = index + 1 /\ pc' = "configure"
        /\ UNCHANGED <<smoothing, wake>>
    BY <1>2, <1>3, <1>10 DEF Receive, NextIndex
  <2>2. index + 1 \in Channels
    BY <1>3, <1>10, InternalAdcAssumption DEF EndsRound, REF, Channels
  <2>3. AdcTypeOK'
    BY <1>4, <1>5, <2>1, <2>2, InternalAdcAssumption DEF AdcInv, AdcTypeOK, smoothing
  <2>4. Started' /\ UnderWay'
    BY <1>4, <1>6, <2>1 DEF Started, UnderWay
  <2>5. AccumulatorBounded' /\ SmoothedInRange'
    BY <1>4, <2>1 DEF AdcInv, AccumulatorBounded, SmoothedInRange, Measured, Bounded, smoothing
  <2> QED BY <1>5, <1>8, <2>3, <2>4, <2>5 DEF AdcInv
<1> QED BY <1>9, <1>10

LEMMA StepInv == AdcInv /\ [AdcStep \/ Clock]_adcVars => AdcInv'
<1> SUFFICES ASSUME AdcInv, [AdcStep \/ Clock]_adcVars PROVE AdcInv'
  OBVIOUS
<1>1. CASE AdcStep
  <2>1. CASE \E mV \in Supplies \cup {0} : HAL_ADC_ConvCpltCallback(mV)
    BY <2>1, CallbackInv
  <2> QED
    BY <1>1, <2>1, ConfigInv, IndexInv, StartInv, ReceiveInv, DelayInv DEF AdcStep
<1>2. CASE Clock
  BY <1>2, ClockInv
<1>3. CASE UNCHANGED adcVars
  <2>1. AdcTypeOK'
    BY <1>3 DEF AdcInv, AdcTypeOK, adcVars, smoothing
  <2>2. Started' /\ UnderWay'
    BY <1>3 DEF AdcInv, Started, UnderWay, Awaited, adcVars
  <2> QED BY <1>3, <2>1, <2>2, ValuesKept DEF AdcInv, adcVars
<1> QED BY <1>1, <1>2, <1>3

----------------------------------------------------------------------------
(* The theorems.                                                           *)

\* What a check sees is a number.
LEMMA VoltageNat == ASSUME NEW n \in Int PROVE adc_get_values(n) \in Nat
<1>1. coeffs.c0 \in Int /\ coeffs.c1 \in Int /\ coeffs.c2 \in Int
  BY SupervisorAssumption
<1>2. coeffs.c1 * n \in Int /\ coeffs.c2 * n * n \in Int
  BY <1>1
<1>3. \A m \in Int : Quotient(m) \in Int
  BY SupervisorAssumption DEF Quotient
<1>4. calib_apply_calibration(n) \in Int
  BY <1>1, <1>2, <1>3 DEF calib_apply_calibration
<1>5. \A m \in Int : m % UINT16 \in Nat
  BY SupervisorAssumption
<1> QED BY <1>4, <1>5 DEF adc_get_values

LEMMA NextInv == AdcInv /\ [Next]_vars => AdcInv'
<1> SUFFICES ASSUME AdcInv, [Next]_vars PROVE AdcInv'
  OBVIOUS
<1>1. [AdcStep \/ Clock]_adcVars
  BY DEF Next, Converts, ClockRuns, WaitForValues, superisor_check_supply_voltage, vars
<1> QED BY <1>1, StepInv

LEMMA InvIsKept == Spec => []AdcInv
<1>1. Init => AdcInv
  BY InitInv DEF Init
<1> QED BY <1>1, NextInv, PTL DEF Spec

\* Indices stay within the channels, in every interleaving of the task and
\* the interrupt (task_adc.c:164-174, 229-305).
THEOREM AdcTypes == Spec => []AdcTypeOK
<1>1. AdcInv => AdcTypeOK
  BY DEF AdcInv
<1> QED BY <1>1, InvIsKept, PTL

\* What the interrupt stores is of the channel it is stored for
\* (task_adc.c:164-174, 235, 300-303).
THEOREM ChannelsAreNotMixed == Spec => []ValuesAreOfTheirChannel
<1>1. ASSUME AdcInv PROVE ValuesAreOfTheirChannel
  <2>1. \/ adcConversionsQueue = <<>>
        \/ \E r \in Results : Awaited(r) /\ adcConversionsQueue = <<r>>
    BY <1>1 DEF AdcInv, UnderWay
  <2>2. CASE adcConversionsQueue = <<>>
    BY <1>1, <2>2 DEF AdcInv, PlainOfChannel, ValuesAreOfTheirChannel
  <2>3. ASSUME NEW r \in Results, Awaited(r), adcConversionsQueue = <<r>>
        PROVE  ValuesAreOfTheirChannel
    <3>1. Len(adcConversionsQueue) = 1 /\ adcConversionsQueue[1] = r
      BY <2>3
    <3>2. \A k \in 1 .. Len(adcConversionsQueue) : k = 1
      BY <3>1
    <3> QED
      BY <1>1, <2>3, <3>1, <3>2 DEF AdcInv, PlainOfChannel, ValuesAreOfTheirChannel, Awaited
  <2> QED BY <2>1, <2>2, <2>3
<1> QED BY <1>1, InvIsKept, PTL

\* There is never more than one result, so even a queue of length 1 drops none
\* (task_adc.c:221, 231, 279, 303).
THEOREM NoResultIsDropped == Spec => []OneResultAtATime
<1>1. ASSUME AdcInv PROVE OneResultAtATime
  <2>1. None \notin Channels /\ index \in Channels
    BY <1>1, InternalAdcAssumption DEF Channels, AdcInv, AdcTypeOK
  <2>2. \A r \in Results : Len(<<r>>) = 1 /\ <<r>> # <<>>
    OBVIOUS
  <2> QED BY <1>1, <2>1, <2>2 DEF AdcInv, UnderWay, OneResultAtATime
<1> QED BY <1>1, InvIsKept, PTL

\* The smoothed voltage stays below the highest that was measured, for every
\* SMOOTHVALUE (task_adc.c:259-270).
THEOREM SmoothingStaysInRange == Spec => []SmoothedInRange
<1>1. AdcInv => SmoothedInRange
  BY DEF AdcInv
<1> QED BY <1>1, InvIsKept, PTL

----------------------------------------------------------------------------
(* The deadline.                                                           *)

LEMMA SecondsGrow ==
  ASSUME AdcInv, [Next]_vars
  PROVE  Seconds \in Nat /\ Seconds' \in Nat /\ Seconds <= Seconds'
<1>1. SECOND \in Nat \ {0} /\ now \in Nat /\ (now' = now \/ now' = now + 1)
  <2>1. now \in Nat
    BY DEF AdcInv, AdcTypeOK
  <2>2. now' = now \/ now' = now + 1
    BY DEF Next, Converts, ClockRuns, Clock, WaitForValues, superisor_check_supply_voltage,
           AdcStep, HAL_ADC_ConfigChannel, SetSequenceIndex, HAL_ADC_Start_IT, DelayOver,
           HAL_ADC_ConvCpltCallback, Receive, adcVars, vars
  <2> QED BY <2>1, <2>2, SupervisorAssumption
<1>2. PICK q \in Nat, t \in Nat : q = now \div SECOND /\ now = SECOND * q + t /\ t <= SECOND - 1
  BY <1>1, QuotientExists
<1>3. now' \in Nat /\ q * SECOND <= now'
  BY <1>1, <1>2
<1>4. PICK n \in Nat : n = now' /\ q * SECOND <= n
  BY <1>3
<1>5. q <= n \div SECOND
  BY <1>1, <1>4, QuotientAtLeast
<1>6. n \div SECOND \in Nat
  BY <1>1, QuotientExists
<1> QED BY <1>2, <1>4, <1>5, <1>6 DEF Seconds

\* A command is given in an outage, not before it began.
DeadlineInv ==
  /\ time_of_shutdown_command_s \in Nat
  /\ outage # None => outage \in Nat /\ outage <= Seconds
  /\ time_of_shutdown_command_s # 0 =>
       outage # None /\ outage <= time_of_shutdown_command_s
  /\ DeadlineIsOfThisOutage

LEMMA DeadlineInit == Init => DeadlineInv
  BY DEF Init, DeadlineInv, DeadlineIsOfThisOutage

LEMMA DeadlineCheck ==
  ASSUME AdcInv, DeadlineInv, superisor_check_supply_voltage
  PROVE  DeadlineInv'
<1> DEFINE v == Voltage
           c == Commanded(v)
<1>1. /\ outage' = Outage(v) /\ time_of_shutdown_command_s' = c
      /\ due' = (c # 0 /\ c + SHUTDOWN_s < Seconds)
  BY Zenon DEF superisor_check_supply_voltage
<1>2. Seconds' = Seconds
  BY DEF superisor_check_supply_voltage, adcVars, Seconds
<1>3. Seconds \in Nat /\ SHUTDOWN_s \in Nat /\ OFF \in Nat /\ ON \in Nat /\ OFF <= ON /\ None \notin Nat
  BY SupervisorAssumption, InternalAdcAssumption DEF AdcInv, AdcTypeOK, Seconds
<1>4. v \in Nat
  BY VoltageNat DEF AdcInv, AdcTypeOK, Voltage
<1>5. /\ c \in Nat
      /\ Outage(v) # None => Outage(v) \in Nat /\ Outage(v) <= Seconds
      /\ c # 0 => Outage(v) # None /\ Outage(v) <= c
  <2> HIDE DEF v
  <2>1. CASE v < OFF
    <3>1. c \in Nat /\ Seconds <= c
      BY <1>3, <1>4, <2>1 DEF Commanded
    <3>2. Outage(v) = IF outage = None THEN Seconds ELSE outage
      BY <1>3, <1>4, <2>1 DEF Outage
    <3> HIDE DEF c
    <3> QED BY <1>3, <3>1, <3>2 DEF DeadlineInv
  <2>2. CASE v > ON
    <3>1. c = 0 /\ Outage(v) = None
      BY <1>3, <1>4, <2>2 DEF Commanded, Outage
    <3> QED BY <3>1
  <2>3. CASE OFF <= v /\ v <= ON
    <3>1. c = time_of_shutdown_command_s /\ Outage(v) = outage
      BY <1>3, <1>4, <2>3 DEF Commanded, Outage
    <3> QED BY <3>1 DEF DeadlineInv
  <2> QED BY <1>3, <1>4, <2>1, <2>2, <2>3
<1>6. PICK k \in Nat : k = c
  BY <1>5
<1>7. PICK o : o = Outage(v)
  OBVIOUS
<1> HIDE DEF v, c
<1>8. DeadlineIsOfThisOutage'
  <2>1. ASSUME k # 0, k + SHUTDOWN_s < Seconds
        PROVE  o # None /\ o + SHUTDOWN_s < Seconds
    BY <1>3, <1>5, <1>6, <1>7, <2>1
  <2>2. due' => o # None /\ o + SHUTDOWN_s < Seconds
    BY <1>1, <1>6, <2>1, Zenon
  <2> QED BY <1>1, <1>2, <1>7, <2>2, Zenon DEF DeadlineIsOfThisOutage
<1> QED BY <1>1, <1>2, <1>5, <1>8, Zenon DEF DeadlineInv

LEMMA DeadlineStep == AdcInv /\ DeadlineInv /\ [Next]_vars => DeadlineInv'
<1> SUFFICES ASSUME AdcInv, DeadlineInv, [Next]_vars PROVE DeadlineInv'
  OBVIOUS
<1>1. CASE UNCHANGED shutdown
  <2>1. UNCHANGED time_of_shutdown_command_s /\ UNCHANGED due /\ UNCHANGED outage
    BY <1>1 DEF shutdown
  <2>2. PICK s \in Nat, t \in Nat : s = Seconds /\ t = Seconds' /\ s <= t
    BY SecondsGrow
  <2>3. /\ outage # None => outage \in Nat /\ outage <= t
        /\ outage # None /\ outage + SHUTDOWN_s < s => outage + SHUTDOWN_s < t
    BY <2>2, SupervisorAssumption DEF DeadlineInv
  <2>4. DeadlineIsOfThisOutage'
    BY <2>1, <2>2, <2>3, Zenon DEF DeadlineInv, DeadlineIsOfThisOutage
  <2> QED BY <2>1, <2>2, <2>3, <2>4, Zenon DEF DeadlineInv
<1> QED
  BY <1>1, DeadlineCheck DEF Next, Converts, ClockRuns, WaitForValues, vars

\* For every calibration and every course of the supply, what is acted on is the
\* command of an outage that goes on, and the Raspberry Pi has had its time to
\* shut down since that outage began (task_supervisor.c:36-60).
THEOREM DeadlineOfThisOutage == Spec => []DeadlineIsOfThisOutage
<1>1. DeadlineInv => DeadlineIsOfThisOutage
  BY DEF DeadlineInv
<1> QED BY <1>1, InvIsKept, DeadlineInit, DeadlineStep, PTL DEF Spec

\* Each check that sees the voltage below OFF starts the time again, so that an
\* outage that lasts is never acted on (task_supervisor.c:27, 42-47).
LEMMA LowIsNeverOver ==
  ASSUME AdcInv, superisor_check_supply_voltage, Voltage < OFF
  PROVE  ~due'
<1>1. due' = (Commanded(Voltage) # 0 /\ Commanded(Voltage) + SHUTDOWN_s < Seconds)
  BY Zenon DEF superisor_check_supply_voltage
<1>2. Seconds \in Nat /\ SHUTDOWN_s \in Nat
  BY SupervisorAssumption DEF AdcInv, AdcTypeOK, Seconds
<1>3. Commanded(Voltage) \in Nat /\ Commanded(Voltage) >= Seconds
  <2>1. Commanded(Voltage) = Seconds + IF raspi_was_on_once THEN 0 ELSE SHUTDOWN_s + 1
    <3>1. Voltage \in Nat /\ OFF \in Nat /\ ON \in Nat /\ OFF <= ON
      BY VoltageNat, SupervisorAssumption DEF AdcInv, AdcTypeOK, Voltage
    <3> QED BY <3>1 DEF Commanded
  <2>2. PICK d : d = IF raspi_was_on_once THEN 0 ELSE SHUTDOWN_s + 1
    OBVIOUS
  <2>3. d = 0 \/ d = SHUTDOWN_s + 1
    BY <2>2, Zenon
  <2> QED BY <1>2, <2>1, <2>2, <2>3
<1>4. ~(Commanded(Voltage) + SHUTDOWN_s < Seconds)
  BY <1>2, <1>3
<1> QED BY <1>1, <1>4, Zenon

----------------------------------------------------------------------------
(* The start under a good supply.  For the rounds of conversions there is  *)
(* no counter: each takes one unit of time.                                *)

Rounds == IF pc = "delay" /\ now < wake THEN now + 1 ELSE now

\* The supply was seen above ON all the time.
Quiet == \A mV \in measured : Above(mV)

\* Whenever the task has come past the supply, it holds what was measured.
SupplySampled ==
  /\ SUPPLY < index => adcValuesPlain[SUPPLY].mV \in measured
  /\ \A r \in Results : adcConversionsQueue = <<r>> /\ r.index = SUPPLY => r.value.mV \in measured

Paced ==
  /\ wake <= now + 1
  /\ acquired <= Rounds
  /\ smoothed = (accumulator + smoothed) \div SMOOTHVALUE

\* The smoothing has come at least as far as under a constant supply of L.
Risen(L, y) ==
  /\ Rounds \in 1 .. ROUNDS => accumulator >= Kept(y[Rounds])
  /\ Rounds >= ROUNDS => accumulator >= L * SMOOTHVALUE - L /\ smoothed >= L

\* No command is earlier than the first check, nor repeated when the supply was
\* seen above ON once.
Patient ==
  /\ raspi_was_on_once => Above(smoothed)
  /\ time_of_shutdown_command_s \in Nat
  /\ time_of_shutdown_command_s # 0 =>
       time_of_shutdown_command_s >= (NEEDED \div SECOND) + SHUTDOWN_s + 1
  /\ ~due

WarmUpInv(L, y) ==
  /\ SupplySampled /\ Paced
  /\ Quiet => Risen(L, y) /\ Patient

\* More in the accumulator leaves more in it.
LEMMA KeptGrows ==
  ASSUME NEW x \in Nat, NEW y \in Nat, x <= y
  PROVE  Kept(x) <= Kept(y) /\ Kept(x) \in Nat /\ Kept(y) \in Nat
<1> DEFINE s == SMOOTHVALUE
<1>1. s \in Nat \ {0}
  BY InternalAdcAssumption
<1> HIDE DEF s
<1>2. PICK p \in Nat, t \in Nat : p = x \div s /\ x = s * p + t /\ t <= s - 1
  BY <1>1, QuotientExists
<1>3. PICK q \in Nat, r \in Nat : q = y \div s /\ y = s * q + r /\ r <= s - 1
  BY <1>1, QuotientExists
<1>4. /\ s * p - p = (s - 1) * p /\ s * q - q = (s - 1) * q
      /\ s * p \in Nat /\ s * q \in Nat /\ (s - 1) * p \in Nat /\ (s - 1) * q \in Nat
  BY <1>1
<1>5. Kept(x) = (s - 1) * p + t /\ Kept(y) = (s - 1) * q + r
  <2>1. Kept(x) = (s * p + t) - p /\ Kept(y) = (s * q + r) - q
    BY <1>2, <1>3 DEF Kept, s
  <2> QED BY <1>4, <2>1
<1>6. CASE p = q
  BY <1>2, <1>3, <1>4, <1>5, <1>6
<1>7. CASE p < q
  <2>1. (s - 1) * (p + 1) <= (s - 1) * q /\ (s - 1) * (p + 1) = (s - 1) * p + (s - 1)
    BY <1>1, <1>7
  <2> QED BY <1>1, <1>2, <1>3, <1>4, <1>5, <2>1
<1>8. CASE q < p
  <2>1. s * (q + 1) <= s * p /\ s * (q + 1) = s * q + s
    BY <1>1, <1>8
  <2> QED BY <1>1, <1>2, <1>3, <1>4, <2>1
<1> QED BY <1>6, <1>7, <1>8

\* The sum for a smoothed voltage of L, and what is left of it.
LEMMA KeptOfLevel ==
  ASSUME NEW L \in Nat
  PROVE  L * SMOOTHVALUE \in Nat /\ Kept(L * SMOOTHVALUE) = L * SMOOTHVALUE - L
<1>1. SMOOTHVALUE \in Nat \ {0}
  BY InternalAdcAssumption
<1>2. L * SMOOTHVALUE \in Nat
  BY <1>1
<1>3. PICK q \in Nat, r \in Nat :
        /\ q = (L * SMOOTHVALUE) \div SMOOTHVALUE
        /\ L * SMOOTHVALUE = SMOOTHVALUE * q + r /\ r <= SMOOTHVALUE - 1
  BY <1>1, <1>2, QuotientExists
<1>4. L <= q
  BY <1>1, <1>2, <1>3, QuotientAtLeast
<1>5. q <= L
  <2>1. SUFFICES ASSUME L + 1 <= q PROVE FALSE
    BY <1>3
  <2>2. SMOOTHVALUE * (L + 1) <= SMOOTHVALUE * q
    BY <1>1, <2>1
  <2>3. SMOOTHVALUE * (L + 1) = L * SMOOTHVALUE + SMOOTHVALUE
    BY <1>1
  <2>4. SMOOTHVALUE * q \in Nat
    BY <1>1
  <2> QED BY <1>1, <1>2, <1>3, <2>2, <2>3, <2>4
<1> QED BY <1>2, <1>3, <1>4, <1>5 DEF Kept

\* The smoothed voltage does not fall, but to the voltage that comes in.
LEMMA SmoothedFalls ==
  ASSUME NEW s \in Nat \ {0}, NEW a \in Nat, NEW v \in Nat, NEW mV \in Nat, v = (a + v) \div s
  PROVE  v <= (a + mV) \div s \/ mV <= (a + mV) \div s
<1>1. a + v \in Nat /\ a + mV \in Nat
  OBVIOUS
<1>2. PICK q \in Nat, r \in Nat : q = (a + v) \div s /\ a + v = s * q + r /\ r <= s - 1
  BY <1>1, QuotientExists
<1>3. v * s <= a + v /\ v * s \in Nat
  BY <1>2
<1>4. CASE v <= mV
  <2>1. v * s <= a + mV
    BY <1>3, <1>4
  <2> QED BY <1>1, <2>1, QuotientAtLeast
<1>5. CASE mV < v
  <2>1. (s - 1) * (mV + 1) <= (s - 1) * v
    BY <1>5
  <2>2. (s - 1) * v = v * s - v
    OBVIOUS
  <2>3. (s - 1) * (mV + 1) = mV * s - mV + (s - 1) /\ mV * s \in Nat
    OBVIOUS
  <2>4. mV * s <= a + mV
    BY <1>3, <2>1, <2>2, <2>3
  <2> QED BY <1>1, <2>4, QuotientAtLeast
<1> QED BY <1>4, <1>5

\* A step that neither ends a round nor checks.
LEMMA WarmUpGoesOn ==
  ASSUME NEW L, NEW y, WarmUpInv(L, y), UNCHANGED <<smoothing, shutdown>>,
         Rounds' = Rounds, wake' <= now' + 1, SupplySampled', measured \subseteq measured'
  PROVE  WarmUpInv(L, y)'
<1>1. /\ UNCHANGED accumulator /\ UNCHANGED smoothed /\ UNCHANGED acquired
      /\ UNCHANGED time_of_shutdown_command_s /\ UNCHANGED raspi_was_on_once /\ UNCHANGED due
  BY DEF smoothing, shutdown
<1>2. Paced'
  BY <1>1, Zenon DEF WarmUpInv, Paced
<1>3. Quiet' => Quiet
  BY DEF Quiet, Above
<1>4. Quiet' => Risen(L, y)' /\ Patient'
  BY <1>1, <1>3, Zenon DEF WarmUpInv, Risen, Patient
<1> QED BY <1>2, <1>4 DEF WarmUpInv

LEMMA WarmUpConfigures ==
  ASSUME NEW L, NEW y, AdcInv, WarmUpInv(L, y), UNCHANGED shutdown,
         HAL_ADC_ConfigChannel \/ SetSequenceIndex \/ HAL_ADC_Start_IT \/ DelayOver
  PROVE  WarmUpInv(L, y)'
<1>1. /\ UNCHANGED <<smoothing, measured, index, adcValuesPlain, adcConversionsQueue, now, wake>>
      /\ pc' # "delay"
      /\ pc = "delay" => wake <= now
  BY DEF HAL_ADC_ConfigChannel, SetSequenceIndex, HAL_ADC_Start_IT, DelayOver, Following
<1>2. Rounds' = Rounds
  BY <1>1 DEF Rounds, AdcInv, AdcTypeOK
<1>3. SupplySampled'
  BY <1>1 DEF WarmUpInv, SupplySampled
<1>4. wake' <= now' + 1
  BY <1>1 DEF WarmUpInv, Paced
<1> QED BY <1>1, <1>2, <1>3, <1>4, WarmUpGoesOn

LEMMA WarmUpConverts ==
  ASSUME NEW L, NEW y, AdcInv, WarmUpInv(L, y), UNCHANGED shutdown,
         NEW mV \in Supplies \cup {0}, HAL_ADC_ConvCpltCallback(mV)
  PROVE  WarmUpInv(L, y)'
<1> DEFINE result == [index |-> index, value |-> [of |-> index, mV |-> mV]]
<1>1. /\ converting = index /\ result \in Results /\ adcConversionsQueue' = <<result>>
  BY ResultArrives
<1>2. /\ UNCHANGED <<smoothing, now, wake, pc, index, adcValuesPlain>>
      /\ measured' = measured \cup (IF converting = SUPPLY THEN {mV} ELSE {})
  BY DEF HAL_ADC_ConvCpltCallback
<1>3. SupplySampled'
  <2>1. ASSUME NEW r \in Results, adcConversionsQueue' = <<r>>, r.index = SUPPLY
        PROVE  r.value.mV \in measured'
    <3>1. r = result
      <4> HIDE DEF result
      <4> QED BY <1>1, <2>1
    <3>2. index = SUPPLY /\ r.value.mV = mV
      BY <2>1, <3>1
    <3> QED BY <1>1, <1>2, <3>2
  <2>2. SUPPLY < index => adcValuesPlain'[SUPPLY].mV \in measured'
    BY <1>2 DEF WarmUpInv, SupplySampled
  <2> QED BY <1>2, <2>1, <2>2 DEF SupplySampled
<1>4. Rounds' = Rounds
  BY <1>2 DEF Rounds
<1>5. wake' <= now' + 1
  BY <1>2 DEF WarmUpInv, Paced
<1> QED BY <1>2, <1>3, <1>4, <1>5, WarmUpGoesOn

LEMMA WarmUpWaits ==
  ASSUME NEW L, NEW y, AdcInv, WarmUpInv(L, y), ClockRuns
  PROVE  WarmUpInv(L, y)'
<1>1. /\ pc = "delay" /\ now < wake /\ now' = now + 1
      /\ UNCHANGED <<pc, wake, index, adcConversionsQueue, adcValuesPlain, smoothing, measured>>
      /\ UNCHANGED shutdown
  BY DEF ClockRuns, Clock, AdcSleeps
<1>2. now \in Nat /\ wake \in Nat /\ wake <= now + 1
  BY DEF AdcInv, AdcTypeOK, WarmUpInv, Paced
<1>3. Rounds' = Rounds /\ wake' <= now' + 1
  BY <1>1, <1>2 DEF Rounds
<1>4. SupplySampled'
  BY <1>1 DEF WarmUpInv, SupplySampled
<1> QED BY <1>1, <1>3, <1>4, WarmUpGoesOn

\* What the task holds when a result has been received.
LEMMA SupplyReceived ==
  ASSUME AdcInv, SupplySampled, Receive
  PROVE  /\ SupplySampled'
         /\ pc = "receive" /\ UNCHANGED <<now, measured>>
         /\ \/ /\ \E mV \in measured : Smooth(mV)
               /\ pc' = "delay" /\ wake' = now + 1
            \/ pc' = "configure" /\ UNCHANGED <<smoothing, wake>>
<1>1. PICK r \in Results : Awaited(r) /\ adcConversionsQueue = <<r>>
  BY DEF Receive, AdcInv, UnderWay
<1>2. Head(adcConversionsQueue) = r /\ Tail(adcConversionsQueue) = <<>>
  BY <1>1
<1>3. r.index = index /\ index \in Channels /\ SUPPLY \in Channels /\ CHANNELS \in Nat
  BY <1>1, InternalAdcAssumption DEF Awaited, AdcInv, AdcTypeOK, Channels
<1> DEFINE plain == [adcValuesPlain EXCEPT ![index] = r.value]
<1>4. /\ adcValuesPlain' = plain /\ adcConversionsQueue' = <<>>
      /\ pc = "receive" /\ UNCHANGED <<now, measured>>
      /\ IF index = REF
         THEN Smooth(plain[SUPPLY].mV) /\ index' = 0 /\ pc' = "delay" /\ wake' = now + 1
         ELSE index' = index + 1 /\ pc' = "configure" /\ UNCHANGED <<smoothing, wake>>
  BY <1>2, <1>3 DEF Receive, EndsRound, NextIndex
<1>5. SUPPLY <= index => plain[SUPPLY].mV \in measured
  <2>1. plain[SUPPLY] = IF index = SUPPLY THEN r.value ELSE adcValuesPlain[SUPPLY]
    BY <1>3 DEF AdcInv, AdcTypeOK
  <2>2. index = SUPPLY => r.value.mV \in measured
    BY <1>1, <1>3 DEF SupplySampled
  <2>3. SUPPLY <= index /\ index # SUPPLY => SUPPLY < index
    BY <1>3, InternalAdcAssumption DEF Channels
  <2> QED BY <2>1, <2>2, <2>3 DEF SupplySampled
<1> HIDE DEF plain
<1>6. SupplySampled'
  <2>1. \A q \in Results : <<>> # <<q>>
    OBVIOUS
  <2>2. SUPPLY < index' => SUPPLY <= index
    BY <1>3, <1>4, InternalAdcAssumption DEF Channels
  <2> QED BY <1>4, <1>5, <2>1, <2>2 DEF SupplySampled
<1>7. index = REF => SUPPLY <= index
  BY <1>3 DEF Channels, REF
<1> QED BY <1>4, <1>5, <1>6, <1>7

\* What lies between two voltages seen above ON.
LEMMA BetweenIsAbove ==
  ASSUME NEW L, NEW y, ComesUp(L, y), AdcTypeOK, Quiet,
         NEW w \in Measured, NEW x \in Nat, NEW z \in Nat, Above(x), x <= z, z <= w
  PROVE  Above(z)
<1>1. w \in Nat
  BY MeasuredNat
<1>2. CASE w \in measured
  <2>1. w \in Supplies /\ Above(w) /\ x \in 0 .. w /\ z \in x .. w
    BY <1>1, <1>2 DEF AdcTypeOK, Quiet
  <2> QED BY <2>1 DEF ComesUp
<1>3. CASE w = 0
  <2>1. x = z
    BY <1>3
  <2> QED BY <2>1
<1> QED BY <1>2, <1>3 DEF Measured

\* A round of conversions ends.
LEMMA WarmUpSmooths ==
  ASSUME NEW L, NEW y, ComesUp(L, y), AdcInv, AdcInv', WarmUpInv(L, y), UNCHANGED shutdown,
         SupplySampled', pc = "receive", UNCHANGED <<now, measured>>,
         NEW mV \in measured, Smooth(mV), pc' = "delay", wake' = now + 1
  PROVE  WarmUpInv(L, y)'
<1> DEFINE S == SMOOTHVALUE
           z == accumulator + mV
<1>1. /\ S \in Nat \ {0} /\ mV \in Nat /\ accumulator \in Nat /\ smoothed \in Nat /\ z \in Nat
      /\ now \in Nat /\ acquired \in Nat /\ mV \in Supplies /\ NEEDED \in Nat
      /\ smoothed' \in Nat /\ accumulator' \in Nat
  BY InternalAdcAssumption DEF AdcInv, AdcTypeOK
<1>2. /\ smoothed' = z \div S /\ accumulator' = Kept(z)
      /\ acquired' = acquired \/ acquired' = acquired + 1
  BY DEF Smooth
<1>3. Rounds = now /\ Rounds' = now + 1 /\ ROUNDS \in Nat /\ ROUNDS > 1
  <2>1. Rounds = now /\ Rounds' = now + 1
    BY <1>1 DEF Rounds
  <2>2. /\ SECOND \in Nat \ {0} /\ NEEDED \div SECOND \in Nat /\ SHUTDOWN_s \in Nat
    BY <1>1, SupervisorAssumption
  <2>3. ((NEEDED \div SECOND) + 2 * SHUTDOWN_s) \in Nat
    BY <2>2
  <2>4. \A k \in Nat : SECOND * (k + 2) \in Nat /\ SECOND * (k + 2) > 1
    BY <2>2
  <2> QED BY <2>1, <2>3, <2>4 DEF ROUNDS
<1>4. Paced'
  <2>1. accumulator' + smoothed' = z
    <3>1. accumulator' = z - smoothed'
      BY <1>2 DEF Kept
    <3>2. \A a, b, c \in Nat : a = c - b => a + b = c
      OBVIOUS
    <3> HIDE DEF z
    <3> QED BY <1>1, <3>1, <3>2, Zenon
  <2>2. acquired <= now
    BY <1>3 DEF WarmUpInv, Paced
  <2>3. acquired' <= now + 1
    BY <1>1, <1>2, <2>2
  <2> QED BY <1>1, <1>2, <1>3, <2>1, <2>3 DEF Paced
<1>5. ASSUME Quiet'
      PROVE  Risen(L, y)' /\ Patient'
  <2>1. Quiet /\ Risen(L, y) /\ Patient
    BY <1>5 DEF Quiet, WarmUpInv
  <2>2. L \in Nat /\ L <= mV
    BY <1>1, <2>1 DEF Quiet, ComesUp
  <2>3. L * S \in Nat /\ Kept(L * S) = L * S - L
    BY <2>2, KeptOfLevel
  <2>4. /\ y[1] = L
        /\ \A n \in 1 .. ROUNDS : y[n] \in Nat
        /\ \A n \in 1 .. (ROUNDS - 1) : y[n + 1] = Kept(y[n]) + L
        /\ y[ROUNDS] >= L * S
    BY DEF ComesUp
  <2>5. now + 1 \in 1 .. ROUNDS => y[now + 1] <= z
    <3>1. CASE now = 0
      BY <1>1, <2>2, <2>4, <3>1
    <3>2. CASE now # 0
      <4>1. SUFFICES ASSUME now + 1 \in 1 .. ROUNDS PROVE y[now + 1] <= z
        OBVIOUS
      <4>2. now \in 1 .. ROUNDS /\ now \in 1 .. (ROUNDS - 1)
        BY <1>1, <1>3, <3>2, <4>1
      <4>3. accumulator >= Kept(y[now]) /\ Kept(y[now]) \in Nat
        BY <1>3, <2>1, <2>4, <4>2, KeptGrows DEF Risen
      <4> QED BY <1>1, <2>2, <2>4, <4>2, <4>3
    <3> QED BY <3>1, <3>2
  <2>6. now + 1 >= ROUNDS => L * S <= z
    <3>1. CASE now + 1 = ROUNDS
      <4>1. y[ROUNDS] \in Nat /\ y[ROUNDS] <= z
        BY <1>3, <2>4, <2>5, <3>1
      <4> QED BY <1>1, <2>3, <2>4, <4>1
    <3>2. CASE now >= ROUNDS
      <4>1. accumulator >= L * S - L
        BY <1>3, <2>1, <3>2 DEF Risen
      <4> QED BY <1>1, <2>2, <2>3, <4>1
    <3> QED BY <1>1, <1>3, <3>1, <3>2
  <2> HIDE DEF z
  <2>7. Risen(L, y)'
    <3>1. now + 1 \in 1 .. ROUNDS => accumulator' >= Kept(y[now + 1])
      BY <1>1, <1>2, <2>4, <2>5, KeptGrows
    <3>2. now + 1 >= ROUNDS => accumulator' >= L * S - L /\ smoothed' >= L
      <4>1. SUFFICES ASSUME now + 1 >= ROUNDS
                     PROVE  accumulator' >= L * S - L /\ smoothed' >= L
        OBVIOUS
      <4>2. Kept(L * S) <= Kept(z)
        BY <1>1, <2>3, <2>6, <4>1, KeptGrows
      <4>3. L <= z \div S
        BY <1>1, <2>2, <2>3, <2>6, <4>1, QuotientAtLeast
      <4> QED BY <1>1, <1>2, <2>3, <4>2, <4>3
    <3> QED BY <1>3, <3>1, <3>2 DEF Risen
  <2>8. raspi_was_on_once => Above(smoothed')
    <3>1. SUFFICES ASSUME Above(smoothed) PROVE Above(smoothed')
      BY <2>1 DEF Patient
    <3>2. smoothed <= smoothed' \/ mV <= smoothed'
      <4>1. smoothed = (accumulator + smoothed) \div S
        BY DEF WarmUpInv, Paced
      <4> QED BY <1>1, <1>2, <4>1, SmoothedFalls DEF z
    <3>3. PICK w \in Measured : smoothed' <= w
      BY DEF AdcInv, SmoothedInRange, Measured
    <3>4. Above(mV) /\ AdcTypeOK
      BY <2>1 DEF Quiet, AdcInv
    <3> QED BY <1>1, <2>1, <3>1, <3>2, <3>3, <3>4, BetweenIsAbove
  <2>9. /\ UNCHANGED raspi_was_on_once /\ UNCHANGED time_of_shutdown_command_s /\ UNCHANGED due
    BY DEF shutdown
  <2>10. Patient'
    BY <2>1, <2>8, <2>9 DEF Patient, Above
  <2> QED BY <2>7, <2>10
<1> QED BY <1>4, <1>5 DEF WarmUpInv

LEMMA WarmUpReceives ==
  ASSUME NEW L, NEW y, ComesUp(L, y), AdcInv, AdcInv', WarmUpInv(L, y), UNCHANGED shutdown, Receive
  PROVE  WarmUpInv(L, y)'
<1>1. /\ SupplySampled'
      /\ pc = "receive" /\ UNCHANGED <<now, measured>>
      /\ \/ /\ \E mV \in measured : Smooth(mV)
            /\ pc' = "delay" /\ wake' = now + 1
         \/ pc' = "configure" /\ UNCHANGED <<smoothing, wake>>
  BY SupplyReceived DEF WarmUpInv
<1>2. CASE pc' = "configure" /\ UNCHANGED <<smoothing, wake>>
  <2>1. Rounds' = Rounds /\ wake' <= now' + 1
    BY <1>1, <1>2 DEF Rounds, WarmUpInv, Paced
  <2> QED BY <1>1, <1>2, <2>1, WarmUpGoesOn
<1>3. CASE (\E mV \in measured : Smooth(mV)) /\ pc' = "delay" /\ wake' = now + 1
  BY <1>1, <1>3, WarmUpSmooths
<1> QED BY <1>1, <1>2, <1>3

\* The first check is not before the values are valid, and the deadline of a
\* command not before ROUNDS.
LEMMA FirstSecond ==
  ASSUME NEW n \in Nat, NEEDED <= n
  PROVE  /\ NEEDED \div SECOND \in Nat /\ n \div SECOND \in Nat
         /\ NEEDED \div SECOND <= n \div SECOND
         /\ (NEEDED \div SECOND) + 2 * SHUTDOWN_s + 1 < n \div SECOND => ROUNDS <= n
<1>1. SECOND \in Nat \ {0} /\ NEEDED \in Nat /\ SHUTDOWN_s \in Nat
  BY SupervisorAssumption, InternalAdcAssumption
<1>2. PICK p \in Nat, t \in Nat : p = NEEDED \div SECOND /\ NEEDED = SECOND * p + t /\ t <= SECOND - 1
  BY <1>1, QuotientExists
<1>3. PICK q \in Nat, r \in Nat : q = n \div SECOND /\ n = SECOND * q + r /\ r <= SECOND - 1
  BY <1>1, QuotientExists
<1>4. p <= q
  <2>1. p * SECOND <= n
    BY <1>1, <1>2
  <2> QED BY <1>1, <1>3, <2>1, QuotientAtLeast
<1>5. p + 2 * SHUTDOWN_s + 1 < q => SECOND * (p + 2 * SHUTDOWN_s + 2) <= n
  <2>1. SUFFICES ASSUME p + 2 * SHUTDOWN_s + 1 < q
                 PROVE  SECOND * (p + 2 * SHUTDOWN_s + 2) <= n
    OBVIOUS
  <2>2. PICK k \in Nat : k = p + 2 * SHUTDOWN_s + 2
    BY <1>1
  <2>3. k <= q
    BY <1>1, <2>1, <2>2
  <2>4. SECOND * k <= SECOND * q /\ SECOND * k \in Nat /\ SECOND * q \in Nat
    BY <1>1, <2>3
  <2> QED BY <1>3, <2>2, <2>4
<1> QED BY <1>2, <1>3, <1>4, <1>5 DEF ROUNDS

LEMMA WarmUpChecks ==
  ASSUME NEW L, NEW y, ComesUp(L, y), AdcInv, WarmUpInv(L, y), superisor_check_supply_voltage
  PROVE  WarmUpInv(L, y)'
<1> DEFINE v == Voltage
<1>1. /\ time_of_shutdown_command_s' = Commanded(v)
      /\ raspi_was_on_once' = (raspi_was_on_once \/ v > ON)
      /\ due' = (Commanded(v) # 0 /\ Commanded(v) + SHUTDOWN_s < Seconds)
      /\ adc_values_valid
  BY Zenon DEF superisor_check_supply_voltage
<1>2. /\ UNCHANGED <<now, pc, wake, index, adcConversionsQueue, adcValuesPlain>>
      /\ UNCHANGED <<accumulator, smoothed, acquired, measured>>
  BY DEF superisor_check_supply_voltage, adcVars, smoothing
<1>3. Rounds' = Rounds
  BY <1>2 DEF Rounds
<1>4. SupplySampled' /\ Paced'
  BY <1>2, <1>3 DEF WarmUpInv, SupplySampled, Paced
<1>5. ASSUME Quiet'
      PROVE  Risen(L, y)' /\ Patient'
  <2>1. Quiet /\ Risen(L, y) /\ Patient
    BY <1>2, <1>5 DEF Quiet, Above, WarmUpInv
  <2>2. Risen(L, y)'
    BY <1>2, <1>3, <2>1 DEF Risen
  <2>3. v \in Nat /\ smoothed \in Nat /\ (Above(smoothed) <=> v > ON)
    BY VoltageNat DEF AdcInv, AdcTypeOK, Voltage, Above
  <2>4. PICK first \in Nat, s \in Nat :
          /\ first = NEEDED \div SECOND /\ s = Seconds /\ first <= s
          /\ first + 2 * SHUTDOWN_s + 1 < s => ROUNDS <= now
    <3>1. NEEDED <= now /\ now \in Nat
      <4>1. /\ now \in Nat /\ wake \in Nat /\ acquired \in Nat /\ NEEDED \in Nat
            /\ NEEDED < acquired /\ acquired <= Rounds
        BY <1>1, InternalAdcAssumption DEF AdcInv, AdcTypeOK, WarmUpInv, Paced, adc_values_valid
      <4>2. Rounds <= now + 1 /\ Rounds \in Nat
        BY <4>1 DEF Rounds
      <4> QED BY <4>1, <4>2
    <3> QED BY <3>1, FirstSecond DEF Seconds
  <2>5. SHUTDOWN_s \in Nat /\ OFF \in Nat /\ ON \in Nat /\ OFF <= ON
    BY SupervisorAssumption
  <2>6. raspi_was_on_once' => Above(smoothed)
    BY <1>1, <2>1, <2>3 DEF Patient
  <2> DEFINE t == time_of_shutdown_command_s
  <2>7. /\ t' \in Nat
        /\ t' # 0 => t' >= first + SHUTDOWN_s + 1
        /\ ~due'
    <3>1. t \in Nat /\ (t # 0 => t >= first + SHUTDOWN_s + 1)
      BY <2>1, <2>4 DEF Patient
    <3> HIDE DEF v, t
    <3>2. CASE v < OFF
      <4>1. ~raspi_was_on_once
        BY <2>1, <2>3, <2>5, <3>2 DEF Patient
      <4>2. Commanded(v) = s + (SHUTDOWN_s + 1)
        <5>1. Commanded(v) = Seconds + IF raspi_was_on_once THEN 0 ELSE SHUTDOWN_s + 1
          BY <2>3, <2>5, <3>2 DEF Commanded
        <5>2. (IF raspi_was_on_once THEN 0 ELSE SHUTDOWN_s + 1) = SHUTDOWN_s + 1
          BY <4>1, Zenon
        <5> QED BY <2>4, <5>1, <5>2, Zenon
      <4>3. Commanded(v) \in Nat /\ Commanded(v) >= first + SHUTDOWN_s + 1 /\ ~(Commanded(v) + SHUTDOWN_s < s)
        BY <2>4, <2>5, <4>2
      <4> QED BY <1>1, <2>4, <4>3 DEF t
    <3>3. CASE v > ON
      <4>1. Commanded(v) = 0
        BY <2>3, <2>5, <3>3 DEF Commanded
      <4>2. t' = 0 /\ ~due'
        BY <1>1, <4>1, Zenon DEF t
      <4> QED BY <4>2
    <3>4. CASE OFF <= v /\ v <= ON
      <4>1. Commanded(v) = t
        BY <2>3, <2>5, <3>4 DEF Commanded, t
      <4>2. ASSUME t # 0, t + SHUTDOWN_s < s
            PROVE  FALSE
        <5>1. ROUNDS <= now
          BY <2>4, <2>5, <3>1, <4>2
        <5>2. L <= smoothed /\ L \in Nat /\ Above(L)
          <6>1. now \in Nat /\ wake \in Nat
            BY DEF AdcInv, AdcTypeOK
          <6>2. ROUNDS \in Int
            BY <2>4, <2>5, SupervisorAssumption DEF ROUNDS
          <6>3. Rounds >= ROUNDS
            BY <5>1, <6>1, <6>2 DEF Rounds
          <6> QED BY <2>1, <6>3 DEF Risen, ComesUp
        <5>3. PICK w \in Measured : smoothed <= w
          BY DEF AdcInv, SmoothedInRange, Measured
        <5>4. Above(smoothed)
          BY <2>1, <2>3, <5>2, <5>3, BetweenIsAbove DEF AdcInv
        <5> QED BY <2>3, <2>5, <3>4, <5>4
      <4> QED BY <1>1, <2>4, <3>1, <4>1, <4>2 DEF t
    <3> QED BY <2>3, <2>5, <3>2, <3>3, <3>4
  <2>8. Patient'
    BY <1>2, <2>4, <2>6, <2>7 DEF Patient, Above
  <2> QED BY <2>2, <2>8
<1> QED BY <1>4, <1>5 DEF WarmUpInv

LEMMA WarmUpInit ==
  ASSUME NEW L, NEW y, Init
  PROVE  WarmUpInv(L, y)
<1> USE InternalAdcAssumption DEF Init, AdcInit
<1>1. SupplySampled
  <2>1. \A q \in Results : <<>> # <<q>>
    OBVIOUS
  <2> QED BY <2>1 DEF SupplySampled
<1>2. Rounds = 0
  BY DEF Rounds
<1>3. Paced
  <2>1. \A s \in Nat \ {0} : 0 \div s = 0
    OBVIOUS
  <2> QED BY <1>2, <2>1 DEF Paced
<1>4. ROUNDS \in Nat \ {0}
  <2>1. SECOND \in Nat \ {0} /\ NEEDED \div SECOND \in Nat /\ SHUTDOWN_s \in Nat
    BY SupervisorAssumption
  <2>2. ((NEEDED \div SECOND) + 2 * SHUTDOWN_s) \in Nat
    BY <2>1
  <2>3. \A k \in Nat : SECOND * (k + 2) \in Nat \ {0}
    BY <2>1
  <2> QED BY <2>2, <2>3 DEF ROUNDS
<1>5. Risen(L, y) /\ Patient
  BY <1>2, <1>4 DEF Risen, Patient
<1> QED BY <1>1, <1>3, <1>5 DEF WarmUpInv

LEMMA WarmUpNext ==
  ASSUME NEW L, NEW y, ComesUp(L, y), AdcInv, AdcInv', WarmUpInv(L, y), [Next]_vars
  PROVE  WarmUpInv(L, y)'
<1>1. CASE Converts
  <2>1. AdcStep /\ UNCHANGED shutdown
    BY <1>1 DEF Converts
  <2>2. CASE HAL_ADC_ConfigChannel \/ SetSequenceIndex \/ HAL_ADC_Start_IT \/ DelayOver
    BY <2>1, <2>2, WarmUpConfigures
  <2>3. CASE \E mV \in Supplies \cup {0} : HAL_ADC_ConvCpltCallback(mV)
    BY <2>1, <2>3, WarmUpConverts
  <2>4. CASE Receive
    BY <2>1, <2>4, WarmUpReceives
  <2> QED BY <2>1, <2>2, <2>3, <2>4 DEF AdcStep
<1>2. CASE ClockRuns
  BY <1>2, WarmUpWaits
<1>3. CASE superisor_check_supply_voltage
  BY <1>3, WarmUpChecks
<1>4. CASE UNCHANGED <<adcVars, shutdown>>
  <2>1. UNCHANGED <<now, pc, wake, index, adcConversionsQueue, adcValuesPlain, smoothing, measured>>
    BY <1>4 DEF adcVars
  <2>2. Rounds' = Rounds /\ wake' <= now' + 1
    BY <2>1 DEF Rounds, WarmUpInv, Paced
  <2>3. SupplySampled'
    BY <2>1 DEF WarmUpInv, SupplySampled
  <2> QED BY <1>4, <2>1, <2>2, <2>3, WarmUpGoesOn
<1>5. WaitForValues \/ UNCHANGED vars => UNCHANGED <<adcVars, shutdown>>
  BY DEF WaitForValues, vars
<1> QED BY <1>1, <1>2, <1>3, <1>4, <1>5 DEF Next

\* A start under a supply that was seen above ON all the time is never taken
\* for an outage, provided the smoothing comes up to the least such supply
\* before the first deadline can be over (task_supervisor.c:36-60;
\* task_adc.c:212-214, 259-272).
THEOREM StartIsNoOutage ==
  ASSUME NEW CONSTANT L, NEW CONSTANT y, ComesUp(L, y)
  PROVE  Spec => []WarmUpIsNoOutage
<1>1. Init => WarmUpInv(L, y)
  BY WarmUpInit
<1>2. AdcInv /\ AdcInv' /\ WarmUpInv(L, y) /\ [Next]_vars => WarmUpInv(L, y)'
  BY WarmUpNext
<1>3. AdcInv /\ WarmUpInv(L, y) => WarmUpIsNoOutage
  <2> SUFFICES ASSUME AdcInv, WarmUpInv(L, y), due
               PROVE  \E mV \in measured : adc_get_values(mV) <= ON
    BY DEF WarmUpIsNoOutage
  <2>1. PICK mV \in measured : ~Above(mV)
    BY DEF WarmUpInv, Patient, Quiet
  <2>2. mV \in Int
    BY InternalAdcAssumption DEF AdcInv, AdcTypeOK
  <2>3. adc_get_values(mV) \in Nat /\ ON \in Nat
    BY <2>2, VoltageNat, SupervisorAssumption
  <2> QED BY <2>1, <2>3 DEF Above
<1> QED BY <1>1, <1>2, <1>3, InvIsKept, PTL DEF Spec

============================================================================
