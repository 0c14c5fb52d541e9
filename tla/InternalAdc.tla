---------------------------- MODULE InternalAdc ----------------------------
(***************************************************************************)
(* taskADC: one conversion after the other, each started by the task once  *)
(* the interrupt has delivered the result of the one before through a      *)
(* queue, and the smoothing of what was measured.                          *)
(*                                                                         *)
(* A value carries the channel it was converted from, which the hardware   *)
(* does not tell: the interrupt takes adcSequenceIndex for it.  Of the     *)
(* channels only the supply voltage has values, in mV, scaled by the       *)
(* reference already; the others are smoothed the same way.  Time is       *)
(* counted in the 100 ms of vTaskDelay; conversions take no time that      *)
(* counts.  A timeout of the queue changes nothing and is left out.        *)
(***************************************************************************)
EXTENDS Naturals, Sequences

CONSTANTS
  CHANNELS,           (* adsi_max                                    (5)   *)
  SUPPLY,             (* adsi_supply_sensse                          (2)   *)
  QUEUE,              (* length of adcConversionsQueue              (10)   *)
  SMOOTHVALUE,        (*                                            (16)   *)
  NEEDED,             (* VALUES_NEEDED_FOR_BEING_VALID              (16)   *)
  Supplies,           (* values of the supply voltage                      *)
  TimeBound,          (* time that passes, a bound for the checking        *)
  None

ASSUME InternalAdcAssumption ==
  /\ CHANNELS \in Nat \ {0} /\ SUPPLY \in 0 .. (CHANNELS - 1)
  /\ QUEUE \in Nat \ {0} /\ SMOOTHVALUE \in Nat \ {0} /\ NEEDED \in Nat
  /\ Supplies \subseteq Nat /\ TimeBound \in Nat
  /\ None \notin Nat

VARIABLES
  now,                (* time                                              *)
  pc,                 (* what taskADC does next                            *)
  wake,               (* when its delay ends                               *)
  index,              (* conversion_result.index, of the next conversion   *)
  configured,         (* the channel the ADC is configured for             *)
  adcSequenceIndex,
  converting,         (* the channel that is being converted, or None      *)
  adcConversionsQueue,
  adcValuesPlain,     (* last value of each channel                        *)
  accumulator,        (* adcValues_smoothed_SMOOTHVALUE[SUPPLY]            *)
  smoothed,           (* adcValues_smoothed[SUPPLY]                        *)
  acquired,           (* acquired_adc_values                               *)
  measured            (* supply voltages converted so far                  *)

smoothing == <<accumulator, smoothed, acquired>>
adcVars == <<now, pc, wake, index, configured, adcSequenceIndex, converting,
             adcConversionsQueue, adcValuesPlain, smoothing, measured>>

Channels == 0 .. (CHANNELS - 1)
REF == CHANNELS - 1

Values == [of : Channels, mV : Nat]

----------------------------------------------------------------------------
AdcInit ==
  /\ now = 0 /\ wake = 0
  /\ pc = "configure" /\ index = 0
  /\ configured = REF /\ adcSequenceIndex = 0 /\ converting = None
  /\ adcConversionsQueue = <<>>
  /\ adcValuesPlain = [c \in Channels |-> [of |-> c, mV |-> 0]]
  /\ accumulator = 0 /\ smoothed = 0 /\ acquired = 0 /\ measured = {}

\* Mutant of Following: the conversion is started before its index is set.
IndexLast(s) ==
  CASE s = "configure" -> "start" [] s = "start" -> "index" [] s = "index" -> "receive"

\* Mutant of Following: the next conversion does not wait for the result.
NoWait(s) ==
  CASE s = "configure" -> "index" [] s = "index" -> "start" [] s = "start" -> "configure"

\* The order of startConversion.
Following(s) ==
  CASE s = "configure" -> "index" [] s = "index" -> "start" [] s = "start" -> "receive"

HAL_ADC_ConfigChannel ==
  /\ pc = "configure" /\ pc' = Following(pc)
  /\ configured' = index
  /\ UNCHANGED <<now, wake, index, adcSequenceIndex, converting, adcConversionsQueue,
                 adcValuesPlain, smoothing, measured>>

SetSequenceIndex ==
  /\ pc = "index" /\ pc' = Following(pc)
  /\ adcSequenceIndex' = index
  /\ UNCHANGED <<now, wake, index, configured, converting, adcConversionsQueue,
                 adcValuesPlain, smoothing, measured>>

HAL_ADC_Start_IT ==
  /\ pc = "start" /\ pc' = Following(pc)
  /\ converting' = configured
  /\ UNCHANGED <<now, wake, index, configured, adcSequenceIndex, adcConversionsQueue,
                 adcValuesPlain, smoothing, measured>>

\* The interrupt at the end of the conversion; a full queue takes no result.
HAL_ADC_ConvCpltCallback(mV) ==
  /\ converting # None
  /\ mV \in IF converting = SUPPLY THEN Supplies ELSE {0}
  /\ converting' = None
  /\ LET result == [index |-> adcSequenceIndex, value |-> [of |-> converting, mV |-> mV]]
     IN  adcConversionsQueue' = IF Len(adcConversionsQueue) < QUEUE
                                THEN Append(adcConversionsQueue, result)
                                ELSE adcConversionsQueue
  /\ measured' = measured \cup (IF converting = SUPPLY THEN {mV} ELSE {})
  /\ UNCHANGED <<now, pc, wake, index, configured, adcSequenceIndex, adcValuesPlain, smoothing>>

\* Mutant of Kept: what goes out is not taken off.
KeptAll(y) == y

\* What stays in the accumulator when the smoothed value has been taken off.
Kept(y) == y - (y \div SMOOTHVALUE)

Smooth(mV) ==
  LET y == accumulator + mV
  IN  /\ smoothed' = y \div SMOOTHVALUE
      /\ accumulator' = Kept(y)
      /\ acquired' = IF NEEDED < acquired THEN acquired ELSE acquired + 1

adc_values_valid == NEEDED < acquired

\* Mutant of EndsRound: the round goes on behind its last channel.
EndsNever(c) == c = CHANNELS

\* The reference is the last channel of a round.
EndsRound(c) == c = REF

\* Mutant of NextIndex: the channel is not advanced.
SameIndex(c) == c

NextIndex(c) == c + 1

\* xQueueReceive returns pdTRUE, up to the delay or to the next conversion.
Receive ==
  /\ pc = "receive" /\ adcConversionsQueue # <<>>
  /\ LET result == Head(adcConversionsQueue)
         plain == [adcValuesPlain EXCEPT ![result.index] = result.value]
     IN  /\ adcValuesPlain' = plain
         /\ IF EndsRound(result.index)
            THEN /\ Smooth(plain[SUPPLY].mV)
                 /\ index' = 0 /\ pc' = "delay" /\ wake' = now + 1
            ELSE /\ index' = NextIndex(result.index) /\ pc' = "configure"
                 /\ UNCHANGED <<smoothing, wake>>
  /\ adcConversionsQueue' = Tail(adcConversionsQueue)
  /\ UNCHANGED <<now, configured, adcSequenceIndex, converting, measured>>

\* vTaskDelay returns.
DelayOver ==
  /\ pc = "delay" /\ wake <= now
  /\ pc' = "configure"
  /\ UNCHANGED <<now, wake, index, configured, adcSequenceIndex, converting,
                 adcConversionsQueue, adcValuesPlain, smoothing, measured>>

AdcStep ==
  \/ HAL_ADC_ConfigChannel \/ SetSequenceIndex \/ HAL_ADC_Start_IT
  \/ \E mV \in Supplies \cup {0} : HAL_ADC_ConvCpltCallback(mV)
  \/ Receive \/ DelayOver

\* A task whose delay is over gets its turn within 100 ms.
AdcSleeps == pc = "delay" /\ now < wake

Clock ==
  /\ AdcSleeps
  /\ now < TimeBound
  /\ now' = now + 1
  /\ UNCHANGED <<pc, wake, index, configured, adcSequenceIndex, converting,
                 adcConversionsQueue, adcValuesPlain, smoothing, measured>>

----------------------------------------------------------------------------
(* Properties.                                                             *)

\* Channels are indices of adcCHANNELS and of the arrays of values, and the
\* queue stays within its length (task_adc.c:73-83, 164-174, 229-279).
AdcTypeOK ==
  /\ now \in Nat /\ wake \in Nat
  /\ pc \in {"configure", "index", "start", "receive", "delay"}
  /\ index \in Channels /\ configured \in Channels /\ adcSequenceIndex \in Channels
  /\ converting \in Channels \cup {None}
  /\ adcConversionsQueue \in Seq([index : Channels, value : Values])
  /\ Len(adcConversionsQueue) <= QUEUE
  /\ adcValuesPlain \in [Channels -> Values]
  /\ accumulator \in Nat /\ smoothed \in Nat /\ acquired \in 0 .. (NEEDED + 1)
  /\ measured \subseteq Supplies

\* A value is never taken for that of another channel, though the interrupt
\* only knows the index the task has set last (lines 164-174, 300-303, 235).
ValuesAreOfTheirChannel ==
  /\ \A c \in Channels : adcValuesPlain[c].of = c
  /\ \A k \in 1 .. Len(adcConversionsQueue) :
       adcConversionsQueue[k].index = adcConversionsQueue[k].value.of

\* No result is dropped by a full queue, which would stop the conversions for
\* ever: while a channel is being converted the queue is empty, and there is
\* one result or one conversion whenever the task waits (lines 231, 279, 303).
OneResultAtATime ==
  /\ converting # None => adcConversionsQueue = <<>>
  /\ pc = "receive" => (converting # None) # (Len(adcConversionsQueue) = 1)

\* The smoothed voltage never exceeds what was measured, for all the rounding
\* of the accumulator (lines 259-270).
SmoothedInRange == \E mV \in measured \cup {0} : smoothed <= mV

\* Every round of conversions ends, with all channels converted (229-279).
RoundsEnd == (pc # "delay") ~> (pc = "delay")

============================================================================
