---------------------------- MODULE Supervisor -----------------------------
(***************************************************************************)
(* taskSupervisor, which decides from the smoothed supply voltage whether  *)
(* the Raspberry Pi has to shut down, together with the internal ADC.      *)
(*                                                                         *)
(* `due' is the condition of switching off (the statements under it are    *)
(* compiled out).  It sees the voltage through the calibration of its      *)
(* channel, which may also be negative.  `outage' is no state of the code: *)
(* it keeps what the properties compare the command with.                  *)
(***************************************************************************)
EXTENDS InternalAdc, Integers

CONSTANTS
  OFF,                (* THRESHOLD_SUPPLY_VOLTAGE_OFF_10mV        (2400)   *)
  ON,                 (* THRESHOLD_SUPPLY_VOLTAGE_ON_10mV         (2500)   *)
  SHUTDOWN_s,         (* TIME_FOR_RASPI_TO_SHUTDOWN_s               (30)   *)
  SECOND,             (* 1000 ms, in the unit of time               (10)   *)
  coeffs,             (* calibration_t.cpu_channels[SUPPLY]                *)
  ONE,                (* the coefficient that stands for 1       (65536)   *)
  UINT16              (* values of uint16_t                      (65536)   *)

ASSUME SupervisorAssumption ==
  /\ OFF \in Nat /\ ON \in Nat /\ OFF <= ON
  /\ SHUTDOWN_s \in Nat /\ SECOND \in Nat \ {0}
  /\ coeffs \in [c0 : Int, c1 : Int, c2 : Int]
  /\ ONE \in Nat \ {0} /\ UINT16 \in Nat \ {0}

VARIABLES
  time_of_shutdown_command_s,
  raspi_was_on_once,
  check,              (* when the delay of the task ends                   *)
  due,                (* the time to shut down was over at the last check  *)
  outage              (* when the voltage was first seen below OFF since   *)
                      (* it was last seen above ON, in s, or None          *)

shutdown == <<time_of_shutdown_command_s, raspi_was_on_once, due, outage>>
vars == <<adcVars, shutdown, check>>

Seconds == now \div SECOND

----------------------------------------------------------------------------
(* What tasks get to see of the supply voltage.                            *)

\* The division of C: towards 0.
Quotient(n) == IF n < 0 THEN -((-n) \div ONE) ELSE n \div ONE

calib_apply_calibration(in_value) ==
  Quotient(coeffs.c0 + coeffs.c1 * in_value + coeffs.c2 * in_value * in_value)

\* What the getter returns for it, in a critical section, as a uint16_t.
adc_get_values(smoothed_value) == calib_apply_calibration(smoothed_value) % UINT16

Voltage == adc_get_values(smoothed)

----------------------------------------------------------------------------
Init ==
  /\ AdcInit
  /\ time_of_shutdown_command_s = 0 /\ raspi_was_on_once = FALSE
  /\ check = 0 /\ due = FALSE /\ outage = None

\* The loop that waits for adc_values_valid.
WaitForValues ==
  /\ ~adc_values_valid /\ check <= now
  /\ check' = now + 1
  /\ UNCHANGED <<adcVars, shutdown>>

\* Mutant of Commanded: a voltage above ON does not take the command back.
NeverTakenBack(v) ==
  IF v < OFF
  THEN Seconds + IF raspi_was_on_once THEN 0 ELSE SHUTDOWN_s + 1
  ELSE time_of_shutdown_command_s

\* Mutant of Commanded: the time to start up is not added.
CommandedAtStart(v) ==
  CASE v < OFF -> Seconds
    [] v > ON -> 0
    [] OTHER -> time_of_shutdown_command_s

\* time_of_shutdown_command_s after a check; 0 is no command.
Commanded(v) ==
  CASE v < OFF -> Seconds + IF raspi_was_on_once THEN 0 ELSE SHUTDOWN_s + 1
    [] v > ON -> 0
    [] OTHER -> time_of_shutdown_command_s

\* The outage after a check.
Outage(v) ==
  CASE v > ON -> None
    [] v < OFF /\ outage = None -> Seconds
    [] OTHER -> outage

superisor_check_supply_voltage ==
  /\ adc_values_valid /\ check <= now
  /\ outage' = Outage(Voltage)
  /\ time_of_shutdown_command_s' = Commanded(Voltage)
  /\ raspi_was_on_once' = (raspi_was_on_once \/ Voltage > ON)
  /\ LET t == Commanded(Voltage)
     IN  due' = (t # 0 /\ t + SHUTDOWN_s < Seconds)
  /\ check' = now + SECOND
  /\ UNCHANGED adcVars

Converts ==
  /\ AdcStep
  /\ UNCHANGED <<shutdown, check>>

ClockRuns ==
  /\ now < check
  /\ Clock
  /\ UNCHANGED <<shutdown, check>>

Next ==
  \/ Converts \/ ClockRuns
  \/ WaitForValues \/ superisor_check_supply_voltage

Spec == Init /\ [][Next]_vars

\* The ADC delivers its interrupt and the tasks get the processor.
FairSpec == Spec /\ WF_vars(Converts)

----------------------------------------------------------------------------
(* Properties.                                                             *)

\* The time to shut down is over only in an outage that is not over itself, and
\* only when the Raspberry Pi has had all of it: a command of an earlier outage is
\* never acted on, nor counted for this one, however the voltage goes up and down
\* between the checks (lines 42-54).
DeadlineIsOfThisOutage ==
  due => outage # None /\ outage + SHUTDOWN_s < Seconds

\* A start under a supply that was above ON all the time is not taken for an
\* outage, though the smoothed voltage comes up from 0 and passes below OFF and
\* between the thresholds when it is already valid (lines 42-54;
\* task_adc.c:212-214, 259-272).
WarmUpIsNoOutage == due => \E mV \in measured : adc_get_values(mV) <= ON

\* What this depends on: L is the least supply that is seen above ON, what lies
\* between two voltages seen above ON is seen above ON, and the sums y[1], y[2],
\* ... to which a constant supply of L adds up come to it within ROUNDS, the
\* second of the first check and the times to start and to shut down, twice.
Above(mV) == adc_get_values(mV) > ON

ROUNDS == SECOND * ((NEEDED \div SECOND) + 2 * SHUTDOWN_s + 2)

ComesUp(L, y) ==
  /\ L \in Nat /\ Above(L) /\ \A mV \in Supplies : Above(mV) => L <= mV
  /\ \A mV \in Supplies : \A x \in 0 .. mV : \A z \in x .. mV :
       Above(mV) /\ Above(x) => Above(z)
  /\ y \in [1 .. ROUNDS -> Nat] /\ y[1] = L
  /\ \A n \in 1 .. (ROUNDS - 1) : y[n + 1] = Kept(y[n]) + L
  /\ y[ROUNDS] >= L * SMOOTHVALUE

============================================================================
