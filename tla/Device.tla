------------------------------- MODULE Device -------------------------------
(***************************************************************************)
(* The start of the device (main.c) and what runs in it afterwards: the    *)
(* calibration, the keys and the LEDs, with resets at any time.  main runs *)
(* before the scheduler; then the RPC task starts the other tasks, makes   *)
(* itself known to taskKey, and answers one call at a time.  taskKey and   *)
(* taskLED have higher priorities and interrupt it anywhere.               *)
(*                                                                         *)
(* Samples, statistics, serial ports, supervisor and display have modules  *)
(* of their own; they share nothing with what is put together here.        *)
(***************************************************************************)
EXTENDS CalibrationStorage, Keys, Leds

VARIABLES
  resetFlags,   (* of RCC->CSR: kept until they are cleared                *)
  rpc           (* how far taskRPCSerialIn has come                        *)

boot == <<resetFlags, rpc>>
vars == <<calibrationVars, keyVars, ledVars, boot>>

ResetFlags == {"PORRSTF", "PINRSTF"}

Init ==
  /\ CalibrationInit /\ KeysInit /\ LedsInit
  /\ resetFlags = ResetFlags
  /\ rpc = "none"

----------------------------------------------------------------------------
(* main.                                                                   *)

\* main up to calib_init: the red LED is switched on first.
StartUp ==
  /\ calib_init
  /\ lit' = {lid_red}
  /\ UNCHANGED <<ledPatterns, flashes, pausing, keyVars, boot>>

\* In this order, because the flag of the pin is always set.  The device is
\* never sent to standby, and neither software nor a watchdog resets it.
mainTestResetSource ==
  CASE "PORRSTF" \in resetFlags -> "rer_powerOnReset"
    [] "PORRSTF" \notin resetFlags /\ "PINRSTF" \in resetFlags -> "rer_resetPin"
    [] OTHER -> "assertion fails"

\* The rest of main, up to the start of the scheduler: the RPC task is the only
\* one that is not suspended.
StartScheduler ==
  /\ phase = "main"
  /\ mainTestResetSource # "assertion fails"
  /\ resetFlags' = {}
  /\ KeysReset
  /\ phase' = "running" /\ rpc' = "start"
  /\ UNCHANGED <<eeprom, blank, found_storage_chunks, ram, copying, index, kept, ledVars>>

----------------------------------------------------------------------------
(* The tasks.                                                              *)

\* vTaskResume of tasks with higher priorities: each runs at once until it
\* first waits.  Nobody is registered for the keys yet.
ResumeTasks(down) ==
  /\ phase = "running" /\ rpc = "start"
  /\ rpc' = "resumed"
  /\ taskLED /\ Poll(down)
  /\ UNCHANGED <<calibrationVars, resetFlags>>

RegisterKeyHandler ==
  /\ phase = "running" /\ rpc = "resumed"
  /\ init_rpc_key_handler
  /\ rpc' = "serving"
  /\ UNCHANGED <<calibrationVars, ledVars, resetFlags>>

TasksRun == phase = "running" /\ rpc \in {"resumed", "serving"}

taskKey(down) ==
  /\ TasksRun /\ Poll(down)
  /\ UNCHANGED <<calibrationVars, ledVars, boot>>

LedLoop ==
  /\ TasksRun /\ taskLEDPatternLoop
  /\ UNCHANGED <<calibrationVars, keyVars, boot>>

\* The RPC task is between two calls.
Serving ==
  /\ phase = "running" /\ rpc = "serving"
  /\ copying = None /\ index = None /\ clearing = {}

CallSetCalibration(c) ==
  /\ Serving /\ set_calibration_data(c)
  /\ UNCHANGED <<keyVars, ledVars, boot>>

\* Also the default is stored by these steps, before the scheduler runs.
Store == StoreStep /\ UNCHANGED <<keyVars, ledVars, boot>>

CallKeyState(key_id, reset_key_memory) ==
  /\ Serving /\ get_last_key_state(key_id, reset_key_memory)
  /\ UNCHANGED <<calibrationVars, ledVars, boot>>

Clear(k) ==
  /\ phase = "running" /\ ClearState(k)
  /\ UNCHANGED <<calibrationVars, ledVars, boot>>

----------------------------------------------------------------------------
Restart(flags) ==
  /\ phase # "off"
  /\ CalibrationReset /\ KeysReset /\ LedsReset
  /\ resetFlags' = flags /\ rpc' = "none"

PowerLoss == Restart(ResetFlags)

ResetPin == Restart(resetFlags \cup {"PINRSTF"})

Next ==
  \/ StartUp \/ StartScheduler
  \/ \E down \in SUBSET Key : ResumeTasks(down) \/ taskKey(down)
  \/ RegisterKeyHandler
  \/ LedLoop
  \/ \E c \in UserCalibrations : CallSetCalibration(c)
  \/ Store
  \/ \E k \in Key, reset \in BOOLEAN : CallKeyState(k, reset)
  \/ \E k \in Key : Clear(k)
  \/ PowerLoss \/ ResetPin

Spec == Init /\ [][Next]_vars

----------------------------------------------------------------------------
(* Properties.                                                             *)

\* Data of all parts stays within its arrays and types, whatever is reset when.
\* A start finds the flag of its reset, so that main goes on (main.c:209-216).
TypeOK ==
  /\ CalibrationTypeOK /\ KeysTypeOK /\ LedsTypeOK
  /\ resetFlags \subseteq ResetFlags
  /\ phase = "main" => mainTestResetSource # "assertion fails"
  /\ rpc \in {"none", "start", "resumed", "serving"}

=============================================================================
