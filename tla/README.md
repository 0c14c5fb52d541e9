# TLA+ models of the wind-turbine logger (main MCU)

The repository is the firmware of the main controller (STM32F407, FreeRTOS) of
a power logger for a small wind turbine. It samples the phase currents and
voltages with an external ADC, calculates averages, peaks, power and frequency,
shows them on an LCD, and serves a Raspberry Pi over a serial line with remote
procedure calls (RPC), among them recordings of raw samples and the calibration,
which is kept in an EEPROM emulated in flash.

This directory models the parts of it whose correctness depends on the order of
events: power failures between two flash operations, interrupts between two
statements, tasks that are held up, two tasks at one display, counters that
overflow, and resets at any time.

## Inventory

All paths are below `src/mcu/`. "Task" gives the FreeRTOS priority.

| Component | Source | State | Operations | Interacts through |
|---|---|---|---|---|
| EEPROM emulation | `src/eeprom_emulation.c`, `include/eeprom_emulation.h` | two flash pages, each a header and a log of (data, virtual address) | EE_Init, EE_ReadVariable, EE_WriteVariable (page transfer, format) | HAL flash operations |
| EEPROM storage | `src/eeprom_storage.c` | list of areas | eeprom_init, write_buffer, read_buffer, check_for_overlaps | calls the emulation, halfword by halfword |
| Calibration | `src/storage_calibration.c` | RAM copy of coefficients and CRC | calib_init, calib_store, calib_get, apply | calls EEPROM storage; read by both ADC tasks through a pointer |
| Serial ports | `src/libraries/serial.c` | two queues per port, flag polling/RTOS | put, get, interrupt handlers | queues, USART registers |
| RPC task (1) | `src/task_rpc_serial_in.c`, `modules/rpc/...` | parser, mutexes (binary semaphores) | receive loop; the RPC functions | calls almost every other component |
| External ADC task (3) | `src/task_external_adc.c` | DMA buffer of two halves, record, chunk, recording, sums and results | sample loop; start/read recording; getters | DMA interrupt, binary semaphore, critical sections |
| Internal ADC task (3) | `src/task_adc.c` | conversion in progress, queue of results, smoothing | conversion loop, adc_get_values | ADC interrupt, queue |
| Supervisor task (3) | `src/task_supervisor.c` | deadline of the shutdown | check each second | reads the internal ADC through the calibration |
| Key task (3) | `src/task_key.c`, `rpc_func_freertos.c` | debouncing per key, list of handlers, key memory | poll; register/unregister; get_last_key_state | handlers called from the task, memory read by RPC |
| Display task (3) | `src/task_display.c`, `src/hd44780.c` | current screen, counts of updates, index of the status screen, custom text, cursor | paint/update, set screen, write bytes in two nibbles | changed by the RPC task as well, no mutex |
| LED task (4) | `src/task_led.c` | patterns by LED and priority | loop, setters | LED pins, shared with the boot code |
| RTC, HAL tick, boot, error hooks | `src/rtc_stdlib.c`, `src/stm32f4xx_hal_timebase_TIM.c`, `src/main.c`, `src/board.c`, `src/chip_init.c`, `src/syscalls.c` | clock, counters | get/set time; tick; start-up | |

What is hard here:

* **Crashes.** Flash keeps whatever was programmed when the power went; a
  calibration is 160 separate writes.
* **Interrupts between statements.** A put fills a queue and enables an
  interrupt in two steps, while the handler empties the queue and disables it.
* **No mutex.** `taskDisplay` and the RPC task both choose, paint and update
  screens; samples are scaled with a calibration that is being replaced; the key
  memory is cleared while the key task writes to it. What keeps such pairs apart
  is only the priorities and the places where the higher task waits.
* **Signals that merge.** A binary semaphore given twice is taken once, and the
  task knows which half of the buffer is ready by counting only.
* **Limits.** A log that runs into the next page, full queues that nobody looks
  at, a tick counter that overflows after 49.7 days.
* **Liveness.** The last character must leave without a further put, the
  interrupt must come to rest, the rotation of the screens must go on.

What makes each component correct, in short: a *store* is a set of variables
that change atomically and survive; a *calibration* in use is one that somebody
made; a *serial port* neither loses nor reorders what it accepted; a *recording*
is one gapless run of whole scans; a published *average* belongs to one window,
a *peak* reaches its reader, a *window* ends in time; a *press* is reported once;
the *LCD* shows one screen again after the tasks have mixed two. `PROJECT.json` lists every
hazard at its line with the properties that guard it.

## Plan

1. (done) EEPROM emulation, against an abstract store of atomic variables.
2. (done) Calibration, on top of that abstract store.
3. (done) Serial port.
4. (done) External ADC: sample stream and recording; then the statistics.
5. (done) Internal ADC with interrupt, queue and smoothing, and the supervisor
   that reads it.
6. (done) Front panel: keys (debouncing, handlers, key memory), and the display
   with its two users.
7. (done) The LED patterns, and `Device`: boot, calibration, keys and LEDs in one
   module, with resets at any time.
8. (done) The calibration seen by the tasks that scale samples while the RPC task
   replaces it; the calibration of the voltage the supervisor decides by.

Left: the conversion of raw values to units, the sums of effective values and
power (signed 64-bit arithmetic), and the real-time clock, if its conversions are
wanted. Every safety property of the passing runs is proved.

## Modules

### EepromEmulation, AtomicVariables

`flash` is the content of both pages in halfwords. A call of `EE_Init` or
`EE_WriteVariable` looks at flash and puts the HAL operations it will do into
`todo`; one action performs the first of them (`DoErase`, `DoEraseIfDirty`,
`DoProgram`), or reports an error (`HalError`). Steps that depend on what flash
holds by then (`DoWrite`, `DoCopyAll`, `DoCopyOthers`, the loops of the code) are
expanded when they are reached. So the power can fail (`PowerLoss`) between any
two flash operations. Programming only clears bits.

The geometry is scaled and keeps what is essential in
`eeprom_emulation.h`: `PAGE1_BASE_ADDRESS` lies inside page 0, on the
virtual-address half of a log entry, and `PAGE0_ID`/`PAGE1_ID` name sectors
that belong to the program, not to the pages. With the real numbers the log
reaches the header of page 1 after 4095 entries (`Expired`).

`AtomicVariables` states what a client may rely on: one variable at a time
changes, in one step, to the value asked for. `WritesAreAtomic` checks that
`EepromEmulation` implements it, with `store` mapped to what `EE_ReadVariable`
returns, until `Expired`.

### CalibrationStorage

`calib_init`, `calib_store` and the loops of `eeprom_storage.c` over the abstract
store; its actions `Begin`, `Commit` and `End` come from `AtomicVariables`. One
fact goes beyond the promise: the first entry of a log is not found again (see
the findings), so one write may be acknowledged without effect (`blank`). The CRC
is a constant operator assumed to tell mixed calibrations from whole ones; the
real one fails with a probability of 2^-16. A failed write halts (`assert`).

`CopyHalfword` is `memcpy`, interrupted anywhere: `copying` says how far it has come,
and `ram` is what a task of higher priority reads through the pointer of `calib_get`
in that moment. `found_storage_chunks` is the table of `check_for_overlaps`. The
module has no next-state relation of its own; `Device` composes it.

### Keys

`Poll` is one pass of `taskKey` over all keys, which nobody who has to do with keys
interrupts; which keys are down is chosen anew each time. `get_last_key_state` of
the RPC functions clears its memory key by key (`ClearState`), with polls between.
`held` and `fired` are history: how long a press lasts and what was reported of it.

### Leds

`taskLED` sets up the patterns, `taskLEDPatternLoop` is one pass of 50 ms. It keeps
that `taskLED` passes LED and priority in the wrong order (`Deactivated`): of the
patterns within the array, those of the yellow LED keep LED 0, which is not
connected. Writes behind the array are undefined and not modelled.

### Device

Boot, calibration, keys and LEDs together. `main` up to `calib_init` is `StartUp`,
the rest up to the scheduler `StartScheduler`, with the reset source taken from flags
that survive a reset. The RPC task is the only one running then: it resumes the
others, each of which runs until it first waits (`ResumeTasks`), registers itself
for the keys, and serves one call at a time. `PowerLoss` and `ResetPin` come between
any two steps, also within `calib_init`.

### Display

Each function of a screen is a sequence of steps (`Set`, `Paint`, `Update`, bytes in two
nibbles, waits), and `todo` holds for both tasks what is left of the functions they are in.
Painting and updating call `display_set_screen`, which paints and updates: their
steps are put in front of the rest. The priorities are in `MayRun`: the RPC task
runs only while `taskDisplay` waits. Of the LCD remains from which screens the text
on the glass comes; one byte stands for all text of a screen. `ClearedBefore` is the
one place where time matters: both tasks wait three ticks for the LCD to clear, so
a wait that began earlier ends earlier.

### SerialPort

One port, which stands for both of the code: the debug port, which several tasks
write to, and the port of the remote procedures, from which one task receives and to
which only that task writes. A put is two steps,
`QueueSend` and `EnableTXE`, with the interrupt handler between them;
`USART_IRQHandler` is one step, as it runs above all tasks. `LineOut` and
`LineIn` are the USART. `offered`, `accepted`, `refused`, `wire`, `sent` record
the history. Polling before the scheduler starts is included, the return to
polling in `_exit` is not.

### ExternalAdc

A word is the number of its DMA transfer, which makes gaps and repetitions
visible. `Transfer` is the DMA, `GiveFromISR` its interrupt, `TakeHalf` and
`ProcessWord` the loop of `taskExternalADC`, and the `extadc_` actions are the
functions the RPC calls. The task can be interrupted between any two words, and
it can be held up as long as it likes; `lost` counts halves whose signal merged
with another one.

### PowerStatistics

What the loop calculates from each record, for one current and one voltage.
`Record` adds to sums, peak and period, and publishes the average when
`WindowIsOver`; `Compare`, `Assign` and `Finish` hand over the peak and start the
next window, with `Tick` and `extadc_get_currents_max` between any two.
`extadc_get_frequency` is the set of values that may be returned: without a period the
code divides by 0. The tick
counter overflows at `TICKS`, as does the end of the window. `age`, `low`, `high`,
`unreported` and `unmeasured` are history.

### InternalAdc, Supervisor

The three steps of `startConversion` are three actions, `HAL_ADC_ConfigChannel`,
`SetSequenceIndex` and `HAL_ADC_Start_IT`; the interrupt
(`HAL_ADC_ConvCpltCallback`) takes the index the task has set for the channel of
its result. A value carries the channel it really comes from, so that a mix-up
shows. `Receive` advances, or smooths when the reference, the last channel, has
come. The clock advances only while both tasks sleep: a round of conversions
takes some hundred microseconds of its 100 ms. `Supervisor` adds the check of
every second. Its deadline acts on nothing (the statements are compiled out), so
the condition itself is recorded in `due`. It reads the smoothed voltage through
the calibration of its channel (`adc_get_values`: coefficients, a division towards 0,
cut to `uint16_t`). `measured` and `outage` (when the voltage was first seen below OFF
since it was last seen above ON) are history.

## Runs

| Run | Shows | Bounds, and why they are enough |
|---|---|---|
| `eeprom` | before `Expired`: nothing erased, acknowledged writes are read, the log implements atomic variables | 2 variables, 2 values (one looks like erased flash), the log reaches the header of page 1 with its 5th entry: new and old entries of both variables, torn entries and restarts all fit before it |
| `eeprom_worn` | behind that point: `EE_ReadVariable` stays in flash | 3 variables, 1 value, the header is reached with the 3rd entry; `LogBound` stops at the end of flash, so transfers, formats and overlapping pages occur |
| `eeprom_reserved_area` | finding: a sector of the program is erased, by the format at the start after the log has reached the header | as above |
| `eeprom_first_entry` | finding: the first entry is not found | as `eeprom` |
| `device` | through resets at any time: one whole calibration, and the acknowledged one, in use; presses reported once; the red LED's pattern | 3 coefficients, CRC, padding; three user calibrations whose mixes are not calibrations, one sharing zeros with the default; 2 keys, a long press from 2 polls on; 2 flashes, all times of the pattern different |
| `serial` | order, nothing stranded, everything is sent, the interrupt rests, received characters are parsed, in the order of the host | 2 writers, strings up to 2, queues of 2, 4 characters out, 3 in: both queues fill and overflow, strings overlap |
| `serial_success` | finding: success reported though characters were refused | the port of the remote procedures: the RPC task alone, messages of up to 3 characters, a queue of 2 |
| `external_adc` | task never ahead, phase is the parity of the losses, recordings are gapless runs | 2 channels, halves of 4 words, chunks of 3 records, 2 chunks, 22 words: a scan straddles halves and chunks straddle them, two recordings fit, signals get lost twice |
| `power_statistics` | average, peak, punctuality, periods | tick counter of 6, window of 2, windows up to 7 ticks and periods up to 3 records: every position of a window relative to the overflow |
| `power_overflow` | finding: a window that never ends | tick counter of 6, 60 records until the sums overflow (really 2^39 at 13 per ms, some ten turns of the counter: `OVERFLOW` is ten turns here), machine at standstill |
| `supervisor` | results reach their channel one by one, rounds end, smoothing in range; the deadline is over only in the outage it was given for, after its whole time, and not after a start under a good supply | 3 channels, queue of 2, voltages seen below OFF, at OFF and above ON through a calibration that takes 1/2 off and cuts it to 1, 24 units of 100 ms, a second of 2. The smoothing over 4 values passes below OFF and through the band for 3 s when the deadline is 4 s; really it takes some 12 s of 61 |
| `display` | nesting of screen changes, index of the status screen, custom screen and the way back; when the RPC task is quiet the LCD shows one screen again and the screens go on changing | 2 updates per screen (really 11), 0 to 2 status screens, so that the index passes its end; any number of calls of the RPC task between any two steps its priority allows |

`CHECK_DEADLOCK FALSE` is given where the device is off for good or a bound ends
the exchange; `device` and `display` never stop and are checked for deadlock. Each property has a mutant of the code that violates it; the
mutated forms stand next to the definitions they replace.

### Fairness

* `SerialPort!FairSpec`: weak fairness of the handler and of the line (hardware),
  of the start of the scheduler, and of each task's put (queue and register
  accesses do not block with `serNO_BLOCK`, and every task of the device sleeps
  again and again). Strong fairness of `xSerialGetChar`: the RPC task is away from
  its loop only while it answers, and comes back each time. Nobody has to write.
* `Supervisor!FairSpec`: weak fairness of the conversions, ADC interrupt and task
  together: hardware that finishes what was started, and a task of priority 3
  that never waits while a result is there. No fairness of the clock.
* `Display!DisplaySpec`: weak fairness of `DisplayStep`: `taskDisplay` has a high
  priority and waits only for time to pass. None of the RPC task: the two liveness
  properties say what follows when it is quiet (`RpcIsQuiet`).

All other specifications are safety only.

## Proofs

For every value of the constants under the assumptions named in the modules.

* **EepromEmulationProofs**: `TypeCorrect`; `ReadsStayInFlash` (page 1 is never the
  only valid page, worn log included); `NothingErasedBeforeWorn`. The inductive
  invariant relates what is still in `todo` to the headers: which page is marked
  before the other one is given up, and, before `Expired`, that nothing in `todo`
  can erase. The properties themselves are not inductive, because an
  erase is decided one or more steps before it happens. On top of these,
  `AcknowledgedIsRead` and `LogImplementsStore`, the refinement of `AtomicVariables`: page
  0 is filled from below with whole and torn entries (`Filled`), and a write has come
  to its data, its address or its end (`Writing`), so that the one operation that
  changes what is read is the one that programs the address. They hold as long as
  the log is not worn, `LogInv` begins with `~Expired`.
* **SerialPortProofs**: `TypeCorrect`; `TransmitsInOrder` (inductive with the types,
  by associativity of concatenation); `TransmitterNeverStranded`, for any number
  of writers; `ReceptionInOrder`: what the parser got last, the queue and DR are
  increasing, and none is ahead of what the host has sent (`ReceptionInv`).
* **ExternalAdcProofs**: `TypeCorrect`; `TaskNeverAhead`; `PhaseIsParityOfLosses`, from
  the balance "halves completed = taken + lost + pending" and the parity of
  `taken`; `RecordingsAreRuns`; `RecordingsAreGapless`, however many signals were lost:
  while the task is not overtaken it reads word number `Processed` next
  (`WordReadIsNext`), so record k of chunk n holds the words of scan
  (n - 1) * RECORDS + k (`ScanInv`), wherever chunks, scans and halves straddle.
* **PowerStatisticsProofs**: `TypeCorrect`, `AverageOfWindow`, `NoPeakIsLost`,
  `WindowsEndInTime`, `PeriodsAreComplete`. The strengthening says that the sum lies
  between n times the least and n times the greatest record, where the highest
  peak is during the hand-over, and what the tick counter shows as long as it
  has not come round. The lemmas on truncated division and on a single overflow
  stand at the beginning.
* **SupervisorProofs**: `AdcTypes`, `ChannelsAreNotMixed`, `NoResultIsDropped`,
  `SmoothingStaysInRange`, for any number of channels and any length of queue, and
  `DeadlineOfThisOutage`, for any calibration and thresholds: a command is given in an
  outage, not before it began (`DeadlineInv`). The invariant of the conversions says where the one conversion under way is (task, ADC or queue) and
  that configuration, index and result agree; the accumulator is at most
  SMOOTHVALUE - 1 times a measured voltage plus what a division leaves.
  `StartIsNoOutage`: under a supply that was seen above ON all the time the deadline is
  never over. `WarmUpInv` compares the accumulator, round by round, with the sums that a
  constant supply of the least such voltage adds up to (`Risen`); the smoothed voltage
  falls only to one that comes in, so once it was seen above ON it stays there
  (`Patient`); and no command is earlier than the first check, `ROUNDS` rounds before
  its deadline can be over.
* **PanelProofs**: the inductive parts of `Keys` and `Leds`, as lemmas on
  their operations. A key's count is the smaller of its polls and the threshold
  plus one, which decides what has been reported; the counter of the red pattern
  decides how often it has flashed and whether it is lit, and every other
  pattern is off.
* **DisplayProofs**: `DisplayTypes`, `SysstatInRange`, `ReturnLeaves`, `CustomStays`. What a task
  has still to do is one of finitely many sequences, each the `Code` of a place: what
  is left of the screen being changed, the update after it, and the counters to
  reset after that. The invariant `IInv` says that both tasks are at places, and what
  the current screen, the counters and the two places know of each other. Its
  conjuncts stand for the interleavings that matter: `taskDisplay` about to choose a
  screen finds another one current, so it never only counts; a counter past its end has
  a reset pending (`Counts`); and when the RPC task has brought back a screen whose
  counter is past its end, it has not come to update it (`Fresh`, `Together`), because
  its wait for the LCD began later than that of `taskDisplay`. Without the last one
  the nesting would have no bound.
* **DeviceProofs**: `TypeCorrect`, `CalibrationStaysWhole`, `StoredCalibrationIsUsed`,
  `PressesAreReportedOnce`, `RedFlashesBetweenPauses`. Whatever was interrupted, each
  halfword stored is one of some calibration (`StoreIsMixed`), so the CRC decides
  between whole and mixed; the halfwords written so far are those of the RAM
  (`StoredSoFar`); and what is kept is stored completely, but for the default, of
  which the first halfword ever written may be missing (`KeptIsStored`,
  `BlankIsEmpty`) - then the next start stores the default again. `NothingOverlaps`
  is about the code alone: the condition of `check_for_overlaps` is false for
  all areas that do not end before their start.

Assumptions: those of the modules (`GeometryAssumption`, `SerialAssumption`,
`ExternalAdcAssumption`, `ClockAssumption`, `RecordsAssumption`,
`InternalAdcAssumption`, `SupervisorAssumption`, `CalibrationAssumption`,
`KeysAssumption`, `LedsAssumption`, `SampleAssumption`, `DisplayAssumption`). `CalibrationAssumption` contains the idealised CRC;
`LedsAssumption` that a pattern's counter does not overflow; `RecordsAssumption` says
that calibrated values stay off -32768, where `abs_i16` would not fit.
`StartIsNoOutage` has the hypothesis `ComesUp` on the numbers: the constant supply
comes up within `ROUNDS`, and what lies between two voltages seen above ON is seen above
ON. TLC evaluates it for the numbers of the run (`MCWarmUp`). For those of the code
(smoothing over 16 values, first check after 1 s, 30 s twice) `ROUNDS` is 630, and the
sums of a supply of 25010, 2501 or 65535 have come up after 167, 131 and 182 rounds; a
rising calibration whose result fits `uint16_t` keeps the voltages above ON together,
one that overflows may not.

Model-checked only: the liveness properties (`EveryAcceptedCharIsSent`,
`InterruptCalmsDown`, `EveryQueuedCharIsParsed`, `RoundsEnd`, `HealsWhenRpcIsQuiet`,
`RotationGoesOn`), as liveness under fairness and ENABLED are beyond the prover.
What a recursive definition computes for every input would need induction over
data, which the prover cannot do; only `MCSupervisor` has one, the sums of the supply
of the run, and `StartIsNoOutage` takes them as given by their recurrence.

## Findings

1. The emulation erases sectors 2 and 3, which the linker script gives to the
   program (`eeprom_reserved_area`): the log has grown into what is taken for the
   header of page 1, the next `EE_Init` finds both pages valid and formats. What
   follows such an erase is the business of the CPU, not of the model: the runs go on,
   but claim no progress behind it.
2. The first variable ever written is acknowledged and never found
   (`eeprom_first_entry`). The calibration survives this because what the first
   write loses is written again, or defaulted, at the next start.
3. The RPC layer reports success for messages with refused characters: a message
   longer than the room in the queue is enough, nobody else writes to that port
   (`serial_success`).
4. A window of the statistics whose end is the last tick before the overflow
   never ends; values freeze until an assertion fails (`power_overflow`).

What the models show besides, and the properties therefore except:

* The boot screen stays for good when the RPC task sets the custom screen in the
  moment `taskDisplay` leaves the boot screen, and returns from it: boot is what
  it remembers (`RotationGoesOn`, `HealsWhenRpcIsQuiet`).
* Returning from a custom screen that was set twice does nothing (`ReturnLeavesCustom`).
* The RPC task can paint the rows of a status screen that does not exist: it waits
  for the LCD while `taskDisplay` has counted the index past the end and resets it only
  after painting the next screen (`SysstatIndexInRange`).
* A byte of the RPC task can be cut in two by one of `taskDisplay`; the LCD is out of
  step from then on (`garbled`).
* Screen changes of both tasks nest; the depth is bounded only because both wait the
  same three ticks for the LCD.
* `get_last_key_state` clears the memory of all keys, not only of the one it answers for.
* `check_for_overlaps` cannot find an overlap (`NothingOverlaps`).
* `taskLED` passes LED and priority in the wrong order.

What no property is about, but a reader of the code should know:

* A supply that is gone for good is never acted on: each check below OFF starts the
  deadline again (`task_supervisor.c:27`, 42-47), so that it is over only while the
  voltage is between the thresholds. `LowIsNeverOver` in `SupervisorProofs` shows it
  of every check. To be kept is the other half: no outage that is over, and no less
  than its time (`DeadlineIsOfThisOutage`).
* The search for a free entry (`EE_VerifyPageFullWriteVariable`,
  `eeprom_emulation.c:642`) runs behind the end of flash when page 1 is full and the one
  to write to: a bus fault, `Fault` in `DoWrite`. `ReadsNeverFault` speaks of
  `EE_ReadVariable` only.
* `task_display.c:64` hands a character of the custom text to `lcd_printf_at` where
  `%s` wants a pointer, so that the row shows whatever lies at an address below 256.
  `CustomUpdate` takes the row as written; what is in it is not modelled.

## Not modelled

Generated code, FreeRTOS, the HAL, the channel codec and the RPC parser are not
in the repository. The RTC is conversions around HAL calls, the set-up of pins,
clocks and DMA is register values. The time base is a counter and a busy wait. Of
`main`, clocks, pins, and the printing of the reset source are left out.

Of the USART: a character that arrives between the handler's reading of SR and of DR
and leaves the overrun flag set, which could call the handler without end
(`InterruptCalmsDown` is about transmission); the receive errors.

Of the display: formatting and contents of the rows, the cursor, the commands of
`lcd_init`, waits below a tick, and what the LCD shows after a byte was cut in two. Of
the LEDs: Morse code, fading and the stand-alone loop, which nobody calls.

`InternalAdc` starts from voltages: how raw values become voltages and
temperatures is left out, and with it the temperature below zero, which the
unsigned accumulator does not keep; so is a conversion whose interrupt never
comes. The tick counter that the supervisor reads does not overflow in the model.

The calibrated values of the external ADC, effective values and power are
arithmetic of single expressions, and their sums are like the one that is
modelled.
