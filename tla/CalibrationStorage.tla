------------------------ MODULE CalibrationStorage ------------------------
(***************************************************************************)
(* The calibration of the measuring channels: storage_calibration.c on top *)
(* of eeprom_storage.c, which keeps it in 16-bit variables of the EEPROM   *)
(* emulation.  A calibration is LENGTH halfwords, written one after the    *)
(* other: the coefficients, a CRC over them, zeros.  The power may fail    *)
(* between any two of them.                                                *)
(*                                                                         *)
(* Once the scheduler runs, a new calibration is copied to the RAM by the  *)
(* RPC task (priority 1), while the tasks that scale samples with it       *)
(* (priority 3) interrupt it anywhere and hold a pointer to the RAM.       *)
(*                                                                         *)
(* The emulation is taken as what it promises (AtomicVariables, before its *)
(* end of life), with one thing the promise leaves open and this module    *)
(* depends on: the first entry of the log is never found again, so that    *)
(* one call may return HAL_OK without having stored anything.              *)
(***************************************************************************)
EXTENDS Naturals, Sequences

CONSTANTS
  COEFFICIENTS,       (* halfwords of coefficients, from address 0  (156)  *)
  LENGTH,             (* halfwords of the stored buffer             (160)  *)
  Halfword,           (* the values of a halfword                          *)
  DEFAULT,            (* what calib_load_default stores                    *)
  UserCalibrations,   (* what set_calibration_data is called with          *)
  Crc(_),             (* calc_crc over the coefficients                    *)
  STORAGE_CHUNK_SIZE, (* areas check_for_overlaps remembers         (16)  *)
  NotFound,           (* EE_ReadVariable does not find the variable        *)
  None

Contents == [0 .. (COEFFICIENTS - 1) -> Halfword]

Calibrations == UserCalibrations \cup {DEFAULT}

\* What interrupted stores can leave: halfwords of several calibrations.
Mixes == {c \in Contents : \A a \in DOMAIN c : \E k \in Calibrations : c[a] = k[a]}

\* That the CRC tells every mix from a calibration is an idealisation: the
\* real one misses a mix with a probability of 2^-16.
ASSUME CalibrationAssumption ==
  /\ COEFFICIENTS \in Nat \ {0} /\ LENGTH \in Nat /\ COEFFICIENTS < LENGTH
  /\ STORAGE_CHUNK_SIZE \in Nat \ {0}
  /\ 0 \in Halfword /\ NotFound \notin Halfword
  /\ DEFAULT \in Contents /\ UserCalibrations \subseteq Contents
  /\ \A c \in Contents : Crc(c) \in Halfword
  /\ \A c \in Mixes, k \in Calibrations : Crc(c) = Crc(k) => c = k
  /\ None \notin Contents \cup Nat
  /\ None \notin [vaddr : 0 .. (LENGTH - 1), data : Halfword]
  /\ None \notin [from : UserCalibrations, at : 0 .. (COEFFICIENTS - 1)]

VARIABLES
  store,      (* the variables of the EEPROM emulation                     *)
  request,    (* the call of EE_WriteVariable in progress                  *)
  blank,      (* the first entry of the log has not been used up yet       *)
  found_storage_chunks, (* the areas of the EEPROM in use, as pairs of     *)
              (* their start and end, in the order they were found         *)
  phase,      (* off, init (in calib_init), main (before the scheduler     *)
              (* runs), running, halted                                    *)
  ram,        (* calibration_storage.calibration_data                      *)
  copying,    (* the calibration memcpy takes it from, and how far it has  *)
              (* come: None outside memcpy                                 *)
  index,      (* halfword eeprom_write_buffer has come to, None outside it *)
  kept        (* the calibration that was stored last, as far as the       *)
              (* caller knows: None while a new one is being stored        *)

eeprom == <<store, request>>
calibrationVars ==
  <<eeprom, blank, found_storage_chunks, phase, ram, copying, index, kept>>

Addresses == 0 .. (LENGTH - 1)

EE == INSTANCE AtomicVariables WITH
  VirtAddr <- Addresses, Data <- Halfword,
  Unwritten <- NotFound, NoRequest <- None, expired <- FALSE

----------------------------------------------------------------------------
(* The buffer and its CRC.                                                 *)

\* The buffer calib_store writes: coefficients, CRC, zeros.
Buffer(c) ==
  [a \in Addresses |-> CASE a < COEFFICIENTS -> c[a]
                         [] a = COEFFICIENTS -> Crc(c)
                         [] OTHER -> 0]

\* eeprom_read_buffer returns HAL_OK.
AllFound == \A a \in Addresses : store[a] # NotFound

\* Mutant of Loaded: one halfword too many is copied.
LoadedOneMore == [a \in 0 .. COEFFICIENTS |-> store[a]]

Loaded == [a \in 0 .. (COEFFICIENTS - 1) |-> store[a]]

\* Mutant of calib_check_crc: what was read completely is trusted.
CrcNotChecked == TRUE

calib_check_crc == store[COEFFICIENTS] = Crc(Loaded)

\* Mutant of NeedsWrite: a variable that is not found reads as 0 (probe_val).
ProbeValueOnly(a, d) == (IF store[a] = NotFound THEN 0 ELSE store[a]) # d

\* Whether eeprom_write_buffer writes the halfword at all.
NeedsWrite(a, d) == store[a] # d

----------------------------------------------------------------------------
(* check_for_overlaps: every area read or written is compared with those   *)
(* before it.                                                              *)

AREA == <<0, LENGTH>>

\* The areas known after a call for the area: a full table loses its last one.
Known(area) ==
  IF \E i \in DOMAIN found_storage_chunks : found_storage_chunks[i] = area
  THEN found_storage_chunks
  ELSE IF Len(found_storage_chunks) < STORAGE_CHUNK_SIZE
       THEN Append(found_storage_chunks, area)
       ELSE [found_storage_chunks EXCEPT ![STORAGE_CHUNK_SIZE] = area]

\* What the code takes for an overlap of area x and area y.
ReportsOverlap(x, y) ==
  \/ x[1] > y[1] /\ y[1] > x[2]
  \/ x[1] > y[2] /\ y[2] > x[2]

OverlapIn(chunks) ==
  \E i, n \in DOMAIN chunks : i <= n /\ ReportsOverlap(chunks[i], chunks[n])

----------------------------------------------------------------------------
CalibrationInit ==
  /\ store = [a \in Addresses |-> NotFound]
  /\ request = None
  /\ blank = TRUE
  /\ found_storage_chunks = <<>>
  /\ phase = "off"
  /\ ram = None
  /\ copying = None
  /\ index = None
  /\ kept = None

\* main: eeprom_init and calib_init, up to the loop that stores the default.
calib_init ==
  /\ phase = "off"
  /\ found_storage_chunks' = <<AREA>>
  /\ IF AllFound /\ calib_check_crc
     THEN phase' = "main" /\ ram' = Loaded /\ UNCHANGED index
     ELSE phase' = "init" /\ ram' = DEFAULT /\ index' = 0
  /\ UNCHANGED <<eeprom, blank, copying, kept>>

\* The RPC of that name, up to the memcpy in calib_store.
set_calibration_data(c) ==
  /\ phase = "running" /\ copying = None /\ index = None
  /\ copying' = [from |-> c, at |-> 0]
  /\ kept' = None
  /\ UNCHANGED <<eeprom, blank, found_storage_chunks, phase, ram, index>>

\* calib_store up to the loop of eeprom_write_buffer.
CopyHalfword ==
  /\ phase = "running" /\ copying # None
  /\ ram' = [ram EXCEPT ![copying.at] = copying.from[copying.at]]
  /\ IF copying.at + 1 < COEFFICIENTS
     THEN /\ copying' = [copying EXCEPT !.at = @ + 1]
          /\ UNCHANGED <<found_storage_chunks, phase, index>>
     ELSE /\ copying' = None
          /\ found_storage_chunks' = Known(AREA)
          /\ IF OverlapIn(Known(AREA))
             THEN phase' = "halted" /\ UNCHANGED index
             ELSE index' = 0 /\ UNCHANGED phase
  /\ UNCHANGED <<eeprom, blank, kept>>

InLoop == index # None /\ request = None

\* A halfword that is stored already is not written again.
SkipHalfword ==
  /\ InLoop /\ index < LENGTH
  /\ ~NeedsWrite(index, Buffer(ram)[index])
  /\ index' = index + 1
  /\ UNCHANGED <<eeprom, blank, found_storage_chunks, phase, ram, copying, kept>>

CallWrite ==
  /\ InLoop /\ index < LENGTH
  /\ NeedsWrite(index, Buffer(ram)[index])
  /\ EE!Begin
  /\ request' = [vaddr |-> index, data |-> Buffer(ram)[index]]
  /\ UNCHANGED <<blank, found_storage_chunks, phase, ram, copying, index, kept>>

\* The entry becomes valid, somewhere within EE_WriteVariable.
EntryProgrammed ==
  /\ request # None /\ store[request.vaddr] # request.data
  /\ EE!Commit
  /\ blank' = FALSE
  /\ UNCHANGED <<found_storage_chunks, phase, ram, copying, index, kept>>

\* EE_WriteVariable returns HAL_OK.
WriteReturns ==
  /\ request # None
  /\ store[request.vaddr] = request.data \/ blank
  /\ EE!End
  /\ blank' = FALSE
  /\ index' = index + 1
  /\ UNCHANGED <<found_storage_chunks, phase, ram, copying, kept>>

\* EE_WriteVariable returns an error: the assert in eeprom_write_buffer.
WriteFails ==
  /\ EE!End
  /\ phase' = "halted"
  /\ index' = None
  /\ UNCHANGED <<blank, found_storage_chunks, ram, copying, kept>>

\* The end of the loop: calib_store returns.
StoreReturns ==
  /\ InLoop /\ index = LENGTH
  /\ index' = None
  /\ phase' = IF phase = "init" THEN "main" ELSE phase
  /\ kept' = ram
  /\ UNCHANGED <<eeprom, blank, found_storage_chunks, ram, copying>>

StoreStep ==
  \/ CopyHalfword
  \/ SkipHalfword \/ CallWrite \/ EntryProgrammed \/ WriteReturns \/ WriteFails
  \/ StoreReturns

\* The power fails or the reset pin is pulled.
CalibrationReset ==
  /\ phase' = "off"
  /\ ram' = None /\ copying' = None /\ index' = None /\ request' = None
  /\ found_storage_chunks' = <<>>
  /\ UNCHANGED <<store, blank, kept>>

----------------------------------------------------------------------------
(* Properties.                                                             *)

CalibrationTypeOK ==
  /\ store \in [Addresses -> Halfword \cup {NotFound}]
  /\ request \in [vaddr : Addresses, data : Halfword] \cup {None}
  /\ blank \in BOOLEAN
  /\ found_storage_chunks \in {<<>>, <<AREA>>}
  /\ phase \in {"off", "init", "main", "running", "halted"}
  /\ ram \in Contents \cup {None}
  /\ copying \in [from : UserCalibrations, at : 0 .. (COEFFICIENTS - 1)] \cup {None}
  /\ index \in 0 .. LENGTH \cup {None}
  /\ kept \in Contents \cup {None}

\* What the tasks that interrupt a copy find in the RAM.
Mixed(old) ==
  [a \in 0 .. (COEFFICIENTS - 1) |->
     IF copying # None /\ a < copying.at THEN copying.from[a] ELSE old[a]]

\* The channels are never scaled with a calibration nobody has made: whatever
\* was being stored when the power failed, a device that is running has one
\* complete calibration.  Only while memcpy replaces it, samples may be scaled
\* with the beginning of the new one and the rest of the one before
\* (storage_calibration.c:79, 89).
CalibrationIsWhole ==
  phase \in {"main", "running"} => \E old \in Calibrations : ram = Mixed(old)

\* A calibration whose set_calibration_data has returned is the one in use
\* after every later start, from the moment calib_init has decided on it, until
\* another one is set.
CalibrationSurvives == (ram # None /\ kept # None) => ram = kept

============================================================================
