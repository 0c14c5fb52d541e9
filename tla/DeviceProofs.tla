---------------------------- MODULE DeviceProofs ----------------------------
(***************************************************************************)
(* What the device keeps through resets at any time, for calibrations of   *)
(* every length, any number of keys and every pattern of the LED.          *)
(*                                                                         *)
(* The calibration: whatever is interrupted, each halfword stored is one   *)
(* of a calibration, and of the one that was kept as long as no other is   *)
(* being stored.  Only the default may have a halfword missing, the first  *)
(* that was ever written.                                                  *)
(***************************************************************************)
EXTENDS Device, PanelProofs

Stored(k, a) == store[a] = Buffer(k)[a]

StoreIsMixed ==
  \A a \in Addresses : store[a] = NotFound \/ \E k \in Calibrations : Stored(k, a)

BlankIsEmpty ==
  blank => /\ \A a \in Addresses : store[a] = NotFound
           /\ phase \notin {"main", "running"}
           /\ index # None => index = 0

RequestIsOfBuffer ==
  request # None => /\ index # None /\ index < LENGTH
                    /\ request.vaddr = index /\ request.data = Buffer(ram)[index]

\* What calib_init and calib_store are in the middle of.
Progress ==
  /\ phase = "off" => ram = None
  /\ phase = "init" => ram = DEFAULT /\ index # None
  /\ phase = "main" => ram \in Calibrations /\ index = None
  /\ phase = "running" /\ copying = None => ram \in Calibrations
  /\ phase = "running" /\ copying # None => \E old \in Calibrations : ram = Mixed(old)
  /\ copying # None => phase = "running" /\ index = None /\ kept = None
  /\ index # None => phase \in {"init", "running"}
  /\ index # None /\ phase = "running" => kept = None
  /\ phase # "off" => found_storage_chunks = <<AREA>>

StoredSoFar ==
  index # None => \A a \in Addresses : a < index =>
    Stored(ram, a) \/ (phase = "init" /\ store[a] = NotFound)

KeptIsStored ==
  kept # None =>
    /\ kept \in Calibrations
    /\ \A a \in Addresses : Stored(kept, a) \/ (kept = DEFAULT /\ store[a] = NotFound)

CalInv ==
  /\ CalibrationTypeOK
  /\ StoreIsMixed
  /\ BlankIsEmpty
  /\ RequestIsOfBuffer
  /\ Progress
  /\ StoredSoFar
  /\ KeptIsStored
  /\ CalibrationSurvives

----------------------------------------------------------------------------
(* Buffers and areas.                                                      *)

\* check_for_overlaps reports no overlap at all: neither condition can hold of
\* areas that end behind their start (eeprom_storage.c:52-55).
THEOREM NothingOverlaps ==
  ASSUME NEW x \in Nat \X Nat, NEW y \in Nat \X Nat, x[1] <= x[2], y[1] <= y[2]
  PROVE  ~ReportsOverlap(x, y)
BY DEF ReportsOverlap

LEMMA AreaAlone ==
  ASSUME found_storage_chunks = <<AREA>>
  PROVE  Known(AREA) = <<AREA>> /\ ~OverlapIn(<<AREA>>)
<1>1. Known(AREA) = <<AREA>>
  BY DEF Known
<1>2. AREA \in Nat \X Nat /\ AREA[1] <= AREA[2]
  BY CalibrationAssumption DEF AREA
<1>3. ~ReportsOverlap(AREA, AREA)
  BY <1>2, NothingOverlaps
<1>4. \A i \in DOMAIN <<AREA>> : <<AREA>>[i] = AREA
  OBVIOUS
<1> QED BY <1>1, <1>3, <1>4 DEF OverlapIn

LEMMA Constants ==
  /\ Calibrations \subseteq Contents /\ DEFAULT \in Calibrations
  /\ UserCalibrations \subseteq Calibrations
  /\ 0 \in Addresses /\ COEFFICIENTS \in Addresses /\ LENGTH \in Nat \ {0}
  /\ 0 .. (COEFFICIENTS - 1) \subseteq Addresses
  /\ None \notin Contents /\ None \notin Nat /\ NotFound \notin Halfword
BY CalibrationAssumption DEF Calibrations, Addresses

LEMMA BufferType ==
  ASSUME NEW c \in Contents
  PROVE  /\ \A a \in Addresses : Buffer(c)[a] \in Halfword /\ Buffer(c)[a] # NotFound
         /\ \A a \in 0 .. (COEFFICIENTS - 1) : Buffer(c)[a] = c[a]
         /\ Buffer(c)[COEFFICIENTS] = Crc(c)
<1>1. \A a \in 0 .. (COEFFICIENTS - 1) : Buffer(c)[a] = c[a] /\ c[a] \in Halfword
  BY CalibrationAssumption, Constants DEF Buffer, Contents
<1>2. Buffer(c)[COEFFICIENTS] = Crc(c) /\ Crc(c) \in Halfword
  BY CalibrationAssumption, Constants DEF Buffer
<1>3. \A a \in Addresses : a > COEFFICIENTS => Buffer(c)[a] = 0 /\ 0 \in Halfword
  BY CalibrationAssumption DEF Buffer, Addresses
<1>4. \A a \in Addresses : a \in 0 .. (COEFFICIENTS - 1) \/ a = COEFFICIENTS \/ a > COEFFICIENTS
  BY CalibrationAssumption DEF Addresses
<1> QED BY <1>1, <1>2, <1>3, <1>4, Constants

\* A calibration is what its halfwords are.
LEMMA SameHalfwords ==
  ASSUME NEW c \in Contents, NEW d \in Contents,
         \A a \in 0 .. (COEFFICIENTS - 1) : c[a] = d[a]
  PROVE  c = d
<1>1. /\ c = [a \in 0 .. (COEFFICIENTS - 1) |-> c[a]]
      /\ d = [a \in 0 .. (COEFFICIENTS - 1) |-> d[a]]
  BY DEF Contents
<1>2. [a \in 0 .. (COEFFICIENTS - 1) |-> c[a]] = [a \in 0 .. (COEFFICIENTS - 1) |-> d[a]]
  OBVIOUS
<1> QED BY <1>1, <1>2, Zenon

\* Outside memcpy the RAM is not mixed.
LEMMA NotCopying ==
  ASSUME NEW c \in Contents, copying = None
  PROVE  Mixed(c) = c
BY DEF Mixed, Contents

----------------------------------------------------------------------------
(* The steps that concern the calibration.                                 *)

LEMMA CalInit == CalibrationInit => CalInv
<1> SUFFICES ASSUME CalibrationInit PROVE CalInv
  OBVIOUS
<1> USE DEF CalibrationInit
<1>1. CalibrationTypeOK
  BY DEF CalibrationTypeOK
<1>2. StoreIsMixed /\ BlankIsEmpty /\ RequestIsOfBuffer
  BY DEF StoreIsMixed, BlankIsEmpty, RequestIsOfBuffer
<1>3. Progress /\ StoredSoFar /\ KeptIsStored /\ CalibrationSurvives
  BY DEF Progress, StoredSoFar, KeptIsStored, CalibrationSurvives
<1> QED BY <1>1, <1>2, <1>3 DEF CalInv

LEMMA CalResets == CalInv /\ CalibrationReset => CalInv'
<1> SUFFICES ASSUME CalInv, CalibrationReset PROVE CalInv'
  OBVIOUS
<1> USE DEF CalibrationReset, CalInv
<1>1. CalibrationTypeOK'
  BY DEF CalibrationTypeOK
<1>2. StoreIsMixed' /\ BlankIsEmpty' /\ RequestIsOfBuffer'
  BY DEF StoreIsMixed, BlankIsEmpty, RequestIsOfBuffer, Stored
<1>3. Progress' /\ StoredSoFar' /\ KeptIsStored' /\ CalibrationSurvives'
  BY DEF Progress, StoredSoFar, KeptIsStored, CalibrationSurvives, Stored
<1> QED BY <1>1, <1>2, <1>3

LEMMA CalStutters == CalInv /\ UNCHANGED calibrationVars => CalInv'
<1> SUFFICES ASSUME CalInv, UNCHANGED calibrationVars PROVE CalInv'
  OBVIOUS
<1>1. UNCHANGED <<store, request, blank, found_storage_chunks, phase, ram, copying, index, kept>>
  BY DEF calibrationVars, eeprom
<1> USE DEF CalInv
<1>2. CalibrationTypeOK'
  BY <1>1 DEF CalibrationTypeOK
<1>3. StoreIsMixed' /\ BlankIsEmpty' /\ RequestIsOfBuffer'
  BY <1>1 DEF StoreIsMixed, BlankIsEmpty, RequestIsOfBuffer, Stored
<1>4. Progress'
  BY <1>1 DEF Progress, Mixed
<1>5. StoredSoFar' /\ KeptIsStored' /\ CalibrationSurvives'
  BY <1>1 DEF StoredSoFar, KeptIsStored, CalibrationSurvives, Stored
<1> QED BY <1>2, <1>3, <1>4, <1>5

\* The scheduler starts.
LEMMA CalScheduled ==
  ASSUME CalInv, phase = "main", phase' = "running",
         UNCHANGED <<eeprom, blank, found_storage_chunks, ram, copying, index, kept>>
  PROVE  CalInv'
<1> USE DEF CalInv, eeprom
<1>1. CalibrationTypeOK'
  BY DEF CalibrationTypeOK
<1>2. StoreIsMixed' /\ BlankIsEmpty' /\ RequestIsOfBuffer'
  BY DEF StoreIsMixed, BlankIsEmpty, RequestIsOfBuffer, Stored
<1>3. Progress'
  BY DEF Progress
<1>4. StoredSoFar' /\ KeptIsStored' /\ CalibrationSurvives'
  BY DEF Progress, StoredSoFar, KeptIsStored, CalibrationSurvives, Stored
<1> QED BY <1>1, <1>2, <1>3, <1>4

\* What passes the CRC is a calibration, and the one that was kept.
LEMMA CalLoaded ==
  ASSUME CalInv, AllFound, calib_check_crc
  PROVE  /\ Loaded \in Calibrations
         /\ kept # None => Loaded = kept
<1>1. \A a \in Addresses : \E k \in Calibrations : Stored(k, a)
  BY DEF CalInv, StoreIsMixed, AllFound
<1>2. \A a \in 0 .. (COEFFICIENTS - 1) : Loaded[a] = store[a]
  BY DEF Loaded
<1>3. \A a \in 0 .. (COEFFICIENTS - 1) : \E k \in Calibrations : Loaded[a] = k[a]
  BY <1>1, <1>2, BufferType, Constants DEF Stored
<1>4. Loaded \in Contents
  <2>1. \A a \in 0 .. (COEFFICIENTS - 1) : store[a] \in Halfword
    BY Constants DEF CalInv, CalibrationTypeOK, AllFound
  <2> QED BY <2>1 DEF Loaded, Contents
<1>5. Loaded \in Mixes
  BY <1>3, <1>4 DEF Mixes, Contents
<1>6. PICK k \in Calibrations : store[COEFFICIENTS] = Crc(k)
  BY <1>1, BufferType, Constants DEF Stored
<1>7. Loaded = k
  BY <1>5, <1>6, CalibrationAssumption DEF calib_check_crc
<1>8. ASSUME kept # None PROVE Loaded = kept
  <2>1. kept \in Contents /\ \A a \in Addresses : Stored(kept, a)
    BY <1>8, Constants DEF CalInv, KeptIsStored, AllFound
  <2>2. \A a \in 0 .. (COEFFICIENTS - 1) : Loaded[a] = kept[a]
    BY <1>2, <2>1, BufferType, Constants DEF Stored
  <2> QED BY <1>4, <2>1, <2>2, SameHalfwords
<1> QED BY <1>7, <1>8

\* A default is only loaded when nothing else was kept.
LEMMA CalDefault ==
  ASSUME CalInv, ~(AllFound /\ calib_check_crc), kept # None
  PROVE  kept = DEFAULT
<1> SUFFICES ASSUME kept # DEFAULT PROVE FALSE
  OBVIOUS
<1>1. kept \in Contents /\ \A a \in Addresses : Stored(kept, a)
  BY Constants DEF CalInv, KeptIsStored
<1>2. \A a \in Addresses : store[a] = Buffer(kept)[a] /\ store[a] # NotFound
  BY <1>1, BufferType DEF Stored
<1>3. AllFound
  BY <1>2 DEF AllFound
<1>4. Loaded = kept
  <2>1. \A a \in 0 .. (COEFFICIENTS - 1) : Loaded[a] = kept[a]
    BY <1>1, <1>2, BufferType, Constants DEF Loaded
  <2>2. Loaded \in Contents
    BY <1>1, <1>2, BufferType, Constants DEF Loaded, Contents
  <2> QED BY <1>1, <2>1, <2>2, SameHalfwords
<1>5. calib_check_crc
  BY <1>1, <1>2, <1>4, BufferType, Constants DEF calib_check_crc
<1> QED BY <1>3, <1>5

LEMMA CalStarts == CalInv /\ calib_init => CalInv'
<1> SUFFICES ASSUME CalInv, calib_init PROVE CalInv'
  OBVIOUS
<1>1. /\ phase = "off" /\ found_storage_chunks' = <<AREA>>
      /\ UNCHANGED <<store, request, blank, copying, kept>>
      /\ IF AllFound /\ calib_check_crc
         THEN phase' = "main" /\ ram' = Loaded /\ index' = index
         ELSE phase' = "init" /\ ram' = DEFAULT /\ index' = 0
  BY DEF calib_init, eeprom
<1>2. index = None /\ copying = None /\ request = None
  BY <1>1 DEF CalInv, Progress, RequestIsOfBuffer
<1>3. ram' \in Calibrations /\ (kept # None => ram' = kept)
  BY <1>1, CalLoaded, CalDefault, Constants
<1>4. AllFound => ~blank
  BY Constants DEF AllFound, CalInv, BlankIsEmpty
<1>5. CalibrationTypeOK'
  BY <1>1, <1>3, Constants DEF CalInv, CalibrationTypeOK
<1>6. StoreIsMixed' /\ BlankIsEmpty' /\ RequestIsOfBuffer'
  BY <1>1, <1>2, <1>4, Constants
     DEF CalInv, StoreIsMixed, BlankIsEmpty, RequestIsOfBuffer, Stored
<1>7. Progress'
  BY <1>1, <1>2, <1>3, Constants DEF Progress
<1>8. StoredSoFar'
  <2>1. index' # None => \A a \in Addresses : ~(a < index')
    BY <1>1, <1>2 DEF Addresses
  <2> QED BY <2>1 DEF StoredSoFar
<1>9. KeptIsStored' /\ CalibrationSurvives'
  BY <1>1, <1>3 DEF CalInv, KeptIsStored, CalibrationSurvives, Stored
<1> QED BY <1>5, <1>6, <1>7, <1>8, <1>9 DEF CalInv

LEMMA CalCalled ==
  ASSUME CalInv, NEW c \in UserCalibrations, set_calibration_data(c)
  PROVE  CalInv'
<1>1. /\ phase = "running" /\ copying = None /\ index = None
      /\ copying' = [from |-> c, at |-> 0] /\ kept' = None
      /\ UNCHANGED <<store, request, blank, found_storage_chunks, phase, ram, index>>
  BY DEF set_calibration_data, eeprom
<1>2. ram \in Calibrations /\ ram \in Contents
  BY <1>1, Constants DEF CalInv, Progress
<1>3. Mixed(ram)' = ram
  BY <1>1, <1>2 DEF Mixed, Contents
<1>4. CalibrationTypeOK'
  <2>1. copying' \in [from : UserCalibrations, at : 0 .. (COEFFICIENTS - 1)]
    BY <1>1, CalibrationAssumption
  <2> QED BY <1>1, <2>1 DEF CalInv, CalibrationTypeOK
<1>5. StoreIsMixed' /\ BlankIsEmpty' /\ RequestIsOfBuffer'
  BY <1>1 DEF CalInv, StoreIsMixed, BlankIsEmpty, RequestIsOfBuffer, Stored
<1>6. Progress'
  <2>1. ram' = ram
    BY <1>1
  <2>2. phase' = "running" /\ copying' # None
    BY <1>1, <1>4, CalibrationAssumption DEF CalibrationTypeOK
  <2>3. \E old \in Calibrations : ram' = Mixed(old)'
    BY <1>2, <1>3, <2>1
  <2> QED BY <1>1, <2>2, <2>3 DEF CalInv, Progress
<1>7. StoredSoFar' /\ KeptIsStored' /\ CalibrationSurvives'
  BY <1>1 DEF StoredSoFar, KeptIsStored, CalibrationSurvives
<1> QED BY <1>4, <1>5, <1>6, <1>7 DEF CalInv

LEMMA CalCopies == CalInv /\ CopyHalfword => CalInv'
<1> SUFFICES ASSUME CalInv, CopyHalfword PROVE CalInv'
  OBVIOUS
<1> DEFINE i == copying.at
           from == copying.from
<1>1. /\ phase = "running" /\ copying # None /\ index = None /\ kept = None /\ request = None
      /\ found_storage_chunks = <<AREA>>
  BY DEF CopyHalfword, CalInv, Progress, RequestIsOfBuffer
<1>2. copying = [from |-> from, at |-> i] /\ from \in UserCalibrations /\ i \in 0 .. (COEFFICIENTS - 1)
  BY <1>1 DEF CalInv, CalibrationTypeOK
<1>3. PICK old \in Calibrations : ram = Mixed(old)
  BY <1>1 DEF CalInv, Progress
<1>4. /\ ram' = [ram EXCEPT ![i] = from[i]]
      /\ UNCHANGED <<store, request, blank, kept>>
      /\ i + 1 < COEFFICIENTS => /\ copying' = [copying EXCEPT !.at = i + 1]
                                /\ UNCHANGED <<found_storage_chunks, phase, index>>
      /\ ~(i + 1 < COEFFICIENTS) =>
           /\ copying' = None /\ found_storage_chunks' = <<AREA>> /\ index' = 0
           /\ phase' = phase
  BY <1>1, AreaAlone DEF CopyHalfword, eeprom
<1> HIDE DEF i, from
<1>5. from \in Contents /\ from \in Calibrations /\ old \in Contents
  BY <1>2, Constants
<1>6. ram \in [0 .. (COEFFICIENTS - 1) -> Halfword]
  <2>1. ram # None
    BY <1>3, Constants, <1>2, <1>5, CalibrationAssumption DEF Mixed, Contents
  <2> QED BY <2>1 DEF CalInv, CalibrationTypeOK, Contents
<1>7. \A a \in 0 .. (COEFFICIENTS - 1) : ram'[a] = IF a < i + 1 THEN from[a] ELSE old[a]
  <2>1. \A a \in 0 .. (COEFFICIENTS - 1) : ram[a] = IF a < i THEN from[a] ELSE old[a]
    BY <1>1, <1>2, <1>3 DEF Mixed
  <2> QED BY <1>2, <1>4, <1>6, <2>1
<1>8. ram' \in Contents
  <2>1. from[i] \in Halfword
    BY <1>2, <1>5 DEF Contents
  <2> QED BY <1>2, <1>4, <1>6, <2>1 DEF Contents
<1>9. CASE i + 1 < COEFFICIENTS
  <2>1. copying' = [from |-> from, at |-> i + 1]
    BY <1>2, <1>4, <1>9
  <2>2. copying' \in [from : UserCalibrations, at : 0 .. (COEFFICIENTS - 1)]
    BY <1>2, <1>9, <2>1, CalibrationAssumption
  <2>3. copying' # None
    BY <2>2, CalibrationAssumption
  <2>4. ram' = Mixed(old)'
    <3>1. \A a \in 0 .. (COEFFICIENTS - 1) : Mixed(old)'[a] = IF a < i + 1 THEN from[a] ELSE old[a]
      BY <2>1, <2>3 DEF Mixed
    <3>2. Mixed(old)' \in Contents
      BY <1>5, <2>1, <2>3 DEF Mixed, Contents
    <3> QED BY <1>7, <1>8, <3>1, <3>2, SameHalfwords
  <2>5. CalibrationTypeOK'
    BY <1>4, <1>8, <1>9, <2>2 DEF CalInv, CalibrationTypeOK
  <2>6. StoreIsMixed' /\ BlankIsEmpty' /\ RequestIsOfBuffer'
    BY <1>1, <1>4, <1>9 DEF CalInv, StoreIsMixed, BlankIsEmpty, RequestIsOfBuffer, Stored
  <2>7. Progress'
    BY <1>1, <1>4, <1>9, <2>3, <2>4 DEF Progress
  <2>8. StoredSoFar' /\ KeptIsStored' /\ CalibrationSurvives'
    BY <1>1, <1>4, <1>9 DEF StoredSoFar, KeptIsStored, CalibrationSurvives
  <2> QED BY <2>5, <2>6, <2>7, <2>8 DEF CalInv
<1>10. CASE ~(i + 1 < COEFFICIENTS)
  <2>1. ram' = from
    <3>1. \A a \in 0 .. (COEFFICIENTS - 1) : ram'[a] = from[a]
      BY <1>2, <1>7, <1>10, CalibrationAssumption
    <3> QED BY <1>5, <1>8, <3>1, SameHalfwords
  <2>2. CalibrationTypeOK'
    BY <1>4, <1>8, <1>10, CalibrationAssumption DEF CalInv, CalibrationTypeOK
  <2>3. StoreIsMixed' /\ BlankIsEmpty' /\ RequestIsOfBuffer'
    BY <1>1, <1>4, <1>10 DEF CalInv, StoreIsMixed, BlankIsEmpty, RequestIsOfBuffer, Stored
  <2>4. Progress'
    BY <1>1, <1>4, <1>5, <1>10, <2>1, Constants DEF Progress
  <2>5. StoredSoFar'
    <3>1. \A a \in Addresses : ~(a < index')
      BY <1>4, <1>10 DEF Addresses
    <3> QED BY <3>1 DEF StoredSoFar
  <2>6. KeptIsStored' /\ CalibrationSurvives'
    BY <1>1, <1>4 DEF KeptIsStored, CalibrationSurvives
  <2> QED BY <2>2, <2>3, <2>4, <2>5, <2>6 DEF CalInv
<1> QED BY <1>9, <1>10

----------------------------------------------------------------------------
(* The loop of eeprom_write_buffer.                                        *)

\* What the loop writes, and where it may be.
LEMMA InTheLoop ==
  ASSUME CalInv, index # None
  PROVE  /\ phase \in {"init", "running"} /\ copying = None
         /\ ram \in Calibrations /\ ram \in Contents
         /\ index \in 0 .. LENGTH
         /\ index < LENGTH => index \in Addresses /\ Buffer(ram)[index] \in Halfword
         /\ kept # None => phase = "init" /\ kept = DEFAULT /\ ram = DEFAULT
<1>1. phase \in {"init", "running"} /\ copying = None /\ ram \in Calibrations
  BY Constants DEF CalInv, Progress
<1>2. ram \in Contents /\ ram # None
  BY <1>1, Constants
<1>3. index \in 0 .. LENGTH
  BY DEF CalInv, CalibrationTypeOK
<1>4. index < LENGTH => index \in Addresses /\ Buffer(ram)[index] \in Halfword
  BY <1>2, <1>3, BufferType, Constants DEF Addresses
<1>5. kept # None => phase = "init" /\ kept = DEFAULT /\ ram = DEFAULT
  BY <1>1, <1>2 DEF CalInv, Progress, CalibrationSurvives
<1> QED BY <1>1, <1>2, <1>3, <1>4, <1>5

LEMMA CalSkips == CalInv /\ SkipHalfword => CalInv'
<1> SUFFICES ASSUME CalInv, SkipHalfword PROVE CalInv'
  OBVIOUS
<1>1. /\ index # None /\ request = None /\ index < LENGTH /\ index' = index + 1
      /\ store[index] = Buffer(ram)[index]
      /\ UNCHANGED <<store, request, blank, found_storage_chunks, phase, ram, copying, kept>>
  BY DEF SkipHalfword, InLoop, NeedsWrite, eeprom
<1>2. /\ index \in 0 .. LENGTH /\ index \in Addresses /\ Stored(ram, index)
      /\ store[index] # NotFound
  BY <1>1, InTheLoop, BufferType DEF Stored
<1>3. index' \in 0 .. LENGTH /\ index' # None /\ ~blank
  BY <1>1, <1>2, Constants DEF CalInv, BlankIsEmpty
<1>4. CalibrationTypeOK'
  BY <1>1, <1>3 DEF CalInv, CalibrationTypeOK
<1>5. StoreIsMixed' /\ BlankIsEmpty' /\ RequestIsOfBuffer'
  BY <1>1, <1>3 DEF CalInv, StoreIsMixed, BlankIsEmpty, RequestIsOfBuffer, Stored
<1>6. Progress'
  BY <1>1, <1>3, InTheLoop DEF CalInv, Progress
<1>7. StoredSoFar'
  <2>1. \A a \in Addresses : a < index' => a < index \/ a = index
    BY <1>1, <1>2 DEF Addresses
  <2> QED BY <1>1, <1>2, <2>1 DEF CalInv, StoredSoFar, Stored
<1>8. KeptIsStored' /\ CalibrationSurvives'
  BY <1>1 DEF CalInv, KeptIsStored, CalibrationSurvives, Stored
<1> QED BY <1>4, <1>5, <1>6, <1>7, <1>8 DEF CalInv

LEMMA CalWrites == CalInv /\ CallWrite => CalInv'
<1> SUFFICES ASSUME CalInv, CallWrite PROVE CalInv'
  OBVIOUS
<1>1. /\ index # None /\ index < LENGTH
      /\ request' = [vaddr |-> index, data |-> Buffer(ram)[index]]
      /\ UNCHANGED <<store, blank, found_storage_chunks, phase, ram, copying, index, kept>>
  BY DEF CallWrite, InLoop, EE!Begin
<1>2. index \in Addresses /\ Buffer(ram)[index] \in Halfword
  BY <1>1, InTheLoop
<1>3. CalibrationTypeOK'
  BY <1>1, <1>2 DEF CalInv, CalibrationTypeOK
<1>4. StoreIsMixed' /\ BlankIsEmpty' /\ RequestIsOfBuffer'
  BY <1>1 DEF CalInv, StoreIsMixed, BlankIsEmpty, RequestIsOfBuffer, Stored
<1>5. Progress'
  BY <1>1, InTheLoop DEF CalInv, Progress
<1>6. StoredSoFar' /\ KeptIsStored' /\ CalibrationSurvives'
  BY <1>1 DEF CalInv, StoredSoFar, KeptIsStored, CalibrationSurvives, Stored
<1> QED BY <1>3, <1>4, <1>5, <1>6 DEF CalInv

LEMMA CalProgrammed == CalInv /\ EntryProgrammed => CalInv'
<1> SUFFICES ASSUME CalInv, EntryProgrammed PROVE CalInv'
  OBVIOUS
<1>1. /\ request # None /\ store' = [store EXCEPT ![request.vaddr] = request.data]
      /\ blank' = FALSE
      /\ UNCHANGED <<request, found_storage_chunks, phase, ram, copying, index, kept>>
  BY DEF EntryProgrammed, EE!Commit
<1>2. index # None /\ index < LENGTH /\ request.vaddr = index /\ request.data = Buffer(ram)[index]
  BY <1>1 DEF CalInv, RequestIsOfBuffer
<1>3. index \in Addresses /\ Buffer(ram)[index] \in Halfword /\ ram \in Calibrations
  BY <1>2, InTheLoop
<1>4. store \in [Addresses -> Halfword \cup {NotFound}]
  BY DEF CalInv, CalibrationTypeOK
<1>5. \A a \in Addresses : store'[a] = IF a = index THEN Buffer(ram)[a] ELSE store[a]
  BY <1>1, <1>2, <1>4
<1>6. CalibrationTypeOK'
  <2>1. store' \in [Addresses -> Halfword \cup {NotFound}]
    BY <1>1, <1>2, <1>3, <1>4
  <2> QED BY <1>1, <2>1 DEF CalInv, CalibrationTypeOK
<1>7. StoreIsMixed'
  BY <1>3, <1>5 DEF CalInv, StoreIsMixed, Stored
<1>8. BlankIsEmpty' /\ RequestIsOfBuffer'
  BY <1>1 DEF CalInv, BlankIsEmpty, RequestIsOfBuffer
<1>9. Progress'
  BY <1>1, <1>2, InTheLoop DEF CalInv, Progress
<1>10. StoredSoFar'
  BY <1>1, <1>5 DEF CalInv, StoredSoFar, Stored
<1>11. KeptIsStored'
  <2>1. kept # None => kept = ram /\ kept = DEFAULT
    BY <1>2, InTheLoop
  <2> QED BY <1>1, <1>5, <2>1 DEF CalInv, KeptIsStored, Stored
<1>12. CalibrationSurvives'
  BY <1>1 DEF CalInv, CalibrationSurvives
<1> QED BY <1>6, <1>7, <1>8, <1>9, <1>10, <1>11, <1>12 DEF CalInv

LEMMA CalWritten == CalInv /\ WriteReturns => CalInv'
<1> SUFFICES ASSUME CalInv, WriteReturns PROVE CalInv'
  OBVIOUS
<1>1. /\ request # None /\ request' = None /\ blank' = FALSE /\ index' = index + 1
      /\ store[request.vaddr] = request.data \/ blank
      /\ UNCHANGED <<store, found_storage_chunks, phase, ram, copying, kept>>
  BY DEF WriteReturns, EE!End
<1>2. index # None /\ index < LENGTH /\ request.vaddr = index /\ request.data = Buffer(ram)[index]
  BY <1>1 DEF CalInv, RequestIsOfBuffer
<1>3. index \in Addresses /\ index \in 0 .. LENGTH
  BY <1>2, InTheLoop
<1>4. index' \in 0 .. LENGTH /\ index' # None
  BY <1>1, <1>2, <1>3, Constants
<1>5. Stored(ram, index) \/ (phase = "init" /\ store[index] = NotFound)
  BY <1>1, <1>2, <1>3, InTheLoop DEF CalInv, BlankIsEmpty, Stored
<1>6. CalibrationTypeOK'
  BY <1>1, <1>4 DEF CalInv, CalibrationTypeOK
<1>7. StoreIsMixed' /\ BlankIsEmpty' /\ RequestIsOfBuffer'
  BY <1>1 DEF CalInv, StoreIsMixed, BlankIsEmpty, RequestIsOfBuffer, Stored
<1>8. Progress'
  BY <1>1, <1>2, <1>4, InTheLoop DEF CalInv, Progress
<1>9. StoredSoFar'
  <2>1. \A a \in Addresses : a < index' => a < index \/ a = index
    BY <1>1, <1>3 DEF Addresses
  <2> QED BY <1>1, <1>2, <1>5, <2>1 DEF CalInv, StoredSoFar, Stored
<1>10. KeptIsStored' /\ CalibrationSurvives'
  BY <1>1 DEF CalInv, KeptIsStored, CalibrationSurvives, Stored
<1> QED BY <1>6, <1>7, <1>8, <1>9, <1>10 DEF CalInv

LEMMA CalFails == CalInv /\ WriteFails => CalInv'
<1> SUFFICES ASSUME CalInv, WriteFails PROVE CalInv'
  OBVIOUS
<1>1. /\ request # None /\ request' = None /\ phase' = "halted" /\ index' = None
      /\ UNCHANGED <<store, blank, found_storage_chunks, ram, copying, kept>>
  BY DEF WriteFails, EE!End
<1>2. index # None
  BY <1>1 DEF CalInv, RequestIsOfBuffer
<1>3. CalibrationTypeOK'
  BY <1>1 DEF CalInv, CalibrationTypeOK
<1>4. StoreIsMixed' /\ BlankIsEmpty' /\ RequestIsOfBuffer'
  BY <1>1 DEF CalInv, StoreIsMixed, BlankIsEmpty, RequestIsOfBuffer, Stored
<1>5. Progress'
  BY <1>1, <1>2, InTheLoop DEF CalInv, Progress
<1>6. StoredSoFar' /\ KeptIsStored' /\ CalibrationSurvives'
  BY <1>1 DEF CalInv, StoredSoFar, KeptIsStored, CalibrationSurvives, Stored
<1> QED BY <1>3, <1>4, <1>5, <1>6 DEF CalInv

LEMMA CalReturns == CalInv /\ StoreReturns => CalInv'
<1> SUFFICES ASSUME CalInv, StoreReturns PROVE CalInv'
  OBVIOUS
<1>1. /\ index # None /\ request = None /\ index = LENGTH /\ index' = None /\ kept' = ram
      /\ phase' = IF phase = "init" THEN "main" ELSE phase
      /\ UNCHANGED <<store, request, blank, found_storage_chunks, ram, copying>>
  BY DEF StoreReturns, InLoop, eeprom
<1>2. /\ phase \in {"init", "running"} /\ copying = None
      /\ ram \in Calibrations /\ ram \in Contents
  BY <1>1, InTheLoop
<1>3. ~blank
  BY <1>1, Constants DEF CalInv, BlankIsEmpty
<1>4. \A a \in Addresses : Stored(ram, a) \/ (phase = "init" /\ store[a] = NotFound)
  BY <1>1, Constants DEF CalInv, StoredSoFar, Addresses
<1>5. phase = "init" => ram = DEFAULT
  BY DEF CalInv, Progress
<1>6. CalibrationTypeOK'
  BY <1>1, <1>2 DEF CalInv, CalibrationTypeOK
<1>7. StoreIsMixed' /\ BlankIsEmpty' /\ RequestIsOfBuffer'
  BY <1>1, <1>3 DEF CalInv, StoreIsMixed, BlankIsEmpty, RequestIsOfBuffer, Stored
<1>8. Progress'
  BY <1>1, <1>2 DEF CalInv, Progress
<1>9. StoredSoFar' /\ CalibrationSurvives'
  BY <1>1 DEF StoredSoFar, CalibrationSurvives
<1>10. KeptIsStored'
  BY <1>1, <1>2, <1>4, <1>5 DEF KeptIsStored, Stored
<1> QED BY <1>6, <1>7, <1>8, <1>9, <1>10 DEF CalInv

LEMMA CalSteps == CalInv /\ StoreStep => CalInv'
BY CalCopies, CalSkips, CalWrites, CalProgrammed, CalWritten, CalFails, CalReturns DEF StoreStep

LEMMA CalInvImplies == CalInv => CalibrationIsWhole
<1> SUFFICES ASSUME CalInv, phase \in {"main", "running"}
             PROVE  \E old \in Calibrations : ram = Mixed(old)
  BY DEF CalibrationIsWhole
<1>1. CASE copying = None
  <2>1. ram \in Calibrations /\ ram \in Contents
    BY <1>1, Constants DEF CalInv, Progress
  <2> QED BY <1>1, <2>1, NotCopying
<1>2. CASE copying # None
  BY <1>2 DEF CalInv, Progress
<1> QED BY <1>1, <1>2

----------------------------------------------------------------------------
(* The device.                                                             *)

\* How far the start has come.
BootInv ==
  /\ resetFlags \subseteq ResetFlags
  /\ phase \in {"off", "init", "main"} => resetFlags # {}
  /\ rpc \in {"none", "start", "resumed", "serving"}
  /\ rpc \in {"none", "start"} => flashes = 0 /\ pausing = FALSE
  /\ phase \in {"off", "init", "main"} => rpc = "none"

IInv == CalInv /\ KeysInv /\ LedsInv /\ BootInv

LEMMA DeviceInit == Init => IInv
<1> SUFFICES ASSUME Init PROVE IInv
  OBVIOUS
<1>1. CalInv /\ KeysInv /\ LedsInv
  BY CalInit, InitKeys, InitLeds DEF Init
<1>2. BootInv
  BY DEF Init, BootInv, LedsInit, ResetFlags
<1> QED BY <1>1, <1>2 DEF IInv

\* The LEDs are lit by main before their task runs.
LEMMA MainKeepsLeds ==
  ASSUME LedsInv, flashes = 0, pausing = FALSE, lit' = {lid_red},
         UNCHANGED <<ledPatterns, flashes, pausing>>
  PROVE  LedsInv'
<1>1. lit' \subseteq Wired
  BY Numbers
<1> QED BY <1>1 DEF LedsInv, Blinks

LEMMA DeviceNext == IInv /\ [Next]_vars => IInv'
<1> SUFFICES ASSUME IInv, [Next]_vars PROVE IInv'
  OBVIOUS
<1>0. CalInv /\ KeysInv /\ LedsInv /\ BootInv
  BY DEF IInv
<1>1. CASE StartUp
  <2>1. CalInv'
    BY <1>0, <1>1, CalStarts DEF StartUp
  <2>2. KeysInv'
    BY <1>0, <1>1, StutterKeepsKeys DEF StartUp
  <2>3. phase = "off" /\ phase' \in {"main", "init"}
    BY <1>1 DEF StartUp, calib_init
  <2>4. flashes = 0 /\ pausing = FALSE
    BY <1>0, <2>3 DEF BootInv
  <2>5. LedsInv'
    BY <1>0, <1>1, <2>4, MainKeepsLeds DEF StartUp
  <2>6. BootInv'
    BY <1>0, <1>1, <2>3 DEF StartUp, BootInv, boot
  <2> QED BY <2>1, <2>2, <2>5, <2>6 DEF IInv
<1>2. CASE StartScheduler
  <2>1. CalInv'
    BY <1>0, <1>2, CalScheduled DEF StartScheduler
  <2>2. KeysInv' /\ LedsInv'
    BY <1>0, <1>2, ResetKeepsKeys, StutterKeepsLeds DEF StartScheduler
  <2>3. BootInv'
    BY <1>0, <1>2 DEF StartScheduler, BootInv, ledVars
  <2> QED BY <2>1, <2>2, <2>3 DEF IInv
<1>3. ASSUME NEW down \in SUBSET Key, ResumeTasks(down) PROVE IInv'
  <2>1. CalInv'
    BY <1>0, <1>3, CalStutters DEF ResumeTasks
  <2>2. KeysInv'
    BY <1>0, <1>3, PollKeepsKeys DEF ResumeTasks
  <2>3. flashes = 0 /\ pausing = FALSE
    BY <1>0, <1>3 DEF ResumeTasks, BootInv
  <2>4. LedsInv'
    BY <1>0, <1>3, <2>3, StartKeepsLeds DEF ResumeTasks
  <2>5. BootInv'
    BY <1>0, <1>3 DEF ResumeTasks, BootInv, calibrationVars
  <2> QED BY <2>1, <2>2, <2>4, <2>5 DEF IInv
<1>4. ASSUME NEW down \in SUBSET Key, taskKey(down) PROVE IInv'
  <2>1. CalInv' /\ LedsInv'
    BY <1>0, <1>4, CalStutters, StutterKeepsLeds DEF taskKey
  <2>2. KeysInv'
    BY <1>0, <1>4, PollKeepsKeys DEF taskKey
  <2>3. BootInv'
    BY <1>0, <1>4 DEF taskKey, BootInv, boot, ledVars, calibrationVars
  <2> QED BY <2>1, <2>2, <2>3 DEF IInv
<1>5. CASE RegisterKeyHandler
  <2>1. CalInv' /\ LedsInv'
    BY <1>0, <1>5, CalStutters, StutterKeepsLeds DEF RegisterKeyHandler
  <2>2. KeysInv'
    BY <1>0, <1>5, RegisterKeepsKeys DEF RegisterKeyHandler
  <2>3. BootInv'
    BY <1>0, <1>5 DEF RegisterKeyHandler, BootInv, ledVars, calibrationVars
  <2> QED BY <2>1, <2>2, <2>3 DEF IInv
<1>6. CASE LedLoop
  <2>1. CalInv' /\ KeysInv'
    BY <1>0, <1>6, CalStutters, StutterKeepsKeys DEF LedLoop
  <2>2. LedsInv'
    BY <1>0, <1>6, LoopKeepsLeds DEF LedLoop
  <2>3. BootInv'
    BY <1>0, <1>6 DEF LedLoop, TasksRun, BootInv, boot, calibrationVars
  <2> QED BY <2>1, <2>2, <2>3 DEF IInv
<1>7. ASSUME NEW c \in UserCalibrations, CallSetCalibration(c) PROVE IInv'
  <2>1. CalInv'
    BY <1>0, <1>7, CalCalled DEF CallSetCalibration
  <2>2. KeysInv' /\ LedsInv'
    BY <1>0, <1>7, StutterKeepsKeys, StutterKeepsLeds DEF CallSetCalibration
  <2>3. BootInv'
    BY <1>0, <1>7 DEF CallSetCalibration, set_calibration_data, BootInv, boot, ledVars
  <2> QED BY <2>1, <2>2, <2>3 DEF IInv
<1>8. CASE Store
  <2>1. CalInv'
    BY <1>0, <1>8, CalSteps DEF Store
  <2>2. KeysInv' /\ LedsInv'
    BY <1>0, <1>8, StutterKeepsKeys, StutterKeepsLeds DEF Store
  <2>3. phase' \in {"off", "init", "main"} => phase \in {"off", "init", "main"}
    BY <1>8 DEF Store, StoreStep, CopyHalfword, SkipHalfword, CallWrite, EntryProgrammed,
                WriteReturns, WriteFails, StoreReturns
  <2>4. BootInv'
    BY <1>0, <1>8, <2>3 DEF Store, BootInv, boot, ledVars
  <2> QED BY <2>1, <2>2, <2>4 DEF IInv
<1>9. ASSUME NEW k \in Key, NEW reset \in BOOLEAN, CallKeyState(k, reset) PROVE IInv'
  <2>1. CalInv' /\ LedsInv'
    BY <1>0, <1>9, CalStutters, StutterKeepsLeds DEF CallKeyState
  <2>2. KeysInv'
    BY <1>0, <1>9, CallKeepsKeys DEF CallKeyState
  <2>3. BootInv'
    BY <1>0, <1>9 DEF CallKeyState, BootInv, boot, ledVars, calibrationVars
  <2> QED BY <2>1, <2>2, <2>3 DEF IInv
<1>10. ASSUME NEW k \in Key, Clear(k) PROVE IInv'
  <2>1. CalInv' /\ LedsInv'
    BY <1>0, <1>10, CalStutters, StutterKeepsLeds DEF Clear
  <2>2. KeysInv'
    BY <1>0, <1>10, ClearKeepsKeys DEF Clear
  <2>3. BootInv'
    BY <1>0, <1>10 DEF Clear, BootInv, boot, ledVars, calibrationVars
  <2> QED BY <2>1, <2>2, <2>3 DEF IInv
<1>11. ASSUME NEW flags \in SUBSET ResetFlags, flags # {}, Restart(flags) PROVE IInv'
  <2>1. CalInv' /\ KeysInv' /\ LedsInv'
    BY <1>0, <1>11, CalResets, ResetKeepsKeys, ResetKeepsLeds DEF Restart
  <2>2. BootInv'
    BY <1>11 DEF Restart, BootInv, LedsReset
  <2> QED BY <2>1, <2>2 DEF IInv
<1>12. CASE PowerLoss
  BY <1>11, <1>12 DEF PowerLoss, ResetFlags
<1>13. CASE ResetPin
  <2>1. /\ resetFlags \cup {"PINRSTF"} \in SUBSET ResetFlags
        /\ resetFlags \cup {"PINRSTF"} # {}
    BY <1>0 DEF BootInv, ResetFlags
  <2> QED BY <1>11, <1>13, <2>1 DEF ResetPin
<1>14. CASE UNCHANGED vars
  <2>1. UNCHANGED calibrationVars /\ UNCHANGED keyVars /\ UNCHANGED ledVars /\ UNCHANGED boot
    BY <1>14 DEF vars
  <2>2. CalInv' /\ KeysInv' /\ LedsInv'
    BY <1>0, <2>1, CalStutters, StutterKeepsKeys, StutterKeepsLeds
  <2>3. BootInv'
    BY <1>0, <2>1 DEF BootInv, boot, ledVars, calibrationVars
  <2> QED BY <2>2, <2>3 DEF IInv
<1> QED
  BY <1>1, <1>2, <1>3, <1>4, <1>5, <1>6, <1>7, <1>8, <1>9, <1>10, <1>12, <1>13, <1>14 DEF Next

LEMMA Invariance == Spec => []IInv
BY DeviceInit, DeviceNext, PTL DEF Spec

\* Data of all parts stays within its arrays and types, and a start always
\* finds the flag of the reset it comes from (main.c:148-224).
THEOREM TypeCorrect == Spec => []TypeOK
<1>1. IInv => TypeOK
  <2> SUFFICES ASSUME IInv PROVE TypeOK
    OBVIOUS
  <2>1. CalibrationTypeOK /\ KeysTypeOK /\ LedsTypeOK
    BY LedsInvImplies DEF IInv, CalInv, KeysInv
  <2>2. phase = "main" => mainTestResetSource # "assertion fails"
    BY DEF IInv, BootInv, ResetFlags, mainTestResetSource
  <2> QED BY <2>1, <2>2 DEF TypeOK, IInv, BootInv
<1> QED BY <1>1, Invariance, PTL

\* Channels are scaled with one calibration or, while memcpy replaces it, with
\* the beginning of the new one and the rest of the old one, through power
\* losses anywhere (storage_calibration.c:76-94).
THEOREM CalibrationStaysWhole == Spec => []CalibrationIsWhole
<1>1. IInv => CalibrationIsWhole
  BY CalInvImplies DEF IInv
<1> QED BY <1>1, Invariance, PTL

\* The calibration that was stored is the one in use after every later start
\* (storage_calibration.c:76-94, eeprom_storage.c:76-90).
THEOREM StoredCalibrationIsUsed == Spec => []CalibrationSurvives
<1>1. IInv => CalibrationSurvives
  BY DEF IInv, CalInv
<1> QED BY <1>1, Invariance, PTL

\* A press is reported once as a short and once as a long one, and the memory of
\* the keys never shows an older event (task_key.c:89-122).
THEOREM PressesAreReportedOnce == Spec => []PressIsReportedOnce
<1>1. IInv => PressIsReportedOnce
  BY KeysInvImplies DEF IInv
<1> QED BY <1>1, Invariance, PTL

\* The red LED flashes REPEAT times and then pauses, switched off
\* (task_led.c:182-225).
THEOREM RedFlashesBetweenPauses == Spec => []FlashesBetweenPauses
<1>1. IInv => FlashesBetweenPauses
  BY LedsInvImplies DEF IInv
<1> QED BY <1>1, Invariance, PTL

============================================================================
