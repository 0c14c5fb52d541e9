-------------------------- MODULE EepromEmulation --------------------------
(***************************************************************************)
(* The EEPROM emulation of src/mcu/src/eeprom_emulation.c, at the grain of *)
(* the single HAL flash operations, so that the power can fail, or the     *)
(* HAL report an error, between any two of them.                           *)
(*                                                                         *)
(* Flash is addressed in halfwords from EEPROM_START_ADDRESS.  The log     *)
(* starts behind the page header: an entry is a data halfword at an odd    *)
(* address `a' and the virtual address it belongs to at a + 1.  Variables  *)
(* are looked up from the top of the log, so the newest entry wins.        *)
(*                                                                         *)
(* The geometry is the one of eeprom_emulation.h, scaled down.  Two        *)
(* things in it are essential and kept: PAGE1_BASE_ADDRESS lies INSIDE     *)
(* page 0 (START + 0x4000 with pages of 0x20000 bytes), where it coincides *)
(* with the virtual address half of a log entry; and PAGE0_ID / PAGE1_ID   *)
(* are FLASH_SECTOR_2 / FLASH_SECTOR_3, which lie below the 768K the       *)
(* linker gives to the program, not in the emulation's own sectors.        *)
(***************************************************************************)
EXTENDS Naturals, Sequences

CONSTANTS
  PAGE_SIZE,        (* halfwords of a page                (code: 0x10000)  *)
  PAGE1_BASE,       (* where the page 1 header is, from page 0's (0x2000)  *)
  EEPROM_SIZE,      (* virtual addresses are 0 .. EEPROM_SIZE-1     (256)  *)
  Data,             (* the 16-bit values callers store                     *)
  LogBound          (* bound of the model: once the halfword at this       *)
                    (* address is programmed no call is made and the power *)
                    (* does not come back                                  *)

\* Flash values.
ERASED == 65535
RECEIVE_DATA == 61166
VALID_PAGE == 0
Word16 == 0 .. ERASED

IsEven(n) == n % 2 = 0

ASSUME GeometryAssumption ==
  /\ PAGE_SIZE \in Nat /\ IsEven(PAGE_SIZE)
  /\ PAGE1_BASE \in Nat /\ IsEven(PAGE1_BASE)
  /\ 4 <= PAGE1_BASE /\ PAGE1_BASE + 2 < PAGE_SIZE
  /\ EEPROM_SIZE \in Nat /\ 1 <= EEPROM_SIZE /\ EEPROM_SIZE <= 256
  /\ Data \subseteq Word16
  /\ LogBound \in 0 .. (2 * PAGE_SIZE - 1)

VARIABLES
  flash,     (* content of the two pages, halfword by halfword             *)
  erased,    (* the sectors HAL_FLASHEx_Erase has erased                   *)
  phase,     (* what the CPU is doing, see Phases                          *)
  todo,      (* what the EE_ function in progress has still to do          *)
  request    (* arguments of the write in progress, or of the last one     *)
             (* since power-on that returned HAL_OK                        *)

vars == <<flash, erased, phase, todo, request>>

----------------------------------------------------------------------------
(* Flash addresses.                                                        *)

Halfwords == 0 .. (2 * PAGE_SIZE - 1)
VirtAddr == 0 .. (EEPROM_SIZE - 1)
Pages == {0, 1}
Sectors == {"FLASH_SECTOR_2", "FLASH_SECTOR_3"}

PageBase(p) == IF p = 0 THEN 0 ELSE PAGE1_BASE
PageId(p) == IF p = 0 THEN "FLASH_SECTOR_2" ELSE "FLASH_SECTOR_3"
PageStatus(p) == flash[PageBase(p)]

Maximum(S) == CHOOSE x \in S : \A y \in S : y <= x
Minimum(S) == CHOOSE x \in S : \A y \in S : x <= y

\* x with the bits of 0xEEEE that are 0 cleared: the bits 0, 4, 8 and 12.
AndReceive(x) ==
  LET Bit(i) == i * ((x \div i) % 2)
  IN  x - (Bit(1) + Bit(16) + Bit(256) + Bit(4096))

\* Programming flash can only clear bits.  Besides the headers, only erased
\* halfwords are ever programmed.
Programmed(old, new) ==
  CASE old = ERASED -> new
    [] old # ERASED /\ new = VALID_PAGE -> VALID_PAGE
    [] old # ERASED /\ new = RECEIVE_DATA -> AndReceive(old)
    [] OTHER -> old

----------------------------------------------------------------------------
(* The functions that only look at flash.                                  *)

EE_FindValidPageWrite ==
  CASE PageStatus(1) = VALID_PAGE -> {IF PageStatus(0) = RECEIVE_DATA THEN 0 ELSE 1}
    [] PageStatus(1) # VALID_PAGE /\ PageStatus(0) = VALID_PAGE ->
         {IF PageStatus(1) = RECEIVE_DATA THEN 1 ELSE 0}
    [] OTHER -> {}

\* Mutant of EE_FindValidPageRead: page 1 is asked first, as for writing.
Page1FirstRead ==
  CASE PageStatus(1) = VALID_PAGE -> {1}
    [] PageStatus(1) # VALID_PAGE /\ PageStatus(0) = VALID_PAGE -> {0}
    [] OTHER -> {}

\* The page to read from, as a set with at most one element.
EE_FindValidPageRead ==
  CASE PageStatus(0) = VALID_PAGE -> {0}
    [] PageStatus(0) # VALID_PAGE /\ PageStatus(1) = VALID_PAGE -> {1}
    [] OTHER -> {}

\* Mutant of EE_VerifyPageFullyErased: every page is checked from page 0 on.
VerifyFromPage0(p) == \A a \in 0 .. (PAGE_SIZE - 1) : IsEven(a) => flash[a] = ERASED

\* Every second halfword from the header of the page up to PAGE0_END_ADDRESS,
\* whatever the page: only headers and virtual addresses are looked at.
EE_VerifyPageFullyErased(p) ==
  \A a \in PageBase(p) .. (PAGE_SIZE - 1) : IsEven(a) => flash[a] = ERASED

\* Where EE_ReadVariable looks, from the top: the word behind the page comes
\* first, the first entry of the page, p * PAGE_SIZE + 1, is left out.
ReadAddresses(p) ==
  {a \in (p * PAGE_SIZE + 3) .. ((p + 1) * PAGE_SIZE + 1) : ~IsEven(a)}

\* Reading page 1 starts with the word behind the end of the flash memory.
ReadFaults == \E p \in EE_FindValidPageRead : (p + 1) * PAGE_SIZE + 2 \notin Halfwords

EntriesOf(v) ==
  LET InPage(p) == {a \in ReadAddresses(p) : a + 1 \in Halfwords /\ flash[a + 1] = v}
  IN  CASE 0 \in EE_FindValidPageRead -> InPage(0)
        [] EE_FindValidPageRead = {1} -> InPage(1)
        [] OTHER -> {}

\* Mutant of NewestFirst: the log is searched from its beginning.
OldestFirst(v) == flash[Minimum(EntriesOf(v))]

\* *Data of a successful EE_ReadVariable.
NewestFirst(v) == flash[Maximum(EntriesOf(v))]

NotFound == 65536

\* What a caller of EE_ReadVariable gets: the value, or that there is none.
\* (Without a valid page there is no value either.)
EE_ReadVariable(v) == IF EntriesOf(v) = {} THEN NotFound ELSE NewestFirst(v)

\* Where EE_VerifyPageFullWriteVariable looks for a free entry.
WriteAddresses(p) ==
  {a \in (p * PAGE_SIZE + 1) .. ((p + 1) * PAGE_SIZE - 1) : ~IsEven(a)}

FreeEntries(p) ==
  {a \in WriteAddresses(p) :
     a + 1 \in Halfwords /\ flash[a] = ERASED /\ flash[a + 1] = ERASED}

----------------------------------------------------------------------------
(* What an EE_ function still has to do is a sequence of steps.            *)

EraseIfDirty(p) == [op |-> "eraseIfDirty", page |-> p]
Erase(p) == [op |-> "erase", page |-> p]
Program(a, x) == [op |-> "program", at |-> a, value |-> x]
Mark(p, s) == Program(PageBase(p), s)

\* EE_VerifyPageFullWriteVariable.  `retry' marks the first attempt of
\* EE_WriteVariable, which is followed by a page transfer when it finds the
\* page full.
Write(v, d, retry) == [op |-> "write", vaddr |-> v, data |-> d, retry |-> retry]

\* The loop of EE_Init that copies the variables, from `next' on, to page p.
CopyAll(p, next) == [op |-> "copyAll", page |-> p, next |-> next]

\* The loop of EE_PageTransfer: all variables but v.
CopyOthers(v, next) == [op |-> "copyOthers", vaddr |-> v, next |-> next]

Steps ==
  [op : {"eraseIfDirty", "erase"}, page : Pages]
    \cup [op : {"program"}, at : Halfwords, value : Word16]
    \cup [op : {"write"}, vaddr : VirtAddr, data : Word16, retry : BOOLEAN]
    \cup [op : {"copyAll"}, page : Pages, next : 0 .. EEPROM_SIZE]
    \cup [op : {"copyOthers"}, vaddr : VirtAddr, next : 0 .. EEPROM_SIZE]

EE_Format == <<EraseIfDirty(0), Mark(0, VALID_PAGE), EraseIfDirty(1)>>

\* The switch of EE_Init over the two page headers.
EE_Init ==
  LET s0 == PageStatus(0)
      s1 == PageStatus(1)
  IN  CASE s0 = ERASED /\ s1 = VALID_PAGE -> <<EraseIfDirty(0)>>
        [] s0 = ERASED /\ s1 = RECEIVE_DATA -> <<EraseIfDirty(0), Mark(1, VALID_PAGE)>>
        [] s0 = RECEIVE_DATA /\ s1 = VALID_PAGE ->
             <<CopyAll(0, 0), Mark(0, VALID_PAGE), EraseIfDirty(1)>>
        [] s0 = RECEIVE_DATA /\ s1 = ERASED -> <<EraseIfDirty(1), Mark(0, VALID_PAGE)>>
        [] s0 = VALID_PAGE /\ s1 = ERASED -> <<EraseIfDirty(1)>>
        [] s0 = VALID_PAGE /\ s1 \notin {VALID_PAGE, ERASED} ->
             <<CopyAll(1, 0), Mark(1, VALID_PAGE), EraseIfDirty(0)>>
        [] OTHER -> EE_Format

\* EE_PageTransfer away from the page that is valid for reading.
EE_PageTransfer(v, d) ==
  LET old == CHOOSE p \in EE_FindValidPageRead : TRUE
      new == 1 - old
  IN  <<Mark(new, RECEIVE_DATA), Write(v, d, FALSE), CopyOthers(v, 0),
        Erase(old), Mark(new, VALID_PAGE)>>

\* Mutant of EntryPrograms: the address makes the entry valid too early.
AddressFirst(a, v, d) == <<Program(a + 1, v), Program(a, d)>>

\* The order in which an entry is programmed: the data, then its address.
EntryPrograms(a, v, d) == <<Program(a, d), Program(a + 1, v)>>

----------------------------------------------------------------------------
(* off     no power                                                        *)
(* init    eeprom_init is running EE_Init                                  *)
(* idle    no EE_ function is running                                      *)
(* write   EE_WriteVariable is running                                     *)
(* halted  in an assert of the caller, or in the bus fault handler         *)
Phases == {"off", "init", "idle", "write", "halted"}
NoRequest == [none |-> 0]
Requests == [vaddr : VirtAddr, data : Data]

Init ==
  /\ flash = [a \in Halfwords |-> ERASED]
  /\ erased = {}
  /\ phase = "off"
  /\ todo = <<>>
  /\ request = NoRequest

Goto(steps) == todo' = steps /\ UNCHANGED <<phase, request>>

Stop(next) == todo' = <<>> /\ phase' = next /\ request' = NoRequest

\* An EE_ function returns PAGE_FULL, NO_VALID_PAGE or a HAL error:
\* eeprom_init ignores it, while the assert in eeprom_write_buffer stops the
\* program.
ReturnError == Stop(IF phase = "init" THEN "idle" ELSE "halted")

\* A read behind the end of the flash memory.
Fault == Stop("halted")

Running(op) == todo # <<>> /\ Head(todo).op = op

PowerOn ==
  /\ phase = "off"
  /\ flash[LogBound] = ERASED
  /\ phase' = "init"
  /\ todo' = EE_Init
  /\ UNCHANGED <<flash, erased, request>>

\* eeprom_write_buffer reads the variable first and only writes a value that
\* it does not have.
EE_WriteVariable(v, d) ==
  /\ phase = "idle"
  /\ flash[LogBound] = ERASED
  /\ IF ReadFaults THEN Fault
     ELSE /\ EE_ReadVariable(v) # d
          /\ phase' = "write"
          /\ todo' = <<Write(v, d, TRUE)>>
          /\ request' = [vaddr |-> v, data |-> d]
  /\ UNCHANGED <<flash, erased>>

Return ==
  /\ phase \in {"init", "write"}
  /\ todo = <<>>
  /\ phase' = "idle"
  /\ UNCHANGED <<flash, erased, todo, request>>

\* HAL_FLASHEx_Erase: the sector that is erased is not one of the pages.
HAL_FLASHEx_Erase(p) == erased' = erased \cup {PageId(p)} /\ UNCHANGED flash

DoErase ==
  /\ Running("erase")
  /\ HAL_FLASHEx_Erase(Head(todo).page)
  /\ Goto(Tail(todo))

NeedsErase(p) == ~EE_VerifyPageFullyErased(p)

DoEraseIfDirty ==
  /\ Running("eraseIfDirty")
  /\ IF NeedsErase(Head(todo).page)
     THEN HAL_FLASHEx_Erase(Head(todo).page)
     ELSE UNCHANGED <<flash, erased>>
  /\ Goto(Tail(todo))

\* HAL_FLASH_Program of one halfword.
DoProgram ==
  /\ Running("program")
  /\ flash' = [flash EXCEPT ![Head(todo).at] = Programmed(@, Head(todo).value)]
  /\ Goto(Tail(todo))
  /\ UNCHANGED erased

\* HAL_FLASH_Program or HAL_FLASHEx_Erase reports an error, nothing changed.
HalError ==
  /\ \/ Running("program")
     \/ Running("erase")
     \/ Running("eraseIfDirty") /\ NeedsErase(Head(todo).page)
  /\ ReturnError
  /\ UNCHANGED <<flash, erased>>

\* EE_VerifyPageFullWriteVariable up to its first HAL call, with what
\* EE_WriteVariable does when it returns PAGE_FULL.
DoWrite ==
  /\ Running("write")
  /\ LET w == Head(todo)
         page == CHOOSE p \in EE_FindValidPageWrite : TRUE
         free == FreeEntries(page)
     IN  CASE EE_FindValidPageWrite = {} -> ReturnError
           [] EE_FindValidPageWrite # {} /\ free # {} ->
                Goto(EntryPrograms(Minimum(free), w.vaddr, w.data) \o Tail(todo))
           [] EE_FindValidPageWrite = {1} /\ free = {} -> Fault
           [] OTHER ->
                IF ~w.retry THEN ReturnError
                ELSE IF EE_FindValidPageRead = {} THEN ReturnError
                ELSE Goto(EE_PageTransfer(w.vaddr, w.data))
  /\ UNCHANGED <<flash, erased>>

\* Mutant of Copied: the loop runs once too often.
CopiedOnePastEnd(next) == next > EEPROM_SIZE

Copied(next) == next = EEPROM_SIZE
NextVariable(next) == next + 1

\* One round of a copying loop; `again' is what the loop continues with.
CopyOne(next, skip, again) ==
  IF Copied(next) THEN Goto(Tail(todo))
  ELSE IF skip THEN Goto(<<again>> \o Tail(todo))
  ELSE IF ReadFaults THEN Fault
  ELSE IF EE_FindValidPageRead = {}
       THEN Goto(<<Write(next, 0, FALSE), again>> \o Tail(todo))
  ELSE IF EE_ReadVariable(next) = NotFound THEN Goto(<<again>> \o Tail(todo))
  ELSE Goto(<<Write(next, EE_ReadVariable(next), FALSE), again>> \o Tail(todo))

\* The loop of EE_Init leaves out the variable whose address stands in the
\* third halfword of the page.
DoCopyAll ==
  /\ Running("copyAll")
  /\ LET c == Head(todo)
     IN  CopyOne(c.next, flash[PageBase(c.page) + 2] = c.next,
                 CopyAll(c.page, NextVariable(c.next)))
  /\ UNCHANGED <<flash, erased>>

DoCopyOthers ==
  /\ Running("copyOthers")
  /\ LET c == Head(todo)
     IN  CopyOne(c.next, c.vaddr = c.next, CopyOthers(c.vaddr, NextVariable(c.next)))
  /\ UNCHANGED <<flash, erased>>

\* The power fails, at any point: flash keeps its content, RAM does not.
PowerLoss ==
  /\ phase # "off"
  /\ Stop("off")
  /\ UNCHANGED <<flash, erased>>

Step ==
  \/ Return
  \/ DoErase \/ DoEraseIfDirty \/ DoProgram
  \/ DoWrite \/ DoCopyAll \/ DoCopyOthers

Next ==
  \/ PowerOn
  \/ \E v \in VirtAddr, d \in Data : EE_WriteVariable(v, d)
  \/ Step
  \/ HalError
  \/ PowerLoss

Spec == Init /\ [][Next]_vars

----------------------------------------------------------------------------
(* Properties.                                                             *)

\* Flash holds halfwords, only sectors the emulation names are erased, and what
\* is to be done is a sequence of its HAL operations (eeprom_emulation.h:61-101).
TypeOK ==
  /\ flash \in [Halfwords -> Word16]
  /\ erased \subseteq Sectors
  /\ phase \in Phases
  /\ todo \in Seq(Steps)
  /\ request \in Requests \cup {NoRequest}

\* The log has grown into the halfword that EE_Init takes for the header of
\* page 1, or beyond it.  With the geometry of the header file that is after
\* 4095 entries, long before page 0 is full.
Expired == \E a \in PAGE1_BASE .. (2 * PAGE_SIZE - 1) : flash[a] # ERASED

\* No EE_ function erases a sector of the program before the log has reached
\* the header of page 1, however often the power fails and the HAL reports
\* errors: every `erase if needed' of EE_Init and EE_Format is not needed, and
\* EE_PageTransfer is not reached.
ProgramSectorsIntact == ~Expired => erased = {}

\* EE_ReadVariable never starts behind the end of flash, where it starts when
\* page 1 is the page to read from: at every moment of the device's life, worn
\* log included, page 1 is never the only valid page.  (The search for a free
\* entry does run behind the end when it finds page 1 full, see DoWrite.)
ReadsNeverFault == ~ReadFaults

\* The entry EE_ReadVariable leaves out: the first of the log.
OnlyInFirstEntry(r) ==
  /\ EntriesOf(r.vaddr) = {}
  /\ flash[1] = r.data /\ flash[2] = r.vaddr

\* Once EE_WriteVariable has returned HAL_OK the variable reads as the value
\* it was given, unless the value went to the very first entry of the log.
AcknowledgedWriteIsRead ==
  (phase = "idle" /\ request # NoRequest /\ ~Expired)
    => \/ EE_ReadVariable(request.vaddr) = request.data
       \/ OnlyInFirstEntry(request)

\* Power losses, HAL errors and torn entries included, the log implements
\* atomic variables: what reads return changes only while a write is in
\* progress, only for its variable, only to its value, and in one step.
Contract == INSTANCE AtomicVariables WITH
  Unwritten <- NotFound,
  store <- [v \in VirtAddr |-> EE_ReadVariable(v)],
  request <- IF phase = "write" THEN request ELSE NoRequest,
  expired <- Expired

WritesAreAtomic == Contract!Spec

\* STM32F407VGTx_FLASH.ld, on the flash the program may use: "normally 1024.
\* but since we use eeprom emulation this area is reserved".  The emulation
\* would stay in its area if it never erased a sector of the program.
ErasesOnlyReservedArea == erased = {}

\* eeprom_emulation.c on EE_ReadVariable: "Returns the last stored variable
\* data, if found".
LastStoredIsReturned ==
  (phase = "idle" /\ request # NoRequest /\ ~Expired)
    => EE_ReadVariable(request.vaddr) = request.data

============================================================================
