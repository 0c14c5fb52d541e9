----------------------- MODULE EepromEmulationProofs -----------------------
(***************************************************************************)
(* Proofs about the EEPROM emulation, for every geometry that              *)
(* GeometryAssumption allows, every number of variables and every set of   *)
(* values.  The chain is                                                   *)
(*    TypeOK                                                               *)
(*    HeaderInv, on the headers of the pages   =>  ReadsNeverFault         *)
(*    UnwornInv, on what is still to be done                               *)
(*               before the log is worn        =>  ProgramSectorsIntact    *)
(*    LogInv, on the entries of the log                                    *)
(*               before it is worn    =>  AcknowledgedWriteIsRead,         *)
(*                                        WritesAreAtomic                  *)
(* where each invariant is inductive relative to the ones before it.       *)
(***************************************************************************)
EXTENDS EepromEmulation, TLAPS, SequenceTheorems, FiniteSetTheorems,
        WellFoundedInduction

----------------------------------------------------------------------------
(* Lemmas about the helpers.                                               *)

\* A non-empty set of naturals has a least element: the initial segments
\* that end in one of its elements have one that contains no other.
LEMMA LeastElement ==
  ASSUME NEW S \in SUBSET Nat, S # {}
  PROVE  \E x \in S : \A y \in S : x <= y
<1> PICK n \in S : TRUE
  OBVIOUS
<1> DEFINE U == 0 .. n
           T == {0 .. x : x \in {y \in S : y <= n}}
<1>1. IsFiniteSet(U)
  BY FS_Interval
<1>2. T # {} /\ \A t \in T : t \in SUBSET U
  OBVIOUS
<1>3. \A t \in T : t \in FiniteSubsetsOf(U)
  BY <1>1, <1>2, FS_Subset DEF FiniteSubsetsOf
<1>4. IsWellFoundedOn(StrictSubsetOrdering(U), FiniteSubsetsOf(U))
  BY FS_StrictSubsetOrderingWellFounded
<1>5. PICK t \in T : \A u \in T : <<u, t>> \notin StrictSubsetOrdering(U)
  <2> HIDE DEF T, U
  <2> QED
    BY <1>2, <1>3, <1>4, WFMin
<1>6. PICK x \in S : x <= n /\ t = 0 .. x
  OBVIOUS
<1>7. ASSUME NEW y \in S, y < x
      PROVE  FALSE
  <2>1. 0 .. y \in T
    BY <1>6, <1>7
  <2>2. 0 .. y \subseteq U /\ 0 .. x \subseteq U /\ 0 .. y \subseteq 0 .. x
    BY <1>6, <1>7
  <2>3. x \in 0 .. x /\ x \notin 0 .. y
    BY <1>7
  <2>4. <<0 .. y, t>> \in StrictSubsetOrdering(U)
    BY <1>6, <2>2, <2>3, Zenon DEF StrictSubsetOrdering
  <2> QED
    BY <2>1, <2>4, <1>5
<1> QED
  BY <1>7

\* Minimum chooses the least element of a set of naturals.
LEMMA MinimumOfSet ==
  ASSUME NEW S \in SUBSET Nat, S # {}
  PROVE  Minimum(S) \in S /\ \A x \in S : Minimum(S) <= x
<1>1. \E x \in S : \A y \in S : x <= y
  BY LeastElement
<1> QED
  BY <1>1, Zenon DEF Minimum

\* Maximum chooses the greatest element of a bounded set of naturals.
LEMMA MaximumOfSet ==
  ASSUME NEW N \in Nat, NEW S \in SUBSET (0 .. N), S # {}
  PROVE  Maximum(S) \in S /\ \A x \in S : x <= Maximum(S)
<1> DEFINE T == {m \in 0 .. N : N - m \in S}
<1>1. T \in SUBSET Nat /\ T # {}
  <2> PICK s \in S : TRUE
    OBVIOUS
  <2>1. N - s \in 0 .. N /\ N - (N - s) = s
    OBVIOUS
  <2> QED
    BY <2>1
<1>2. PICK t \in T : \A y \in T : t <= y
  <2> HIDE DEF T
  <2> QED
    BY <1>1, LeastElement
<1>3. PICK x \in S : x = N - t
  BY <1>2
<1>4. \A y \in S : y <= x
  <2> TAKE y \in S
  <2>1. N - y \in 0 .. N /\ N - (N - y) = y
    OBVIOUS
  <2>2. t <= N - y
    BY <2>1, <1>2
  <2> QED
    BY <2>2, <1>2, <1>3
<1> QED
  BY <1>3, <1>4, Zenon DEF Maximum

\* The lowest of the bits AndReceive looks at, and the rest of the number.
LEMMA LowBit ==
  ASSUME NEW x \in Nat
  PROVE  /\ x \div 16 \in Nat
         /\ x % 2 \in 0 .. 1
         /\ (x % 2) + 16 * (x \div 16) <= x
OBVIOUS

\* Clearing bits does not enlarge a number.
LEMMA AndReceiveBounds ==
  ASSUME NEW x \in Nat
  PROVE  AndReceive(x) \in Nat /\ AndReceive(x) <= x
<1>1. PICK a \in Nat : a = x \div 16
  BY LowBit
<1>2. PICK b \in Nat : b = a \div 16
  BY LowBit
<1>3. PICK c \in Nat : c = b \div 16
  BY LowBit
<1>4. x \div 1 = x /\ x \div 256 = b /\ x \div 4096 = c
  BY <1>1, <1>2, <1>3
<1>5. PICK p \in 0 .. 1, q \in 0 .. 1, r \in 0 .. 1, s \in 0 .. 1 :
         p = x % 2 /\ q = a % 2 /\ r = b % 2 /\ s = c % 2
  BY LowBit
<1>6. p + 16 * a <= x /\ q + 16 * b <= a /\ r + 16 * c <= b /\ s <= c
  BY <1>1, <1>2, <1>3, <1>5, LowBit
<1>7. PICK y \in Nat : y = p + 16 * q + 256 * r + 4096 * s
  OBVIOUS
<1>8. AndReceive(x) = x - y
  BY <1>1, <1>4, <1>5, <1>7 DEF AndReceive
<1>9. y <= x
  BY <1>6, <1>7
<1> QED
  BY <1>8, <1>9

\* The values that headers can have, as numbers and as halfwords.
LEMMA FlashValues ==
  /\ ERASED \in Nat /\ 256 <= ERASED
  /\ ERASED \in Word16 /\ RECEIVE_DATA \in Word16 /\ VALID_PAGE \in Word16
  /\ ERASED # RECEIVE_DATA /\ ERASED # VALID_PAGE /\ RECEIVE_DATA # VALID_PAGE
<1>1. ERASED \in Nat /\ 256 <= ERASED
  BY DEF ERASED
<1>2. RECEIVE_DATA \in Nat /\ RECEIVE_DATA < ERASED
  BY DEF RECEIVE_DATA, ERASED
<1>3. VALID_PAGE = 0 /\ RECEIVE_DATA # 0
  BY DEF RECEIVE_DATA, VALID_PAGE
<1> QED
  BY <1>1, <1>2, <1>3 DEF Word16

\* Programming keeps a halfword a halfword, and never makes it erased again.
LEMMA ProgrammedHalfword ==
  ASSUME NEW old \in Word16, NEW new \in Word16
  PROVE  /\ Programmed(old, new) \in Word16
         /\ old # ERASED => Programmed(old, new) # ERASED
<1>1. old \in Nat /\ old <= ERASED
  BY FlashValues DEF Word16
<1>2. AndReceive(old) \in Nat /\ AndReceive(old) <= old
  BY <1>1, AndReceiveBounds
<1>3. AndReceive(old) \in Word16
  BY <1>1, <1>2, FlashValues DEF Word16
<1>4. old # ERASED => AndReceive(old) # ERASED
  BY <1>1, <1>2, FlashValues
<1> QED
  BY <1>3, <1>4, FlashValues DEF Programmed

----------------------------------------------------------------------------
(* Types: of addresses, of steps, of what the log is searched for.         *)

\* What the geometry gives: addresses are naturals, the headers and the
\* virtual addresses are where and what they should be.
LEMMA Geometry ==
  /\ Halfwords \subseteq Nat /\ 0 \in Halfwords /\ LogBound \in Halfwords
  /\ PAGE1_BASE \in Nat /\ PAGE_SIZE \in Nat
  /\ \A p \in Pages : PageBase(p) \in Halfwords
  /\ VirtAddr \subseteq Word16 /\ Data \subseteq Word16
<1>1. \A v \in VirtAddr : v \in Nat /\ v <= ERASED
  BY GeometryAssumption, FlashValues DEF VirtAddr
<1>2. VirtAddr \subseteq Word16
  BY <1>1, FlashValues DEF Word16
<1> QED
  BY <1>2, GeometryAssumption DEF Halfwords, Pages, PageBase

\* The steps of a kind have the fields of that kind.
LEMMA StepFields ==
  ASSUME NEW s \in Steps
  PROVE  /\ s.op \in {"erase", "eraseIfDirty"} => s.page \in Pages
         /\ s.op = "program" => s.at \in Halfwords /\ s.value \in Word16
         /\ s.op = "write" => s.vaddr \in VirtAddr /\ s.data \in Word16
         /\ s.op = "copyAll" => s.page \in Pages /\ s.next \in 0 .. EEPROM_SIZE
         /\ s.op = "copyOthers" => s.vaddr \in VirtAddr /\ s.next \in 0 .. EEPROM_SIZE
BY DEF Steps

\* The constructors make steps.
LEMMA StepsMade ==
  /\ \A p \in Pages : EraseIfDirty(p) \in Steps /\ Erase(p) \in Steps
  /\ \A a \in Halfwords, x \in Word16 : Program(a, x) \in Steps
  /\ \A p \in Pages, x \in Word16 : Mark(p, x) \in Steps
  /\ \A v \in VirtAddr, d \in Word16, r \in BOOLEAN : Write(v, d, r) \in Steps
  /\ \A p \in Pages, n \in 0 .. EEPROM_SIZE : CopyAll(p, n) \in Steps
  /\ \A v \in VirtAddr, n \in 0 .. EEPROM_SIZE : CopyOthers(v, n) \in Steps
<1>1. \A a \in Halfwords, x \in Word16 : Program(a, x) \in Steps
  BY DEF Program, Steps
<1>2. \A p \in Pages, x \in Word16 : Mark(p, x) \in Steps
  BY <1>1, Geometry DEF Mark
<1> QED
  BY <1>1, <1>2 DEF EraseIfDirty, Erase, Write, CopyAll, CopyOthers, Steps

\* The page that is valid, for reading and for writing, is a page.
LEMMA ValidPages ==
  /\ EE_FindValidPageRead \in {{}, {0}, {1}}
  /\ EE_FindValidPageWrite \in {{}, {0}, {1}}
BY Zenon DEF EE_FindValidPageRead, EE_FindValidPageWrite

\* Entries and free entries are at odd addresses that have the virtual
\* address behind them still in flash.
LEMMA EntryAddresses ==
  ASSUME NEW v, NEW p \in Pages
  PROVE  /\ EntriesOf(v) \subseteq Halfwords
         /\ \A a \in FreeEntries(p) : a \in Halfwords /\ a + 1 \in Halfwords /\ a # 0
<1>1. \A q \in Pages : \A a \in ReadAddresses(q) : a \in Nat
  BY GeometryAssumption DEF ReadAddresses, Pages
<1>2. \A q \in Pages : \A a \in ReadAddresses(q) : a + 1 \in Halfwords => a \in Halfwords
  BY <1>1, GeometryAssumption DEF Halfwords
<1>3. EntriesOf(v) \subseteq Halfwords
  BY <1>2 DEF EntriesOf, Pages
<1>4. \A a \in WriteAddresses(p) : a \in Nat /\ a # 0
  BY GeometryAssumption DEF WriteAddresses, Pages
<1>5. \A a \in FreeEntries(p) : a \in Halfwords /\ a + 1 \in Halfwords /\ a # 0
  BY <1>4, GeometryAssumption DEF FreeEntries, Halfwords
<1> QED
  BY <1>3, <1>5

\* A value that is found is a halfword.
LEMMA ValueRead ==
  ASSUME TypeOK, NEW v, EE_ReadVariable(v) # NotFound
  PROVE  EE_ReadVariable(v) \in Word16
<1>1. EntriesOf(v) # {} /\ EE_ReadVariable(v) = flash[Maximum(EntriesOf(v))]
  BY Zenon DEF EE_ReadVariable, NewestFirst
<1>2. EntriesOf(v) \subseteq Halfwords
  BY EntryAddresses DEF Pages
<1>3. PICK N \in Nat : Halfwords = 0 .. N
  BY GeometryAssumption DEF Halfwords
<1>4. Maximum(EntriesOf(v)) \in EntriesOf(v)
  BY <1>1, <1>2, <1>3, MaximumOfSet
<1> QED
  BY <1>1, <1>2, <1>4 DEF TypeOK

\* The free entry that is chosen is one of them.
LEMMA FreeEntryChosen ==
  ASSUME NEW p \in Pages, FreeEntries(p) # {}
  PROVE  Minimum(FreeEntries(p)) \in FreeEntries(p)
<1>1. FreeEntries(p) \in SUBSET Nat
  BY EntryAddresses, Geometry
<1> QED
  BY <1>1, MinimumOfSet

----------------------------------------------------------------------------
(* Sequences of steps.  S is Steps, or a subset of it.                     *)

LEMMA HeadAndTail ==
  ASSUME NEW S, todo \in Seq(S), todo # <<>>
  PROVE  Head(todo) \in S /\ Tail(todo) \in Seq(S)
BY HeadTailProperties

LEMMA OneElement ==
  ASSUME NEW S, NEW a \in S
  PROVE  <<a>> \in Seq(S)
OBVIOUS

LEMMA OneMore ==
  ASSUME NEW S, NEW a \in S, NEW s \in Seq(S)
  PROVE  <<a>> \o s \in Seq(S)
BY OneElement, ConcatProperties

LEMMA TwoMore ==
  ASSUME NEW S, NEW a \in S, NEW b \in S, NEW s \in Seq(S)
  PROVE  <<a, b>> \o s \in Seq(S)
<1>1. <<a, b>> \in Seq(S)
  OBVIOUS
<1> QED
  BY <1>1, ConcatProperties

LEMMA ThreeElements ==
  ASSUME NEW S, NEW a \in S, NEW b \in S, NEW c \in S
  PROVE  <<a, b, c>> \in Seq(S)
OBVIOUS

LEMMA FiveElements ==
  ASSUME NEW S, NEW a \in S, NEW b \in S, NEW c \in S, NEW d \in S, NEW e \in S
  PROVE  <<a, b, c, d, e>> \in Seq(S)
OBVIOUS

\* What the EE_ functions start with.
LEMMA FormatSteps ==
  ASSUME NEW S, EraseIfDirty(0) \in S, Mark(0, VALID_PAGE) \in S, EraseIfDirty(1) \in S
  PROVE  EE_Format \in Seq(S)
BY DEF EE_Format

LEMMA InitSteps == EE_Init \in Seq(Steps)
<1>1. /\ EraseIfDirty(0) \in Steps /\ EraseIfDirty(1) \in Steps
      /\ Mark(0, VALID_PAGE) \in Steps /\ Mark(1, VALID_PAGE) \in Steps
      /\ CopyAll(0, 0) \in Steps /\ CopyAll(1, 0) \in Steps
  <2>1. 0 \in 0 .. EEPROM_SIZE
    BY GeometryAssumption
  <2> QED
    BY <2>1, StepsMade, FlashValues DEF Pages
<1>2. EE_Format \in Seq(Steps)
  BY <1>1, FormatSteps
<1>3. /\ <<EraseIfDirty(0)>> \in Seq(Steps)
      /\ <<EraseIfDirty(0), Mark(1, VALID_PAGE)>> \in Seq(Steps)
      /\ <<CopyAll(0, 0), Mark(0, VALID_PAGE), EraseIfDirty(1)>> \in Seq(Steps)
      /\ <<EraseIfDirty(1), Mark(0, VALID_PAGE)>> \in Seq(Steps)
      /\ <<EraseIfDirty(1)>> \in Seq(Steps)
      /\ <<CopyAll(1, 0), Mark(1, VALID_PAGE), EraseIfDirty(0)>> \in Seq(Steps)
  BY <1>1
<1> QED
  BY <1>2, <1>3, Zenon DEF EE_Init

LEMMA TransferSteps ==
  ASSUME NEW v \in VirtAddr, NEW d \in Word16, EE_FindValidPageRead # {}
  PROVE  EE_PageTransfer(v, d) \in Seq(Steps)
<1> DEFINE old == CHOOSE p \in EE_FindValidPageRead : TRUE
<1>1. old \in Pages /\ 1 - old \in Pages
  BY ValidPages DEF Pages
<1> HIDE DEF old
<1>2. /\ Mark(1 - old, RECEIVE_DATA) \in Steps /\ Write(v, d, FALSE) \in Steps
      /\ CopyOthers(v, 0) \in Steps /\ Erase(old) \in Steps
      /\ Mark(1 - old, VALID_PAGE) \in Steps
  <2>1. 0 \in 0 .. EEPROM_SIZE
    BY GeometryAssumption
  <2> QED
    BY <1>1, <2>1, StepsMade, FlashValues
<1>3. <<Mark(1 - old, RECEIVE_DATA), Write(v, d, FALSE), CopyOthers(v, 0),
        Erase(old), Mark(1 - old, VALID_PAGE)>> \in Seq(Steps)
  BY <1>2, FiveElements
<1> QED
  BY <1>3 DEF EE_PageTransfer, old

\* What a write at the head of todo is replaced by.
LEMMA WriteOutcome ==
  ASSUME TypeOK, DoWrite
  PROVE  /\ UNCHANGED <<flash, erased>>
         /\ \/ ReturnError
            \/ \E a \in FreeEntries(0) \cup FreeEntries(1) :
                  /\ EE_FindValidPageWrite # {}
                  /\ Goto(EntryPrograms(a, Head(todo).vaddr, Head(todo).data) \o Tail(todo))
            \/ EE_FindValidPageWrite = {1} /\ FreeEntries(1) = {} /\ Fault
            \/ /\ EE_FindValidPageWrite = {0} /\ FreeEntries(0) = {}
               /\ EE_FindValidPageRead # {}
               /\ Goto(EE_PageTransfer(Head(todo).vaddr, Head(todo).data))
<1> DEFINE w == Head(todo)
           page == CHOOSE p \in EE_FindValidPageWrite : TRUE
<1>1. EE_FindValidPageWrite # {} =>
        /\ page \in Pages /\ EE_FindValidPageWrite = {page}
  BY ValidPages DEF Pages
<1>2. UNCHANGED <<flash, erased>>
  BY DEF DoWrite
<1>3. CASE EE_FindValidPageWrite = {}
  BY <1>2, <1>3, Zenon DEF DoWrite
<1>4. CASE EE_FindValidPageWrite # {} /\ FreeEntries(page) # {}
  <2>1. Goto(EntryPrograms(Minimum(FreeEntries(page)), w.vaddr, w.data) \o Tail(todo))
    BY <1>4, Zenon DEF DoWrite
  <2>2. Minimum(FreeEntries(page)) \in FreeEntries(page)
    BY <1>1, <1>4, FreeEntryChosen
  <2>3. page = 0 \/ page = 1
    BY <1>1, <1>4 DEF Pages
  <2>4. Minimum(FreeEntries(page)) \in FreeEntries(0) \cup FreeEntries(1)
    BY <2>2, <2>3, Zenon
  <2> QED
    BY <1>2, <1>4, <2>1, <2>4, Zenon
<1>5. CASE EE_FindValidPageWrite = {1} /\ FreeEntries(page) = {}
  <2>1. page = 1
    BY <1>1, <1>5
  <2>2. Fault
    BY <1>5, Zenon DEF DoWrite
  <2> QED
    BY <1>2, <1>5, <2>1, <2>2, Zenon
<1>6. CASE /\ EE_FindValidPageWrite # {} /\ EE_FindValidPageWrite # {1}
           /\ FreeEntries(page) = {}
  <2>1. page = 0 /\ EE_FindValidPageWrite = {0}
    BY <1>1, <1>6 DEF Pages
  <2>2. \/ ReturnError
        \/ EE_FindValidPageRead # {} /\ Goto(EE_PageTransfer(w.vaddr, w.data))
    BY <1>6, Zenon DEF DoWrite
  <2> QED
    BY <1>2, <1>6, <2>1, <2>2, Zenon
<1> QED
  BY <1>3, <1>4, <1>5, <1>6, Zenon

\* What one round of a copying loop does to todo.
LEMMA CopyOutcome ==
  ASSUME NEW next, NEW skip, NEW again, CopyOne(next, skip, again)
  PROVE  \/ Goto(Tail(todo))
         \/ Fault /\ ReadFaults
         \/ next # EEPROM_SIZE /\ Goto(<<again>> \o Tail(todo))
         \/ /\ next # EEPROM_SIZE
            /\ \E d \in {0, EE_ReadVariable(next)} \ {NotFound} :
                  Goto(<<Write(next, d, FALSE), again>> \o Tail(todo))
<1>1. 0 # NotFound
  BY DEF NotFound
<1> QED
  BY <1>1, Zenon DEF CopyOne, Copied

\* Type correctness of the emulation's state.
THEOREM TypeCorrect == Spec => []TypeOK
<1>1. Init => TypeOK
  BY FlashValues DEF Init, TypeOK, Phases
<1>2. TypeOK /\ [Next]_vars => TypeOK'
  <2> SUFFICES ASSUME TypeOK, [Next]_vars
               PROVE  TypeOK'
    OBVIOUS
  <2> USE DEF TypeOK
  <2>0. ASSUME ReturnError \/ Fault \/ Stop("off"), UNCHANGED <<flash, erased>>
        PROVE  TypeOK'
    <3>1. todo' = <<>> /\ request' = NoRequest
      BY <2>0, Zenon DEF ReturnError, Fault, Stop
    <3>2. phase' \in {"idle", "halted", "off"}
      BY <2>0, Zenon DEF ReturnError, Fault, Stop
    <3> QED
      BY <2>0, <3>1, <3>2 DEF Phases
  <2>1. CASE PowerOn
    <3>1. todo' \in Seq(Steps) /\ phase' \in Phases
      BY <2>1, InitSteps, Zenon DEF PowerOn, Phases
    <3> QED
      BY <2>1, <3>1 DEF PowerOn
  <2>2. ASSUME NEW v \in VirtAddr, NEW d \in Data, EE_WriteVariable(v, d)
        PROVE  TypeOK'
    <3>1. CASE ReadFaults
      BY <2>0, <2>2, <3>1 DEF EE_WriteVariable
    <3>2. CASE ~ReadFaults
      <4>1. Write(v, d, TRUE) \in Steps
        BY StepsMade, Geometry
      <4>2. <<Write(v, d, TRUE)>> \in Seq(Steps)
        BY <4>1, OneElement
      <4>3. [vaddr |-> v, data |-> d] \in Requests
        BY DEF Requests
      <4>4. /\ todo' = <<Write(v, d, TRUE)>> /\ phase' \in Phases
            /\ request' = [vaddr |-> v, data |-> d] /\ UNCHANGED <<flash, erased>>
        BY <2>2, <3>2, Zenon DEF EE_WriteVariable, Phases
      <4> QED
        BY <4>2, <4>3, <4>4
    <3> QED
      BY <3>1, <3>2
  <2>3. CASE Return
    BY <2>3 DEF Return, Phases
  <2>4. CASE DoErase
    <3>1. Head(todo) \in Steps /\ Tail(todo) \in Seq(Steps) /\ Head(todo).op = "erase"
      BY <2>4, HeadAndTail DEF DoErase, Running
    <3>2. PageId(Head(todo).page) \in Sectors
      BY DEF PageId, Sectors
    <3> QED
      BY <2>4, <3>1, <3>2 DEF DoErase, HAL_FLASHEx_Erase, Goto
  <2>5. CASE DoEraseIfDirty
    <3>1. Tail(todo) \in Seq(Steps)
      BY <2>5, HeadAndTail DEF DoEraseIfDirty, Running
    <3>2. PageId(Head(todo).page) \in Sectors
      BY DEF PageId, Sectors
    <3> QED
      BY <2>5, <3>1, <3>2 DEF DoEraseIfDirty, HAL_FLASHEx_Erase, Goto
  <2>6. CASE DoProgram
    <3>1. Head(todo) \in Steps /\ Tail(todo) \in Seq(Steps) /\ Head(todo).op = "program"
      BY <2>6, HeadAndTail DEF DoProgram, Running
    <3>2. Head(todo).at \in Halfwords /\ Head(todo).value \in Word16
      BY <3>1, StepFields
    <3>3. Programmed(flash[Head(todo).at], Head(todo).value) \in Word16
      BY <3>2, ProgrammedHalfword
    <3> QED
      BY <2>6, <3>1, <3>2, <3>3 DEF DoProgram, Goto
  <2>7. CASE DoWrite
    <3>1. Head(todo) \in Steps /\ Tail(todo) \in Seq(Steps) /\ Head(todo).op = "write"
      BY <2>7, HeadAndTail DEF DoWrite, Running
    <3>2. Head(todo).vaddr \in VirtAddr /\ Head(todo).data \in Word16
      BY <3>1, StepFields
    <3>3. ASSUME NEW a \in FreeEntries(0) \cup FreeEntries(1)
          PROVE  EntryPrograms(a, Head(todo).vaddr, Head(todo).data) \o Tail(todo) \in Seq(Steps)
      <4>1. Program(a, Head(todo).data) \in Steps /\ Program(a + 1, Head(todo).vaddr) \in Steps
        BY <3>2, EntryAddresses, StepsMade, Geometry DEF Pages
      <4> QED
        BY <3>1, <4>1, TwoMore DEF EntryPrograms
    <3>4. EE_FindValidPageRead # {} =>
            EE_PageTransfer(Head(todo).vaddr, Head(todo).data) \in Seq(Steps)
      BY <3>2, TransferSteps
    <3> QED
      BY <2>0, <2>7, <3>3, <3>4, WriteOutcome DEF Goto
  <2>8. ASSUME NEW next \in 0 .. EEPROM_SIZE, NEW skip, NEW again,
               next # EEPROM_SIZE => again \in Steps,
               todo # <<>>, CopyOne(next, skip, again), UNCHANGED <<flash, erased>>
        PROVE  TypeOK'
    <3>1. Tail(todo) \in Seq(Steps)
      BY <2>8, HeadAndTail
    <3>2. next # EEPROM_SIZE => <<again>> \o Tail(todo) \in Seq(Steps)
      BY <2>8, <3>1, OneMore
    <3>3. ASSUME next # EEPROM_SIZE, NEW d \in {0, EE_ReadVariable(next)} \ {NotFound}
          PROVE  <<Write(next, d, FALSE), again>> \o Tail(todo) \in Seq(Steps)
      <4>1. next \in VirtAddr
        BY <3>3, GeometryAssumption DEF VirtAddr
      <4>2. d \in Word16
        BY <3>3, ValueRead, FlashValues DEF VALID_PAGE
      <4>3. Write(next, d, FALSE) \in Steps
        BY <4>1, <4>2, StepsMade
      <4> QED
        BY <2>8, <3>1, <3>3, <4>3, TwoMore
    <3> QED
      BY <2>0, <2>8, <3>1, <3>2, <3>3, CopyOutcome DEF Goto
  <2>9. ASSUME NEW n \in 0 .. EEPROM_SIZE, n # EEPROM_SIZE
        PROVE  NextVariable(n) \in 0 .. EEPROM_SIZE
    BY <2>9, GeometryAssumption DEF NextVariable
  <2>10. CASE DoCopyAll
    <3>1. Head(todo) \in Steps /\ Head(todo).op = "copyAll" /\ todo # <<>>
      BY <2>10, HeadAndTail DEF DoCopyAll, Running
    <3>2. Head(todo).page \in Pages /\ Head(todo).next \in 0 .. EEPROM_SIZE
      BY <3>1, StepFields
    <3>3. Head(todo).next # EEPROM_SIZE =>
            CopyAll(Head(todo).page, NextVariable(Head(todo).next)) \in Steps
      BY <2>9, <3>2, StepsMade
    <3> QED
      BY <2>8, <2>10, <3>1, <3>2, <3>3, Zenon DEF DoCopyAll
  <2>11. CASE DoCopyOthers
    <3>1. Head(todo) \in Steps /\ Head(todo).op = "copyOthers" /\ todo # <<>>
      BY <2>11, HeadAndTail DEF DoCopyOthers, Running
    <3>2. Head(todo).vaddr \in VirtAddr /\ Head(todo).next \in 0 .. EEPROM_SIZE
      BY <3>1, StepFields
    <3>3. Head(todo).next # EEPROM_SIZE =>
            CopyOthers(Head(todo).vaddr, NextVariable(Head(todo).next)) \in Steps
      BY <2>9, <3>2, StepsMade
    <3> QED
      BY <2>8, <2>11, <3>1, <3>2, <3>3, Zenon DEF DoCopyOthers
  <2>12. CASE HalError
    BY <2>0, <2>12 DEF HalError
  <2>13. CASE PowerLoss
    BY <2>0, <2>13 DEF PowerLoss
  <2>14. CASE UNCHANGED vars
    BY <2>14 DEF vars
  <2> QED
    BY <2>1, <2>2, <2>3, <2>4, <2>5, <2>6, <2>7, <2>10, <2>11, <2>12, <2>13, <2>14
    DEF Next, Step
<1> QED
  BY <1>1, <1>2, PTL DEF Spec

----------------------------------------------------------------------------
(* Page 0 is the only page reads ever come from.  The reason is the order  *)
(* in which things happen over the life of the device: the first halfword  *)
(* that is ever programmed is the header of page 0, it becomes VALID_PAGE, *)
(* and since programming only clears bits it stays so.                     *)

\* Steps that keep it so: a program step is the one that makes page 0 valid,
\* or page 0 is valid already.
SafeSteps ==
  {s \in Steps : s.op = "program" =>
                   IF s.at = 0 THEN s.value = VALID_PAGE ELSE flash[0] = VALID_PAGE}

HeaderInv ==
  /\ flash[0] = VALID_PAGE \/ \A a \in Halfwords : flash[a] = ERASED
  /\ todo \in Seq(SafeSteps)

\* Which pages can be valid.
LEMMA OnlyPage0IsRead ==
  ASSUME HeaderInv
  PROVE  /\ EE_FindValidPageRead = IF flash[0] = VALID_PAGE THEN {0} ELSE {}
         /\ flash[0] # VALID_PAGE => EE_FindValidPageWrite = {}
<1>1. PageStatus(0) = flash[0] /\ PageBase(1) \in Halfwords /\ 0 \in Halfwords
  BY Geometry DEF PageStatus, PageBase, Pages
<1>2. CASE flash[0] = VALID_PAGE
  BY <1>1, <1>2, Zenon DEF EE_FindValidPageRead
<1>3. CASE flash[0] # VALID_PAGE
  <2>1. PageStatus(0) = ERASED /\ PageStatus(1) = ERASED
    BY <1>1, <1>3 DEF HeaderInv, PageStatus
  <2> QED
    BY <1>3, <2>1, FlashValues, Zenon DEF EE_FindValidPageRead, EE_FindValidPageWrite
<1> QED
  BY <1>2, <1>3

\* Steps that program nothing are safe.
LEMMA QuietSteps == {s \in Steps : s.op # "program"} \subseteq SafeSteps
BY DEF SafeSteps

\* Once page 0 is valid every step is safe but one that programs its header.
LEMMA SafeOnceValid ==
  ASSUME flash[0] = VALID_PAGE
  PROVE  {s \in Steps : s.op = "program" => s.at # 0} \subseteq SafeSteps
BY DEF SafeSteps

LEMMA FormatIsSafe ==
  /\ EraseIfDirty(0) \in SafeSteps /\ EraseIfDirty(1) \in SafeSteps
  /\ Mark(0, VALID_PAGE) \in SafeSteps
  /\ EE_Format \in Seq(SafeSteps)
<1>1. EraseIfDirty(0) \in SafeSteps /\ EraseIfDirty(1) \in SafeSteps
  BY StepsMade DEF EraseIfDirty, Pages, SafeSteps
<1>2. Mark(0, VALID_PAGE) \in SafeSteps
  <2>1. Mark(0, VALID_PAGE) \in Steps
    BY StepsMade, FlashValues DEF Pages
  <2> QED
    BY <2>1 DEF Mark, Program, PageBase, SafeSteps
<1> QED
  BY <1>1, <1>2, FormatSteps

LEMMA InitIsSafe ==
  ASSUME HeaderInv
  PROVE  EE_Init \in Seq(SafeSteps)
<1>1. PageStatus(0) = flash[0] /\ PageBase(1) \in Halfwords /\ 0 \in Halfwords
  BY Geometry DEF PageStatus, PageBase, Pages
<1>2. CASE flash[0] = VALID_PAGE
  <2>1. EE_Init \in {<<EraseIfDirty(1)>>, EE_Format,
                     <<CopyAll(1, 0), Mark(1, VALID_PAGE), EraseIfDirty(0)>>}
    BY <1>1, <1>2, FlashValues, Zenon DEF EE_Init
  <2>2. Mark(1, VALID_PAGE) \in SafeSteps
    <3>1. Mark(1, VALID_PAGE) \in Steps
      BY StepsMade, FlashValues DEF Pages
    <3> QED
      BY <1>2, <3>1, SafeOnceValid, GeometryAssumption DEF Mark, Program, PageBase
  <2>3. CopyAll(1, 0) \in SafeSteps
    <3>1. CopyAll(1, 0) \in Steps
      BY StepsMade, GeometryAssumption DEF Pages
    <3> QED
      BY <3>1, QuietSteps DEF CopyAll
  <2>4. <<EraseIfDirty(1)>> \in Seq(SafeSteps)
    BY FormatIsSafe, OneElement
  <2>5. <<CopyAll(1, 0), Mark(1, VALID_PAGE), EraseIfDirty(0)>> \in Seq(SafeSteps)
    BY <2>2, <2>3, FormatIsSafe, ThreeElements
  <2> QED
    BY <2>1, <2>4, <2>5, FormatIsSafe
<1>3. CASE flash[0] # VALID_PAGE
  <2>1. PageStatus(0) = ERASED /\ PageStatus(1) = ERASED
    BY <1>1, <1>3 DEF HeaderInv, PageStatus
  <2>2. EE_Init = EE_Format
    BY <2>1, FlashValues, Zenon DEF EE_Init
  <2> QED
    BY <2>2, FormatIsSafe
<1> QED
  BY <1>2, <1>3

LEMMA TransferIsSafe ==
  ASSUME HeaderInv, NEW v \in VirtAddr, NEW d \in Word16, EE_FindValidPageRead # {}
  PROVE  EE_PageTransfer(v, d) \in Seq(SafeSteps)
<1>1. flash[0] = VALID_PAGE /\ EE_FindValidPageRead = {0}
  BY OnlyPage0IsRead
<1>2. (CHOOSE p \in EE_FindValidPageRead : TRUE) = 0
  BY <1>1
<1>3. EE_PageTransfer(v, d) =
        <<Mark(1, RECEIVE_DATA), Write(v, d, FALSE), CopyOthers(v, 0),
          Erase(0), Mark(1, VALID_PAGE)>>
  <2>1. 1 - 0 = 1
    OBVIOUS
  <2> QED
    BY <1>2, <2>1, Zenon DEF EE_PageTransfer
<1>4. \A x \in Word16 : Mark(1, x) \in SafeSteps
  <2> TAKE x \in Word16
  <2>1. Mark(1, x) \in Steps
    BY StepsMade DEF Pages
  <2> QED
    BY <1>1, <2>1, SafeOnceValid, GeometryAssumption DEF Mark, Program, PageBase
<1>5. Write(v, d, FALSE) \in SafeSteps /\ CopyOthers(v, 0) \in SafeSteps /\ Erase(0) \in SafeSteps
  <2>1. Write(v, d, FALSE) \in Steps /\ CopyOthers(v, 0) \in Steps /\ Erase(0) \in Steps
    <3>1. 0 \in 0 .. EEPROM_SIZE
      BY GeometryAssumption
    <3> QED
      BY <3>1, StepsMade DEF Pages
  <2> QED
    BY <2>1, QuietSteps DEF Write, CopyOthers, Erase
<1>6. Mark(1, RECEIVE_DATA) \in SafeSteps /\ Mark(1, VALID_PAGE) \in SafeSteps
  BY <1>4, FlashValues
<1> QED
  BY <1>3, <1>5, <1>6, FiveElements

LEMMA HeaderInvStep ==
  ASSUME TypeOK, HeaderInv, [Next]_vars
  PROVE  HeaderInv'
<1>1. ASSUME UNCHANGED flash, todo' \in Seq(SafeSteps)
      PROVE  HeaderInv'
  BY <1>1 DEF HeaderInv, SafeSteps
<1>2. ASSUME UNCHANGED flash, ReturnError \/ Fault \/ Stop("off")
      PROVE  HeaderInv'
  <2>1. todo' = <<>>
    BY <1>2, Zenon DEF ReturnError, Fault, Stop
  <2> QED
    BY <1>1, <1>2, <2>1
<1>3. todo # <<>> => Head(todo) \in SafeSteps /\ Tail(todo) \in Seq(SafeSteps)
  BY HeadAndTail DEF HeaderInv
<1>4. CASE PowerOn
  BY <1>1, <1>4, InitIsSafe, Zenon DEF PowerOn
<1>5. ASSUME NEW v \in VirtAddr, NEW d \in Data, EE_WriteVariable(v, d)
      PROVE  HeaderInv'
  <2>1. CASE ReadFaults
    BY <1>2, <1>5, <2>1, Zenon DEF EE_WriteVariable
  <2>2. CASE ~ReadFaults
    <3>1. Write(v, d, TRUE) \in SafeSteps
      BY StepsMade, Geometry, QuietSteps DEF Write
    <3>2. <<Write(v, d, TRUE)>> \in Seq(SafeSteps)
      BY <3>1, OneElement
    <3> QED
      BY <1>1, <1>5, <2>2, <3>2, Zenon DEF EE_WriteVariable
  <2> QED
    BY <2>1, <2>2
<1>6. CASE Return \/ UNCHANGED vars
  <2>1. UNCHANGED <<flash, todo>>
    BY <1>6 DEF Return, vars
  <2> QED
    BY <1>1, <2>1 DEF HeaderInv
<1>7. CASE DoErase \/ DoEraseIfDirty
  <2>1. todo # <<>> /\ todo' = Tail(todo) /\ UNCHANGED flash
    BY <1>7, Zenon DEF DoErase, DoEraseIfDirty, HAL_FLASHEx_Erase, Running, Goto
  <2> QED
    BY <1>1, <1>3, <2>1
<1>8. CASE DoProgram
  <2>1. Head(todo) \in SafeSteps /\ Tail(todo) \in Seq(SafeSteps)
        /\ Head(todo).op = "program"
    BY <1>3, <1>8 DEF DoProgram, Running
  <2>2. Head(todo).at \in Halfwords /\ 0 \in Halfwords
    BY <2>1, StepFields, Geometry DEF SafeSteps
  <2>3. flash[0] \in {ERASED, VALID_PAGE}
    BY <2>2 DEF HeaderInv
  <2>4. Programmed(flash[0], VALID_PAGE) = VALID_PAGE
    BY <2>3, FlashValues, Zenon DEF Programmed
  <2>5. flash'[0] = VALID_PAGE
    BY <1>8, <2>1, <2>2, <2>4 DEF DoProgram, SafeSteps, TypeOK
  <2>6. SafeSteps \subseteq SafeSteps'
    BY <2>5, FlashValues DEF SafeSteps
  <2>7. todo' \in Seq(SafeSteps')
    <3>1. todo' = Tail(todo)
      BY <1>8 DEF DoProgram, Goto
    <3> QED
      BY <2>1, <2>6, <3>1, SeqMonotonic
  <2> QED
    BY <2>5, <2>7 DEF HeaderInv
<1>9. CASE DoWrite
  <2>1. Head(todo) \in SafeSteps /\ Tail(todo) \in Seq(SafeSteps)
        /\ Head(todo).op = "write"
    BY <1>3, <1>9 DEF DoWrite, Running
  <2>2. Head(todo).vaddr \in VirtAddr /\ Head(todo).data \in Word16
    BY <2>1, StepFields DEF SafeSteps
  <2>3. ASSUME NEW a \in FreeEntries(0) \cup FreeEntries(1), EE_FindValidPageWrite # {}
        PROVE  EntryPrograms(a, Head(todo).vaddr, Head(todo).data) \o Tail(todo)
                 \in Seq(SafeSteps)
    <3>1. flash[0] = VALID_PAGE
      BY <2>3, OnlyPage0IsRead
    <3>2. a \in Halfwords /\ a + 1 \in Halfwords /\ a # 0 /\ a + 1 # 0
      <4>1. a \in Halfwords /\ a + 1 \in Halfwords /\ a # 0
        BY EntryAddresses DEF Pages
      <4> QED
        BY <4>1, Geometry
    <3>3. /\ Program(a, Head(todo).data) \in Steps
          /\ Program(a + 1, Head(todo).vaddr) \in Steps
      BY <2>2, <3>2, StepsMade, Geometry
    <3>4. /\ Program(a, Head(todo).data) \in SafeSteps
          /\ Program(a + 1, Head(todo).vaddr) \in SafeSteps
      BY <3>1, <3>2, <3>3, SafeOnceValid DEF Program
    <3> QED
      BY <2>1, <3>4, TwoMore DEF EntryPrograms
  <2>4. EE_FindValidPageRead # {} =>
          EE_PageTransfer(Head(todo).vaddr, Head(todo).data) \in Seq(SafeSteps)
    BY <2>2, TransferIsSafe
  <2> QED
    BY <1>1, <1>2, <1>9, <2>3, <2>4, WriteOutcome, Zenon DEF Goto
<1>10. ASSUME NEW next \in 0 .. EEPROM_SIZE, NEW skip, NEW again,
              next # EEPROM_SIZE => again \in Steps, again.op # "program",
              todo # <<>>, CopyOne(next, skip, again), UNCHANGED <<flash, erased>>
       PROVE  HeaderInv'
  <2>1. next # EEPROM_SIZE => again \in SafeSteps
    BY <1>10, QuietSteps
  <2>2. next # EEPROM_SIZE => <<again>> \o Tail(todo) \in Seq(SafeSteps)
    BY <1>3, <1>10, <2>1, OneMore
  <2>3. ASSUME next # EEPROM_SIZE, NEW d \in {0, EE_ReadVariable(next)} \ {NotFound}
        PROVE  <<Write(next, d, FALSE), again>> \o Tail(todo) \in Seq(SafeSteps)
    <3>1. next \in VirtAddr
      BY <2>3, GeometryAssumption DEF VirtAddr
    <3>2. d \in Word16
      BY <2>3, ValueRead, FlashValues DEF VALID_PAGE
    <3>3. Write(next, d, FALSE) \in SafeSteps
      BY <3>1, <3>2, StepsMade, QuietSteps DEF Write
    <3> QED
      BY <1>3, <1>10, <2>1, <2>3, <3>3, TwoMore
  <2> QED
    BY <1>1, <1>2, <1>3, <1>10, <2>2, <2>3, CopyOutcome DEF Goto
<1>11. CASE DoCopyAll \/ DoCopyOthers
  <2>1. todo # <<>> /\ Head(todo) \in Steps /\ UNCHANGED <<flash, erased>>
    BY <1>3, <1>11 DEF DoCopyAll, DoCopyOthers, Running, SafeSteps
  <2>2. \A n \in 0 .. EEPROM_SIZE : n # EEPROM_SIZE => NextVariable(n) \in 0 .. EEPROM_SIZE
    BY GeometryAssumption DEF NextVariable
  <2>3. CASE DoCopyAll
    <3>1. /\ Head(todo).page \in Pages /\ Head(todo).next \in 0 .. EEPROM_SIZE
      BY <2>1, <2>3, StepFields DEF DoCopyAll, Running
    <3>2. Head(todo).next # EEPROM_SIZE =>
            CopyAll(Head(todo).page, NextVariable(Head(todo).next)) \in Steps
      BY <2>2, <3>1, StepsMade
    <3>3. CopyAll(Head(todo).page, NextVariable(Head(todo).next)).op # "program"
      BY DEF CopyAll
    <3> QED
      BY <1>10, <2>1, <2>3, <3>1, <3>2, <3>3, Zenon DEF DoCopyAll
  <2>4. CASE DoCopyOthers
    <3>1. /\ Head(todo).vaddr \in VirtAddr /\ Head(todo).next \in 0 .. EEPROM_SIZE
      BY <2>1, <2>4, StepFields DEF DoCopyOthers, Running
    <3>2. Head(todo).next # EEPROM_SIZE =>
            CopyOthers(Head(todo).vaddr, NextVariable(Head(todo).next)) \in Steps
      BY <2>2, <3>1, StepsMade
    <3>3. CopyOthers(Head(todo).vaddr, NextVariable(Head(todo).next)).op # "program"
      BY DEF CopyOthers
    <3> QED
      BY <1>10, <2>1, <2>4, <3>1, <3>2, <3>3, Zenon DEF DoCopyOthers
  <2> QED
    BY <1>11, <2>3, <2>4
<1>12. CASE HalError
  BY <1>2, <1>12 DEF HalError
<1>13. CASE PowerLoss
  BY <1>2, <1>13 DEF PowerLoss
<1> QED
  BY <1>4, <1>5, <1>6, <1>7, <1>8, <1>9, <1>11, <1>12, <1>13 DEF Next, Step

\* A read never starts behind the end of flash, however worn the log is.
THEOREM ReadsStayInFlash == Spec => []ReadsNeverFault
<1>1. Init => HeaderInv
  BY Geometry DEF Init, HeaderInv
<1>2. HeaderInv => ReadsNeverFault
  <2>1. 0 + 1 = 1 /\ 1 * PAGE_SIZE + 2 \in Halfwords
    BY GeometryAssumption DEF Halfwords
  <2> QED
    BY <2>1, OnlyPage0IsRead DEF ReadsNeverFault, ReadFaults
<1>3. Spec => []HeaderInv
  BY <1>1, HeaderInvStep, TypeCorrect, PTL DEF Spec
<1> QED
  BY <1>2, <1>3, PTL

----------------------------------------------------------------------------
(* Before the log reaches the header of page 1 nothing is erased.  What    *)
(* has to be shown is that the conditions in front of the erases are never *)
(* true, and that EE_PageTransfer, which erases without asking, is not     *)
(* reached since page 0 still has a free entry.                            *)

\* Steps that erase nothing as long as the log has not got there: page 1 is
\* seen as erased.
CalmSteps == {s \in Steps : s.op \in {"program", "write"} \/ s = EraseIfDirty(1)}

\* EE_Format also asks for page 0 to be erased if needed; it does so first,
\* when nothing at all has been programmed yet.
UnwornInv ==
  ~Expired => /\ erased = {}
              /\ \/ todo = EE_Format /\ flash[0] = ERASED
                 \/ todo \in Seq(CalmSteps)

\* Once expired, always expired.
LEMMA ExpiredIsStable ==
  ASSUME TypeOK, [Next]_vars, Expired
  PROVE  Expired'
<1>1. CASE UNCHANGED flash
  BY <1>1 DEF Expired
<1>2. CASE DoProgram
  <2>1. Head(todo) \in Steps /\ Head(todo).op = "program"
    BY <1>2, HeadAndTail DEF DoProgram, Running, TypeOK
  <2>2. Head(todo).at \in Halfwords /\ Head(todo).value \in Word16
    BY <2>1, StepFields
  <2>3. PICK a \in PAGE1_BASE .. (2 * PAGE_SIZE - 1) : flash[a] # ERASED
    BY DEF Expired
  <2>4. a \in Halfwords
    BY GeometryAssumption DEF Halfwords
  <2>5. flash[a] \in Word16
    BY <2>4 DEF TypeOK
  <2>6. Programmed(flash[a], Head(todo).value) # ERASED
    BY <2>2, <2>3, <2>5, ProgrammedHalfword
  <2>7. flash'[a] # ERASED
    BY <1>2, <2>2, <2>3, <2>4, <2>6 DEF DoProgram, TypeOK
  <2> QED
    BY <2>7 DEF Expired
<1>3. [Next]_vars => UNCHANGED flash \/ DoProgram
  BY Zenon DEF Next, Step, vars, PowerOn, EE_WriteVariable, Return, DoErase, DoEraseIfDirty,
     HAL_FLASHEx_Erase, DoWrite, DoCopyAll, DoCopyOthers, HalError, PowerLoss
<1> QED
  BY <1>1, <1>2, <1>3

\* Before that the header of page 1 reads as erased, so does the rest of what
\* EE_VerifyPageFullyErased looks at, and page 0 has a free entry.
LEMMA Unworn ==
  ASSUME ~Expired
  PROVE  /\ PageStatus(1) = ERASED
         /\ ~NeedsErase(1)
         /\ FreeEntries(0) # {}
<1>1. \A a \in PAGE1_BASE .. (2 * PAGE_SIZE - 1) : flash[a] = ERASED
  BY DEF Expired
<1>2. PageStatus(1) = ERASED
  BY <1>1, GeometryAssumption DEF PageStatus, PageBase
<1>3. ~NeedsErase(1)
  <2>1. \A a \in PAGE1_BASE .. (PAGE_SIZE - 1) : flash[a] = ERASED
    BY <1>1, GeometryAssumption
  <2> QED
    BY <2>1 DEF NeedsErase, EE_VerifyPageFullyErased, PageBase
<1>4. PAGE1_BASE + 1 \in FreeEntries(0)
  <2>1. flash[PAGE1_BASE + 1] = ERASED /\ flash[PAGE1_BASE + 2] = ERASED
    BY <1>1, GeometryAssumption
  <2>2. PAGE1_BASE + 1 \in WriteAddresses(0)
    BY GeometryAssumption DEF WriteAddresses, IsEven
  <2>3. PAGE1_BASE + 1 + 1 = PAGE1_BASE + 2 /\ PAGE1_BASE + 2 \in Halfwords
    BY GeometryAssumption DEF Halfwords
  <2> QED
    BY <2>1, <2>2, <2>3 DEF FreeEntries
<1> QED
  BY <1>2, <1>3, <1>4

\* What EE_Init starts with, before that.
LEMMA InitIsCalm ==
  ASSUME HeaderInv, ~Expired
  PROVE  \/ EE_Init = EE_Format /\ flash[0] = ERASED
         \/ EE_Init \in Seq(CalmSteps)
<1>1. PageStatus(0) = flash[0] /\ PageStatus(1) = ERASED /\ 0 \in Halfwords
  BY Unworn, Geometry DEF PageStatus, PageBase
<1>2. CASE flash[0] = VALID_PAGE
  <2>1. EE_Init = <<EraseIfDirty(1)>>
    BY <1>1, <1>2, FlashValues, Zenon DEF EE_Init
  <2>2. EraseIfDirty(1) \in CalmSteps
    BY StepsMade DEF CalmSteps, Pages
  <2> QED
    BY <2>1, <2>2, OneElement
<1>3. CASE flash[0] # VALID_PAGE
  <2>1. flash[0] = ERASED
    BY <1>1, <1>3 DEF HeaderInv
  <2>2. EE_Init = EE_Format
    BY <1>1, <2>1, FlashValues, Zenon DEF EE_Init
  <2> QED
    BY <2>1, <2>2
<1> QED
  BY <1>2, <1>3

\* EE_Format's first step erases nothing, the others are calm.
LEMMA FormatIsCalm ==
  /\ EE_Format # <<>> /\ Head(EE_Format) = EraseIfDirty(0)
  /\ Tail(EE_Format) \in Seq(CalmSteps)
<1>1. Tail(EE_Format) = <<Mark(0, VALID_PAGE), EraseIfDirty(1)>>
  BY DEF EE_Format
<1>2. EraseIfDirty(1) \in CalmSteps /\ Mark(0, VALID_PAGE) \in CalmSteps
  BY StepsMade, FlashValues DEF CalmSteps, Pages, Mark, Program
<1>3. <<Mark(0, VALID_PAGE), EraseIfDirty(1)>> \in Seq(CalmSteps)
  BY <1>2
<1> QED
  BY <1>1, <1>3 DEF EE_Format

\* With nothing programmed page 0 is seen as erased.
LEMMA BlankNeedsNoErase ==
  ASSUME HeaderInv, flash[0] = ERASED
  PROVE  ~NeedsErase(0)
<1>1. \A a \in Halfwords : flash[a] = ERASED
  BY FlashValues DEF HeaderInv
<1>2. 0 .. (PAGE_SIZE - 1) \subseteq Halfwords
  BY GeometryAssumption DEF Halfwords
<1> QED
  BY <1>1, <1>2 DEF NeedsErase, EE_VerifyPageFullyErased, PageBase

LEMMA UnwornInvStep ==
  ASSUME TypeOK, HeaderInv, UnwornInv, [Next]_vars
  PROVE  UnwornInv'
<1> SUFFICES ASSUME ~Expired'
             PROVE  /\ erased' = {}
                    /\ \/ todo' = EE_Format /\ flash'[0] = ERASED
                       \/ todo' \in Seq(CalmSteps)
  BY DEF UnwornInv, EE_Format, CalmSteps, Mark, Program, EraseIfDirty, PageBase
<1>1. ~Expired
  BY ExpiredIsStable
<1>2. erased = {}
  BY <1>1 DEF UnwornInv
<1>3. \/ todo = EE_Format /\ flash[0] = ERASED
      \/ todo \in Seq(CalmSteps)
  BY <1>1 DEF UnwornInv
<1>4. todo # <<>> => /\ Tail(todo) \in Seq(CalmSteps)
                     /\ \/ Head(todo) = EraseIfDirty(0) /\ flash[0] = ERASED
                        \/ Head(todo) \in CalmSteps
  BY <1>3, FormatIsCalm, HeadAndTail
<1>5. ASSUME UNCHANGED <<flash, erased>>, ReturnError \/ Fault \/ Stop("off")
      PROVE  todo' \in Seq(CalmSteps)
  <2>1. todo' = <<>>
    BY <1>5, Zenon DEF ReturnError, Fault, Stop
  <2> QED
    BY <2>1
<1>6. CASE PowerOn
  <2>1. todo' = EE_Init /\ UNCHANGED <<flash, erased>>
    BY <1>6, Zenon DEF PowerOn
  <2> QED
    BY <1>1, <1>2, <2>1, InitIsCalm
<1>7. ASSUME NEW v \in VirtAddr, NEW d \in Data, EE_WriteVariable(v, d)
      PROVE  erased' = {} /\ todo' \in Seq(CalmSteps)
  <2>1. UNCHANGED <<flash, erased>>
    BY <1>7 DEF EE_WriteVariable
  <2>2. CASE ReadFaults
    BY <1>2, <1>5, <1>7, <2>1, <2>2, Zenon DEF EE_WriteVariable
  <2>3. CASE ~ReadFaults
    <3>1. Write(v, d, TRUE) \in CalmSteps
      BY StepsMade, Geometry DEF CalmSteps, Write
    <3>2. <<Write(v, d, TRUE)>> \in Seq(CalmSteps)
      BY <3>1, OneElement
    <3> QED
      BY <1>2, <1>7, <2>1, <2>3, <3>2, Zenon DEF EE_WriteVariable
  <2> QED
    BY <2>2, <2>3
<1>8. CASE Return \/ UNCHANGED vars
  <2>1. UNCHANGED <<flash, erased, todo>>
    BY <1>8 DEF Return, vars
  <2> QED
    BY <1>2, <1>3, <2>1
<1>9. ASSUME Running("erase") \/ Running("copyAll") \/ Running("copyOthers")
      PROVE  FALSE
  BY <1>4, <1>9 DEF Running, EraseIfDirty, CalmSteps
<1>10. CASE DoEraseIfDirty
  <2>1. Head(todo) \in {EraseIfDirty(0), EraseIfDirty(1)}
        /\ (Head(todo) = EraseIfDirty(0) => flash[0] = ERASED)
    BY <1>4, <1>10 DEF DoEraseIfDirty, Running, EraseIfDirty, CalmSteps
  <2>2. ~NeedsErase(Head(todo).page)
    BY <1>1, <2>1, Unworn, BlankNeedsNoErase DEF EraseIfDirty
  <2>3. UNCHANGED erased /\ todo # <<>> /\ todo' = Tail(todo)
    BY <1>10, <2>2 DEF DoEraseIfDirty, Running, Goto
  <2> QED
    BY <1>2, <1>4, <2>3
<1>11. CASE DoProgram
  <2>1. UNCHANGED erased /\ todo # <<>> /\ todo' = Tail(todo)
    BY <1>11 DEF DoProgram, Running, Goto
  <2> QED
    BY <1>2, <1>4, <2>1
<1>12. CASE DoWrite
  <2>1. Head(todo) \in Steps /\ Head(todo).op = "write" /\ Tail(todo) \in Seq(CalmSteps)
    BY <1>4, <1>12, HeadAndTail DEF DoWrite, Running, TypeOK
  <2>2. Head(todo).vaddr \in VirtAddr /\ Head(todo).data \in Word16
    BY <2>1, StepFields
  <2>3. ASSUME NEW a \in FreeEntries(0) \cup FreeEntries(1)
        PROVE  EntryPrograms(a, Head(todo).vaddr, Head(todo).data) \o Tail(todo)
                 \in Seq(CalmSteps)
    <3>1. /\ Program(a, Head(todo).data) \in Steps
          /\ Program(a + 1, Head(todo).vaddr) \in Steps
      BY <2>2, EntryAddresses, StepsMade, Geometry DEF Pages
    <3>2. /\ Program(a, Head(todo).data) \in CalmSteps
          /\ Program(a + 1, Head(todo).vaddr) \in CalmSteps
      BY <3>1 DEF Program, CalmSteps
    <3> QED
      BY <2>1, <3>2, TwoMore DEF EntryPrograms
  <2>4. EE_FindValidPageWrite # {1}
    BY <1>1, Unworn, FlashValues, Zenon DEF EE_FindValidPageWrite
  <2>5. FreeEntries(0) # {}
    BY <1>1, Unworn
  <2> QED
    BY <1>2, <1>5, <1>12, <2>3, <2>4, <2>5, WriteOutcome, Zenon DEF Goto
<1>13. CASE HalError
  BY <1>2, <1>5, <1>13 DEF HalError
<1>14. CASE PowerLoss
  BY <1>2, <1>5, <1>14 DEF PowerLoss
<1>15. ~DoErase /\ ~DoCopyAll /\ ~DoCopyOthers
  BY <1>9 DEF DoErase, DoCopyAll, DoCopyOthers
<1> QED
  BY <1>6, <1>7, <1>8, <1>10, <1>11, <1>12, <1>13, <1>14, <1>15 DEF Next, Step

\* Until the log reaches the header of page 1, no sector is erased, and so
\* nothing of the program that lives in the sectors the emulation names.
THEOREM NothingErasedBeforeWorn == Spec => []ProgramSectorsIntact
<1>1. Init => HeaderInv /\ UnwornInv
  BY Geometry DEF Init, HeaderInv, UnwornInv
<1>2. UnwornInv => ProgramSectorsIntact
  BY DEF UnwornInv, ProgramSectorsIntact
<1>3. Spec => [](HeaderInv /\ UnwornInv)
  BY <1>1, HeaderInvStep, UnwornInvStep, TypeCorrect, PTL DEF Spec
<1> QED
  BY <1>2, <1>3, PTL

----------------------------------------------------------------------------
(* What reads return, as functions of the content f of flash, while page 0 *)
(* is the only page.  Everything below is about the time before the log is *)
(* worn.                                                                   *)

Found(f, v) == {a \in ReadAddresses(0) : a + 1 \in Halfwords /\ f[a + 1] = v}

ReadFrom(f, v) ==
  IF f[0] = VALID_PAGE /\ Found(f, v) # {} THEN f[Maximum(Found(f, v))] ELSE NotFound

\* A read gives the value, or the first entry, which is never read, holds it.
Stored(f, v, d) ==
  \/ ReadFrom(f, v) = d
  \/ Found(f, v) = {} /\ f[1] = d /\ f[2] = v

Free(f) == {a \in WriteAddresses(0) : a + 1 \in Halfwords /\ f[a] = ERASED /\ f[a + 1] = ERASED}

ErasedAbove(f, a) == \A b \in Halfwords : a < b => f[b] = ERASED

\* The log is filled from its beginning, torn entries included.
Filled(f) == \A a \in Free(f) : ErasedAbove(f, a)

\* An entry is being made at a, which is the end of the log.
EndOfLog(f, a) ==
  /\ f[0] = VALID_PAGE
  /\ a \in WriteAddresses(0) /\ a + 1 \in Halfwords
  /\ ErasedAbove(f, a)
  /\ \A c \in Free(f) : a <= c

\* The content after one halfword has been programmed.
Put(f, a, x) == [f EXCEPT ![a] = x]

\* Addresses of entries are odd and below the virtual address they belong to;
\* flash ends behind both.
LEMMA LogAddresses ==
  /\ \A a \in ReadAddresses(0) : a \in Nat /\ 3 <= a /\ a % 2 = 1
  /\ \A a \in WriteAddresses(0) :
       /\ a \in Nat /\ 1 <= a /\ a % 2 = 1 /\ a + 1 \in Halfwords /\ a \in Halfwords
       /\ 3 <= a => a \in ReadAddresses(0)
       /\ a < 3 => a = 1
  /\ \A a \in Nat, b \in Nat : a % 2 = 1 /\ b % 2 = 1 => a + 1 # b
  /\ \A v \in VirtAddr : v # ERASED
<1>1. PAGE_SIZE \in Nat /\ PAGE_SIZE % 2 = 0
  BY GeometryAssumption DEF IsEven
<1>2. \A a \in ReadAddresses(0) : a \in Nat /\ 3 <= a /\ a % 2 = 1
  BY <1>1 DEF ReadAddresses, IsEven
<1>3. \A a \in WriteAddresses(0) :
        /\ a \in Nat /\ 1 <= a /\ a % 2 = 1 /\ a <= PAGE_SIZE - 1
  BY <1>1 DEF WriteAddresses, IsEven
<1>4. \A a \in WriteAddresses(0) : a + 1 \in Halfwords /\ a \in Halfwords
  BY <1>1, <1>3 DEF Halfwords
<1>5. \A a \in WriteAddresses(0) : 3 <= a => a \in ReadAddresses(0)
  BY <1>1, <1>3 DEF ReadAddresses, IsEven
<1>6. \A a \in WriteAddresses(0) : a < 3 => a = 1
  BY <1>3
<1>7. \A a \in Nat, b \in Nat : a % 2 = 1 /\ b % 2 = 1 => a + 1 # b
  OBVIOUS
<1>8. \A v \in VirtAddr : v # ERASED
  BY GeometryAssumption, FlashValues DEF VirtAddr
<1> QED
  BY <1>2, <1>3, <1>4, <1>5, <1>6, <1>7, <1>8

\* The newest entry that is found is one of them.
LEMMA FoundMaximum ==
  ASSUME NEW f, NEW v
  PROVE  /\ Found(f, v) \subseteq Halfwords
         /\ Found(f, v) # {} => /\ Maximum(Found(f, v)) \in Found(f, v)
                                /\ \A b \in Found(f, v) : b <= Maximum(Found(f, v))
<1>1. \A a \in ReadAddresses(0) : a + 1 \in Halfwords => a \in Halfwords
  BY LogAddresses, GeometryAssumption DEF Halfwords
<1>2. Found(f, v) \subseteq Halfwords
  BY <1>1 DEF Found
<1>3. PICK N \in Nat : Halfwords = 0 .. N
  BY GeometryAssumption DEF Halfwords
<1> QED
  BY <1>2, <1>3, MaximumOfSet

\* The data of an entry, at the end of the log, changes nothing that is read:
\* the virtual address is still missing.
LEMMA DataIsNotRead ==
  ASSUME NEW f \in [Halfwords -> Word16], NEW a, EndOfLog(f, a), NEW x \in Word16,
         NEW v \in VirtAddr
  PROVE  /\ ReadFrom(Put(f, a, x), v) = ReadFrom(f, v)
         /\ EndOfLog(Put(f, a, x), a) /\ Put(f, a, x)[a] = x
<1> DEFINE g == Put(f, a, x)
<1>1. a \in Nat /\ a % 2 = 1 /\ a \in Halfwords /\ a + 1 \in Halfwords /\ a # 0
  BY LogAddresses DEF EndOfLog
<1>2. \A b \in Halfwords : b # a => g[b] = f[b]
  BY DEF Put
<1>3. \A b \in ReadAddresses(0) : b + 1 \in Halfwords => g[b + 1] = f[b + 1]
  BY <1>1, <1>2, LogAddresses
<1>4. Found(g, v) = Found(f, v)
  BY <1>3 DEF Found
<1>5. a \notin Found(f, v)
  <2>1. f[a + 1] = ERASED
    BY <1>1 DEF EndOfLog, ErasedAbove
  <2> QED
    BY <2>1, LogAddresses DEF Found
<1>6. Found(f, v) # {} => Maximum(Found(f, v)) \in Found(f, v)
  BY FoundMaximum
<1>7. Found(f, v) \subseteq Halfwords
  BY FoundMaximum
<1>8. g[0] = f[0]
  BY <1>1, <1>2, Geometry
<1>9. ReadFrom(g, v) = ReadFrom(f, v)
  <2>1. Found(f, v) # {} => g[Maximum(Found(f, v))] = f[Maximum(Found(f, v))]
    BY <1>2, <1>5, <1>6, <1>7
  <2> QED
    BY <1>4, <1>8, <2>1 DEF ReadFrom
<1>10. g[a] = x
  BY <1>1 DEF Put
<1>11. ErasedAbove(g, a)
  BY <1>1, <1>2, Geometry DEF EndOfLog, ErasedAbove
<1>12. \A c \in Free(g) : a <= c
  <2> TAKE c \in Free(g)
  <2>1. c \in Halfwords /\ c + 1 \in Halfwords /\ c \in Nat /\ c % 2 = 1
    BY LogAddresses DEF Free
  <2>2. c + 1 # a
    BY <1>1, <2>1, LogAddresses
  <2>3. c # a => c \in Free(f)
    BY <1>2, <2>1, <2>2 DEF Free
  <2> QED
    BY <1>1, <2>3 DEF EndOfLog
<1> QED
  BY <1>1, <1>8, <1>9, <1>10, <1>11, <1>12 DEF EndOfLog

\* With its virtual address the entry is the newest one of its variable, all
\* others stay as they are.  Only in the first place of the log it is not found.
LEMMA AddressMakesEntry ==
  ASSUME NEW f \in [Halfwords -> Word16], NEW a, EndOfLog(f, a), NEW v \in VirtAddr
  PROVE  /\ Filled(Put(f, a + 1, v))
         /\ Stored(Put(f, a + 1, v), v, f[a])
         /\ \A w \in VirtAddr : ReadFrom(Put(f, a + 1, v), w)
                                = IF w = v /\ a # 1 THEN f[a] ELSE ReadFrom(f, w)
<1> DEFINE g == Put(f, a + 1, v)
<1>1. /\ a \in Nat /\ a % 2 = 1 /\ a \in Halfwords /\ a + 1 \in Halfwords
      /\ a # 1 => a \in ReadAddresses(0)
      /\ f[0] = VALID_PAGE /\ ErasedAbove(f, a) /\ a \in WriteAddresses(0)
  BY LogAddresses DEF EndOfLog
<1>2. g[a + 1] = v /\ \A b \in Halfwords : b # a + 1 => g[b] = f[b]
  BY <1>1 DEF Put
<1>3. v # ERASED /\ \A w \in VirtAddr : w # ERASED
  BY LogAddresses
<1>4. g[0] = VALID_PAGE /\ g[a] = f[a]
  BY <1>1, <1>2, Geometry
<1>5. Filled(g)
  <2> SUFFICES ASSUME NEW c \in Free(g), NEW b \in Halfwords, c < b
               PROVE  g[b] = ERASED
    BY DEF Filled, ErasedAbove
  <2>1. c \in Nat /\ c % 2 = 1 /\ c \in Halfwords /\ c + 1 \in Halfwords
        /\ c \in WriteAddresses(0) /\ g[c] = ERASED /\ g[c + 1] = ERASED
    BY LogAddresses DEF Free
  <2>2. c # a /\ c # a + 1
    BY <1>1, <1>2, <1>3, <2>1, LogAddresses
  <2>3. f[c] = ERASED /\ f[c + 1] = ERASED
    BY <1>1, <1>2, <2>1, <2>2
  <2>4. a <= c
    BY <2>1, <2>3 DEF EndOfLog, Free
  <2>5. a < b /\ b # a + 1
    BY <1>1, <2>1, <2>2, <2>4, Geometry
  <2> QED
    BY <1>1, <1>2, <2>5 DEF ErasedAbove
<1>6. ASSUME NEW w \in VirtAddr
      PROVE  /\ a \notin Found(f, w) /\ \A b \in Found(f, w) : b < a
             /\ Found(g, w) = Found(f, w) \cup {b \in {a} : a # 1 /\ w = v}
  <2>1. \A b \in ReadAddresses(0) : b + 1 \in Halfwords /\ b # a => g[b + 1] = f[b + 1]
    BY <1>1, <1>2, LogAddresses
  <2>2. f[a + 1] = ERASED
    BY <1>1 DEF ErasedAbove
  <2>3. a \notin Found(f, w)
    BY <1>3, <2>2 DEF Found
  <2>4. \A b \in Found(f, w) : b < a
    <3> TAKE b \in Found(f, w)
    <3>1. b \in Nat /\ b + 1 \in Halfwords /\ f[b + 1] = w
      BY LogAddresses DEF Found
    <3>2. ~(a < b + 1)
      BY <1>1, <1>3, <3>1 DEF ErasedAbove
    <3> QED
      BY <1>1, <3>1, <3>2
  <2>5. a = 1 => a \notin ReadAddresses(0)
    BY LogAddresses
  <2>6. a \in Found(g, w) <=> a # 1 /\ w = v
    BY <1>1, <1>2, <2>5 DEF Found
  <2>7. \A b : b # a => (b \in Found(g, w) <=> b \in Found(f, w))
    BY <2>1 DEF Found
  <2> QED
    BY <2>3, <2>4, <2>6, <2>7
<1>7. ASSUME NEW w \in VirtAddr, ~(w = v /\ a # 1)
      PROVE  ReadFrom(g, w) = ReadFrom(f, w)
  <2>1. Found(g, w) = Found(f, w)
    BY <1>6, <1>7
  <2>2. Found(f, w) # {} => /\ Maximum(Found(f, w)) \in Halfwords
                            /\ Maximum(Found(f, w)) < a
    BY <1>6, FoundMaximum
  <2>3. Found(f, w) # {} => g[Maximum(Found(f, w))] = f[Maximum(Found(f, w))]
    <3>1. \A m \in Halfwords : m < a => g[m] = f[m]
      BY <1>1, <1>2, Geometry
    <3> QED
      BY <2>2, <3>1
  <2> QED
    BY <1>1, <1>4, <2>1, <2>3 DEF ReadFrom
<1>8. ASSUME a # 1
      PROVE  ReadFrom(g, v) = f[a]
  <2>1. \A b \in Found(f, v) : b \in Nat /\ b < a
    BY <1>6, LogAddresses DEF Found
  <2>2. Found(g, v) = Found(f, v) \cup {a}
    BY <1>6, <1>8
  <2>3. PICK m \in Found(g, v) : m = Maximum(Found(g, v)) /\ \A b \in Found(g, v) : b <= m
    <3>1. Found(g, v) # {}
      BY <2>2
    <3>2. /\ Maximum(Found(g, v)) \in Found(g, v)
          /\ \A b \in Found(g, v) : b <= Maximum(Found(g, v))
      BY <3>1, FoundMaximum, Zenon
    <3> QED
      BY <3>2, Zenon
  <2>4. Maximum(Found(g, v)) = a
    <3>1. a <= m
      BY <2>2, <2>3
    <3>2. m \in Found(f, v) => FALSE
      BY <1>1, <2>1, <3>1
    <3> QED
      BY <2>2, <2>3, <3>2
  <2> QED
    BY <1>4, <2>2, <2>4 DEF ReadFrom
<1>9. Stored(g, v, f[a])
  <2>1. CASE a # 1
    BY <1>8, <2>1 DEF Stored
  <2>2. CASE a = 1
    <3>1. \A b \in Found(f, v) : FALSE
      BY <1>6, <2>2, LogAddresses DEF Found
    <3>2. Found(g, v) = {}
      BY <1>6, <2>2, <3>1
    <3>3. a + 1 = 2
      BY <2>2
    <3> QED
      BY <1>2, <1>4, <2>2, <3>2, <3>3 DEF Stored
  <2> QED
    BY <2>1, <2>2
<1> QED
  BY <1>5, <1>7, <1>8, <1>9

\* The header of page 0 is programmed when the log is empty: nothing is read
\* before or after.
LEMMA HeaderIsNotRead ==
  ASSUME NEW f \in [Halfwords -> Word16], \A a \in Halfwords : f[a] = ERASED
  PROVE  /\ Filled(Put(f, 0, VALID_PAGE))
         /\ \A v \in VirtAddr : /\ ReadFrom(Put(f, 0, VALID_PAGE), v) = NotFound
                                /\ ReadFrom(f, v) = NotFound
<1> DEFINE g == Put(f, 0, VALID_PAGE)
<1>1. \A b \in Halfwords : b # 0 => g[b] = ERASED
  BY DEF Put
<1>2. Filled(g)
  BY <1>1, LogAddresses DEF Filled, ErasedAbove, Free, Halfwords
<1>3. ASSUME NEW v \in VirtAddr
      PROVE  Found(g, v) = {}
  <2>1. \A b \in ReadAddresses(0) : b + 1 # 0
    BY LogAddresses
  <2> QED
    BY <1>1, <2>1, LogAddresses DEF Found
<1> QED
  BY <1>2, <1>3, Geometry, FlashValues DEF ReadFrom

\* What EE_ReadVariable returns is what the log of page 0 holds.
Page0IsRead ==
  /\ \A v \in VirtAddr : EE_ReadVariable(v) = ReadFrom(flash, v)
  /\ \A v \in VirtAddr : Found(flash, v) = {} => EntriesOf(v) = {}

LEMMA ReadsComeFromPage0 == HeaderInv => Page0IsRead
<1> SUFFICES ASSUME HeaderInv, NEW v \in VirtAddr
             PROVE  /\ EE_ReadVariable(v) = ReadFrom(flash, v)
                    /\ Found(flash, v) = {} => EntriesOf(v) = {}
  BY DEF Page0IsRead
<1>1. CASE flash[0] = VALID_PAGE
  <2>1. EE_FindValidPageRead = {0}
    BY <1>1, OnlyPage0IsRead
  <2>2. EntriesOf(v) = Found(flash, v)
    BY <2>1 DEF EntriesOf, Found
  <2> QED
    BY <1>1, <2>2 DEF EE_ReadVariable, NewestFirst, ReadFrom
<1>2. CASE flash[0] # VALID_PAGE
  <2>1. EE_FindValidPageRead = {}
    BY <1>2, OnlyPage0IsRead
  <2>2. EntriesOf(v) = {}
    BY <2>1 DEF EntriesOf
  <2> QED
    BY <1>2, <2>2 DEF EE_ReadVariable, ReadFrom
<1> QED
  BY <1>1, <1>2

\* How far a write has come: not begun, at the data, at the virtual address,
\* done.
Writing(v, d) ==
  \/ todo = <<Write(v, d, TRUE)>>
  \/ \E a : EndOfLog(flash, a) /\ flash[a] = ERASED /\ todo = EntryPrograms(a, v, d)
  \/ \E a : EndOfLog(flash, a) /\ flash[a] = d /\ todo = <<Program(a + 1, v)>>
  \/ todo = <<>> /\ Stored(flash, v, d)

Starting == {EE_Format, <<Mark(0, VALID_PAGE), EraseIfDirty(1)>>, <<EraseIfDirty(1)>>, <<>>}

InPhase ==
  \/ /\ phase = "write"
     /\ request \in Requests /\ Writing(request.vaddr, request.data)
  \/ /\ phase = "idle" /\ todo = <<>>
     /\ \/ request = NoRequest
        \/ request \in Requests /\ Stored(flash, request.vaddr, request.data)
  \/ phase = "init" /\ request = NoRequest /\ todo \in Starting
  \/ phase \in {"off", "halted"} /\ request = NoRequest /\ todo = <<>>

LogInv == ~Expired => Filled(flash) /\ InPhase

LEMMA NoRequestIsNone == NoRequest \notin Requests
<1> SUFFICES ASSUME NoRequest \in Requests
             PROVE  FALSE
  OBVIOUS
<1>1. DOMAIN NoRequest = {"none"} /\ DOMAIN NoRequest = {"vaddr", "data"}
  BY DEF NoRequest, Requests
<1> QED
  BY <1>1

\* The steps of EE_Init and of a write, as sequences.
LEMMA StepsInOrder ==
  /\ Tail(EE_Format) = <<Mark(0, VALID_PAGE), EraseIfDirty(1)>>
  /\ Head(EE_Format) = EraseIfDirty(0) /\ EE_Format # <<>>
  /\ \A s, t : /\ Head(<<s, t>>) = s /\ Tail(<<s, t>>) = <<t>> /\ <<s, t>> # <<>>
               /\ Head(<<s>>) = s /\ Tail(<<s>>) = <<>> /\ <<s>> # <<>>
               /\ <<s, t>> \o <<>> = <<s, t>>
BY DEF EE_Format

\* What can happen before the log is worn, in terms of the content of flash.
LEMMA StartUnworn ==
  ASSUME TypeOK, HeaderInv, LogInv, ~Expired, PowerOn
  PROVE  /\ UNCHANGED <<flash, request>>
         /\ request = NoRequest /\ phase' = "init" /\ todo' \in Starting
<1>1. phase = "off" /\ phase' = "init" /\ todo' = EE_Init /\ UNCHANGED <<flash, request>>
  BY Zenon DEF PowerOn
<1>2. request = NoRequest
  BY <1>1 DEF LogInv, InPhase
<1>3. PageStatus(1) = ERASED /\ PageStatus(0) \in {ERASED, VALID_PAGE}
  BY Unworn, Geometry DEF HeaderInv, PageStatus, PageBase
<1>4. EE_Init \in {EE_Format, <<EraseIfDirty(1)>>}
  BY <1>3, FlashValues, Zenon DEF EE_Init
<1> QED
  BY <1>1, <1>2, <1>4 DEF Starting

\* What a step does to the variables, as a caller sees them: a call begins, the
\* one variable changes, the call ends, or nothing happens.
StoreStep ==
  \/ /\ UNCHANGED flash
     /\ phase # "write" /\ phase' = "write" /\ request' \in Requests
  \/ /\ phase = "write" /\ phase' = "write" /\ request' = request
     /\ \A w \in VirtAddr :
          ReadFrom(flash', w) = IF w = request.vaddr THEN request.data ELSE ReadFrom(flash, w)
  \/ /\ UNCHANGED flash
     /\ phase = "write" /\ phase' # "write"
  \/ /\ \A w \in VirtAddr : ReadFrom(flash', w) = ReadFrom(flash, w)
     /\ phase = "write" <=> phase' = "write"
     /\ phase = "write" => request' = request

\* A call that is broken off.
LEMMA BrokenOff ==
  ASSUME Filled(flash), UNCHANGED flash, NEW next \in {"idle", "off", "halted"}, Stop(next)
  PROVE  Filled(flash') /\ InPhase' /\ StoreStep
<1>1. todo' = <<>> /\ phase' = next /\ request' = NoRequest
  BY DEF Stop
<1>2. InPhase'
  <2>1. phase' = "idle" \/ phase' \in {"off", "halted"}
    BY <1>1
  <2> QED
    BY <1>1, <2>1, Zenon DEF InPhase
<1>3. StoreStep
  <2>1. phase' # "write"
    BY <1>1
  <2>2. \A w \in VirtAddr : ReadFrom(flash', w) = ReadFrom(flash, w)
    OBVIOUS
  <2> QED
    BY <2>1, <2>2, Zenon DEF StoreStep
<1> QED
  BY <1>2, <1>3

\* What is done next.
LEMMA NextStep ==
  ASSUME InPhase, todo # <<>>
  PROVE  \/ /\ phase = "init" /\ request = NoRequest
            /\ Head(todo) \in {EraseIfDirty(0), EraseIfDirty(1), Mark(0, VALID_PAGE)}
            /\ Tail(todo) \in Starting
         \/ /\ phase = "write" /\ request \in Requests
            /\ \/ Head(todo) = Write(request.vaddr, request.data, TRUE) /\ Tail(todo) = <<>>
               \/ \E a : /\ EndOfLog(flash, a) /\ flash[a] = ERASED
                         /\ Head(todo) = Program(a, request.data)
                         /\ Tail(todo) = <<Program(a + 1, request.vaddr)>>
               \/ \E a : /\ EndOfLog(flash, a) /\ flash[a] = request.data
                         /\ Head(todo) = Program(a + 1, request.vaddr)
                         /\ Tail(todo) = <<>>
<1>1. CASE phase = "write"
  <2>1. request \in Requests /\ Writing(request.vaddr, request.data)
    BY <1>1 DEF InPhase
  <2>2. CASE todo = <<Write(request.vaddr, request.data, TRUE)>>
    BY <1>1, <2>1, <2>2, StepsInOrder
  <2>3. ASSUME NEW a, EndOfLog(flash, a), flash[a] = ERASED,
               todo = EntryPrograms(a, request.vaddr, request.data)
        PROVE  Head(todo) = Program(a, request.data) /\ Tail(todo) = <<Program(a + 1, request.vaddr)>>
    BY <2>3, StepsInOrder DEF EntryPrograms
  <2>4. ASSUME NEW a, EndOfLog(flash, a), flash[a] = request.data,
               todo = <<Program(a + 1, request.vaddr)>>
        PROVE  Head(todo) = Program(a + 1, request.vaddr) /\ Tail(todo) = <<>>
    BY <2>4, StepsInOrder
  <2> QED
    BY <1>1, <2>1, <2>2, <2>3, <2>4, Zenon DEF Writing
<1>2. CASE phase # "write"
  <2>1. phase = "init" /\ request = NoRequest /\ todo \in Starting
    BY <1>2 DEF InPhase
  <2>2. CASE todo = EE_Format
    BY <2>1, <2>2, StepsInOrder DEF Starting
  <2>3. CASE todo = <<Mark(0, VALID_PAGE), EraseIfDirty(1)>>
    BY <2>1, <2>3, StepsInOrder DEF Starting
  <2>4. CASE todo = <<EraseIfDirty(1)>>
    BY <2>1, <2>4, StepsInOrder DEF Starting
  <2> QED
    BY <2>1, <2>2, <2>3, <2>4 DEF Starting
<1> QED
  BY <1>1, <1>2

\* A step that programs.
LEMMA ProgramUnworn ==
  ASSUME TypeOK, HeaderInv, Filled(flash), InPhase, DoProgram
  PROVE  Filled(flash') /\ InPhase' /\ StoreStep
<1> DEFINE s == Head(todo)
<1>1. /\ todo # <<>> /\ s.op = "program"
      /\ flash' = [flash EXCEPT ![s.at] = Programmed(flash[s.at], s.value)]
      /\ todo' = Tail(todo) /\ UNCHANGED <<phase, request>>
  BY DEF DoProgram, Running, Goto
<1>2. flash \in [Halfwords -> Word16]
  BY DEF TypeOK
<1>3. CASE phase = "init"
  <2>1. s = Mark(0, VALID_PAGE) /\ Tail(todo) \in Starting /\ request = NoRequest
    BY <1>1, <1>3, NextStep DEF EraseIfDirty
  <2>2. s.at = 0 /\ s.value = VALID_PAGE
    BY <2>1 DEF Mark, Program, PageBase
  <2>3. InPhase'
    BY <1>1, <1>3, <2>1 DEF InPhase
  <2>4. Programmed(flash[0], VALID_PAGE) = VALID_PAGE
    <3>1. flash[0] \in {ERASED, VALID_PAGE}
      BY Geometry DEF HeaderInv
    <3> QED
      BY <3>1, FlashValues, Zenon DEF Programmed
  <2>5. flash' = Put(flash, 0, VALID_PAGE)
    BY <1>1, <2>2, <2>4 DEF Put
  <2>6. Filled(flash') /\ \A w \in VirtAddr : ReadFrom(flash', w) = ReadFrom(flash, w)
    <3>1. CASE flash[0] = VALID_PAGE
      <4>1. flash' = flash
        BY <1>2, <2>5, <3>1 DEF Put
      <4> QED
        BY <4>1
    <3>2. CASE flash[0] # VALID_PAGE
      <4>1. \A a \in Halfwords : flash[a] = ERASED
        BY <3>2 DEF HeaderInv
      <4> QED
        BY <1>2, <2>5, <4>1, HeaderIsNotRead
    <3> QED
      BY <3>1, <3>2
  <2>7. StoreStep
    BY <1>1, <1>3, <2>6, Zenon DEF StoreStep
  <2> QED
    BY <2>3, <2>6, <2>7
<1>4. CASE phase = "write"
  <2> DEFINE v == request.vaddr
             d == request.data
  <2>1. v \in VirtAddr /\ d \in Word16 /\ request \in Requests
    BY <1>1, <1>4, NextStep, Geometry DEF Requests
  <2>2. s # Write(v, d, TRUE)
    BY <1>1 DEF Write
  <2>3. PICK a : /\ EndOfLog(flash, a)
                 /\ \/ /\ flash[a] = ERASED /\ s = Program(a, d)
                       /\ Tail(todo) = <<Program(a + 1, v)>>
                    \/ flash[a] = d /\ s = Program(a + 1, v) /\ Tail(todo) = <<>>
    BY <1>1, <1>4, <2>2, NextStep, Zenon
  <2>4. a \in Halfwords /\ a + 1 \in Halfwords /\ flash[a + 1] = ERASED
    BY <2>3, LogAddresses DEF EndOfLog, ErasedAbove
  <2>5. CASE flash[a] = ERASED /\ s = Program(a, d) /\ Tail(todo) = <<Program(a + 1, v)>>
    <3>1. flash' = Put(flash, a, d)
      <4>1. s.at = a /\ s.value = d
        BY <2>5 DEF Program
      <4>2. Programmed(flash[a], d) = d
        BY <2>5, Zenon DEF Programmed
      <4> QED
        BY <1>1, <4>1, <4>2 DEF Put
    <3>2. EndOfLog(flash', a) /\ flash'[a] = d
      BY <1>2, <2>1, <2>3, <3>1, DataIsNotRead
    <3>3. \A w \in VirtAddr : ReadFrom(flash', w) = ReadFrom(flash, w)
      BY <1>2, <2>1, <2>3, <3>1, DataIsNotRead
    <3>4. Filled(flash')
      <4> SUFFICES ASSUME NEW c \in Free(flash'), NEW b \in Halfwords, c < b
                   PROVE  flash'[b] = ERASED
        BY DEF Filled, ErasedAbove
      <4>1. a <= c /\ c \in Nat /\ a \in Nat /\ b \in Nat
        BY <2>4, <3>2, LogAddresses, Geometry DEF EndOfLog, Free
      <4> QED
        BY <3>2, <4>1 DEF EndOfLog, ErasedAbove
    <3>5. InPhase'
      <4>1. todo' = <<Program(a + 1, v)>> /\ v' = v /\ d' = d
        BY <1>1, <2>5
      <4>2. \E c : EndOfLog(flash', c) /\ flash'[c] = d' /\ todo' = <<Program(c + 1, v')>>
        BY <3>2, <4>1
      <4>3. Writing(v, d)'
        BY <4>2, Zenon DEF Writing
      <4> QED
        BY <1>1, <1>4, <2>1, <4>3 DEF InPhase
    <3>6. StoreStep
      BY <1>1, <1>4, <3>3, Zenon DEF StoreStep
    <3> QED
      BY <3>4, <3>5, <3>6
  <2>6. CASE flash[a] = d /\ s = Program(a + 1, v) /\ Tail(todo) = <<>>
    <3>1. flash' = Put(flash, a + 1, v)
      <4>1. s.at = a + 1 /\ s.value = v
        BY <2>6 DEF Program
      <4>2. Programmed(flash[a + 1], v) = v
        BY <2>4, Zenon DEF Programmed
      <4> QED
        BY <1>1, <4>1, <4>2 DEF Put
    <3>2. /\ Filled(flash') /\ Stored(flash', v, d)
          /\ \A w \in VirtAddr :
               ReadFrom(flash', w) = IF w = v /\ a # 1 THEN d ELSE ReadFrom(flash, w)
      BY <1>2, <2>1, <2>3, <2>6, <3>1, AddressMakesEntry
    <3>3. InPhase'
      <4>1. todo' = <<>> /\ v' = v /\ d' = d
        BY <1>1, <2>6
      <4>2. Writing(v, d)'
        BY <3>2, <4>1, Zenon DEF Writing
      <4> QED
        BY <1>1, <1>4, <2>1, <4>2 DEF InPhase
    <3>4. StoreStep
      <4>1. CASE a = 1
        BY <1>1, <1>4, <3>2, <4>1, Zenon DEF StoreStep
      <4>2. CASE a # 1
        BY <1>1, <1>4, <3>2, <4>2, Zenon DEF StoreStep
      <4> QED
        BY <4>1, <4>2
    <3> QED
      BY <3>2, <3>3, <3>4
  <2> QED
    BY <2>3, <2>5, <2>6
<1> QED
  BY <1>1, <1>3, <1>4, NextStep

\* A step that looks for the place of the entry: the log is not full, so the
\* place is its end.
LEMMA WriteUnworn ==
  ASSUME TypeOK, HeaderInv, Filled(flash), InPhase, ~Expired, DoWrite
  PROVE  Filled(flash') /\ InPhase' /\ StoreStep
<1> DEFINE v == request.vaddr
           d == request.data
<1>1. todo # <<>> /\ Head(todo).op = "write" /\ UNCHANGED <<flash, erased>>
  BY DEF DoWrite, Running
<1>2. phase = "write" /\ request \in Requests /\ Head(todo) = Write(v, d, TRUE) /\ Tail(todo) = <<>>
  <2>1. \A a, x : Program(a, x).op # "write"
    BY DEF Program
  <2>2. EraseIfDirty(0).op # "write" /\ EraseIfDirty(1).op # "write"
    BY DEF EraseIfDirty
  <2>3. Mark(0, VALID_PAGE).op # "write"
    BY <2>1, Zenon DEF Mark
  <2>4. Head(todo) \notin {EraseIfDirty(0), EraseIfDirty(1), Mark(0, VALID_PAGE)}
    BY <1>1, <2>2, <2>3
  <2>5. \A a, x : Head(todo) # Program(a, x)
    BY <1>1, <2>1
  <2> QED
    BY <1>1, <2>4, <2>5, NextStep, Zenon
<1>3. CASE EE_FindValidPageWrite = {}
  <2>1. ReturnError
    BY <1>3, Zenon DEF DoWrite
  <2>2. Stop("halted")
    BY <1>2, <2>1, Zenon DEF ReturnError
  <2> QED
    BY <1>1, <2>2, BrokenOff
<1>4. CASE EE_FindValidPageWrite # {}
  <2>1. flash[0] = VALID_PAGE
    BY <1>4, OnlyPage0IsRead
  <2>2. PageStatus(0) = VALID_PAGE /\ PageStatus(1) = ERASED
    BY <2>1, Unworn DEF PageStatus, PageBase
  <2>3. EE_FindValidPageWrite = {0}
    BY <2>2, FlashValues, Zenon DEF EE_FindValidPageWrite
  <2>4. (CHOOSE p \in EE_FindValidPageWrite : TRUE) = 0
    BY <2>3
  <2>5. FreeEntries(0) # {} /\ FreeEntries(0) = Free(flash)
    BY Unworn DEF FreeEntries, Free
  <2>6. PICK a : a = Minimum(Free(flash))
    OBVIOUS
  <2>7. a \in Free(flash) /\ \A c \in Free(flash) : a <= c
    <3>1. Free(flash) \in SUBSET Nat
      BY LogAddresses DEF Free
    <3> QED
      BY <2>5, <2>6, <3>1, MinimumOfSet
  <2>8. EndOfLog(flash, a) /\ flash[a] = ERASED
    BY <2>1, <2>7 DEF EndOfLog, Free, Filled
  <2>9. Goto(EntryPrograms(a, Head(todo).vaddr, Head(todo).data) \o Tail(todo))
    BY <1>4, <2>4, <2>5, <2>6, Zenon DEF DoWrite
  <2>10. EntryPrograms(a, Head(todo).vaddr, Head(todo).data) \o Tail(todo) = EntryPrograms(a, v, d)
    <3>1. Head(todo).vaddr = v /\ Head(todo).data = d
      BY <1>2 DEF Write
    <3> QED
      BY <1>2, <3>1, StepsInOrder, Zenon DEF EntryPrograms
  <2>11. todo' = EntryPrograms(a, v, d) /\ UNCHANGED <<phase, request>>
    BY <2>9, <2>10 DEF Goto
  <2>12. InPhase'
    <3>1. v' = v /\ d' = d
      BY <2>11
    <3>2. \E c : EndOfLog(flash', c) /\ flash'[c] = ERASED /\ todo' = EntryPrograms(c, v', d')
      BY <1>1, <2>8, <2>11, <3>1
    <3>3. Writing(v, d)'
      BY <3>2, Zenon DEF Writing
    <3> QED
      BY <1>2, <2>11, <3>3 DEF InPhase
  <2>13. StoreStep
    BY <1>1, <2>11, Zenon DEF StoreStep
  <2> QED
    BY <1>1, <2>12, <2>13
<1> QED
  BY <1>3, <1>4

\* Every step, before the log is worn.
LEMMA StepUnworn ==
  ASSUME TypeOK, HeaderInv, LogInv, [Next]_vars, ~Expired
  PROVE  Filled(flash') /\ InPhase' /\ StoreStep
<1>1. Filled(flash) /\ InPhase
  BY DEF LogInv
<1>2. CASE PowerOn
  <2>1. /\ UNCHANGED <<flash, request>>
        /\ request = NoRequest /\ phase' = "init" /\ todo' \in Starting
    BY <1>2, StartUnworn
  <2>2. phase = "off"
    BY <1>2 DEF PowerOn
  <2>3. InPhase'
    BY <2>1 DEF InPhase, Starting, EE_Format, Mark, Program, EraseIfDirty, PageBase
  <2>4. StoreStep
    <3>1. \A w \in VirtAddr : ReadFrom(flash', w) = ReadFrom(flash, w)
      BY <2>1
    <3>2. phase # "write" /\ phase' # "write"
      BY <2>1, <2>2
    <3> QED
      BY <3>1, <3>2, Zenon DEF StoreStep
  <2> QED
    BY <1>1, <2>1, <2>3, <2>4
<1>3. ASSUME NEW v \in VirtAddr, NEW d \in Data, EE_WriteVariable(v, d)
      PROVE  Filled(flash') /\ InPhase' /\ StoreStep
  <2>1. phase = "idle" /\ UNCHANGED <<flash, erased>>
    BY <1>3 DEF EE_WriteVariable
  <2>2. CASE ReadFaults
    <3>1. Stop("halted")
      BY <1>3, <2>2, Zenon DEF EE_WriteVariable, Fault
    <3> QED
      BY <1>1, <2>1, <3>1, BrokenOff
  <2>3. CASE ~ReadFaults
    <3>1. /\ phase' = "write" /\ todo' = <<Write(v, d, TRUE)>>
          /\ request' = [vaddr |-> v, data |-> d]
      BY <1>3, <2>3, Zenon DEF EE_WriteVariable
    <3>2. request' \in Requests /\ request'.vaddr = v /\ request'.data = d
      BY <3>1 DEF Requests
    <3>3. Writing(request.vaddr, request.data)'
      BY <3>1, <3>2 DEF Writing, Write
    <3>4. InPhase'
      BY <3>1, <3>2, <3>3 DEF InPhase
    <3>5. StoreStep
      BY <2>1, <3>1, <3>2 DEF StoreStep
    <3> QED
      BY <1>1, <2>1, <3>4, <3>5
  <2> QED
    BY <2>2, <2>3
<1>4. CASE Return
  <2>1. /\ phase \in {"init", "write"} /\ todo = <<>> /\ phase' = "idle"
        /\ UNCHANGED <<flash, todo, request>>
    BY <1>4 DEF Return
  <2>2. \/ request = NoRequest
        \/ request \in Requests /\ Stored(flash, request.vaddr, request.data)
    <3>1. CASE phase = "init"
      <4>1. phase # "write" /\ phase # "idle" /\ phase \notin {"off", "halted"}
        BY <3>1
      <4> QED
        BY <1>1, <4>1, Zenon DEF InPhase
    <3>2. CASE phase = "write"
      <4>1. request \in Requests /\ Writing(request.vaddr, request.data)
        BY <1>1, <3>2 DEF InPhase
      <4> QED
        BY <2>1, <4>1, StepsInOrder, Zenon DEF Writing, EntryPrograms
    <3> QED
      BY <2>1, <3>1, <3>2
  <2>3. InPhase'
    BY <2>1, <2>2, Zenon DEF InPhase
  <2>4. StoreStep
    BY <2>1 DEF StoreStep
  <2> QED
    BY <1>1, <2>1, <2>3, <2>4
<1>5. CASE DoEraseIfDirty
  <2>1. /\ todo # <<>> /\ Head(todo).op = "eraseIfDirty" /\ todo' = Tail(todo)
        /\ UNCHANGED <<flash, phase, request>>
    BY <1>5 DEF DoEraseIfDirty, Running, Goto, HAL_FLASHEx_Erase
  <2>2. phase = "init" /\ request = NoRequest /\ Tail(todo) \in Starting
    BY <1>1, <2>1, NextStep DEF Write, Program
  <2>3. InPhase'
    BY <2>1, <2>2 DEF InPhase, Starting, EE_Format, Mark, Program, EraseIfDirty, PageBase
  <2>4. StoreStep
    <3>1. \A w \in VirtAddr : ReadFrom(flash', w) = ReadFrom(flash, w)
      BY <2>1
    <3>2. phase # "write" /\ phase' # "write"
      BY <2>1, <2>2
    <3> QED
      BY <3>1, <3>2, Zenon DEF StoreStep
  <2> QED
    BY <1>1, <2>1, <2>3, <2>4
<1>6. CASE DoProgram
  BY <1>1, <1>6, ProgramUnworn
<1>7. CASE DoWrite
  BY <1>1, <1>7, WriteUnworn
<1>8. ~DoErase /\ ~DoCopyAll /\ ~DoCopyOthers
  <2>1. ASSUME Running("erase") \/ Running("copyAll") \/ Running("copyOthers")
        PROVE  FALSE
    BY <1>1, <2>1, NextStep DEF Running, Write, Program, Mark, EraseIfDirty
  <2> QED
    BY <2>1 DEF DoErase, DoCopyAll, DoCopyOthers
<1>9. CASE HalError
  <2>1. Stop("idle") \/ Stop("halted")
    BY <1>9, Zenon DEF HalError, ReturnError
  <2>2. UNCHANGED flash
    BY <1>9 DEF HalError
  <2> QED
    BY <1>1, <2>1, <2>2, BrokenOff
<1>10. CASE PowerLoss
  BY <1>1, <1>10, BrokenOff DEF PowerLoss
<1>11. CASE UNCHANGED vars
  <2>1. UNCHANGED <<flash, phase, todo, request>>
    BY <1>11 DEF vars
  <2>2. InPhase'
    BY <1>1, <2>1 DEF InPhase, Writing, Starting, EE_Format, Mark, Program, EraseIfDirty, PageBase
  <2>3. StoreStep
    BY <2>1, Zenon DEF StoreStep
  <2> QED
    BY <1>1, <2>1, <2>2, <2>3
<1> QED
  BY <1>2, <1>3, <1>4, <1>5, <1>6, <1>7, <1>8, <1>9, <1>10, <1>11 DEF Next, Step

LEMMA LogInvInit == Init => LogInv
<1> SUFFICES ASSUME Init
             PROVE  Filled(flash) /\ InPhase
  BY DEF LogInv
<1>1. Filled(flash)
  BY DEF Init, Filled, ErasedAbove
<1>2. InPhase
  BY DEF Init, InPhase
<1> QED
  BY <1>1, <1>2

LEMMA LogInvStep == TypeOK /\ HeaderInv /\ LogInv /\ [Next]_vars => LogInv'
  BY ExpiredIsStable, StepUnworn DEF LogInv

LEMMA LogInvariant == Spec => [](TypeOK /\ HeaderInv /\ LogInv)
<1>1. Init => HeaderInv
  BY Geometry DEF Init, HeaderInv
<1> QED
  BY <1>1, LogInvInit, LogInvStep, HeaderInvStep, TypeCorrect, PTL DEF Spec

\* Once a write has returned HAL_OK its value is what is read, whatever torn
\* entries, restarts and errors came before; but for the very first entry.
THEOREM AcknowledgedIsRead == Spec => []AcknowledgedWriteIsRead
<1>1. HeaderInv /\ LogInv => AcknowledgedWriteIsRead
  <2> SUFFICES ASSUME HeaderInv, LogInv, phase = "idle", request # NoRequest, ~Expired
               PROVE  \/ EE_ReadVariable(request.vaddr) = request.data
                      \/ OnlyInFirstEntry(request)
    BY DEF AcknowledgedWriteIsRead
  <2>1. request \in Requests /\ Stored(flash, request.vaddr, request.data)
    BY DEF LogInv, InPhase
  <2>2. request.vaddr \in VirtAddr
    BY <2>1 DEF Requests
  <2> QED
    BY <2>1, <2>2, ReadsComeFromPage0 DEF Stored, Page0IsRead, OnlyInFirstEntry
<1> QED
  BY <1>1, LogInvariant, PTL

\* The refinement: a step of the log is a step of the store, or none.
LEMMA StoreInit == Init => Contract!Init
<1> SUFFICES ASSUME Init
             PROVE  Contract!Init
  OBVIOUS
<1>1. HeaderInv
  BY Geometry DEF Init, HeaderInv
<1>2. \A a \in Halfwords : flash[a] = ERASED
  BY DEF Init
<1>3. \A v \in VirtAddr : EE_ReadVariable(v) = NotFound
  <2>1. flash[0] # VALID_PAGE
    BY <1>2, Geometry, FlashValues
  <2> QED
    BY <1>1, <2>1, ReadsComeFromPage0 DEF Page0IsRead, ReadFrom
<1>4. Expired = FALSE
  BY <1>2, GeometryAssumption DEF Expired, Halfwords
<1>5. phase # "write"
  BY DEF Init
<1> QED
  BY <1>3, <1>4, <1>5 DEF Contract!Init

LEMMA ReadsNext == HeaderInv' => Page0IsRead'
  BY ReadsComeFromPage0, PTL

LEMMA StoreSteps ==
  TypeOK /\ HeaderInv /\ LogInv /\ [Next]_vars => [Contract!Next]_(Contract!vars)
<1> SUFFICES ASSUME TypeOK, HeaderInv, LogInv, [Next]_vars
             PROVE  Contract!Next \/ UNCHANGED Contract!vars
  OBVIOUS
<1>1. CASE Expired'
  BY <1>1 DEF Contract!Next, Contract!Expire
<1>2. CASE ~Expired'
  <2>1. ~Expired
    BY <1>2, ExpiredIsStable
  <2>2. StoreStep /\ InPhase /\ InPhase'
    BY <2>1, StepUnworn DEF LogInv
  <2>3. HeaderInv'
    BY HeaderInvStep
  <2>4. \A w \in VirtAddr : /\ EE_ReadVariable(w) = ReadFrom(flash, w)
                            /\ EE_ReadVariable(w)' = ReadFrom(flash', w)
    BY <2>3, ReadsComeFromPage0, ReadsNext DEF Page0IsRead
  <2> DEFINE store == [v \in VirtAddr |-> EE_ReadVariable(v)]
             call == IF phase = "write" THEN request ELSE NoRequest
  <2>5. Expired' = Expired
    BY <1>2, <2>1, Zenon DEF Expired
  <2>6. /\ phase = "write" => request \in Requests
        /\ phase' = "write" => request' \in Requests
    BY <2>2, Zenon DEF InPhase
  <2>7. Requests = Contract!Requests
    BY DEF Requests, Contract!Requests
  <2>8. CASE \A w \in VirtAddr : ReadFrom(flash', w) = ReadFrom(flash, w)
    <3>1. store' = store
      BY <2>4, <2>8
    <3> QED
      BY <2>2, <2>5, <2>6, <2>7, <3>1, NoRequestIsNone
         DEF StoreStep, Contract!vars, Contract!Next, Contract!Begin, Contract!End
  <2>9. CASE /\ phase = "write" /\ phase' = "write" /\ request' = request
             /\ \A w \in VirtAddr :
                  ReadFrom(flash', w) = IF w = request.vaddr THEN request.data ELSE ReadFrom(flash, w)
    <3>1. store' = [store EXCEPT ![request.vaddr] = request.data]
      BY <2>4, <2>9
    <3> QED
      BY <2>5, <2>6, <2>9, <3>1, NoRequestIsNone DEF Contract!Next, Contract!Commit
  <2> QED
    BY <2>2, <2>8, <2>9 DEF StoreStep
<1> QED
  BY <1>1, <1>2

\* The log implements atomic variables: through power failures at any flash
\* operation, HAL errors and torn entries, until it is worn.
THEOREM LogImplementsStore == Spec => WritesAreAtomic
<1>1. Spec => Contract!Spec
  BY LogInvariant, StoreInit, StoreSteps, PTL DEF Spec, Contract!Spec
<1> QED
  BY <1>1 DEF WritesAreAtomic
============================================================================
