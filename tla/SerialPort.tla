---------------------------- MODULE SerialPort ----------------------------
(***************************************************************************)
(* One port of libraries/serial.c with its two queues, the USART and the   *)
(* interrupt handler between them (USART2_IRQHandler and USART3_IRQHandler *)
(* differ in the LEDs only), the tasks that write strings to it and the    *)
(* receive loop of taskRPCSerialIn.                                        *)
(*                                                                         *)
(* Characters are numbers: the n-th one a task offers to the port, the     *)
(* n-th one the host sends.  The interrupt handler runs at a priority      *)
(* above all tasks, so it is one step; a task can be interrupted between   *)
(* putting a character into the queue and enabling the interrupt.          *)
(* __HAL_USART_ENABLE_IT reads CR1 and writes it back with the bit set:    *)
(* what happens in between is lost, and the bit is set, whatever was read; *)
(* no other bit of CR1 changes while the port is in use.                   *)
(***************************************************************************)
EXTENDS Naturals, Sequences

CONSTANTS
  Writers,            (* tasks that write to the port                      *)
  Reader,             (* the task that receives from it, one of Writers    *)
  TxLength,           (* length of xCharsForTx: uxQueueLength + 1          *)
  RxLength,           (* length of xRxedChars: uxQueueLength               *)
  MaxString,          (* longest string of vSerialPutString                *)
  OfferBound,         (* characters offered, a bound for the checking      *)
  HostBound,          (* characters the host sends, likewise               *)
  None

ASSUME SerialAssumption ==
  /\ Reader \in Writers
  /\ TxLength \in Nat \ {0} /\ RxLength \in Nat \ {0} /\ MaxString \in Nat \ {0}
  /\ OfferBound \in Nat /\ HostBound \in Nat
  /\ None \notin Nat \cup {"QueueSend", "EnableTXE"}

VARIABLES
  RTOSRunningFlag,    (* queues and interrupt are used, not polling        *)
  xCharsForTx,        (* queue of characters to transmit                   *)
  xRxedChars,         (* queue of received characters                      *)
  TXEIE,              (* USART_IT_TXE is enabled in CR1                    *)
  TDR,                (* DR as written: a character or None (flag TXE)     *)
  RDR,                (* DR as read: a character, else None (flag RXNE)    *)
  step,               (* per task: what it does next in xSerialPutChar     *)
  left,               (* per task: characters of its string not done yet   *)
  refused,            (* per task: characters of its string not accepted   *)
  offered,            (* characters offered to the port so far             *)
  accepted,           (* those it accepted (pdPASS), in order              *)
  wire,               (* those that left the device, in order              *)
  sent,               (* characters the host has sent so far               *)
  pushed              (* last one channel_push_byte_to_RPC was called with *)

tx == <<xCharsForTx, TXEIE, TDR, wire>>
rx == <<xRxedChars, RDR, sent, pushed>>
tasks == <<step, left, refused>>
vars == <<RTOSRunningFlag, tx, rx, tasks, offered, accepted>>

----------------------------------------------------------------------------
(* xSerialPutChar.                                                         *)

\* Mutant of xSerialPutChar: the interrupt is enabled before there is
\* anything to send.
EnableFirst == <<"EnableTXE", "QueueSend">>

\* What a put does, in the order of the code.
xSerialPutChar == <<"QueueSend", "EnableTXE">>

\* Mutant of PutReturns: the loop runs once too often.
OnePutMore(t) ==
  /\ left' = [left EXCEPT ![t] = @ - 1]
  /\ step' = [step EXCEPT ![t] = IF left[t] = 0 THEN None ELSE xSerialPutChar[1]]

\* The put returns; vSerialPutString goes on with the next character, if any.
PutReturns(t) ==
  /\ left' = [left EXCEPT ![t] = @ - 1]
  /\ step' = [step EXCEPT ![t] = IF left[t] = 1 THEN None ELSE xSerialPutChar[1]]

\* Step s of the put is done.
Done(t, s) ==
  IF s = xSerialPutChar[2]
  THEN PutReturns(t)
  ELSE step' = [step EXCEPT ![t] = xSerialPutChar[2]] /\ UNCHANGED left

\* A task is in vSerialPutString.
Writing(t) == left[t] > 0

----------------------------------------------------------------------------
Init ==
  /\ RTOSRunningFlag = FALSE
  /\ xCharsForTx = <<>> /\ xRxedChars = <<>>
  /\ TXEIE = FALSE /\ TDR = None /\ RDR = None
  /\ step = [t \in Writers |-> None]
  /\ left = [t \in Writers |-> 0]
  /\ refused = [t \in Writers |-> 0]
  /\ offered = 0 /\ accepted = <<>> /\ wire = <<>>
  /\ sent = 0 /\ pushed = 0

\* main, before the scheduler runs: the character is on the line when
\* HAL_USART_Transmit returns.
xSerialPutCharPolling ==
  /\ ~RTOSRunningFlag /\ offered < OfferBound
  /\ offered' = offered + 1
  /\ accepted' = Append(accepted, offered')
  /\ wire' = Append(wire, offered')
  /\ UNCHANGED <<RTOSRunningFlag, xCharsForTx, TXEIE, TDR, rx, tasks>>

\* main starts the scheduler.
serialSetRTOSRunningFlag ==
  /\ ~RTOSRunningFlag
  /\ RTOSRunningFlag' = TRUE
  /\ UNCHANGED <<tx, rx, tasks, offered, accepted>>

\* A task starts to write a string of n characters.
vSerialPutString(t, n) ==
  /\ RTOSRunningFlag /\ ~Writing(t)
  /\ offered < OfferBound
  /\ left' = [left EXCEPT ![t] = n]
  /\ refused' = [refused EXCEPT ![t] = 0]
  /\ step' = [step EXCEPT ![t] = xSerialPutChar[1]]
  /\ UNCHANGED <<RTOSRunningFlag, tx, rx, offered, accepted>>

\* xQueueSend takes the character.
QueueSend(t) ==
  /\ step[t] = "QueueSend"
  /\ Len(xCharsForTx) < TxLength
  /\ offered' = offered + 1
  /\ accepted' = Append(accepted, offered')
  /\ xCharsForTx' = Append(xCharsForTx, offered')
  /\ Done(t, "QueueSend")
  /\ UNCHANGED <<RTOSRunningFlag, TXEIE, TDR, wire, rx, refused>>

\* The queue is full and stays so for the block time: pdFAIL, the interrupt
\* is not enabled.  vSerialPutString ignores the result.
QueueFull(t) ==
  /\ step[t] = "QueueSend"
  /\ Len(xCharsForTx) = TxLength
  /\ offered' = offered + 1
  /\ refused' = [refused EXCEPT ![t] = @ + 1]
  /\ PutReturns(t)
  /\ UNCHANGED <<RTOSRunningFlag, tx, rx, accepted>>

EnableTXE(t) ==
  /\ step[t] = "EnableTXE"
  /\ TXEIE' = TRUE
  /\ Done(t, "EnableTXE")
  /\ UNCHANGED <<RTOSRunningFlag, xCharsForTx, TDR, wire, rx, refused, offered, accepted>>

\* The receive loop of taskRPCSerialIn, which is also the task that answers:
\* it receives while it is not writing.
xSerialGetChar ==
  /\ RTOSRunningFlag /\ ~Writing(Reader)
  /\ xRxedChars # <<>>
  /\ pushed' = Head(xRxedChars)
  /\ xRxedChars' = Tail(xRxedChars)
  /\ UNCHANGED <<RTOSRunningFlag, tx, RDR, sent, tasks, offered, accepted>>

----------------------------------------------------------------------------
(* The interrupt handler and the USART.                                    *)

\* Mutant of Transmit: the interrupt is disabled with the last character.
StopAtLast ==
  IF Len(xCharsForTx) > 1
  THEN TDR' = Head(xCharsForTx) /\ xCharsForTx' = Tail(xCharsForTx) /\ UNCHANGED TXEIE
  ELSE TXEIE' = FALSE /\ UNCHANGED <<xCharsForTx, TDR>>

\* Mutant of Transmit: the interrupt stays enabled.
NeverStop ==
  IF xCharsForTx # <<>>
  THEN TDR' = Head(xCharsForTx) /\ xCharsForTx' = Tail(xCharsForTx) /\ UNCHANGED TXEIE
  ELSE UNCHANGED <<xCharsForTx, TDR, TXEIE>>

\* The part of the handler for TXE.
Transmit ==
  IF xCharsForTx # <<>>
  THEN TDR' = Head(xCharsForTx) /\ xCharsForTx' = Tail(xCharsForTx) /\ UNCHANGED TXEIE
  ELSE TXEIE' = FALSE /\ UNCHANGED <<xCharsForTx, TDR>>

\* Mutant of Received: a full queue makes room for the character.
DropOldest ==
  IF Len(xRxedChars) < RxLength
  THEN Append(xRxedChars, RDR)
  ELSE Append(Tail(xRxedChars), RDR)

\* Mutant of Received: as with xQueueSendToFrontFromISR.
QueuedInFront ==
  IF Len(xRxedChars) < RxLength THEN <<RDR>> \o xRxedChars ELSE xRxedChars

\* xQueueSendFromISR: a full queue does not take the character.
Received ==
  IF Len(xRxedChars) < RxLength THEN Append(xRxedChars, RDR) ELSE xRxedChars

\* Mutant of TxInterrupt: the flag is not looked at, though the handler may
\* have been called for a received character.
SourceOnly == TXEIE

TxInterrupt == TXEIE /\ TDR = None
RxInterrupt == RDR # None

USART_IRQHandler ==
  /\ TxInterrupt \/ RxInterrupt
  /\ IF TxInterrupt THEN Transmit ELSE UNCHANGED <<xCharsForTx, TXEIE, TDR>>
  /\ IF RxInterrupt
     THEN xRxedChars' = Received /\ RDR' = None
     ELSE UNCHANGED <<xRxedChars, RDR>>
  /\ UNCHANGED <<RTOSRunningFlag, wire, sent, pushed, tasks, offered, accepted>>

\* The USART has sent the character in DR.
LineOut ==
  /\ TDR # None
  /\ wire' = Append(wire, TDR)
  /\ TDR' = None
  /\ UNCHANGED <<RTOSRunningFlag, xCharsForTx, TXEIE, rx, tasks, offered, accepted>>

\* A character from the host; the USART keeps the earlier one if the handler
\* has not fetched it yet (an overrun).
LineIn ==
  /\ sent < HostBound
  /\ sent' = sent + 1
  /\ RDR' = IF RDR = None THEN sent' ELSE RDR
  /\ UNCHANGED <<RTOSRunningFlag, tx, xRxedChars, pushed, tasks, offered, accepted>>

----------------------------------------------------------------------------
Put(t) == QueueSend(t) \/ QueueFull(t) \/ EnableTXE(t)

Next ==
  \/ xSerialPutCharPolling \/ serialSetRTOSRunningFlag
  \/ \E t \in Writers, n \in 1 .. MaxString : vSerialPutString(t, n)
  \/ \E t \in Writers : Put(t)
  \/ xSerialGetChar
  \/ USART_IRQHandler \/ LineOut \/ LineIn

Spec == Init /\ [][Next]_vars

\* The USART works, its interrupt is served, main gets to the scheduler and
\* every task gets the processor again and again.  Nobody has to write, and
\* the reader has to receive only as long as it is not asked to write (strong
\* fairness: it comes back to its loop after each answer).
Fairness ==
  /\ WF_vars(USART_IRQHandler) /\ WF_vars(LineOut)
  /\ WF_vars(serialSetRTOSRunningFlag)
  /\ \A t \in Writers : WF_vars(Put(t))
  /\ SF_vars(xSerialGetChar)

FairSpec == Spec /\ Fairness

----------------------------------------------------------------------------
(* Properties.                                                             *)

Chars == Nat \ {0}

\* The queues stay within their lengths and a string within its own, and a task
\* is in xSerialPutChar exactly while it writes one (serial.c:134-200).
TypeOK ==
  /\ RTOSRunningFlag \in BOOLEAN /\ TXEIE \in BOOLEAN
  /\ xCharsForTx \in Seq(Chars) /\ Len(xCharsForTx) <= TxLength
  /\ xRxedChars \in Seq(Chars) /\ Len(xRxedChars) <= RxLength
  /\ TDR \in Chars \cup {None} /\ RDR \in Chars \cup {None}
  /\ left \in [Writers -> 0 .. MaxString]
  /\ refused \in [Writers -> 0 .. MaxString]
  /\ step \in [Writers -> {"QueueSend", "EnableTXE", None}]
  /\ \A t \in Writers : step[t] = None <=> ~Writing(t)
  /\ offered \in Nat /\ sent \in Nat /\ pushed \in Nat
  /\ accepted \in Seq(Chars) /\ wire \in Seq(Chars)

InDR == IF TDR = None THEN <<>> ELSE <<TDR>>

\* Every character the port has accepted, from whichever task and whether
\* before or after the scheduler was started, is on its way exactly once and in
\* the order of acceptance: on the line, then in DR, then in the queue.
NothingLostOrReordered == accepted = wire \o InDR \o xCharsForTx

\* The interrupt is never off while there is something to send and no task is
\* about to enable it: the handler disables it when it finds the queue empty,
\* which must not undo what a task that fills the queue has done.
NothingStranded ==
  xCharsForTx # <<>> => TXEIE \/ \E t \in Writers : step[t] = "EnableTXE"

\* What was accepted leaves the device, without any further put to push it out.
EveryAcceptedCharIsSent ==
  \A n \in 1 .. OfferBound : Len(accepted) >= n ~> Len(wire) >= n

\* The handler does not fire for ever: with nothing more to send the interrupt
\* of an empty DR is turned off.
InterruptCalmsDown ==
  []<>(TXEIE => xCharsForTx # <<>> \/ \E t \in Writers : Writing(t))

\* A character that has reached the receive queue is handed to the parser,
\* though the reader has to write in between (serial.c:316-325).
EveryQueuedCharIsParsed ==
  \A n \in 1 .. HostBound :
    (\E i \in 1 .. Len(xRxedChars) : xRxedChars[i] = n) ~> pushed = n

OutRDR == IF RDR = None THEN <<>> ELSE <<RDR>>

\* What the parser, the queue and DR hold is in the order of the host, each at
\* most once: a full queue and an overrun leave gaps, and nothing else is
\* changed by them (serial.c:316-325, 112-128).
ReceivesInOrder ==
  LET got == <<pushed>> \o xRxedChars \o OutRDR
  IN  \A i, j \in 1 .. Len(got) : i < j => got[i] < got[j]

\* phyPushDataBuffer returns RPC_SUCCESS after the string: "if the buffer has
\* been successfully sent".
SuccessMeansSent == \A t \in Writers : ~Writing(t) => refused[t] = 0

============================================================================
