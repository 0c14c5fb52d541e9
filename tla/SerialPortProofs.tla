-------------------------- MODULE SerialPortProofs --------------------------
(***************************************************************************)
(* Proofs about SerialPort, for any tasks, lengths of queues and strings.  *)
(***************************************************************************)
EXTENDS SerialPort, SequenceTheorems, TLAPS

----------------------------------------------------------------------------
(* Sequences.                                                              *)

LEMMA OneElement ==
  ASSUME NEW S, NEW c \in S
  PROVE  <<c>> \in Seq(S)
  OBVIOUS

LEMMA NoElement ==
  ASSUME NEW S
  PROVE  <<>> \in Seq(S)
  OBVIOUS

LEMMA QueuePop ==
  ASSUME NEW S, NEW q \in Seq(S), q # <<>>
  PROVE  Head(q) \in S /\ Tail(q) \in Seq(S) /\ Len(Tail(q)) = Len(q) - 1
  OBVIOUS

LEMMA HeadAndTail ==
  ASSUME NEW S, NEW q \in Seq(S), q # <<>>
  PROVE  q = <<Head(q)>> \o Tail(q)
  OBVIOUS

\* The head of the queue follows what is on the line.
LEMMA PopIsNext ==
  ASSUME NEW S, NEW a \in Seq(S), NEW q \in Seq(S), q # <<>>
  PROVE  (a \o <<>>) \o q = (a \o <<Head(q)>>) \o Tail(q)
<1>1. a \o <<>> = a
  BY ConcatEmptySeq
<1>2. <<Head(q)>> \in Seq(S) /\ Tail(q) \in Seq(S)
  BY QueuePop, OneElement
<1>3. (a \o <<Head(q)>>) \o Tail(q) = a \o (<<Head(q)>> \o Tail(q))
  BY <1>2, ConcatAssociative
<1> QED
  BY <1>1, <1>3, HeadAndTail

\* The character in DR follows what is on the line.
LEMMA SendIsNext ==
  ASSUME NEW S, NEW a \in Seq(S), NEW q \in Seq(S), NEW c \in S
  PROVE  (a \o <<c>>) \o q = (Append(a, c) \o <<>>) \o q
<1>1. Append(a, c) \in Seq(S) /\ Append(a, c) = a \o <<c>>
  BY AppendProperties, AppendIsConcat
<1>2. Append(a, c) \o <<>> = Append(a, c)
  BY <1>1, ConcatEmptySeq
<1> QED
  BY <1>1, <1>2

----------------------------------------------------------------------------
(* Types.                                                                  *)

\* The tasks' part of the types; no more characters can be refused than the
\* string still had when it was begun.
TasksOK ==
  /\ left \in [Writers -> 0 .. MaxString]
  /\ refused \in [Writers -> 0 .. MaxString]
  /\ step \in [Writers -> {"QueueSend", "EnableTXE", None}]
  /\ \A t \in Writers : step[t] = None <=> ~Writing(t)
  /\ \A t \in Writers : refused[t] + left[t] <= MaxString

\* The rest.
PortOK ==
  /\ RTOSRunningFlag \in BOOLEAN /\ TXEIE \in BOOLEAN
  /\ xCharsForTx \in Seq(Chars) /\ Len(xCharsForTx) <= TxLength
  /\ xRxedChars \in Seq(Chars) /\ Len(xRxedChars) <= RxLength
  /\ TDR \in Chars \cup {None} /\ RDR \in Chars \cup {None}
  /\ offered \in Nat /\ sent \in Nat /\ pushed \in Nat
  /\ accepted \in Seq(Chars) /\ wire \in Seq(Chars)

LEMMA TypeParts == TasksOK /\ PortOK => TypeOK
  BY DEF TypeOK, TasksOK, PortOK

LEMMA TasksInit == Init => TasksOK
  BY SerialAssumption DEF Init, TasksOK, Writing

LEMMA PortInit == Init => PortOK
<1>1. TxLength \in Nat /\ RxLength \in Nat
  BY SerialAssumption
<1>2. Len(<<>>) = 0 /\ <<>> \in Seq(Chars)
  BY NoElement
<1> SUFFICES ASSUME Init PROVE PortOK
  OBVIOUS
<1>3. Len(xCharsForTx) <= TxLength /\ Len(xRxedChars) <= RxLength
  BY <1>1, <1>2 DEF Init
<1>4. offered \in Nat /\ sent \in Nat /\ pushed \in Nat
  BY DEF Init
<1> QED
  BY <1>2, <1>3, <1>4, Zenon DEF Init, PortOK

\* After a put the task goes on with the next character or is done.
LEMMA PutsReturn ==
  ASSUME TasksOK, NEW t \in Writers, step[t] # None, PutReturns(t)
  PROVE  /\ left' \in [Writers -> 0 .. MaxString]
         /\ step' \in [Writers -> {"QueueSend", "EnableTXE", None}]
         /\ \A u \in Writers : step'[u] = None <=> ~(left'[u] > 0)
         /\ \A u \in Writers : left'[u] = IF u = t THEN left[u] - 1 ELSE left[u]
<1>1. /\ left[t] \in 1 .. MaxString
      /\ left' = [left EXCEPT ![t] = left[t] - 1]
      /\ step' = [step EXCEPT ![t] = IF left[t] = 1 THEN None ELSE "QueueSend"]
  BY SerialAssumption DEF TasksOK, PutReturns, Writing, xSerialPutChar
<1>2. left' \in [Writers -> 0 .. MaxString]
  BY <1>1, SerialAssumption DEF TasksOK
<1>3. step' \in [Writers -> {"QueueSend", "EnableTXE", None}]
  BY <1>1 DEF TasksOK
<1>4. ASSUME NEW u \in Writers
      PROVE  /\ step'[u] = None <=> ~(left'[u] > 0)
             /\ left'[u] = IF u = t THEN left[u] - 1 ELSE left[u]
  <2>1. CASE u = t
    BY <1>1, <2>1, SerialAssumption DEF TasksOK
  <2>2. CASE u # t
    <3>1. step'[u] = step[u] /\ left'[u] = left[u]
      BY <1>1, <2>2 DEF TasksOK
    <3> QED
      BY <2>2, <3>1 DEF TasksOK, Writing
  <2> QED
    BY <2>1, <2>2
<1> QED
  BY <1>2, <1>3, <1>4

LEMMA TasksStep == TasksOK /\ [Next]_vars => TasksOK'
<1> SUFFICES ASSUME TasksOK, [Next]_vars PROVE TasksOK'
  OBVIOUS
<1>1. ASSUME UNCHANGED tasks PROVE TasksOK'
  BY <1>1 DEF tasks, TasksOK, Writing
<1>2. ASSUME NEW t \in Writers, NEW n \in 1 .. MaxString, vSerialPutString(t, n)
      PROVE  TasksOK'
  <2>1. /\ left' = [left EXCEPT ![t] = n]
        /\ refused' = [refused EXCEPT ![t] = 0]
        /\ step' = [step EXCEPT ![t] = "QueueSend"]
    BY <1>2 DEF vSerialPutString, xSerialPutChar
  <2>2. /\ left' \in [Writers -> 0 .. MaxString]
        /\ refused' \in [Writers -> 0 .. MaxString]
        /\ step' \in [Writers -> {"QueueSend", "EnableTXE", None}]
    BY <2>1, SerialAssumption DEF TasksOK
  <2>3. ASSUME NEW u \in Writers
        PROVE  /\ step'[u] = None <=> ~(left'[u] > 0)
               /\ refused'[u] + left'[u] <= MaxString
    BY <2>1, SerialAssumption DEF TasksOK, Writing
  <2> QED
    BY <2>2, <2>3 DEF TasksOK, Writing
<1>3. ASSUME NEW t \in Writers, QueueSend(t) PROVE TasksOK'
  <2>1. /\ step[t] = "QueueSend" /\ UNCHANGED <<left, refused>>
        /\ step' = [step EXCEPT ![t] = "EnableTXE"]
    BY <1>3 DEF QueueSend, Done, xSerialPutChar
  <2> QED
    BY <2>1, SerialAssumption DEF TasksOK, Writing
<1>4. ASSUME NEW t \in Writers, EnableTXE(t) PROVE TasksOK'
  <2>1. step[t] = "EnableTXE" /\ UNCHANGED refused /\ PutReturns(t)
    BY <1>4 DEF EnableTXE, Done, xSerialPutChar
  <2>2. step[t] # None
    BY <2>1, SerialAssumption
  <2>3. ASSUME NEW u \in Writers
        PROVE  refused'[u] + left'[u] <= MaxString
    BY <2>1, <2>2, PutsReturn, SerialAssumption DEF TasksOK
  <2> QED
    BY <2>1, <2>2, <2>3, PutsReturn DEF TasksOK, Writing
<1>5. ASSUME NEW t \in Writers, QueueFull(t) PROVE TasksOK'
  <2>1. /\ step[t] # None /\ PutReturns(t)
        /\ refused' = [refused EXCEPT ![t] = refused[t] + 1]
    BY <1>5, SerialAssumption DEF QueueFull
  <2>2. left[t] > 0 /\ refused[t] + left[t] <= MaxString
    BY <2>1 DEF TasksOK, Writing
  <2>3. refused' \in [Writers -> 0 .. MaxString]
    BY <2>1, <2>2, SerialAssumption DEF TasksOK
  <2>4. ASSUME NEW u \in Writers
        PROVE  refused'[u] + left'[u] <= MaxString
    <3>1. left'[u] = IF u = t THEN left[u] - 1 ELSE left[u]
      BY <2>1, PutsReturn
    <3> QED
      BY <2>1, <3>1, SerialAssumption DEF TasksOK
  <2> QED
    BY <2>1, <2>3, <2>4, PutsReturn DEF TasksOK, Writing
<1>6. CASE UNCHANGED vars
  BY <1>1, <1>6 DEF vars
<1> QED
  BY <1>1, <1>2, <1>3, <1>4, <1>5, <1>6
     DEF Next, Put, xSerialPutCharPolling, serialSetRTOSRunningFlag, xSerialGetChar,
         USART_IRQHandler, LineOut, LineIn

LEMMA PortStep == PortOK /\ [Next]_vars => PortOK'
<1> SUFFICES ASSUME PortOK, [Next]_vars PROVE PortOK'
  OBVIOUS
<1> USE DEF Chars
<1>1. CASE xSerialPutCharPolling
  <2>1. /\ offered' = offered + 1
        /\ accepted' = Append(accepted, offered + 1)
        /\ wire' = Append(wire, offered + 1)
        /\ UNCHANGED <<RTOSRunningFlag, xCharsForTx, TXEIE, TDR, rx>>
    BY <1>1 DEF xSerialPutCharPolling
  <2>2. offered + 1 \in Chars
    BY DEF PortOK
  <2>3. accepted' \in Seq(Chars) /\ wire' \in Seq(Chars)
    BY <2>1, <2>2, AppendProperties DEF PortOK
  <2> QED
    BY <2>1, <2>2, <2>3 DEF PortOK, rx
<1>2. ASSUME UNCHANGED <<tx, rx, offered, accepted>>, RTOSRunningFlag' \in BOOLEAN
      PROVE  PortOK'
  BY <1>2 DEF PortOK, tx, rx
<1>3. ASSUME NEW t \in Writers, QueueSend(t) PROVE PortOK'
  <2>1. /\ offered' = offered + 1
        /\ accepted' = Append(accepted, offered + 1)
        /\ xCharsForTx' = Append(xCharsForTx, offered + 1)
        /\ Len(xCharsForTx) < TxLength
        /\ UNCHANGED <<RTOSRunningFlag, TXEIE, TDR, wire, rx>>
    BY <1>3 DEF QueueSend
  <2>2. offered + 1 \in Chars
    BY DEF PortOK
  <2>3. /\ accepted' \in Seq(Chars) /\ xCharsForTx' \in Seq(Chars)
        /\ Len(xCharsForTx') = Len(xCharsForTx) + 1 /\ Len(xCharsForTx) \in Nat
    BY <2>1, <2>2, AppendProperties DEF PortOK
  <2>4. Len(xCharsForTx') <= TxLength
    BY <2>1, <2>3, SerialAssumption
  <2> QED
    BY <2>1, <2>2, <2>3, <2>4 DEF PortOK, rx
<1>4. ASSUME NEW t \in Writers, QueueFull(t) PROVE PortOK'
  BY <1>4 DEF QueueFull, PortOK, tx, rx
<1>5. ASSUME NEW t \in Writers, EnableTXE(t) PROVE PortOK'
  BY <1>5 DEF EnableTXE, PortOK, rx
<1>6. CASE xSerialGetChar
  <2>1. /\ xRxedChars # <<>> /\ pushed' = Head(xRxedChars) /\ xRxedChars' = Tail(xRxedChars)
        /\ UNCHANGED <<RTOSRunningFlag, tx, RDR, sent, offered, accepted>>
    BY <1>6 DEF xSerialGetChar
  <2>2. /\ Head(xRxedChars) \in Chars /\ Tail(xRxedChars) \in Seq(Chars)
        /\ Len(Tail(xRxedChars)) = Len(xRxedChars) - 1 /\ Len(xRxedChars) \in Nat
    BY <2>1, QueuePop DEF PortOK
  <2>3. Len(xRxedChars') <= RxLength
    BY <2>1, <2>2, SerialAssumption DEF PortOK
  <2> QED
    BY <2>1, <2>2, <2>3 DEF PortOK, tx
<1>7. CASE USART_IRQHandler
  <2>1. /\ xCharsForTx' \in Seq(Chars) /\ Len(xCharsForTx') <= TxLength
        /\ TXEIE' \in BOOLEAN /\ TDR' \in Chars \cup {None}
    <3>1. CASE TxInterrupt /\ xCharsForTx # <<>>
      <4>1. TDR' = Head(xCharsForTx) /\ xCharsForTx' = Tail(xCharsForTx) /\ UNCHANGED TXEIE
        BY <1>7, <3>1 DEF USART_IRQHandler, Transmit
      <4>2. /\ Head(xCharsForTx) \in Chars /\ Tail(xCharsForTx) \in Seq(Chars)
            /\ Len(Tail(xCharsForTx)) = Len(xCharsForTx) - 1 /\ Len(xCharsForTx) \in Nat
        BY <3>1, QueuePop DEF PortOK
      <4>3. Len(xCharsForTx') <= TxLength
        BY <4>1, <4>2, SerialAssumption DEF PortOK
      <4> QED
        BY <4>1, <4>2, <4>3 DEF PortOK
    <3>2. CASE ~(TxInterrupt /\ xCharsForTx # <<>>)
      <4>1. UNCHANGED <<xCharsForTx, TDR>> /\ (TXEIE' = FALSE \/ TXEIE' = TXEIE)
        BY <1>7, <3>2 DEF USART_IRQHandler, Transmit
      <4> QED
        BY <4>1 DEF PortOK
    <3> QED
      BY <3>1, <3>2
  <2>2. /\ xRxedChars' \in Seq(Chars) /\ Len(xRxedChars') <= RxLength
        /\ RDR' \in Chars \cup {None}
    <3>1. CASE RxInterrupt /\ Len(xRxedChars) < RxLength
      <4>1. xRxedChars' = Append(xRxedChars, RDR) /\ RDR' = None
        BY <1>7, <3>1 DEF USART_IRQHandler, Received
      <4>2. RDR \in Chars
        BY <3>1 DEF RxInterrupt, PortOK
      <4>3. /\ xRxedChars' \in Seq(Chars) /\ Len(xRxedChars') = Len(xRxedChars) + 1
            /\ Len(xRxedChars) \in Nat
        BY <4>1, <4>2, AppendProperties DEF PortOK
      <4> QED
        BY <3>1, <4>1, <4>3, SerialAssumption
    <3>2. CASE ~(RxInterrupt /\ Len(xRxedChars) < RxLength)
      <4>1. xRxedChars' = xRxedChars /\ (RDR' = None \/ RDR' = RDR)
        BY <1>7, <3>2 DEF USART_IRQHandler, Received
      <4> QED
        BY <4>1 DEF PortOK
    <3> QED
      BY <3>1, <3>2
  <2> QED
    BY <1>7, <2>1, <2>2 DEF USART_IRQHandler, PortOK
<1>8. CASE LineOut
  <2>1. /\ TDR # None /\ wire' = Append(wire, TDR) /\ TDR' = None
        /\ UNCHANGED <<RTOSRunningFlag, xCharsForTx, TXEIE, rx, offered, accepted>>
    BY <1>8 DEF LineOut
  <2>2. wire' \in Seq(Chars)
    BY <2>1, AppendProperties DEF PortOK
  <2> QED
    BY <2>1, <2>2 DEF PortOK, rx
<1>9. CASE LineIn
  BY <1>9 DEF LineIn, PortOK, tx
<1>10. CASE UNCHANGED vars
  BY <1>2, <1>10 DEF vars, PortOK
<1> QED
  BY <1>1, <1>2, <1>3, <1>4, <1>5, <1>6, <1>7, <1>8, <1>9, <1>10
     DEF Next, Put, serialSetRTOSRunningFlag, vSerialPutString, PortOK

\* The queues stay within their lengths and a task has a step of a put to do
\* exactly while it writes, for any number of tasks.
THEOREM TypeCorrect == Spec => []TypeOK
  BY TasksInit, PortInit, TasksStep, PortStep, TypeParts, PTL DEF Spec

----------------------------------------------------------------------------
(* Transmission.                                                           *)

LEMMA NothingLostInit == Init => NothingLostOrReordered
<1>1. (<<>> \o <<>>) \o <<>> = <<>>
  OBVIOUS
<1> QED
  BY <1>1 DEF Init, NothingLostOrReordered, InDR

\* As long as main polls, nothing is in the queue and in DR.
PollingInv == ~RTOSRunningFlag => xCharsForTx = <<>> /\ TDR = None /\ ~TXEIE

LEMMA PollingInit == Init => PollingInv
  BY DEF Init, PollingInv

\* A task does not write before the scheduler runs.
IdleInv == ~RTOSRunningFlag => \A t \in Writers : step[t] = None

LEMMA IdleInit == Init => IdleInv
  BY DEF Init, IdleInv

LEMMA IdleStep == IdleInv /\ [Next]_vars => IdleInv'
<1> SUFFICES ASSUME IdleInv, [Next]_vars PROVE IdleInv'
  OBVIOUS
<1>1. ASSUME NEW t \in Writers, step[t] # None, UNCHANGED RTOSRunningFlag
      PROVE  IdleInv'
  BY <1>1 DEF IdleInv
<1>2. ASSUME NEW t \in Writers, Put(t) PROVE IdleInv'
  BY <1>1, <1>2, SerialAssumption DEF Put, QueueSend, QueueFull, EnableTXE
<1>3. ASSUME RTOSRunningFlag' = TRUE PROVE IdleInv'
  BY <1>3 DEF IdleInv
<1>4. ASSUME UNCHANGED <<RTOSRunningFlag, step>> PROVE IdleInv'
  BY <1>4 DEF IdleInv
<1>5. ASSUME NEW t \in Writers, NEW n \in 1 .. MaxString, vSerialPutString(t, n)
      PROVE  IdleInv'
  BY <1>5 DEF vSerialPutString, IdleInv
<1> QED
  BY <1>2, <1>3, <1>4, <1>5
     DEF Next, xSerialPutCharPolling, serialSetRTOSRunningFlag, xSerialGetChar,
         USART_IRQHandler, LineOut, LineIn, vars, tasks

LEMMA PollingStep == IdleInv /\ PollingInv /\ [Next]_vars => PollingInv'
<1> SUFFICES ASSUME IdleInv, PollingInv, [Next]_vars PROVE PollingInv'
  OBVIOUS
<1>1. ASSUME UNCHANGED <<RTOSRunningFlag, xCharsForTx, TDR, TXEIE>> PROVE PollingInv'
  BY <1>1 DEF PollingInv
<1>2. ASSUME RTOSRunningFlag' = TRUE PROVE PollingInv'
  BY <1>2 DEF PollingInv
<1>3. ASSUME NEW t \in Writers, Put(t) PROVE PollingInv'
  <2>1. step[t] # None /\ UNCHANGED RTOSRunningFlag
    BY <1>3, SerialAssumption DEF Put, QueueSend, QueueFull, EnableTXE
  <2> QED
    BY <2>1 DEF IdleInv, PollingInv
<1>4. CASE USART_IRQHandler
  BY <1>4 DEF USART_IRQHandler, TxInterrupt, PollingInv
<1>5. CASE LineOut
  BY <1>5 DEF LineOut, PollingInv
<1> QED
  BY <1>1, <1>2, <1>3, <1>4, <1>5
     DEF Next, xSerialPutCharPolling, serialSetRTOSRunningFlag, vSerialPutString,
         xSerialGetChar, LineIn, vars, tx

LEMMA NothingLostStep ==
  PortOK /\ PollingInv /\ NothingLostOrReordered /\ [Next]_vars => NothingLostOrReordered'
<1> SUFFICES ASSUME PortOK, PollingInv, NothingLostOrReordered, [Next]_vars
             PROVE  NothingLostOrReordered'
  OBVIOUS
<1>1. ASSUME UNCHANGED <<accepted, wire, TDR, xCharsForTx>> PROVE NothingLostOrReordered'
  BY <1>1 DEF NothingLostOrReordered, InDR
<1>2. InDR \in Seq(Chars) /\ <<>> \in Seq(Chars)
  BY OneElement, NoElement DEF InDR, PortOK
<1>3. offered + 1 \in Chars
  BY DEF PortOK, Chars
<1>4. CASE xSerialPutCharPolling
  <2>1. /\ accepted' = Append(accepted, offered + 1) /\ wire' = Append(wire, offered + 1)
        /\ UNCHANGED <<xCharsForTx, TDR>> /\ ~RTOSRunningFlag
    BY <1>4 DEF xSerialPutCharPolling
  <2>2. xCharsForTx = <<>> /\ InDR = <<>> /\ InDR' = <<>>
    BY <2>1 DEF PollingInv, InDR
  <2>3. wire \in Seq(Chars) /\ wire' \in Seq(Chars)
    BY <2>1, <1>3, AppendProperties DEF PortOK
  <2>4. accepted = wire
    BY <2>2, <2>3, ConcatEmptySeq DEF NothingLostOrReordered
  <2>5. (wire' \o <<>>) \o <<>> = wire'
    BY <2>3, ConcatEmptySeq
  <2> QED
    BY <2>1, <2>2, <2>4, <2>5 DEF NothingLostOrReordered
<1>5. ASSUME NEW t \in Writers, QueueSend(t) PROVE NothingLostOrReordered'
  <2>1. /\ accepted' = Append(accepted, offered + 1)
        /\ xCharsForTx' = Append(xCharsForTx, offered + 1)
        /\ UNCHANGED <<TDR, wire>>
    BY <1>5 DEF QueueSend
  <2>2. wire \o InDR \in Seq(Chars) /\ xCharsForTx \in Seq(Chars)
    BY <1>2, ConcatProperties DEF PortOK
  <2>3. Append((wire \o InDR) \o xCharsForTx, offered + 1)
          = (wire \o InDR) \o Append(xCharsForTx, offered + 1)
    <3>1. /\ <<offered + 1>> \in Seq(Chars)
          /\ (wire \o InDR) \o xCharsForTx \in Seq(Chars)
      BY <1>3, <2>2, OneElement, ConcatProperties
    <3>2. /\ Append((wire \o InDR) \o xCharsForTx, offered + 1)
               = ((wire \o InDR) \o xCharsForTx) \o <<offered + 1>>
          /\ Append(xCharsForTx, offered + 1) = xCharsForTx \o <<offered + 1>>
      BY <1>3, <2>2, <3>1, AppendIsConcat
    <3>3. ((wire \o InDR) \o xCharsForTx) \o <<offered + 1>>
            = (wire \o InDR) \o (xCharsForTx \o <<offered + 1>>)
      BY <2>2, <3>1, ConcatAssociative
    <3> QED
      BY <3>2, <3>3
  <2> QED
    BY <2>1, <2>3 DEF NothingLostOrReordered, InDR
<1>6. ASSUME NEW t \in Writers, QueueFull(t) \/ EnableTXE(t) PROVE NothingLostOrReordered'
  BY <1>1, <1>6 DEF QueueFull, EnableTXE, tx
<1>7. CASE USART_IRQHandler
  <2>1. CASE TxInterrupt /\ xCharsForTx # <<>>
    <3>1. /\ TDR = None /\ TDR' = Head(xCharsForTx) /\ xCharsForTx' = Tail(xCharsForTx)
          /\ UNCHANGED <<wire, accepted>>
      BY <1>7, <2>1 DEF USART_IRQHandler, Transmit, TxInterrupt
    <3>2. Head(xCharsForTx) # None
      BY <2>1, QueuePop, SerialAssumption DEF PortOK, Chars
    <3>3. InDR = <<>> /\ InDR' = <<Head(xCharsForTx)>>
      BY <3>1, <3>2 DEF InDR
    <3>4. (wire \o <<>>) \o xCharsForTx = (wire \o <<Head(xCharsForTx)>>) \o Tail(xCharsForTx)
      BY <2>1, PopIsNext DEF PortOK
    <3> QED
      BY <3>1, <3>3, <3>4 DEF NothingLostOrReordered
  <2>2. CASE ~(TxInterrupt /\ xCharsForTx # <<>>)
    BY <1>1, <1>7, <2>2 DEF USART_IRQHandler, Transmit
  <2> QED
    BY <2>1, <2>2
<1>8. CASE LineOut
  <2>1. /\ TDR # None /\ wire' = Append(wire, TDR) /\ TDR' = None
        /\ UNCHANGED <<xCharsForTx, accepted>>
    BY <1>8 DEF LineOut
  <2>2. InDR = <<TDR>> /\ InDR' = <<>> /\ TDR \in Chars
    BY <2>1 DEF InDR, PortOK
  <2>3. (wire \o <<TDR>>) \o xCharsForTx = (Append(wire, TDR) \o <<>>) \o xCharsForTx
    BY <2>2, SendIsNext DEF PortOK
  <2> QED
    BY <2>1, <2>2, <2>3 DEF NothingLostOrReordered
<1> QED
  BY <1>1, <1>4, <1>5, <1>6, <1>7, <1>8
     DEF Next, Put, serialSetRTOSRunningFlag, vSerialPutString, xSerialGetChar, LineIn, vars, tx

\* Whatever the tasks and the interrupt do in between, what was accepted is on
\* the line, in DR or in the queue, once and in order.
THEOREM TransmitsInOrder == Spec => []NothingLostOrReordered
  BY TasksInit, PortInit, TasksStep, PortStep, IdleInit, IdleStep, PollingInit, PollingStep,
     NothingLostInit, NothingLostStep, PTL DEF Spec

\* For any number of tasks, the interrupt is on while there is something to
\* send, or a task is about to turn it on.
THEOREM TransmitterNeverStranded == Spec => []NothingStranded
<1>1. Init => NothingStranded
  BY DEF Init, NothingStranded
<1>2. TasksOK /\ NothingStranded /\ [Next]_vars => NothingStranded'
  <2> SUFFICES ASSUME TasksOK, NothingStranded, [Next]_vars PROVE NothingStranded'
    OBVIOUS
  <2>1. ASSUME NEW t \in Writers, step'[t] = "EnableTXE" PROVE NothingStranded'
    BY <2>1 DEF NothingStranded
  <2>2. ASSUME TXEIE' = TRUE PROVE NothingStranded'
    BY <2>2 DEF NothingStranded
  <2>3. ASSUME UNCHANGED <<xCharsForTx, TXEIE>>,
               \A t \in Writers : step[t] = "EnableTXE" => step'[t] = "EnableTXE"
        PROVE  NothingStranded'
    BY <2>3 DEF NothingStranded
  <2>4. ASSUME NEW t \in Writers, QueueSend(t) PROVE NothingStranded'
    <3>1. step' = [step EXCEPT ![t] = "EnableTXE"]
      BY <2>4 DEF QueueSend, Done, xSerialPutChar
    <3> QED
      BY <2>1, <3>1 DEF TasksOK
  <2>5. ASSUME NEW t \in Writers, QueueFull(t) PROVE NothingStranded'
    <3>1. /\ UNCHANGED <<xCharsForTx, TXEIE>> /\ step[t] = "QueueSend"
          /\ \A u \in Writers : u # t => step'[u] = step[u]
      BY <2>5 DEF QueueFull, PutReturns, tx, TasksOK
    <3> QED
      BY <2>3, <3>1
  <2>6. ASSUME NEW t \in Writers, EnableTXE(t) PROVE NothingStranded'
    BY <2>2, <2>6 DEF EnableTXE
  <2>7. ASSUME NEW t \in Writers, NEW n \in 1 .. MaxString, vSerialPutString(t, n)
        PROVE  NothingStranded'
    <3>1. /\ UNCHANGED <<xCharsForTx, TXEIE>> /\ step[t] = None
          /\ \A u \in Writers : u # t => step'[u] = step[u]
      BY <2>7 DEF vSerialPutString, tx, TasksOK
    <3> QED
      BY <2>3, <3>1, SerialAssumption
  <2>8. CASE USART_IRQHandler
    <3>1. CASE xCharsForTx = <<>>
      <4>1. xCharsForTx' = <<>>
        BY <2>8, <3>1 DEF USART_IRQHandler, Transmit
      <4> QED
        BY <4>1 DEF NothingStranded
    <3>2. CASE xCharsForTx # <<>> /\ TxInterrupt
      BY <2>2, <2>8, <3>2 DEF USART_IRQHandler, Transmit, TxInterrupt
    <3>3. CASE xCharsForTx # <<>> /\ ~TxInterrupt
      BY <2>3, <2>8, <3>3 DEF USART_IRQHandler, tasks
    <3> QED
      BY <3>1, <3>2, <3>3
  <2>9. ASSUME UNCHANGED <<xCharsForTx, TXEIE, step>> PROVE NothingStranded'
    BY <2>3, <2>9
  <2> QED
    BY <2>4, <2>5, <2>6, <2>7, <2>8, <2>9
       DEF Next, Put, xSerialPutCharPolling, serialSetRTOSRunningFlag, xSerialGetChar,
           LineOut, LineIn, vars, tx, tasks
<1> QED
  BY <1>1, <1>2, TasksInit, TasksStep, PTL DEF Spec

----------------------------------------------------------------------------
(* Reception.                                                              *)

\* What ReceivesInOrder says, part by part; nothing is ahead of the host.
ReceptionInv ==
  /\ pushed <= sent
  /\ \A i, j \in 1 .. Len(xRxedChars) : i < j => xRxedChars[i] < xRxedChars[j]
  /\ \A i \in 1 .. Len(xRxedChars) : pushed < xRxedChars[i] /\ xRxedChars[i] <= sent
  /\ RDR # None =>
       /\ pushed < RDR /\ RDR <= sent
       /\ \A i \in 1 .. Len(xRxedChars) : xRxedChars[i] < RDR

LEMMA ReceptionInit == Init => ReceptionInv
  BY DEF Init, ReceptionInv

LEMMA ReceptionStep == PortOK /\ ReceptionInv /\ [Next]_vars => ReceptionInv'
<1> SUFFICES ASSUME PortOK, ReceptionInv, [Next]_vars PROVE ReceptionInv'
  OBVIOUS
<1>1. ASSUME UNCHANGED <<xRxedChars, RDR, sent, pushed>> PROVE ReceptionInv'
  BY <1>1 DEF ReceptionInv
<1>2. /\ xRxedChars \in Seq(Nat) /\ Len(xRxedChars) \in Nat
      /\ RDR \in Nat \cup {None} /\ sent \in Nat /\ pushed \in Nat
      /\ \A i \in 1 .. Len(xRxedChars) : xRxedChars[i] \in Nat
  BY DEF PortOK, Chars
<1>3. CASE xSerialGetChar
  <2>1. /\ xRxedChars # <<>> /\ pushed' = xRxedChars[1] /\ xRxedChars' = Tail(xRxedChars)
        /\ UNCHANGED <<RDR, sent>>
    BY <1>3 DEF xSerialGetChar
  <2>2. /\ Len(xRxedChars') = Len(xRxedChars) - 1 /\ Len(xRxedChars) >= 1
        /\ \A i \in 1 .. Len(xRxedChars') :
             i + 1 \in 1 .. Len(xRxedChars) /\ xRxedChars'[i] = xRxedChars[i + 1]
    BY <1>2, <2>1
  <2> QED
    BY <1>2, <2>1, <2>2 DEF ReceptionInv
<1>4. CASE USART_IRQHandler
  <2>1. CASE RxInterrupt /\ Len(xRxedChars) < RxLength
    <3>1. /\ xRxedChars' = Append(xRxedChars, RDR) /\ RDR' = None
          /\ RDR # None /\ UNCHANGED <<sent, pushed>>
      BY <1>4, <2>1 DEF USART_IRQHandler, Received, RxInterrupt
    <3>2. /\ Len(xRxedChars') = Len(xRxedChars) + 1
          /\ xRxedChars'[Len(xRxedChars) + 1] = RDR
          /\ \A i \in 1 .. Len(xRxedChars) : xRxedChars'[i] = xRxedChars[i]
      BY <1>2, <3>1
    <3>3. \A i \in 1 .. Len(xRxedChars') : i # Len(xRxedChars) + 1 => i \in 1 .. Len(xRxedChars)
      BY <1>2, <3>2
    <3> QED
      BY <1>2, <3>1, <3>2, <3>3 DEF ReceptionInv
  <2>2. CASE ~(RxInterrupt /\ Len(xRxedChars) < RxLength)
    <3>1. UNCHANGED <<xRxedChars, sent, pushed>> /\ (RDR' = None \/ RDR' = RDR)
      BY <1>4, <2>2 DEF USART_IRQHandler, Received
    <3> QED
      BY <3>1 DEF ReceptionInv
  <2> QED
    BY <2>1, <2>2
<1>5. CASE LineIn
  <2>1. /\ sent' = sent + 1 /\ UNCHANGED <<xRxedChars, pushed>>
        /\ RDR' = RDR \/ (RDR = None /\ RDR' = sent + 1)
    BY <1>5 DEF LineIn
  <2> QED
    BY <1>2, <2>1 DEF ReceptionInv
<1> QED
  BY <1>1, <1>3, <1>4, <1>5
     DEF Next, Put, xSerialPutCharPolling, serialSetRTOSRunningFlag, vSerialPutString,
         QueueSend, QueueFull, EnableTXE, LineOut, vars, rx

LEMMA ReceptionParts == PortOK /\ ReceptionInv => ReceivesInOrder
<1> SUFFICES ASSUME PortOK, ReceptionInv PROVE ReceivesInOrder
  OBVIOUS
<1> DEFINE q == xRxedChars
           got == <<pushed>> \o q \o OutRDR
<1>1. /\ q \in Seq(Nat) /\ Len(q) \in Nat /\ \A i \in 1 .. Len(q) : q[i] \in Nat
      /\ RDR \in Nat \cup {None} /\ pushed \in Nat
  BY DEF PortOK, Chars
<1>2. /\ OutRDR \in Seq(Nat) /\ Len(OutRDR) = IF RDR = None THEN 0 ELSE 1
      /\ RDR # None => OutRDR[1] = RDR
  BY <1>1 DEF OutRDR
<1>3. /\ <<pushed>> \o q \in Seq(Nat) /\ Len(<<pushed>> \o q) = Len(q) + 1
      /\ (<<pushed>> \o q)[1] = pushed
      /\ \A i \in 2 .. (Len(q) + 1) : (<<pushed>> \o q)[i] = q[i - 1]
  BY <1>1, OneElement, ConcatProperties
<1>4. /\ Len(got) = Len(q) + 1 + Len(OutRDR)
      /\ \A i \in 1 .. (Len(q) + 1) : got[i] = (<<pushed>> \o q)[i]
      /\ \A i \in 1 .. Len(got) : i > Len(q) + 1 => got[i] = OutRDR[i - (Len(q) + 1)]
  <2>1. ASSUME NEW h \in Seq(Nat), NEW r \in Seq(Nat)
        PROVE  /\ Len(h \o r) = Len(h) + Len(r)
               /\ \A i \in 1 .. Len(h) : (h \o r)[i] = h[i]
               /\ \A i \in 1 .. Len(h \o r) : i > Len(h) => (h \o r)[i] = r[i - Len(h)]
    BY ConcatProperties
  <2>2. PICK h \in Seq(Nat) : h = <<pushed>> \o q
    BY <1>3
  <2>3. Len(h) = Len(q) + 1 /\ got = h \o OutRDR
    BY <1>3, <2>2
  <2>4. /\ Len(h \o OutRDR) = Len(h) + Len(OutRDR)
        /\ \A i \in 1 .. Len(h) : (h \o OutRDR)[i] = h[i]
        /\ \A i \in 1 .. Len(h \o OutRDR) :
             i > Len(h) => (h \o OutRDR)[i] = OutRDR[i - Len(h)]
    BY <1>2, <2>1
  <2> HIDE DEF got
  <2> QED
    BY <2>2, <2>3, <2>4, Zenon
<1>5. /\ got[1] = pushed
      /\ \A i \in 2 .. (Len(q) + 1) : i - 1 \in 1 .. Len(q) /\ got[i] = q[i - 1]
      /\ \A i \in 1 .. Len(got) :
           i > Len(q) + 1 => i = Len(q) + 2 /\ RDR # None /\ got[i] = RDR
  BY <1>1, <1>2, <1>3, <1>4
<1> HIDE DEF got
<1>6. ASSUME NEW i \in 1 .. Len(got), NEW j \in 1 .. Len(got), i < j PROVE got[i] < got[j]
  <2>1. Len(got) \in Nat
    BY <1>1, <1>2, <1>4
  <2>2. CASE j <= Len(q) + 1
    <3>1. j \in 2 .. (Len(q) + 1) /\ (i = 1 \/ i \in 2 .. (Len(q) + 1))
      BY <1>1, <1>6, <2>1, <2>2
    <3>2. ASSUME i # 1 PROVE i - 1 \in 1 .. Len(q) /\ got[i] = q[i - 1] /\ i - 1 < j - 1
      BY <1>1, <1>5, <1>6, <2>1, <3>1, <3>2
    <3>3. j - 1 \in 1 .. Len(q) /\ got[j] = q[j - 1]
      BY <1>5, <3>1
    <3> QED
      BY <1>5, <3>2, <3>3 DEF ReceptionInv
  <2>3. CASE j > Len(q) + 1
    <3>1. i = 1 \/ i \in 2 .. (Len(q) + 1)
      BY <1>1, <1>5, <1>6, <2>1, <2>3
    <3>2. RDR # None /\ got[j] = RDR
      BY <1>5, <2>3
    <3> QED
      BY <1>1, <1>5, <3>1, <3>2 DEF ReceptionInv
  <2> QED
    BY <1>1, <2>1, <2>2, <2>3
<1> QED
  BY <1>6 DEF ReceivesInOrder, got

\* For any lengths of the queue and whatever the host sends meanwhile, the parser
\* gets the characters in the order of the host, each at most once: those a full
\* queue or an overrun drops are missing, and the others stay as they are.
THEOREM ReceptionInOrder == Spec => []ReceivesInOrder
  BY PortInit, PortStep, ReceptionInit, ReceptionStep, ReceptionParts, PTL DEF Spec

============================================================================
