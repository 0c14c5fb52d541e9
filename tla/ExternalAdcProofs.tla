------------------------- MODULE ExternalAdcProofs -------------------------
(***************************************************************************)
(* Proofs about ExternalAdc, for buffers, records and recordings of every  *)
(* size: the types, the count of the halves of the buffer (on which the    *)
(* phase between the DMA and the task depends), the recording as a run of  *)
(* chunks, and the scans from the words of the buffer to the recording:    *)
(*                                                                         *)
(*   TypeOK, HalvesInv           =>  the word read is the one processed    *)
(*   that and ScanInv            =>  ScanInv' for the records assembled    *)
(*   RecordingInv and ScanInv    =>  RecordingIsGapless                    *)
(***************************************************************************)
EXTENDS ExternalAdc, Integers, TLAPS

----------------------------------------------------------------------------
(* Division.                                                               *)

\* The halves that have completed after one more word.
LEMMA OneMoreWord ==
  ASSUME NEW h \in Nat \ {0}, NEW n \in Nat
  PROVE  /\ (n + 1) \div h \in Nat /\ n \div h \in Nat
         /\ (n + 1) % h = 0 => (n + 1) \div h = (n \div h) + 1
         /\ (n + 1) % h # 0 => (n + 1) \div h = n \div h
  BY SMT

\* Complete halves do not hold more words than there are.
LEMMA WholeHalves ==
  ASSUME NEW h \in Nat \ {0}, NEW n \in Nat, NEW q \in Nat, q <= n \div h
  PROVE  q * h <= n
<1>1. n \div h \in Nat /\ (n \div h) * h <= n
  BY SMT
<1>2. q * h <= (n \div h) * h
  BY <1>1, SMT
<1> QED
  BY <1>1, <1>2, SMT

LEMMA RemainderIsSmall ==
  ASSUME NEW h \in Nat \ {0}, NEW n \in Nat
  PROVE  n % h \in Nat /\ n % h <= n /\ n % h <= h - 1
  BY SMT

----------------------------------------------------------------------------
(* Types.                                                                  *)

LEMMA WordsAreNumbers ==
  ASSUME produced \in Nat, NEW slot \in Nat
  PROVE  adc_input_buffer(slot) \in Nat \cup {None}
<1>1. CASE slot < produced
  <2>1. SIZE \in Nat \ {0} /\ produced - 1 - slot \in Nat
    BY <1>1, ExternalAdcAssumption DEF SIZE
  <2>2. /\ (produced - 1 - slot) % SIZE \in Nat
        /\ (produced - 1 - slot) % SIZE <= produced - 1 - slot
    BY <2>1, RemainderIsSmall
  <2>3. produced - 1 - ((produced - 1 - slot) % SIZE) \in Nat
    BY <1>1, <2>1, <2>2
  <2> QED
    BY <1>1, <2>3 DEF adc_input_buffer
<1>2. CASE ~(slot < produced)
  BY <1>2 DEF adc_input_buffer
<1> QED
  BY <1>1, <1>2

LEMMA ChannelsAreKnown ==
  ASSUME NEW word \in Nat \cup {None}
  PROVE  Channel(word) \in 0 .. LAST
<1>1. 0 \in 0 .. LAST
  BY ExternalAdcAssumption DEF LAST
<1>2. ASSUME word \in Nat PROVE (word + OFFSET) % CHANNELS \in 0 .. LAST
  BY <1>2, RemainderIsSmall, ExternalAdcAssumption DEF LAST
<1> QED
  BY <1>1, <1>2 DEF Channel

\* A chunk that is stored keeps the recording a recording.
LEMMA StoredChunks ==
  ASSUME TypeOK, NEW chunk \in Seq(Records), StoreChunk(chunk)
  PROVE  /\ adc_channels_complete' \in [0 .. (CHUNKS - 1) -> Chunks \cup {None}]
         /\ write_index' \in 0 .. CHUNKS
<1>1. CASE write_index < CHUNKS
  <2>1. [nr |-> assembled + 1, records |-> chunk] \in Chunks
    BY DEF TypeOK, Chunks
  <2> QED
    BY <1>1, <2>1, ExternalAdcAssumption DEF StoreChunk, TypeOK
<1>2. CASE ~(write_index < CHUNKS)
  BY <1>2 DEF StoreChunk, TypeOK
<1> QED
  BY <1>1, <1>2

LEMMA RecordsDone ==
  ASSUME TypeOK, NEW record \in Records, RecordDone(record)
  PROVE  /\ adc_channels' \in Seq(Records) /\ Len(adc_channels') < RECORDS
         /\ assembled' \in Nat
         /\ adc_channels_complete' \in [0 .. (CHUNKS - 1) -> Chunks \cup {None}]
         /\ write_index' \in 0 .. CHUNKS
<1> DEFINE chunk == Append(adc_channels, record)
<1>1. chunk \in Seq(Records)
  BY DEF TypeOK
<1>2. CASE Len(chunk) < RECORDS
  BY <1>1, <1>2 DEF RecordDone, TypeOK
<1>3. CASE ~(Len(chunk) < RECORDS)
  <2>1. adc_channels' = <<>> /\ assembled' = assembled + 1 /\ StoreChunk(chunk)
    BY <1>3 DEF RecordDone
  <2>2. Len(adc_channels') < RECORDS /\ adc_channels' \in Seq(Records)
    BY <2>1, ExternalAdcAssumption
  <2>3. assembled' \in Nat
    BY <2>1 DEF TypeOK
  <2> QED
    BY <1>1, <2>1, <2>2, <2>3, StoredChunks
<1> QED
  BY <1>2, <1>3

LEMMA TypeInit == Init => TypeOK
  BY ExternalAdcAssumption DEF Init, TypeOK, Records, LAST

LEMMA TypeStep == TypeOK /\ [Next]_vars => TypeOK'
<1> SUFFICES ASSUME TypeOK, [Next]_vars PROVE TypeOK'
  OBVIOUS
<1>1. CASE Transfer
  <2>1. /\ produced' = produced + 1
        /\ overrun' = (overrun \/ produced' > Processed + SIZE)
        /\ irq' = TRUE \/ irq' = irq
        /\ lost' = lost + 1 \/ lost' = lost
        /\ UNCHANGED <<semaphore, reader, recorder, read_index, startedAt>>
    BY <1>1 DEF Transfer
  <2>2. produced' \in Nat /\ lost' \in Nat
    BY <2>1 DEF TypeOK
  <2>3. overrun' \in BOOLEAN /\ irq' \in BOOLEAN
    BY <2>1, Zenon DEF TypeOK
  <2> QED
    BY <2>1, <2>2, <2>3, Zenon DEF TypeOK, reader, recorder
<1>2. CASE GiveFromISR
  <2>1. /\ irq' = FALSE /\ semaphore' = TRUE
        /\ lost' = lost + 1 \/ lost' = lost
        /\ UNCHANGED <<produced, overrun, reader, recorder, read_index, startedAt>>
    BY <1>2 DEF GiveFromISR
  <2>2. lost' \in Nat
    BY <2>1 DEF TypeOK
  <2> QED
    BY <2>1, <2>2, Zenon DEF TypeOK, reader, recorder
<1>3. CASE TakeHalf
  BY <1>3, ExternalAdcAssumption DEF TakeHalf, TypeOK, dma, recorder
<1>4. CASE ProcessWord
  <2> DEFINE word == adc_input_buffer(read_buffer_start_index + i)
             record == [data_record EXCEPT ![Channel(word)] = word]
  <2>1. /\ data_record' = record
        /\ IF IsLastChannel(Channel(word)) THEN RecordDone(record) ELSE UNCHANGED recorder
        /\ IF i + 1 < HALF
           THEN i' = i + 1 /\ UNCHANGED read_buffer_start_index
           ELSE i' = None /\ read_buffer_start_index' = NextStart
        /\ UNCHANGED <<dma, sync, taken, read_index, startedAt>>
        /\ i \in 0 .. (HALF - 1)
    BY <1>4 DEF ProcessWord, TypeOK
  <2>2. read_buffer_start_index + i \in Nat
    BY <2>1, ExternalAdcAssumption DEF TypeOK
  <2>3. word \in Nat \cup {None}
    BY <2>2, WordsAreNumbers DEF TypeOK
  <2>4. record \in Records
    BY <2>3, ChannelsAreKnown DEF TypeOK, Records
  <2>5. /\ adc_channels' \in Seq(Records) /\ Len(adc_channels') < RECORDS
        /\ assembled' \in Nat
        /\ adc_channels_complete' \in [0 .. (CHUNKS - 1) -> Chunks \cup {None}]
        /\ write_index' \in 0 .. CHUNKS
    <3>1. CASE IsLastChannel(Channel(word))
      BY <2>1, <2>4, <3>1, RecordsDone
    <3>2. CASE ~IsLastChannel(Channel(word))
      BY <2>1, <3>2 DEF recorder, TypeOK
    <3> QED
      BY <3>1, <3>2
  <2>6. i' \in 0 .. (HALF - 1) \cup {None} /\ read_buffer_start_index' \in {0, HALF}
    BY <2>1, ExternalAdcAssumption DEF NextStart, SIZE, TypeOK
  <2> QED
    BY <2>1, <2>4, <2>5, <2>6 DEF TypeOK, dma, sync
<1>5. CASE extadc_start_acquire_sample_data
  BY <1>5, ExternalAdcAssumption DEF extadc_start_acquire_sample_data, TypeOK, dma, sync, reader
<1>6. CASE extadc_reset_sample_data_readpointer
  BY <1>6, ExternalAdcAssumption
     DEF extadc_reset_sample_data_readpointer, TypeOK, dma, sync, reader, recorder
<1>7. CASE extadc_get_sample_data
  BY <1>7, ExternalAdcAssumption DEF extadc_get_sample_data, TypeOK, dma, sync, reader, recorder
<1>8. CASE UNCHANGED vars
  BY <1>8 DEF vars, dma, sync, reader, recorder, TypeOK
<1> QED
  BY <1>1, <1>2, <1>3, <1>4, <1>5, <1>6, <1>7, <1>8 DEF Next

\* The indices of the task, of the recording and of its reader stay in their
\* arrays, for buffers and recordings of every size.
THEOREM TypeCorrect == Spec => []TypeOK
  BY TypeInit, TypeStep, PTL DEF Spec

----------------------------------------------------------------------------
(* The halves of the buffer.                                               *)

Pending(b) == IF b THEN 1 ELSE 0

\* Every half that completed was taken, is signalled, is about to be, or its
\* signal was lost; and the half the task is at follows from those taken.
HalvesInv ==
  /\ produced \div HALF = taken + Pending(semaphore) + Pending(irq) + lost
  /\ i = None => read_buffer_start_index = HALF * (taken % 2)
  /\ i # None => read_buffer_start_index = HALF * ((taken + 1) % 2)

LEMMA HalvesInit == Init => HalvesInv
<1>1. 0 \div HALF = 0 /\ HALF * (0 % 2) = 0
  BY ExternalAdcAssumption, SMT
<1> QED
  BY <1>1 DEF Init, HalvesInv, Pending

\* What leaves the DMA, the signals and the task's place alone.
LEMMA HalvesKept ==
  ASSUME HalvesInv, UNCHANGED <<dma, sync, taken, read_buffer_start_index, i>>
  PROVE  HalvesInv'
  BY DEF HalvesInv, dma, sync, Pending

LEMMA HalvesStep == TypeOK /\ HalvesInv /\ [Next]_vars => HalvesInv'
<1> SUFFICES ASSUME TypeOK, HalvesInv, [Next]_vars PROVE HalvesInv'
  OBVIOUS
<1>1. CASE Transfer
  <2>1. /\ produced' = produced + 1
        /\ produced' % HALF = 0 => irq' = TRUE /\ lost' = IF irq THEN lost + 1 ELSE lost
        /\ produced' % HALF # 0 => irq' = irq /\ lost' = lost
        /\ UNCHANGED <<semaphore, taken, read_buffer_start_index, i>>
    BY <1>1 DEF Transfer, reader
  <2>2. /\ produced' % HALF = 0 => produced' \div HALF = (produced \div HALF) + 1
        /\ produced' % HALF # 0 => produced' \div HALF = produced \div HALF
    BY <2>1, OneMoreWord, ExternalAdcAssumption DEF TypeOK
  <2>3. Pending(irq') + lost' = Pending(irq) + lost + IF produced' % HALF = 0 THEN 1 ELSE 0
    BY <2>1 DEF Pending, TypeOK
  <2>4. /\ lost \in Nat /\ lost' \in Nat /\ taken \in Nat
        /\ Pending(irq) \in Nat /\ Pending(irq') \in Nat /\ Pending(semaphore) \in Nat
    BY <2>1 DEF Pending, TypeOK
  <2>5. produced' \div HALF = taken + Pending(semaphore) + Pending(irq') + lost'
    BY <2>2, <2>3, <2>4 DEF HalvesInv
  <2> QED
    BY <2>1, <2>5 DEF HalvesInv
<1>2. CASE GiveFromISR
  BY <1>2 DEF GiveFromISR, HalvesInv, Pending, TypeOK, reader
<1>3. CASE TakeHalf
  <2>1. /\ i = None /\ semaphore /\ semaphore' = FALSE
        /\ taken' = taken + 1 /\ i' = 0
        /\ UNCHANGED <<produced, irq, lost, read_buffer_start_index>>
    BY <1>3 DEF TakeHalf, Ready, dma
  <2>2. taken \in Nat /\ (taken + 1 + 1) % 2 = taken % 2
    BY SMT DEF TypeOK
  <2>3. produced' \div HALF = taken' + Pending(semaphore') + Pending(irq') + lost'
    BY <2>1, <2>2 DEF HalvesInv, Pending, TypeOK
  <2>4. i' # None
    BY <2>1, ExternalAdcAssumption
  <2>5. read_buffer_start_index' = HALF * ((taken' + 1) % 2)
    BY <2>1, <2>2 DEF HalvesInv
  <2> QED
    BY <2>3, <2>4, <2>5 DEF HalvesInv
<1>4. CASE ProcessWord
  <2>1. /\ i # None /\ i \in 0 .. (HALF - 1) /\ taken \in Nat
        /\ i + 1 < HALF => i' = i + 1 /\ read_buffer_start_index' = read_buffer_start_index
        /\ ~(i + 1 < HALF) => i' = None /\ read_buffer_start_index' = NextStart
        /\ UNCHANGED <<produced, irq, semaphore, lost, taken>>
    BY <1>4 DEF ProcessWord, dma, sync, TypeOK
  <2>2. CASE i + 1 < HALF
    <3>1. i' # None
      BY <2>1, <2>2, ExternalAdcAssumption
    <3> QED
      BY <2>1, <2>2, <3>1 DEF HalvesInv
  <2>3. CASE ~(i + 1 < HALF)
    <3>1. taken % 2 \in {0, 1} /\ (taken + 1) % 2 = 1 - (taken % 2)
      BY <2>1, SMT
    <3>2. read_buffer_start_index = HALF * (1 - (taken % 2))
      BY <2>1, <3>1 DEF HalvesInv
    <3>3. NextStart = HALF * (taken % 2)
      BY <3>1, <3>2, ExternalAdcAssumption DEF NextStart, SIZE
    <3> QED
      BY <2>1, <2>3, <3>3 DEF HalvesInv
  <2> QED
    BY <2>2, <2>3
<1>5. CASE extadc_start_acquire_sample_data
  BY <1>5, HalvesKept DEF extadc_start_acquire_sample_data, reader
<1>6. CASE extadc_reset_sample_data_readpointer
  BY <1>6, HalvesKept DEF extadc_reset_sample_data_readpointer, reader
<1>7. CASE extadc_get_sample_data
  BY <1>7, HalvesKept DEF extadc_get_sample_data, reader
<1>8. CASE UNCHANGED vars
  BY <1>8, HalvesKept DEF vars, reader
<1> QED
  BY <1>1, <1>2, <1>3, <1>4, <1>5, <1>6, <1>7, <1>8 DEF Next

LEMMA NotAhead == TypeOK /\ HalvesInv => NeverAhead
<1> SUFFICES ASSUME TypeOK, HalvesInv PROVE NeverAhead
  OBVIOUS
<1>1. /\ taken \in Nat /\ lost \in Nat /\ produced \in Nat
      /\ Pending(irq) \in Nat /\ Pending(semaphore) \in Nat
  BY DEF TypeOK, Pending
<1>2. taken <= produced \div HALF
  BY <1>1 DEF HalvesInv
<1> QED
  BY <1>1, <1>2, WholeHalves, ExternalAdcAssumption DEF NeverAhead

\* No timing, and no number of lost or merged interrupts, lets the task process
\* a half more often than halves have completed.
THEOREM TaskNeverAhead == Spec => []NeverAhead
  BY NotAhead, TypeInit, TypeStep, HalvesInit, HalvesStep, PTL DEF Spec

\* The parity of the lost signals alone decides, for ever, whether the task
\* reads the half that is complete or the one that is being overwritten.
THEOREM PhaseIsParityOfLosses == Spec => []PhaseFollowsLostSignals
<1>1. TypeOK /\ HalvesInv => PhaseFollowsLostSignals
  <2> SUFFICES ASSUME TypeOK, HalvesInv, i = None, ~semaphore, ~irq
               PROVE  read_buffer_start_index = HALF * ((produced \div HALF) % 2)
                        <=> lost % 2 = 0
    BY DEF PhaseFollowsLostSignals
  <2>1. taken \in Nat /\ lost \in Nat
    BY DEF TypeOK
  <2>2. produced \div HALF = taken + lost
    BY <2>1 DEF HalvesInv, Pending
  <2>3. (taken + lost) % 2 = taken % 2 <=> lost % 2 = 0
    BY <2>1, SMT
  <2>4. taken % 2 \in {0, 1} /\ (taken + lost) % 2 \in {0, 1}
    BY <2>1, SMT
  <2>5. HALF * 0 = 0 /\ HALF * 1 = HALF /\ HALF # 0
    BY ExternalAdcAssumption, SMT
  <2>6. read_buffer_start_index = HALF * (taken % 2)
    BY DEF HalvesInv
  <2> QED
    BY <2>2, <2>3, <2>4, <2>5, <2>6, Zenon
<1> QED
  BY <1>1, TypeInit, TypeStep, HalvesInit, HalvesStep, PTL DEF Spec

----------------------------------------------------------------------------
(* The recording.                                                          *)

\* A recording that is not complete has missed no chunk since its start.
RecordingInv ==
  /\ RecordingIsOneRun
  /\ write_index < CHUNKS => assembled = startedAt + write_index

LEMMA RecordingInit == Init => RecordingInv
  BY ExternalAdcAssumption DEF Init, RecordingInv, RecordingIsOneRun

LEMMA RecordingKept ==
  ASSUME RecordingInv, UNCHANGED <<recorder, startedAt>>
  PROVE  RecordingInv'
  BY DEF RecordingInv, RecordingIsOneRun, recorder

LEMMA RecordingStores ==
  ASSUME TypeOK, RecordingInv,
         NEW chunk \in Seq(Records), StoreChunk(chunk),
         assembled' = assembled + 1, startedAt' = startedAt
  PROVE  RecordingInv'
<1>1. CASE write_index < CHUNKS
  <2> DEFINE stored == [nr |-> assembled + 1, records |-> chunk]
  <2>1. /\ adc_channels_complete' = [adc_channels_complete EXCEPT ![write_index] = stored]
        /\ write_index' = write_index + 1
    BY <1>1 DEF StoreChunk
  <2>2. /\ write_index \in 0 .. (CHUNKS - 1) /\ assembled \in Nat /\ startedAt \in Nat
        /\ assembled = startedAt + write_index
    BY <1>1, ExternalAdcAssumption DEF TypeOK, RecordingInv
  <2>3. ASSUME NEW j \in 0 .. (write_index' - 1)
        PROVE  adc_channels_complete'[j].nr = startedAt' + j + 1
    <3>1. j \in 0 .. (CHUNKS - 1)
      BY <2>1, <2>2, <2>3, ExternalAdcAssumption
    <3>2. CASE j = write_index
      <4>1. adc_channels_complete'[j] = stored
        BY <2>1, <3>1, <3>2 DEF TypeOK
      <4> QED
        BY <2>2, <3>2, <4>1
    <3>3. CASE j # write_index
      <4>1. adc_channels_complete'[j] = adc_channels_complete[j]
        BY <2>1, <3>1, <3>3 DEF TypeOK
      <4>2. j \in 0 .. (write_index - 1)
        BY <2>1, <2>2, <2>3, <3>3
      <4> QED
        BY <4>1, <4>2 DEF RecordingInv, RecordingIsOneRun
    <3> QED
      BY <3>2, <3>3
  <2>4. write_index' < CHUNKS => assembled' = startedAt' + write_index'
    BY <2>1, <2>2
  <2> QED
    BY <2>3, <2>4 DEF RecordingInv, RecordingIsOneRun
<1>2. CASE ~(write_index < CHUNKS)
  BY <1>2 DEF StoreChunk, RecordingInv, RecordingIsOneRun
<1> QED
  BY <1>1, <1>2

LEMMA RecordingStep == TypeOK /\ RecordingInv /\ [Next]_vars => RecordingInv'
<1> SUFFICES ASSUME TypeOK, RecordingInv, [Next]_vars PROVE RecordingInv'
  OBVIOUS
<1>1. CASE Transfer
  BY <1>1, RecordingKept DEF Transfer
<1>2. CASE GiveFromISR
  BY <1>2, RecordingKept DEF GiveFromISR
<1>3. CASE TakeHalf
  BY <1>3, RecordingKept DEF TakeHalf
<1>4. CASE ProcessWord
  <2> DEFINE word == adc_input_buffer(read_buffer_start_index + i)
             record == [data_record EXCEPT ![Channel(word)] = word]
             chunk == Append(adc_channels, record)
  <2>1. /\ startedAt' = startedAt /\ i \in 0 .. (HALF - 1)
        /\ IF IsLastChannel(Channel(word)) THEN RecordDone(record) ELSE UNCHANGED recorder
    BY <1>4 DEF ProcessWord, TypeOK
  <2>2. read_buffer_start_index + i \in Nat
    BY <2>1, ExternalAdcAssumption DEF TypeOK
  <2>3. word \in Nat \cup {None}
    BY <2>2, WordsAreNumbers DEF TypeOK
  <2>4. record \in Records
    BY <2>3, ChannelsAreKnown DEF TypeOK, Records
  <2>5. chunk \in Seq(Records)
    BY <2>4 DEF TypeOK
  <2>6. CASE IsLastChannel(Channel(word))
    <3>1. CASE Len(chunk) < RECORDS
      <4>1. UNCHANGED <<assembled, adc_channels_complete, write_index>>
        BY <2>1, <2>6, <3>1 DEF RecordDone
      <4> QED
        BY <2>1, <4>1 DEF RecordingInv, RecordingIsOneRun
    <3>2. CASE ~(Len(chunk) < RECORDS)
      <4>1. assembled' = assembled + 1 /\ StoreChunk(chunk)
        BY <2>1, <2>6, <3>2 DEF RecordDone
      <4> QED
        BY <2>1, <2>5, <4>1, RecordingStores
    <3> QED
      BY <3>1, <3>2
  <2>7. CASE ~IsLastChannel(Channel(word))
    BY <2>1, <2>7, RecordingKept
  <2> QED
    BY <2>6, <2>7
<1>5. CASE extadc_start_acquire_sample_data
  BY <1>5, ExternalAdcAssumption
     DEF extadc_start_acquire_sample_data, RecordingInv, RecordingIsOneRun, TypeOK
<1>6. CASE extadc_reset_sample_data_readpointer
  BY <1>6, RecordingKept DEF extadc_reset_sample_data_readpointer
<1>7. CASE extadc_get_sample_data
  BY <1>7, RecordingKept DEF extadc_get_sample_data
<1>8. CASE UNCHANGED vars
  BY <1>8, RecordingKept DEF vars
<1> QED
  BY <1>1, <1>2, <1>3, <1>4, <1>5, <1>6, <1>7, <1>8 DEF Next

\* What extadc_is_sample_data_complete announces is one run of chunks, all of
\* them assembled after the recording was started, whatever was lost before.
THEOREM RecordingsAreRuns == Spec => []RecordingIsOneRun
<1>1. RecordingInv => RecordingIsOneRun
  BY DEF RecordingInv
<1> QED
  BY <1>1, TypeInit, TypeStep, RecordingInit, RecordingStep, PTL DEF Spec
----------------------------------------------------------------------------
(* The scans.                                                              *)

LEMMA Division ==
  ASSUME NEW h \in Nat \ {0}, NEW n \in Nat
  PROVE  n \div h \in Nat /\ n % h \in 0 .. (h - 1) /\ n = (n \div h) * h + (n % h)
  BY SMT

\* Quotient and remainder are unique.
LEMMA RemainderIs ==
  ASSUME NEW h \in Nat \ {0}, NEW q \in Nat, NEW r \in 0 .. (h - 1)
  PROVE  (q * h + r) % h = r
<1> DEFINE n == q * h + r
           p == n \div h
<1>1. n \in Nat /\ p \in Nat /\ n % h \in 0 .. (h - 1) /\ n = p * h + (n % h)
  <2>1. n \in Nat
    BY SMT
  <2> QED
    BY <2>1, Division
<1>2. CASE p = q
  BY <1>1, <1>2, SMT
<1>3. CASE p < q
  <2>1. (p + 1) * h <= q * h /\ (p + 1) * h = p * h + h
    BY <1>1, <1>3, SMT
  <2> HIDE DEF p
  <2>2. p * h \in Int /\ q * h \in Int
    BY <1>1, SMT
  <2> QED
    BY <1>1, <2>1, <2>2, SMT
<1>4. CASE q < p
  <2>1. (q + 1) * h <= p * h /\ (q + 1) * h = q * h + h
    BY <1>1, <1>4, SMT
  <2> HIDE DEF p
  <2>2. p * h \in Int /\ q * h \in Int
    BY <1>1, SMT
  <2> QED
    BY <1>1, <2>1, <2>2, SMT
<1> QED
  BY <1>1, <1>2, <1>3, <1>4, SMT

\* The channels follow one another, the first one after the last.
LEMMA NextChannel ==
  ASSUME NEW w \in Nat
  PROVE  Channel(w + 1) = IF Channel(w) = LAST THEN 0 ELSE Channel(w) + 1
<1> DEFINE x == w + OFFSET
           q == x \div CHANNELS
           r == x % CHANNELS
<1>1. CHANNELS \in Nat \ {0} /\ x \in Nat /\ w + 1 + OFFSET = x + 1
  BY ExternalAdcAssumption
<1>2. q \in Nat /\ r \in 0 .. (CHANNELS - 1) /\ x = q * CHANNELS + r
  BY <1>1, Division
<1>3. w # None /\ w + 1 # None
  BY ExternalAdcAssumption
<1>4. Channel(w) = r /\ Channel(w + 1) = (x + 1) % CHANNELS
  BY <1>1, <1>3 DEF Channel
<1> HIDE DEF q, r
<1>5. q * CHANNELS \in Nat /\ (q + 1) * CHANNELS = q * CHANNELS + CHANNELS
  BY <1>1, <1>2, SMT
<1>6. CASE r = CHANNELS - 1
  <2>1. x + 1 = (q + 1) * CHANNELS + 0
    BY <1>1, <1>2, <1>5, <1>6
  <2>2. ((q + 1) * CHANNELS + 0) % CHANNELS = 0
    BY <1>1, <1>2, RemainderIs
  <2> QED
    BY <1>4, <1>6, <2>1, <2>2 DEF LAST
<1>7. CASE r # CHANNELS - 1
  <2>1. x + 1 = q * CHANNELS + (r + 1)
    BY <1>1, <1>2, <1>5
  <2>2. (q * CHANNELS + (r + 1)) % CHANNELS = r + 1
    <3>1. r + 1 \in 0 .. (CHANNELS - 1)
      BY <1>1, <1>2, <1>7
    <3> QED
      BY <1>1, <1>2, <3>1, RemainderIs, Zenon
  <2> QED
    BY <1>4, <1>7, <2>1, <2>2 DEF LAST
<1> QED
  BY <1>6, <1>7

\* The word of LAST in record n, counted from the first one.
WordOf(n) == (LAST - Channel(0)) + CHANNELS * n

\* The record is a whole scan, and the one whose turn it is.
IsRecord(record, n) == Whole(record) /\ record[LAST] = WordOf(n)

\* The record holds every channel's last word, of the words before p.
HoldsLastWords(record, p) ==
  \A c \in 0 .. LAST :
    \/ record[c] = None
    \/ record[c] + Channel(p) = IF c < Channel(p) THEN p + c ELSE p + c - CHANNELS

\* The chunk holds the records that belong in the chunk of its number.
IsChunk(chunk) ==
  /\ chunk.nr \in Nat \ {0}
  /\ Len(chunk.records) = RECORDS
  /\ \A k \in 1 .. RECORDS : IsRecord(chunk.records[k], (chunk.nr - 1) * RECORDS + (k - 1))

\* The number of records assembled so far.
RecordsDoneSoFar == assembled * RECORDS + Len(adc_channels)

\* The task is not overtaken, the records assembled from the words processed are
\* whole and in order, and the next one is about to be.
InTime ==
  /\ produced <= Processed + SIZE
  /\ HoldsLastWords(data_record, Processed)
  /\ Processed + (LAST - Channel(Processed)) = WordOf(RecordsDoneSoFar)
  /\ \A k \in 1 .. Len(adc_channels) :
       IsRecord(adc_channels[k], assembled * RECORDS + (k - 1))
  /\ \A j \in 0 .. (write_index - 1) : IsChunk(adc_channels_complete[j])

ScanInv ==
  /\ i # None => taken \in Nat \ {0}
  /\ ~overrun => InTime

LEMMA ProcessedIsNumber ==
  ASSUME TypeOK, ScanInv
  PROVE  Processed \in Nat
<1>1. CASE i = None
  <2>1. taken \in Nat /\ HALF \in Nat
    BY ExternalAdcAssumption DEF TypeOK
  <2>2. taken * HALF \in Nat
    BY <2>1, SMT
  <2> QED
    BY <1>1, <2>2 DEF Processed
<1>2. CASE i # None
  <2>1. taken - 1 \in Nat /\ HALF \in Nat /\ i \in Nat
    BY <1>2, ExternalAdcAssumption DEF TypeOK, ScanInv
  <2>2. (taken - 1) * HALF \in Nat
    BY <2>1, SMT
  <2> QED
    BY <1>2, <2>1, <2>2 DEF Processed
<1> QED
  BY <1>1, <1>2

\* As long as it is not overtaken, the task reads the words in their order, each
\* one once, wherever the DMA is.
LEMMA WordReadIsNext ==
  ASSUME TypeOK, HalvesInv, ScanInv, i # None, ~overrun
  PROVE  adc_input_buffer(read_buffer_start_index + i) = Processed
<1> DEFINE e == (taken + 1) % 2
           m == (taken - 1) \div 2
           slot == read_buffer_start_index + i
           d == produced - 1 - Processed
<1>1. /\ taken \in Nat \ {0} /\ produced \in Nat
      /\ HALF \in Nat \ {0} /\ i \in 0 .. (HALF - 1)
  BY ExternalAdcAssumption DEF TypeOK, ScanInv
<1>2. e \in 0 .. 1 /\ m \in Nat /\ taken - 1 = 2 * m + e
  BY <1>1, SMT
<1>3. read_buffer_start_index = HALF * e
  BY DEF HalvesInv
<1>4. Processed = (taken - 1) * HALF + i
  BY DEF Processed
<1> HIDE DEF e, m
<1>5. (taken - 1) * HALF = m * SIZE + HALF * e
  BY <1>1, <1>2, SMT DEF SIZE
<1>6. slot \in 0 .. (SIZE - 1)
  <2>1. CASE e = 0
    BY <1>1, <1>3, <2>1 DEF SIZE
  <2>2. CASE e = 1
    BY <1>1, <1>3, <2>2 DEF SIZE
  <2> QED
    BY <1>2, <2>1, <2>2
<1>7. m * SIZE \in Nat /\ SIZE \in Nat \ {0}
  BY <1>1, <1>2, SMT DEF SIZE
<1>8. Processed = m * SIZE + slot
  <2>1. HALF * e \in Nat
    BY <1>1, <1>2, SMT
  <2> QED
    BY <1>1, <1>3, <1>4, <1>5, <1>7, <2>1
<1>9. taken * HALF <= produced /\ taken * HALF = (taken - 1) * HALF + HALF
  BY <1>1, NotAhead, SMT DEF NeverAhead
<1>10. (taken - 1) * HALF \in Nat
  BY <1>1, SMT
<1>11. produced <= Processed + SIZE
  BY DEF ScanInv, InTime
<1> HIDE DEF slot
<1>12. d \in 0 .. (SIZE - 1)
  BY <1>1, <1>4, <1>7, <1>9, <1>10, <1>11
<1>13. slot < produced /\ produced - 1 - slot = m * SIZE + d
  BY <1>1, <1>6, <1>7, <1>8, <1>12
<1>14. (produced - 1 - slot) % SIZE = d
  BY <1>2, <1>7, <1>12, <1>13, RemainderIs
<1>15. produced - 1 - d = Processed
  BY <1>1, <1>6, <1>7, <1>8
<1> QED
  BY <1>13, <1>14, <1>15 DEF adc_input_buffer, slot
\* The word of a channel replaces its last one.
LEMMA WordRecorded ==
  ASSUME NEW p \in Nat, NEW record \in Records, HoldsLastWords(record, p)
  PROVE  HoldsLastWords([record EXCEPT ![Channel(p)] = p], p + 1)
<1> DEFINE after == [record EXCEPT ![Channel(p)] = p]
<1> SUFFICES ASSUME NEW c \in 0 .. LAST, after[c] # None
             PROVE  after[c] + Channel(p + 1)
                      = IF c < Channel(p + 1) THEN p + 1 + c ELSE p + 1 + c - CHANNELS
  BY DEF HoldsLastWords
<1>1. /\ Channel(p) \in 0 .. LAST /\ LAST = CHANNELS - 1
      /\ CHANNELS \in Nat \ {0} /\ None \notin Nat
  BY ChannelsAreKnown, ExternalAdcAssumption DEF LAST
<1>2. Channel(p + 1) = IF Channel(p) = LAST THEN 0 ELSE Channel(p) + 1
  BY NextChannel
<1>3. CASE c = Channel(p)
  <2>1. after[c] = p
    BY <1>3 DEF Records
  <2> QED
    BY <1>1, <1>2, <1>3, <2>1
<1>4. CASE c # Channel(p)
  <2>1. after[c] = record[c] /\ record[c] \in Nat
    BY <1>4 DEF Records
  <2>2. record[c] + Channel(p) = IF c < Channel(p) THEN p + c ELSE p + c - CHANNELS
    BY <1>1, <2>1 DEF HoldsLastWords
  <2> QED
    BY <1>1, <1>2, <1>4, <2>1, <2>2
<1> QED
  BY <1>3, <1>4

\* The record that the last channel's word completes is a whole scan.
LEMMA LastChannelCompletes ==
  ASSUME NEW p \in Nat, NEW record \in Records, HoldsLastWords(record, p), Channel(p) = LAST
  PROVE  /\ Whole([record EXCEPT ![LAST] = p])
         /\ [record EXCEPT ![LAST] = p][LAST] = p
<1> DEFINE after == [record EXCEPT ![LAST] = p]
<1>1. LAST \in 0 .. LAST /\ LAST = CHANNELS - 1 /\ None \notin Nat
  BY ExternalAdcAssumption DEF LAST
<1>2. after[LAST] = p
  BY <1>1 DEF Records
<1>3. ASSUME NEW c \in 0 .. LAST, after[c] # None
      PROVE  after[c] + (LAST - c) = after[LAST]
  <2>1. CASE c = LAST
    BY <1>1, <1>2, <2>1
  <2>2. CASE c # LAST
    <3>1. after[c] = record[c] /\ record[c] \in Nat
      BY <1>3, <2>2 DEF Records
    <3>2. record[c] + LAST = p + c
      BY <1>1, <2>2, <3>1 DEF HoldsLastWords
    <3> QED
      BY <1>1, <1>2, <3>1, <3>2
  <2> QED
    BY <2>1, <2>2
<1> QED
  BY <1>2, <1>3 DEF Whole

LEMMA ScanInit == Init => ScanInv
<1> SUFFICES ASSUME Init PROVE ScanInv
  OBVIOUS
<1>1. /\ HALF \in Nat \ {0} /\ RECORDS \in Nat \ {0} /\ CHANNELS \in Nat \ {0}
      /\ Channel(0) \in 0 .. LAST /\ LAST \in Nat
  BY ChannelsAreKnown, ExternalAdcAssumption DEF LAST
<1>2. Processed = 0
  BY <1>1, SMT DEF Init, Processed
<1>3. HoldsLastWords(data_record, 0)
  BY DEF Init, HoldsLastWords
<1>4. RecordsDoneSoFar = 0
  BY <1>1, SMT DEF Init, RecordsDoneSoFar
<1>5. WordOf(0) = LAST - Channel(0)
  BY <1>1, SMT DEF WordOf
<1>6. 0 .. (write_index - 1) = {} /\ 1 .. Len(adc_channels) = {}
  BY DEF Init
<1>7. produced <= 0 + SIZE
  BY <1>1 DEF Init, SIZE
<1>8. 0 + (LAST - Channel(0)) = LAST - Channel(0)
  BY <1>1
<1>9. InTime
  BY <1>2, <1>3, <1>4, <1>5, <1>6, <1>7, <1>8 DEF InTime
<1> QED
  BY <1>9 DEF ScanInv, Init

\* What leaves the words, the task's place and its records alone.
LEMMA ScanKept ==
  ASSUME ScanInv,
         UNCHANGED <<produced, overrun, reader, recorder>>
  PROVE  ScanInv'
  BY DEF ScanInv, InTime, HoldsLastWords, RecordsDoneSoFar, Processed, reader, recorder,
         IsChunk, IsRecord, Whole

LEMMA ScanTransfer ==
  ASSUME TypeOK, ScanInv, Transfer
  PROVE  ScanInv'
<1>1. /\ overrun' = (overrun \/ produced' > Processed + SIZE)
      /\ produced' = produced + 1
      /\ UNCHANGED <<taken, i, data_record, recorder>>
  BY DEF Transfer, reader
<1>2. Processed' = Processed
  BY <1>1 DEF Processed
<1>3. ASSUME ~overrun' PROVE InTime'
  <2>1. ~overrun /\ ~(produced' > Processed + SIZE)
    BY <1>1, <1>3, Zenon
  <2>2. Processed + SIZE \in Nat /\ produced' \in Nat
    BY <1>1, ProcessedIsNumber, ExternalAdcAssumption DEF TypeOK, SIZE
  <2>3. produced' <= Processed' + SIZE
    BY <1>2, <2>1, <2>2
  <2>4. InTime
    BY <2>1 DEF ScanInv
  <2> QED
    BY <1>1, <1>2, <2>3, <2>4
       DEF InTime, HoldsLastWords, RecordsDoneSoFar, IsChunk, IsRecord, Whole, recorder
<1> QED
  BY <1>1, <1>3 DEF ScanInv

LEMMA ScanTake ==
  ASSUME TypeOK, ScanInv, TakeHalf
  PROVE  ScanInv'
<1>1. /\ i = None /\ taken' = taken + 1 /\ i' = 0
      /\ UNCHANGED <<produced, overrun, data_record, recorder>>
  BY DEF TakeHalf, dma
<1>2. taken \in Nat /\ HALF \in Nat /\ i' # None
  BY <1>1, ExternalAdcAssumption DEF TypeOK
<1>3. Processed' = Processed
  <2>1. Processed = taken * HALF /\ Processed' = (taken' - 1) * HALF + i'
    BY <1>1, <1>2 DEF Processed
  <2>2. taken' - 1 = taken /\ taken * HALF \in Nat
    BY <1>1, <1>2, SMT
  <2> QED
    BY <1>1, <2>1, <2>2
<1>4. ~overrun => InTime'
  BY <1>1, <1>3
     DEF ScanInv, InTime, HoldsLastWords, RecordsDoneSoFar, IsChunk, IsRecord, Whole, recorder
<1> QED
  BY <1>1, <1>2, <1>4 DEF ScanInv
LEMMA OneMoreProcessed ==
  ASSUME TypeOK, ScanInv, ProcessWord
  PROVE  Processed' = Processed + 1
<1>1. /\ i # None /\ i \in 0 .. (HALF - 1) /\ taken' = taken
      /\ i + 1 < HALF => i' = i + 1
      /\ ~(i + 1 < HALF) => i' = None
      /\ taken \in Nat \ {0} /\ HALF \in Nat \ {0}
  BY ExternalAdcAssumption DEF ProcessWord, TypeOK, ScanInv
<1>2. Processed = (taken - 1) * HALF + i
  BY <1>1 DEF Processed
<1>3. (taken - 1) * HALF \in Nat /\ taken * HALF = (taken - 1) * HALF + HALF
  BY <1>1, SMT
<1>4. CASE i + 1 < HALF
  <2>1. i' = i + 1 /\ i' # None
    BY <1>1, <1>4, ExternalAdcAssumption
  <2>2. Processed' = (taken - 1) * HALF + (i + 1)
    BY <1>1, <2>1 DEF Processed
  <2> QED
    BY <1>1, <1>2, <1>3, <2>2
<1>5. CASE ~(i + 1 < HALF)
  <2>1. i + 1 = HALF /\ Processed' = taken * HALF
    BY <1>1, <1>5 DEF Processed
  <2> QED
    BY <1>1, <1>2, <1>3, <2>1
<1> QED
  BY <1>4, <1>5

\* A record that was completed joins those of its chunk, or ends the chunk.
LEMMA RecordsInOrder ==
  ASSUME TypeOK, InTime, NEW record \in Records, RecordDone(record),
         IsRecord(record, RecordsDoneSoFar)
  PROVE  /\ RecordsDoneSoFar' = RecordsDoneSoFar + 1
         /\ \A k \in 1 .. Len(adc_channels') :
              IsRecord(adc_channels'[k], assembled' * RECORDS + (k - 1))
         /\ \A j \in 0 .. (write_index' - 1) : IsChunk(adc_channels_complete'[j])
<1> DEFINE chunk == Append(adc_channels, record)
<1>1. /\ assembled \in Nat /\ RECORDS \in Nat \ {0}
      /\ adc_channels \in Seq(Records) /\ Len(adc_channels) \in Nat
      /\ Len(adc_channels) < RECORDS
      /\ assembled * RECORDS \in Nat
      /\ (assembled + 1) * RECORDS = assembled * RECORDS + RECORDS
  <2>1. assembled \in Nat /\ RECORDS \in Nat \ {0}
    BY ExternalAdcAssumption DEF TypeOK
  <2>2. assembled * RECORDS \in Nat /\ (assembled + 1) * RECORDS = assembled * RECORDS + RECORDS
    BY <2>1, SMT
  <2> QED
    BY <2>1, <2>2 DEF TypeOK
<1>2. chunk \in Seq(Records) /\ Len(chunk) = Len(adc_channels) + 1
  BY <1>1
<1>3. ASSUME NEW k \in 1 .. Len(chunk)
      PROVE  IsRecord(chunk[k], assembled * RECORDS + (k - 1))
  <2>1. CASE k = Len(chunk)
    <3>1. chunk[k] = record /\ assembled * RECORDS + (k - 1) = RecordsDoneSoFar
      BY <1>1, <1>2, <2>1 DEF RecordsDoneSoFar
    <3> QED
      BY <3>1
  <2>2. CASE k # Len(chunk)
    <3>1. k \in 1 .. Len(adc_channels) /\ chunk[k] = adc_channels[k]
      BY <1>1, <1>2, <2>2
    <3> QED
      BY <3>1 DEF InTime
  <2> QED
    BY <2>1, <2>2
<1> HIDE DEF chunk
<1>4. CASE Len(chunk) < RECORDS
  <2>1. adc_channels' = chunk /\ UNCHANGED <<assembled, adc_channels_complete, write_index>>
    BY <1>4 DEF RecordDone, chunk
  <2>2. RecordsDoneSoFar' = RecordsDoneSoFar + 1
    BY <1>1, <1>2, <2>1 DEF RecordsDoneSoFar
  <2> QED
    BY <1>3, <2>1, <2>2 DEF InTime
<1>5. CASE ~(Len(chunk) < RECORDS)
  <2> DEFINE stored == [nr |-> assembled + 1, records |-> chunk]
  <2>1. adc_channels' = <<>> /\ assembled' = assembled + 1 /\ StoreChunk(chunk)
    BY <1>5 DEF RecordDone, chunk
  <2>2. Len(chunk) = RECORDS
    BY <1>1, <1>2, <1>5
  <2>3. RecordsDoneSoFar' = RecordsDoneSoFar + 1
    <3>1. Len(adc_channels') = 0
      BY <2>1
    <3> QED
      BY <1>1, <1>2, <2>1, <2>2, <3>1 DEF RecordsDoneSoFar
  <2>4. IsChunk(stored)
    <3>1. stored.nr = assembled + 1 /\ stored.records = chunk /\ stored.nr - 1 = assembled
      BY <1>1
    <3>2. stored.nr \in Nat \ {0}
      BY <1>1
    <3> HIDE DEF stored
    <3> QED
      BY <1>3, <2>2, <3>1, <3>2 DEF IsChunk
  <2>5. ASSUME NEW j \in 0 .. (write_index' - 1) PROVE IsChunk(adc_channels_complete'[j])
    <3>1. /\ write_index \in 0 .. CHUNKS /\ CHUNKS \in Nat
          /\ write_index' = IF write_index < CHUNKS THEN write_index + 1 ELSE write_index
          /\ adc_channels_complete \in [0 .. (CHUNKS - 1) -> Chunks \cup {None}]
      BY <2>1, ExternalAdcAssumption DEF StoreChunk, TypeOK
    <3>2. CASE write_index < CHUNKS /\ j = write_index
      <4>1. adc_channels_complete'[j] = stored
        BY <2>1, <3>1, <3>2 DEF StoreChunk
      <4> QED
        BY <2>4, <4>1
    <3>3. CASE ~(write_index < CHUNKS /\ j = write_index)
      <4>1. adc_channels_complete'[j] = adc_channels_complete[j]
        BY <2>1, <2>5, <3>1, <3>3 DEF StoreChunk
      <4>2. j \in 0 .. (write_index - 1)
        BY <2>5, <3>1, <3>3
      <4> QED
        BY <4>1, <4>2 DEF InTime
    <3> QED
      BY <3>2, <3>3
  <2>6. 1 .. Len(adc_channels') = {}
    BY <2>1
  <2> QED
    BY <2>3, <2>5, <2>6
<1> QED
  BY <1>4, <1>5

LEMMA ScanProcess ==
  ASSUME TypeOK, HalvesInv, ScanInv, ProcessWord
  PROVE  ScanInv'
<1> DEFINE p == Processed
           word == adc_input_buffer(read_buffer_start_index + i)
           record == [data_record EXCEPT ![Channel(word)] = word]
<1>1. /\ i # None /\ taken' = taken /\ produced' = produced /\ overrun' = overrun
      /\ data_record' = record
      /\ IF IsLastChannel(Channel(word)) THEN RecordDone(record) ELSE UNCHANGED recorder
  BY DEF ProcessWord, dma
<1>2. taken' \in Nat \ {0}
  BY <1>1 DEF ScanInv
<1>3. ASSUME ~overrun' PROVE InTime'
  <2>1. InTime /\ ~overrun
    BY <1>1, <1>3 DEF ScanInv
  <2>2. word = p /\ p \in Nat /\ Processed' = p + 1
    BY <1>1, <2>1, WordReadIsNext, ProcessedIsNumber, OneMoreProcessed
  <2> HIDE DEF word
  <2>3. record = [data_record EXCEPT ![Channel(p)] = p] /\ data_record \in Records
    BY <2>2 DEF TypeOK
  <2>4. HoldsLastWords(data_record, p)
    BY <2>1 DEF InTime
  <2>5. record \in Records
    BY <2>2, <2>3, ChannelsAreKnown DEF Records
  <2>6. /\ Channel(p) \in 0 .. LAST /\ LAST = CHANNELS - 1 /\ CHANNELS \in Nat \ {0}
        /\ Channel(p + 1) = IF Channel(p) = LAST THEN 0 ELSE Channel(p) + 1
    BY <2>2, ChannelsAreKnown, NextChannel, ExternalAdcAssumption DEF LAST
  <2>7. HoldsLastWords(record, p + 1)
    BY <2>2, <2>3, <2>4, WordRecorded
  <2>8. p + (LAST - Channel(p)) = WordOf(RecordsDoneSoFar)
    BY <2>1 DEF InTime
  <2> HIDE DEF p, record
  <2>9. produced' <= (p + 1) + SIZE
    <3>1. produced <= p + SIZE /\ SIZE \in Nat /\ produced \in Nat
      BY <2>1, ExternalAdcAssumption DEF InTime, TypeOK, SIZE, p
    <3> QED
      BY <1>1, <2>2, <3>1
  <2>10. /\ (p + 1) + (LAST - Channel(p + 1)) = WordOf(RecordsDoneSoFar')
         /\ \A k \in 1 .. Len(adc_channels') :
              IsRecord(adc_channels'[k], assembled' * RECORDS + (k - 1))
         /\ \A j \in 0 .. (write_index' - 1) : IsChunk(adc_channels_complete'[j])
    <3>1. CASE Channel(p) = LAST
      <4>1. RecordDone(record)
        BY <1>1, <2>2, <3>1 DEF IsLastChannel
      <4>2. Whole(record) /\ record[LAST] = p
        BY <2>2, <2>3, <2>4, <3>1, LastChannelCompletes
      <4>3. p = WordOf(RecordsDoneSoFar)
        BY <2>2, <2>6, <2>8, <3>1
      <4>4. IsRecord(record, RecordsDoneSoFar)
        BY <4>2, <4>3 DEF IsRecord
      <4>5. /\ RecordsDoneSoFar' = RecordsDoneSoFar + 1
            /\ \A k \in 1 .. Len(adc_channels') :
                 IsRecord(adc_channels'[k], assembled' * RECORDS + (k - 1))
            /\ \A j \in 0 .. (write_index' - 1) : IsChunk(adc_channels_complete'[j])
        BY <2>1, <2>5, <4>1, <4>4, RecordsInOrder
      <4>6. WordOf(RecordsDoneSoFar') = p + CHANNELS
        <5>1. RecordsDoneSoFar \in Nat
          <6>1. assembled * RECORDS \in Nat
            BY ExternalAdcAssumption, SMT DEF TypeOK
          <6> QED
            BY <6>1 DEF TypeOK, RecordsDoneSoFar
        <5>2. /\ CHANNELS * (RecordsDoneSoFar + 1) = CHANNELS * RecordsDoneSoFar + CHANNELS
              /\ CHANNELS * RecordsDoneSoFar \in Nat
          BY <2>6, <5>1, SMT
        <5>3. Channel(0) \in 0 .. LAST
          BY ChannelsAreKnown
        <5> QED
          BY <2>6, <4>3, <4>5, <5>2, <5>3 DEF WordOf
      <4> QED
        BY <2>2, <2>6, <3>1, <4>5, <4>6
    <3>2. CASE Channel(p) # LAST
      <4>1. UNCHANGED <<adc_channels, assembled, adc_channels_complete, write_index>>
        BY <1>1, <2>2, <3>2 DEF IsLastChannel, recorder
      <4>2. RecordsDoneSoFar' = RecordsDoneSoFar
        BY <4>1 DEF RecordsDoneSoFar
      <4>3. (p + 1) + (LAST - Channel(p + 1)) = p + (LAST - Channel(p))
        BY <2>2, <2>6, <3>2
      <4> QED
        BY <2>1, <2>8, <4>1, <4>2, <4>3 DEF InTime
    <3> QED
      BY <3>1, <3>2
  <2> QED
    BY <1>1, <2>2, <2>7, <2>9, <2>10 DEF InTime
<1> QED
  BY <1>2, <1>3 DEF ScanInv
LEMMA ScanStep == TypeOK /\ HalvesInv /\ ScanInv /\ [Next]_vars => ScanInv'
<1> SUFFICES ASSUME TypeOK, HalvesInv, ScanInv, [Next]_vars PROVE ScanInv'
  OBVIOUS
<1>1. CASE Transfer
  BY <1>1, ScanTransfer
<1>2. CASE GiveFromISR
  BY <1>2, ScanKept DEF GiveFromISR
<1>3. CASE TakeHalf
  BY <1>3, ScanTake
<1>4. CASE ProcessWord
  BY <1>4, ScanProcess
<1>5. CASE extadc_start_acquire_sample_data
  <2>1. /\ write_index' = 0
        /\ UNCHANGED <<dma, reader, adc_channels, assembled, adc_channels_complete>>
    BY <1>5 DEF extadc_start_acquire_sample_data
  <2>2. 0 .. (write_index' - 1) = {}
    BY <2>1
  <2> QED
    BY <2>1, <2>2
       DEF ScanInv, InTime, HoldsLastWords, RecordsDoneSoFar, Processed, dma, reader, IsRecord,
           Whole
<1>6. CASE extadc_reset_sample_data_readpointer
  BY <1>6, ScanKept DEF extadc_reset_sample_data_readpointer, dma
<1>7. CASE extadc_get_sample_data
  BY <1>7, ScanKept DEF extadc_get_sample_data, dma
<1>8. CASE UNCHANGED vars
  BY <1>8, ScanKept DEF vars, dma
<1> QED
  BY <1>1, <1>2, <1>3, <1>4, <1>5, <1>6, <1>7, <1>8 DEF Next

\* The record of a chunk, counted from the first one of the recording.
LEMMA RecordsOfTheRecording ==
  ASSUME TypeOK, RecordingInv, ScanInv, ~overrun, extadc_is_sample_data_complete,
         NEW j \in 0 .. (CHUNKS - 1), NEW k \in 1 .. RECORDS
  PROVE  IsRecord(RecordAt(j, k), startedAt * RECORDS + (j * RECORDS + k - 1))
<1>1. /\ startedAt \in Nat /\ RECORDS \in Nat \ {0} /\ CHUNKS \in Nat \ {0}
      /\ write_index = CHUNKS
  BY ExternalAdcAssumption DEF TypeOK, extadc_is_sample_data_complete
<1>2. adc_channels_complete[j].nr = startedAt + j + 1
  BY <1>1 DEF RecordingInv, RecordingIsOneRun
<1>3. IsChunk(adc_channels_complete[j])
  BY <1>1 DEF ScanInv, InTime
<1>4. IsRecord(RecordAt(j, k), (adc_channels_complete[j].nr - 1) * RECORDS + (k - 1))
  BY <1>3 DEF IsChunk, RecordAt
<1>5. adc_channels_complete[j].nr - 1 = startedAt + j
  BY <1>1, <1>2
<1>6. /\ (startedAt + j) * RECORDS = startedAt * RECORDS + j * RECORDS
      /\ startedAt * RECORDS \in Nat /\ j * RECORDS \in Nat
  BY <1>1, SMT
<1>7. (startedAt + j) * RECORDS + (k - 1) = startedAt * RECORDS + (j * RECORDS + k - 1)
  BY <1>1, <1>6
<1> QED
  BY <1>4, <1>5, <1>7

\* A complete recording is whole scans, without a gap and without repetition, as
\* long as the DMA did not overtake the task: for every number of channels, every
\* size of the buffer, of the chunks and of the recording, whether or not they
\* divide one another, and however many signals were lost.
THEOREM RecordingsAreGapless == Spec => []RecordingIsGapless
<1>1. TypeOK /\ RecordingInv /\ ScanInv => RecordingIsGapless
  <2> SUFFICES ASSUME TypeOK, RecordingInv, ScanInv, ~overrun,
                      extadc_is_sample_data_complete,
                      NEW j \in 0 .. (CHUNKS - 1), NEW k \in 1 .. RECORDS
               PROVE  /\ Whole(RecordAt(j, k))
                      /\ RecordAt(j, k)[LAST]
                           = RecordAt(0, 1)[LAST] + CHANNELS * (j * RECORDS + k - 1)
    BY DEF RecordingIsGapless
  <2> DEFINE s == startedAt * RECORDS
             n == j * RECORDS + k - 1
  <2>1. /\ startedAt \in Nat /\ RECORDS \in Nat \ {0} /\ CHUNKS \in Nat \ {0}
        /\ CHANNELS \in Nat \ {0}
    BY ExternalAdcAssumption DEF TypeOK
  <2>2. s \in Nat /\ n \in Nat
    <3>1. j * RECORDS \in Nat /\ s \in Nat
      BY <2>1, SMT
    <3> QED
      BY <2>1, <3>1
  <2>3. IsRecord(RecordAt(j, k), s + n)
    BY <2>1, RecordsOfTheRecording
  <2>4. IsRecord(RecordAt(0, 1), s + 0)
    <3>1. 0 \in 0 .. (CHUNKS - 1) /\ 1 \in 1 .. RECORDS
      BY <2>1
    <3>2. IsRecord(RecordAt(0, 1), s + (0 * RECORDS + 1 - 1))
      BY <3>1, RecordsOfTheRecording
    <3>3. 0 * RECORDS + 1 - 1 = 0
      BY <2>1, SMT
    <3> QED
      BY <3>2, <3>3
  <2> HIDE DEF s, n
  <2>5. CHANNELS * (s + n) = CHANNELS * (s + 0) + CHANNELS * n
    BY <2>1, <2>2, SMT
  <2>6. /\ CHANNELS * (s + 0) \in Nat /\ CHANNELS * n \in Nat
        /\ LAST \in Nat /\ Channel(0) \in 0 .. LAST
    BY <2>1, <2>2, ChannelsAreKnown, SMT DEF LAST
  <2>7. WordOf(s + n) = WordOf(s + 0) + CHANNELS * n
    BY <2>5, <2>6 DEF WordOf
  <2> QED
    BY <2>3, <2>4, <2>7 DEF IsRecord, n
<1> QED
  BY <1>1, TypeInit, TypeStep, HalvesInit, HalvesStep, RecordingInit, RecordingStep,
     ScanInit, ScanStep, PTL DEF Spec
============================================================================
