---------------------------- MODULE ExternalAdc ----------------------------
(***************************************************************************)
(* The stream of samples of the external ADC, from the DMA through the     *)
(* interrupt and the binary semaphore to taskExternalADC, which assembles  *)
(* the words of its buffer to records and the records to chunks, and the   *)
(* recording of chunks that the RPC functions start and read out.          *)
(*                                                                         *)
(* A word is the number of its transfer: word w goes to slot w modulo the  *)
(* size of the buffer and belongs to channel w + OFFSET modulo CHANNELS,   *)
(* in ORDER_OF_ACQUISITION (the ADC answers OFFSET frames late).  A record *)
(* is the word last seen of every channel; what is calculated from it      *)
(* (differences of channels, calibration, averages) is left out.           *)
(*                                                                         *)
(* The task is interrupted between any two words, by the DMA, by tasks of  *)
(* its priority, which can hold it up for any time, and, more than the     *)
(* priorities allow, by the RPC functions.                                 *)
(***************************************************************************)
EXTENDS Naturals, Sequences

CONSTANTS
  CHANNELS,           (* CHANNEL_COUNT                              (14)   *)
  HALF,               (* RX_BUFFER_SIZE / 2                         (28)   *)
  RECORDS,            (* ADC_RECORDS_TO_BUFFER                      (32)   *)
  CHUNKS,             (* COMPLETE_RECORDS_CHUNK_COUNT              (128)   *)
  OFFSET,
  WordBound,          (* words transferred, a bound for the checking       *)
  None

ASSUME ExternalAdcAssumption ==
  /\ CHANNELS \in Nat \ {0} /\ HALF \in Nat \ {0}
  /\ RECORDS \in Nat \ {0} /\ CHUNKS \in Nat \ {0}
  /\ OFFSET \in Nat /\ WordBound \in Nat
  /\ None \notin Nat

VARIABLES
  produced,           (* words the DMA has transferred                     *)
  irq,                (* the interrupt of the DMA is pending               *)
  semaphore,          (* semaphore_adc_half_buffer_ready is given          *)
  lost,               (* halves that completed without a give of their own *)
  taken,              (* halves the task has begun to process              *)
  read_buffer_start_index,
  i,                  (* word of the half the task has come to, or None    *)
  overrun,            (* the DMA has replaced a word not processed yet     *)
  data_record,        (* last word of every channel                        *)
  adc_channels,       (* records of the chunk being assembled              *)
  assembled,          (* chunks assembled so far                           *)
  adc_channels_complete,
  write_index,        (* complete_records_chunk_write_index                *)
  read_index,         (* complete_records_chunk_read_index                 *)
  startedAt           (* chunks assembled when the recording was started   *)

dma == <<produced, irq, overrun>>
sync == <<semaphore, lost>>
reader == <<taken, read_buffer_start_index, i, data_record>>
recorder == <<adc_channels, assembled, adc_channels_complete, write_index>>
vars == <<dma, sync, reader, recorder, read_index, startedAt>>

SIZE == 2 * HALF
LAST == CHANNELS - 1

Records == [0 .. LAST -> Nat \cup {None}]
Chunks == [nr : Nat, records : Seq(Records)]

\* adc_input_buffer: the last word transferred to the slot, None as long as
\* there is none.
adc_input_buffer(slot) ==
  IF slot < produced THEN produced - 1 - ((produced - 1 - slot) % SIZE) ELSE None

\* An empty slot reads as 0, the first channel.
Channel(w) == IF w = None THEN 0 ELSE (w + OFFSET) % CHANNELS

----------------------------------------------------------------------------
Init ==
  /\ produced = 0 /\ irq = FALSE /\ overrun = FALSE
  /\ semaphore = FALSE /\ lost = 0
  /\ taken = 0 /\ read_buffer_start_index = 0 /\ i = None
  /\ data_record = [c \in 0 .. LAST |-> None]
  /\ adc_channels = <<>> /\ assembled = 0
  /\ adc_channels_complete = [j \in 0 .. (CHUNKS - 1) |-> None]
  /\ write_index = 0 /\ read_index = 0
  /\ startedAt = 0

\* Words the task has processed.
Processed == IF i = None THEN taken * HALF ELSE (taken - 1) * HALF + i

\* The DMA transfers a word.  At the end of either half it asks for its
\* interrupt; an interrupt that is pending already serves both halves.
Transfer ==
  /\ produced < WordBound
  /\ produced' = produced + 1
  /\ overrun' = (overrun \/ produced' > Processed + SIZE)
  /\ IF produced' % HALF = 0
     THEN irq' = TRUE /\ lost' = IF irq THEN lost + 1 ELSE lost
     ELSE UNCHANGED <<irq, lost>>
  /\ UNCHANGED <<semaphore, reader, recorder, read_index, startedAt>>

\* DMA1_Stream2_IRQHandler.  Giving a binary semaphore that has not been taken
\* has no effect.
GiveFromISR ==
  /\ irq
  /\ irq' = FALSE
  /\ semaphore' = TRUE
  /\ lost' = IF semaphore THEN lost + 1 ELSE lost
  /\ UNCHANGED <<produced, overrun, reader, recorder, read_index, startedAt>>

\* Mutant of Ready: a timeout of xSemaphoreTake is taken for a half.
ReadyOrTimeout == TRUE

Ready == semaphore

\* xSemaphoreTake returns pdTRUE.
TakeHalf ==
  /\ i = None /\ Ready
  /\ semaphore' = FALSE
  /\ taken' = taken + 1
  /\ i' = 0
  /\ UNCHANGED <<dma, lost, read_buffer_start_index, data_record, recorder,
                 read_index, startedAt>>

\* The critical section at the end of a chunk.
StoreChunk(chunk) ==
  IF write_index < CHUNKS
  THEN /\ adc_channels_complete' =
            [adc_channels_complete EXCEPT
               ![write_index] = [nr |-> assembled + 1, records |-> chunk]]
       /\ write_index' = write_index + 1
  ELSE UNCHANGED <<adc_channels_complete, write_index>>

\* A record is appended to the chunk.
RecordDone(record) ==
  LET chunk == Append(adc_channels, record)
  IN  IF Len(chunk) < RECORDS
      THEN adc_channels' = chunk /\ UNCHANGED <<assembled, adc_channels_complete, write_index>>
      ELSE adc_channels' = <<>> /\ assembled' = assembled + 1 /\ StoreChunk(chunk)

\* Mutant of IsLastChannel: the record is taken when its first channel is seen.
IsFirstChannel(c) == c = 0

IsLastChannel(c) == c = LAST

\* Mutant of NextStart: the second half is never read.
FirstHalfOnly == 0

\* The half that is read next.
NextStart ==
  IF read_buffer_start_index + HALF >= SIZE THEN 0 ELSE read_buffer_start_index + HALF

\* One turn of the loop over the half.
ProcessWord ==
  /\ i # None
  /\ LET word == adc_input_buffer(read_buffer_start_index + i)
         record == [data_record EXCEPT ![Channel(word)] = word]
     IN  /\ data_record' = record
         /\ IF IsLastChannel(Channel(word)) THEN RecordDone(record) ELSE UNCHANGED recorder
  /\ IF i + 1 < HALF
     THEN i' = i + 1 /\ UNCHANGED read_buffer_start_index
     ELSE i' = None /\ read_buffer_start_index' = NextStart
  /\ UNCHANGED <<dma, sync, taken, read_index, startedAt>>

\* Mutant of extadc_start_acquire_sample_data: the index of the reader is reset.
StartReading ==
  /\ read_index' = 0
  /\ startedAt' = assembled
  /\ UNCHANGED <<dma, sync, reader, recorder>>

extadc_start_acquire_sample_data ==
  /\ write_index' = 0
  /\ startedAt' = assembled
  /\ UNCHANGED <<dma, sync, reader, adc_channels, assembled, adc_channels_complete, read_index>>

extadc_reset_sample_data_readpointer ==
  /\ read_index' = 0
  /\ UNCHANGED <<dma, sync, reader, recorder, startedAt>>

\* Mutant of extadc_get_sample_data: the index wraps one chunk too late.
WrapLate ==
  /\ read_index' = IF read_index + 1 > CHUNKS THEN 0 ELSE read_index + 1
  /\ UNCHANGED <<dma, sync, reader, recorder, startedAt>>

\* Returns the chunk at read_index, of one channel.
extadc_get_sample_data ==
  /\ read_index' = IF read_index + 1 >= CHUNKS THEN 0 ELSE read_index + 1
  /\ UNCHANGED <<dma, sync, reader, recorder, startedAt>>

extadc_is_sample_data_complete == write_index >= CHUNKS

Next ==
  \/ Transfer \/ GiveFromISR
  \/ TakeHalf \/ ProcessWord
  \/ extadc_start_acquire_sample_data
  \/ extadc_reset_sample_data_readpointer
  \/ extadc_get_sample_data

Spec == Init /\ [][Next]_vars

----------------------------------------------------------------------------
(* Properties.                                                             *)

\* The indices stay in their arrays: extadc_get_sample_data reads chunk
\* read_index, the task reads slot read_buffer_start_index + i and writes chunk
\* write_index as long as that is below CHUNKS.
TypeOK ==
  /\ produced \in Nat /\ lost \in Nat /\ taken \in Nat
  /\ irq \in BOOLEAN /\ semaphore \in BOOLEAN /\ overrun \in BOOLEAN
  /\ read_buffer_start_index \in {0, HALF}
  /\ i \in 0 .. (HALF - 1) \cup {None}
  /\ data_record \in Records
  /\ adc_channels \in Seq(Records) /\ Len(adc_channels) < RECORDS
  /\ assembled \in Nat /\ startedAt \in Nat
  /\ adc_channels_complete \in [0 .. (CHUNKS - 1) -> Chunks \cup {None}]
  /\ write_index \in 0 .. CHUNKS
  /\ read_index \in 0 .. (CHUNKS - 1)

\* The task never starts on a half more often than halves have completed: a
\* timeout of the semaphore, or two interrupts served by one, do not let it
\* process samples that are not there yet.
NeverAhead == taken * HALF <= produced

\* The task and the DMA agree on the half only by counting.  Whenever the task
\* waits with nothing pending, the half it will read next is the one the DMA is
\* filling if, and only if, the number of signals lost is even.  A single
\* signal lost while the task was held up makes it read, from then on, the half
\* that is being overwritten; nothing but the loss of another one corrects it.
PhaseFollowsLostSignals ==
  (i = None /\ ~semaphore /\ ~irq)
     => (read_buffer_start_index = HALF * ((produced \div HALF) % 2) <=> lost % 2 = 0)

\* A recording is one run of chunks, in the order they were assembled, the
\* first one assembled after the recording was started, wherever in a chunk the
\* task was then and however often it is started again.
RecordingIsOneRun ==
  \A j \in 0 .. (write_index - 1) : adc_channels_complete[j].nr = startedAt + j + 1

\* A record of the words of one scan.  Only the very first one can lack some.
Whole(record) ==
  \A c \in 0 .. LAST : record[c] = None \/ record[c] + (LAST - c) = record[LAST]

RecordAt(j, k) == adc_channels_complete[j].records[k]

\* As long as no word was overwritten before the task came to it, a complete
\* recording holds whole scans, without a gap and without repetition, also over
\* the ends of chunks and of halves of the buffer.  Signals that were lost only
\* make the task late: they do not harm the samples before it is overtaken.
RecordingIsGapless ==
  (extadc_is_sample_data_complete /\ ~overrun)
     => \A j \in 0 .. (CHUNKS - 1), k \in 1 .. RECORDS :
          /\ Whole(RecordAt(j, k))
          /\ RecordAt(j, k)[LAST]
               = RecordAt(0, 1)[LAST] + CHANNELS * (j * RECORDS + k - 1)

============================================================================
