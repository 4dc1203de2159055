------------------------- MODULE AsyncLoggerProofs -------------------------
(***************************************************************************)
(* Proofs about AsyncLogger, for any number of producers and calls, any    *)
(* queue and batch size and any set of policies.                           *)
(***************************************************************************)
EXTENDS AsyncLogger, SequenceTheorems, TLAPS

(* The entry of a call in progress is an entry. *)
LEMMA CurrentEntryType ==
  ASSUME TypeOK, NEW p \in Producers, prod[p] # "idle"
  PROVE  CurrentEntry(p) \in Entry
BY ConstantsAssumption DEF TypeOK, CurrentEntry, Entry

(* What the queue is after a push. *)
LEMMA PushQueue ==
  ASSUME TypeOK, NEW p \in Producers, prod[p] # "idle",
         NEW discardOldest \in BOOLEAN, discardOldest => Full,
         Push(p, discardOldest)
  PROVE  /\ queue_' \in Seq(Entry)
         /\ Len(queue_') = IF discardOldest THEN Len(queue_) ELSE Len(queue_) + 1
<1>1. CurrentEntry(p) \in Entry
  BY CurrentEntryType
<1>2. CASE discardOldest
  <2>1. queue_ \in Seq(Entry) /\ queue_ # <<>>
    BY <1>2, ConstantsAssumption, EmptySeq DEF TypeOK, Full
  <2>2. Tail(queue_) \in Seq(Entry) /\ Len(Tail(queue_)) = Len(queue_) - 1
    BY <2>1, HeadTailProperties
  <2>3. queue_' = Append(Tail(queue_), CurrentEntry(p))
    BY <1>2 DEF Push
  <2>4. Len(queue_) \in Nat
    BY <2>1, LenProperties
  <2> QED
    BY <1>1, <1>2, <2>2, <2>3, <2>4, AppendProperties
<1>3. CASE ~discardOldest
  <2>1. queue_' = Append(queue_, CurrentEntry(p)) /\ queue_ \in Seq(Entry)
    BY <1>3 DEF Push, TypeOK
  <2> QED
    BY <1>1, <1>3, <2>1, AppendProperties
<1> QED
  BY <1>2, <1>3

(* What the worker takes and leaves behind. *)
LEMMA CollectSplits ==
  ASSUME TypeOK, Collect
  PROVE  /\ queue_' \in Seq(Entry) /\ batch' \in Seq(Entry)
         /\ worker' \in {"exited", "notify"}
         /\ worker' = "exited" => batch' = batch /\ queue_' = queue_ /\ ~running_
         /\ worker' = "notify" =>
              /\ Len(batch') + Len(queue_') = Len(queue_)
              /\ Len(batch') <= BatchSize
              /\ batch' \o queue_' = queue_
<1>1. queue_ \in Seq(Entry) /\ Len(queue_) \in Nat /\ batch \in Seq(Entry)
  BY LenProperties DEF TypeOK
<1>2. BatchLength \in 0..Len(queue_) /\ BatchLength <= BatchSize /\ BatchLength \in Nat
  BY <1>1, ConstantsAssumption DEF BatchLength
<1>3. \A i \in 1..Len(queue_) : queue_[i] \in Entry
  BY <1>1, ElementOfSeq
<1> DEFINE front == SubSeq(queue_, 1, BatchLength)
           back  == SubSeq(queue_, BatchLength + 1, Len(queue_))
<1>4. front \in Seq(Entry) /\ Len(front) = BatchLength
  <2>1. \A i \in 1..BatchLength : queue_[i] \in Entry
    BY <1>1, <1>2, <1>3
  <2> QED
    BY <1>2, <2>1, SubSeqProperties
<1>5. back \in Seq(Entry) /\ Len(back) = Len(queue_) - BatchLength
  <2>1. \A i \in BatchLength + 1 .. Len(queue_) : queue_[i] \in Entry
    BY <1>1, <1>2, <1>3
  <2> QED
    BY <1>1, <1>2, <2>1, SubSeqProperties
<1>6. front \o back = queue_
  <2> DEFINE m == 1
             n == Len(queue_)
  <2>1. /\ m \in 1 .. Len(queue_) + 1
        /\ BatchLength \in m - 1 .. Len(queue_)
        /\ n \in BatchLength .. Len(queue_)
    BY <1>1, <1>2
  <2> HIDE DEF m, n
  <2>2. SubSeq(queue_, m, BatchLength) \o SubSeq(queue_, BatchLength + 1, n)
          = SubSeq(queue_, m, n)
    BY <1>1, <2>1, ConcatAdjacentSubSeq
  <2>3. front \o back = SubSeq(queue_, 1, Len(queue_))
    BY <2>2 DEF m, n
  <2> QED
    BY <1>1, <2>3, SubSeqFull
<1>7. \/ worker' = "exited" /\ batch' = batch /\ queue_' = queue_ /\ ~running_
      \/ worker' = "notify" /\ batch' = front /\ queue_' = back
  BY DEF Collect
<1> HIDE DEF front, back
<1>8. Len(front) + Len(back) = Len(queue_) /\ Len(front) <= BatchSize
  BY <1>1, <1>2, <1>4, <1>5
<1>9. CASE worker' = "exited" /\ batch' = batch /\ queue_' = queue_ /\ ~running_
  BY <1>1, <1>9
<1>10. CASE worker' = "notify" /\ batch' = front /\ queue_' = back
  BY <1>10, <1>4, <1>5, <1>6, <1>8
<1> QED
  BY <1>7, <1>9, <1>10

(* Whatever an enqueue call does under the mutex, it pushes, drops, is     *)
(* refused or goes on waiting.                                             *)
LEMMA CallOutcome ==
  ASSUME NEW p \in Producers, ProducerStep(p)
  PROVE  /\ prod[p] # "idle" /\ ProducerLeaves /\ UNCHANGED sequence
         /\ \/ ~Full /\ Push(p, FALSE)
            \/ Full /\ Push(p, TRUE)
            \/ Drop(p)
            \/ ~running_ /\ Refuse(p)
            \/ \E state \in {"wait", "waitTimed"} : WaitForSpace(p, state)
<1>1. ASSUME NEW state \in {"wait", "waitTimed"}, AfterWait(p, state)
      PROVE  \/ ~Full /\ Push(p, FALSE)
             \/ ~running_ /\ Refuse(p)
             \/ WaitForSpace(p, state)
  BY <1>1 DEF AfterWait
<1>2. ASSUME TryEnqueue(p)
      PROVE  \/ ~Full /\ Push(p, FALSE)
             \/ Full /\ Push(p, TRUE)
             \/ Drop(p)
             \/ AfterWait(p, "wait")
  BY <1>2 DEF TryEnqueue
<1>3. CASE Enqueue(p)
  BY <1>1, <1>2, <1>3 DEF Enqueue
<1>4. CASE EnqueueWithTimeout(p)
  BY <1>1, <1>2, <1>4 DEF EnqueueWithTimeout
<1>5. CASE WakeForSpace(p)
  <2>1. \E state \in {"wait", "waitTimed"} : AfterWait(p, state)
    BY <1>5 DEF WakeForSpace
  <2> QED
    BY <1>1, <1>5, <2>1 DEF WakeForSpace
<1>6. CASE WaitTimesOut(p)
  BY <1>6 DEF WaitTimesOut
<1> QED
  BY <1>3, <1>4, <1>5, <1>6 DEF ProducerStep

----------------------------------------------------------------------------
(* A step of a producer keeps the types. *)
LEMMA ProducerType ==
  ASSUME TypeOK, NEW p \in Producers, ProducerStep(p)
  PROVE  TypeOK'
<1>1. prod[p] # "idle" /\ ProducerLeaves /\ UNCHANGED sequence
  BY CallOutcome
<1>2. CASE (~Full /\ Push(p, FALSE)) \/ (Full /\ Push(p, TRUE))
  <2>1. queue_' \in Seq(Entry)
    BY <1>1, <1>2, PushQueue
  <2>2. /\ prod' = [prod EXCEPT ![p] = "idle"] /\ dropped_count_' \in Nat
        /\ completed' = completed + 1 /\ refused' = refused
    BY <1>2 DEF Push, TypeOK
  <2>3. signalled' \in BOOLEAN
    BY <1>2 DEF Push
  <2> QED
    BY <1>1, <2>1, <2>2, <2>3 DEF TypeOK, ProducerLeaves, ProducerStates, workerVars, stopperVars, outputVars
<1>3. CASE Drop(p)
  BY <1>1, <1>3 DEF Drop, TypeOK, ProducerLeaves, ProducerStates, workerVars, stopperVars, outputVars
<1>4. CASE Refuse(p)
  BY <1>1, <1>4 DEF Refuse, TypeOK, ProducerLeaves, ProducerStates, workerVars, stopperVars, outputVars
<1>5. ASSUME NEW state \in {"wait", "waitTimed"}, WaitForSpace(p, state)
      PROVE  TypeOK'
  BY <1>1, <1>5 DEF WaitForSpace, TypeOK, ProducerLeaves, ProducerStates, workerVars, stopperVars, outputVars
<1> QED
  BY <1>2, <1>3, <1>4, <1>5, CallOutcome

(* A step of the worker keeps the types. *)
LEMMA WorkerType ==
  ASSUME TypeOK, WorkerStep
  PROVE  TypeOK'
<1> USE DEF TypeOK, WorkerLeaves, WorkerStates, stopperVars, outputVars, workerVars
<1>1. CASE WorkerTest
  BY <1>1 DEF WorkerTest
<1>2. CASE WorkerEnter
  <2>1. CASE Collect
    BY <1>2, <2>1, CollectSplits DEF WorkerEnter
  <2>2. CASE worker' = "falling" /\ UNCHANGED <<batch, queue_>>
    BY <1>2, <2>2 DEF WorkerEnter
  <2> QED
    BY <1>2, <2>1, <2>2 DEF WorkerEnter
<1>3. CASE WorkerSleep
  BY <1>3 DEF WorkerSleep
<1>4. CASE WorkerWake
  <2>1. CASE Collect
    BY <1>4, <2>1, CollectSplits DEF WorkerWake
  <2>2. CASE worker' = "falling" /\ UNCHANGED <<batch, queue_>>
    BY <1>4, <2>2 DEF WorkerWake
  <2> QED
    BY <1>4, <2>1, <2>2 DEF WorkerWake
<1>5. CASE WorkerTimesOut
  BY <1>5, CollectSplits DEF WorkerTimesOut
<1>6. CASE WorkerNotify
  <2>1. prod' \in [Producers -> ProducerStates]
    BY <1>6 DEF WorkerNotify, Woken, ProducerStates
  <2>2. \A p \in Producers : prod'[p] # "idle" => prod[p] # "idle"
    BY <1>6 DEF WorkerNotify, Woken, ProducerStates
  <2> QED
    BY <1>6, <2>1, <2>2 DEF WorkerNotify
<1>7. CASE WorkerProcess
  <2>1. written' \in Seq(Entry) /\ processed_count_' \in Nat
    BY <1>7, ConcatProperties, LenProperties DEF WorkerProcess, ProcessBatch
  <2> QED
    BY <1>7, <2>1 DEF WorkerProcess
<1> QED
  BY <1>1, <1>2, <1>3, <1>4, <1>5, <1>6, <1>7 DEF WorkerStep

(* A step of Shutdown keeps the types. *)
LEMMA ShutdownType ==
  ASSUME TypeOK, ShutdownBegin \/ ShutdownStep
  PROVE  TypeOK'
<1> USE DEF TypeOK, StopperLeaves, StopperStates, workerVars, outputVars
<1>1. CASE ShutdownBegin
  BY <1>1 DEF ShutdownBegin
<1>2. CASE ShutdownNotify
  BY <1>2 DEF ShutdownNotify
<1>3. CASE ShutdownJoin
  BY <1>3 DEF ShutdownJoin
<1>4. CASE ShutdownDrain
  BY <1>4 DEF ShutdownDrain
<1>5. CASE ShutdownProcess
  <2>1. written' \in Seq(Entry) /\ processed_count_' \in Nat
    BY <1>5, ConcatProperties, LenProperties DEF ShutdownProcess, ProcessBatch
  <2> QED
    BY <1>5, <2>1 DEF ShutdownProcess
<1>6. CASE ShutdownFlush
  BY <1>6 DEF ShutdownFlush
<1> QED
  BY <1>1, <1>2, <1>3, <1>4, <1>5, <1>6 DEF ShutdownStep

(* Every variable keeps its type: Entry is closed under all that the       *)
(* threads do to the queue, the batches and the output.                    *)
THEOREM TypeCorrect == Spec => []TypeOK
<1>1. Init => TypeOK
  <2> SUFFICES ASSUME Init PROVE TypeOK
    OBVIOUS
  <2>1. <<>> \in Seq(Entry)
    BY EmptySeq
  <2>2. /\ queue_ \in Seq(Entry) /\ batch \in Seq(Entry)
        /\ remaining \in Seq(Entry) /\ written \in Seq(Entry)
    BY <2>1 DEF Init
  <2>3. /\ prod \in [Producers -> ProducerStates]
        /\ sequence \in [Producers -> 0..MaxEntries]
        /\ \A p \in Producers : prod[p] = "idle"
    BY ConstantsAssumption DEF Init, ProducerStates
  <2> QED
    BY <2>2, <2>3 DEF Init, TypeOK, WorkerStates, StopperStates
<1>2. TypeOK /\ [Next]_vars => TypeOK'
  <2> SUFFICES ASSUME TypeOK, [Next]_vars
               PROVE  TypeOK'
    OBVIOUS
  <2>1. CASE Initialize
    BY <2>1, ConstantsAssumption DEF Initialize, TypeOK, WorkerStates, stopperVars, outputVars
  <2>2. CASE SetOverflowPolicy
    BY <2>2, ConstantsAssumption DEF SetOverflowPolicy, TypeOK, workerVars, stopperVars, outputVars
  <2>3. ASSUME NEW p \in Producers, EnqueueBegin(p)
        PROVE  TypeOK'
    <3>1. sequence[p] \in 0..MaxEntries /\ sequence[p] + 1 \in 1..MaxEntries
      BY <2>3, ConstantsAssumption DEF EnqueueBegin, TypeOK
    <3>2. /\ sequence' \in [Producers -> 0..MaxEntries]
          /\ \A q \in Producers : sequence'[q] = IF q = p THEN sequence[p] + 1 ELSE sequence[q]
      BY <2>3, <3>1 DEF EnqueueBegin, TypeOK
    <3>3. /\ prod' \in [Producers -> ProducerStates]
          /\ \A q \in Producers : q # p => prod'[q] = prod[q]
      BY <2>3 DEF EnqueueBegin, TypeOK, ProducerStates
    <3>4. \A q \in Producers : prod'[q] # "idle" => sequence'[q] # 0
      BY <3>1, <3>2, <3>3 DEF TypeOK
    <3>5. completed' \in Nat /\ refused' \in Nat
      BY <2>3 DEF EnqueueBegin, TypeOK
    <3> QED
      BY <2>3, <3>2, <3>3, <3>4, <3>5 DEF EnqueueBegin, TypeOK, ProducerLeaves,
         workerVars, stopperVars, outputVars
  <2>4. ASSUME NEW p \in Producers, ProducerStep(p)
        PROVE  TypeOK'
    BY <2>4, ProducerType
  <2>5. ASSUME NEW p \in Producers, SpuriousWake(p)
        PROVE  TypeOK'
    BY <2>5 DEF SpuriousWake, Woken, TypeOK, ProducerLeaves, ProducerStates, workerVars, stopperVars, outputVars
  <2>6. CASE WorkerStep
    BY <2>6, WorkerType
  <2>7. CASE ShutdownBegin \/ ShutdownStep
    BY <2>7, ShutdownType
  <2>8. CASE UNCHANGED vars
    BY <2>8 DEF vars, TypeOK
  <2> QED
    BY <2>1, <2>2, <2>3, <2>4, <2>5, <2>6, <2>7, <2>8 DEF Next
<1> QED
  BY <1>1, <1>2, PTL DEF Spec

----------------------------------------------------------------------------
(* The inductive invariant of the counters: Lifecycle says which thread    *)
(* may hold entries, and that the sinks are open while one does.           *)
Inv == Lifecycle /\ QueueBounded /\ StatisticsAddUp /\ ProcessedIsWritten

(* A step of a producer keeps the invariant. *)
LEMMA ProducerInv ==
  ASSUME TypeOK, Inv, NEW p \in Producers, ProducerStep(p)
  PROVE  Inv'
<1> USE DEF Inv, Lifecycle, QueueBounded, StatisticsAddUp, ProcessedIsWritten
<1>1. prod[p] # "idle" /\ UNCHANGED <<running_, sinks_, worker, batch, stopper,
                                      remaining, processed_count_, written>>
  BY CallOutcome DEF ProducerLeaves, workerVars, stopperVars, outputVars
<1>2. /\ Len(queue_) \in Nat /\ Len(batch) \in Nat /\ Len(remaining) \in Nat
      /\ completed \in Nat /\ refused \in Nat /\ dropped_count_ \in Nat
      /\ processed_count_ \in Nat
  BY LenProperties DEF TypeOK
<1>3. CASE ~Full /\ Push(p, FALSE)
  <2>1. Len(queue_') = Len(queue_) + 1
    BY <1>1, <1>3, PushQueue
  <2>2. completed' = completed + 1 /\ refused' = refused /\ dropped_count_' = dropped_count_
    BY <1>3 DEF Push
  <2>3. Lifecycle'
    BY <1>1, <1>2, <1>3, <2>1, <2>2
  <2>4. QueueBounded'
    BY <1>1, <1>2, <1>3, <2>1, <2>2, ConstantsAssumption DEF Full
  <2>5. StatisticsAddUp'
    <3>1. completed' = processed_count_' + Len(batch') + Len(remaining') + Len(queue_')
                         + dropped_count_' + refused'
      BY <1>1, <1>2, <2>1, <2>2
    <3> QED
      BY <1>1, <2>2, <3>1
  <2>6. ProcessedIsWritten'
    BY <1>1, <1>2, <1>3, <2>1, <2>2 DEF TypeOK
  <2> QED
    BY <2>3, <2>4, <2>5, <2>6
<1>4. CASE Full /\ Push(p, TRUE)
  <2>1. Len(queue_') = Len(queue_)
    BY <1>1, <1>4, PushQueue
  <2>2. completed' = completed + 1 /\ refused' = refused /\ dropped_count_' = dropped_count_ + 1
    BY <1>4 DEF Push
  <2> QED
    BY <1>1, <1>2, <2>1, <2>2
<1>5. CASE Drop(p)
  BY <1>1, <1>2, <1>5 DEF Drop
<1>6. CASE ~running_ /\ Refuse(p)
  <2>1. worker # "none"
    BY <1>1
  <2> QED
    BY <1>1, <1>2, <1>6, <2>1 DEF Refuse
<1>7. ASSUME NEW state \in {"wait", "waitTimed"}, WaitForSpace(p, state)
      PROVE  Inv'
  BY <1>1, <1>7 DEF WaitForSpace
<1> QED
  BY <1>3, <1>4, <1>5, <1>6, <1>7, CallOutcome

(* The worker takes entries off the queue. *)
LEMMA CollectInv ==
  ASSUME TypeOK, Inv, Collect, worker \in {"enter", "asleep"}, WorkerLeaves,
         UNCHANGED <<prod, outputVars>>
  PROVE  Inv'
<1> USE DEF Inv, Lifecycle, QueueBounded, StatisticsAddUp, ProcessedIsWritten
<1>1. /\ Len(queue_) \in Nat /\ Len(batch) \in Nat /\ Len(remaining) \in Nat
      /\ completed \in Nat /\ refused \in Nat /\ dropped_count_ \in Nat
      /\ processed_count_ \in Nat /\ batch = <<>> /\ Len(batch) = 0
  BY LenProperties, EmptySeq DEF TypeOK
<1>2. UNCHANGED <<running_, sinks_, stopper, remaining, processed_count_, written,
                  completed, refused, dropped_count_, prod>>
  BY DEF WorkerLeaves, stopperVars, outputVars
<1>3. CASE worker' = "exited"
  BY <1>1, <1>2, <1>3, CollectSplits
<1>4. CASE worker' = "notify"
  <2>1. Len(batch') \in Nat /\ Len(queue_') \in Nat
    BY CollectSplits, LenProperties
  <2>2. Lifecycle'
    BY <1>1, <1>2, <1>4, <2>1, CollectSplits
  <2>3. QueueBounded'
    BY <1>1, <1>2, <1>4, <2>1, CollectSplits, ConstantsAssumption
  <2>4. StatisticsAddUp'
    BY <1>1, <1>2, <1>4, <2>1, CollectSplits DEF TypeOK
  <2>5. ProcessedIsWritten'
    BY <1>1, <1>2, <1>4, <2>1, CollectSplits DEF TypeOK
  <2> QED
    BY <2>2, <2>3, <2>4, <2>5
<1> QED
  BY <1>3, <1>4, CollectSplits

(* A step of the worker keeps the invariant. *)
LEMMA WorkerInv ==
  ASSUME TypeOK, Inv, WorkerStep
  PROVE  Inv'
<1> USE DEF Inv, Lifecycle, QueueBounded, StatisticsAddUp, ProcessedIsWritten, WorkerLeaves,
            stopperVars, outputVars
<1>1. CASE WorkerTest
  BY <1>1 DEF WorkerTest
<1>2. CASE WorkerEnter
  <2>1. CASE Collect
    BY <1>2, <2>1, CollectInv DEF WorkerEnter
  <2>2. CASE worker' = "falling" /\ UNCHANGED <<batch, queue_>>
    BY <1>2, <2>2 DEF WorkerEnter
  <2> QED
    BY <1>2, <2>1, <2>2 DEF WorkerEnter
<1>3. CASE WorkerSleep
  BY <1>3 DEF WorkerSleep
<1>4. CASE WorkerWake
  <2>1. CASE Collect
    BY <1>4, <2>1, CollectInv DEF WorkerWake
  <2>2. CASE worker' = "falling" /\ UNCHANGED <<batch, queue_>>
    BY <1>4, <2>2 DEF WorkerWake
  <2> QED
    BY <1>4, <2>1, <2>2 DEF WorkerWake
<1>5. CASE WorkerTimesOut
  BY <1>5, CollectInv DEF WorkerTimesOut
<1>6. CASE WorkerNotify
  BY <1>6 DEF WorkerNotify
<1>7. CASE WorkerProcess
  <2>1. sinks_ = "open" /\ worker = "process"
    BY <1>7 DEF WorkerProcess, TypeOK
  <2>2. /\ written' = written \o batch /\ processed_count_' = processed_count_ + Len(batch)
        /\ batch' = <<>> /\ worker' = "test"
        /\ UNCHANGED <<queue_, prod>> /\ WorkerLeaves
    BY <1>7, <2>1 DEF WorkerProcess, ProcessBatch
  <2>3. /\ Len(written') = Len(written) + Len(batch) /\ Len(batch') = 0
        /\ Len(batch) \in Nat /\ Len(queue_) \in Nat /\ Len(remaining) \in Nat
        /\ Len(written) \in Nat
    BY <2>2, ConcatProperties, LenProperties, EmptySeq DEF TypeOK
  <2>4. Lifecycle'
    BY <2>1, <2>2, <2>3
  <2>5. QueueBounded'
    BY <2>1, <2>2, <2>3, ConstantsAssumption
  <2>6. StatisticsAddUp'
    <3>1. /\ completed \in Nat /\ refused \in Nat /\ dropped_count_ \in Nat
          /\ processed_count_ \in Nat
      BY DEF TypeOK
    <3>2. completed' = processed_count_' + Len(batch') + Len(remaining') + Len(queue_')
                         + dropped_count_' + refused'
      BY <2>2, <2>3, <3>1
    <3> QED
      BY <2>2, <3>2
  <2>7. ProcessedIsWritten'
    BY <2>1, <2>2, <2>3 DEF TypeOK
  <2> QED
    BY <2>4, <2>5, <2>6, <2>7
<1> QED
  BY <1>1, <1>2, <1>3, <1>4, <1>5, <1>6, <1>7 DEF WorkerStep

(* A step of Shutdown keeps the invariant. *)
LEMMA ShutdownInv ==
  ASSUME TypeOK, Inv, ShutdownBegin \/ ShutdownStep
  PROVE  Inv'
<1> USE DEF Inv, Lifecycle, QueueBounded, StatisticsAddUp, ProcessedIsWritten, StopperLeaves,
            workerVars, outputVars
<1>1. CASE ShutdownBegin
  BY <1>1 DEF ShutdownBegin
<1>2. CASE ShutdownNotify
  BY <1>2 DEF ShutdownNotify
<1>3. CASE ShutdownJoin
  BY <1>3 DEF ShutdownJoin
<1>4. CASE ShutdownDrain
  <2>1. Len(queue_) \in Nat /\ Len(remaining) = 0 /\ Len(queue_') = 0 /\ Len(remaining') = Len(queue_)
    BY <1>4, LenProperties, EmptySeq DEF ShutdownDrain, TypeOK
  <2> QED
    BY <1>4, <2>1, LenProperties, ConstantsAssumption DEF ShutdownDrain, TypeOK
<1>5. CASE ShutdownProcess
  <2>1. sinks_ = "open" /\ stopper = "process" /\ worker = "exited"
    BY <1>5 DEF ShutdownProcess, TypeOK
  <2>2. /\ written' = written \o remaining
        /\ processed_count_' = processed_count_ + Len(remaining)
        /\ remaining' = <<>> /\ stopper' = "flush"
        /\ UNCHANGED <<running_, queue_, sinks_>> /\ StopperLeaves
    BY <1>5, <2>1 DEF ShutdownProcess, ProcessBatch
  <2>3. /\ Len(written') = Len(written) + Len(remaining) /\ Len(remaining') = 0
        /\ Len(batch) \in Nat /\ Len(queue_) \in Nat /\ Len(remaining) \in Nat
        /\ Len(written) \in Nat
    BY <2>2, ConcatProperties, LenProperties, EmptySeq DEF TypeOK
  <2>4. Lifecycle'
    BY <2>1, <2>2, <2>3
  <2>5. QueueBounded'
    BY <2>1, <2>2, <2>3, ConstantsAssumption
  <2>6. StatisticsAddUp'
    <3>1. /\ completed \in Nat /\ refused \in Nat /\ dropped_count_ \in Nat
          /\ processed_count_ \in Nat
      BY DEF TypeOK
    <3>2. UNCHANGED <<completed, refused, dropped_count_, batch, queue_>>
      BY <2>2
    <3>3. completed' = processed_count_' + Len(batch') + Len(remaining') + Len(queue_')
                         + dropped_count_' + refused'
      <4>1. completed = processed_count_ + Len(batch) + Len(remaining) + Len(queue_)
                          + dropped_count_ + refused
        OBVIOUS
      <4>2. Len(batch') = Len(batch) /\ Len(queue_') = Len(queue_)
        BY <3>2
      <4> HIDE DEF Inv
      <4> QED
        BY <2>2, <2>3, <3>1, <3>2, <4>1, <4>2
    <3> QED
      BY <2>2, <3>3
  <2>7. ProcessedIsWritten'
    BY <2>1, <2>2, <2>3 DEF TypeOK
  <2> QED
    BY <2>4, <2>5, <2>6, <2>7
<1>6. CASE ShutdownFlush
  BY <1>6 DEF ShutdownFlush
<1> QED
  BY <1>1, <1>2, <1>3, <1>4, <1>5, <1>6 DEF ShutdownStep

(* The inductive invariant holds in every reachable state. *)
THEOREM Invariance == Spec => []Inv
<1> USE DEF Inv, Lifecycle, QueueBounded, StatisticsAddUp, ProcessedIsWritten
<1>1. Init => Inv
  <2>1. Len(<<>>) = 0
    BY EmptySeq
  <2> QED
    BY <2>1, ConstantsAssumption DEF Init
<1>2. TypeOK /\ Inv /\ [Next]_vars => Inv'
  <2> SUFFICES ASSUME TypeOK, Inv, [Next]_vars
               PROVE  Inv'
    OBVIOUS
  <2>1. CASE Initialize
    BY <2>1 DEF Initialize, stopperVars, outputVars
  <2>2. CASE SetOverflowPolicy
    BY <2>2 DEF SetOverflowPolicy, workerVars, stopperVars, outputVars
  <2>3. ASSUME NEW p \in Producers, EnqueueBegin(p)
        PROVE  Inv'
    <3>1. /\ Len(queue_) \in Nat /\ Len(batch) \in Nat /\ Len(remaining) \in Nat
          /\ completed \in Nat /\ refused \in Nat /\ dropped_count_ \in Nat
          /\ processed_count_ \in Nat
      BY LenProperties DEF TypeOK
    <3> QED
      BY <2>3, <3>1 DEF EnqueueBegin, ProducerLeaves, workerVars, stopperVars, outputVars
  <2>4. ASSUME NEW p \in Producers, ProducerStep(p)
        PROVE  Inv'
    BY <2>4, ProducerInv
  <2>5. ASSUME NEW p \in Producers, SpuriousWake(p)
        PROVE  Inv'
    <3>1. worker # "none"
      BY <2>5 DEF SpuriousWake
    <3> QED
      BY <2>5, <3>1 DEF SpuriousWake, ProducerLeaves, workerVars, stopperVars, outputVars
  <2>6. CASE WorkerStep
    BY <2>6, WorkerInv
  <2>7. CASE ShutdownBegin \/ ShutdownStep
    BY <2>7, ShutdownInv
  <2>8. CASE UNCHANGED vars
    BY <2>8 DEF vars
  <2> QED
    BY <2>1, <2>2, <2>3, <2>4, <2>5, <2>6, <2>7, <2>8 DEF Next
<1> HIDE DEF Inv
<1> QED
  BY <1>1, <1>2, TypeCorrect, PTL DEF Spec

(* The queue never outgrows async_queue_size, nor a batch BATCH_SIZE. *)
THEOREM QueueStaysBounded == Spec => []QueueBounded
<1>1. Inv => QueueBounded
  BY DEF Inv
<1> QED
  BY <1>1, Invariance, PTL

(* The counters and the queue account for every enqueue call. *)
THEOREM StatisticsAlwaysAddUp == Spec => []StatisticsAddUp
<1>1. Inv => StatisticsAddUp
  BY DEF Inv
<1> QED
  BY <1>1, Invariance, PTL

(* Nothing is processed after Shutdown has cleared the sinks. *)
THEOREM ProcessedAlwaysWritten == Spec => []ProcessedIsWritten
<1>1. Inv => ProcessedIsWritten
  BY DEF Inv
<1> QED
  BY <1>1, Invariance, PTL

----------------------------------------------------------------------------
(* The order of the log.  Both parts are stated of a sequence of entries,  *)
(* so that the steps that only move entries along need no argument.        *)

(* A sequence stays ordered when a younger entry joins its end. *)
LEMMA OrderedAppend ==
  ASSUME NEW s \in Seq(Entry), NEW e \in Entry, Ordered(s),
         \A i \in 1..Len(s) : s[i][1] = e[1] => s[i][2] < e[2]
  PROVE  Ordered(Append(s, e))
<1>1. /\ DOMAIN s = 1..Len(s) /\ Len(s) \in Nat
      /\ DOMAIN Append(s, e) = 1..(Len(s) + 1)
      /\ \A i \in 1..Len(s) : Append(s, e)[i] = s[i]
      /\ Append(s, e)[Len(s) + 1] = e
  BY AppendProperties, LenProperties
<1> QED
  BY <1>1 DEF Ordered

(* A sequence stays ordered, and gains no entry, when the first entry of   *)
(* its second part goes.                                                   *)
LEMMA DropFirst ==
  ASSUME NEW s \in Seq(Entry), NEW t \in Seq(Entry), t # <<>>
  PROVE  /\ s \o Tail(t) \in Seq(Entry)
         /\ Ordered(s \o t) => Ordered(s \o Tail(t))
         /\ \A i \in 1..Len(s \o Tail(t)) :
              \E j \in 1..Len(s \o t) : (s \o Tail(t))[i] = (s \o t)[j]
<1>1. /\ Tail(t) \in Seq(Entry) /\ Len(Tail(t)) = Len(t) - 1 /\ Len(t) \in Nat \ {0}
      /\ \A i \in 1..Len(Tail(t)) : Tail(t)[i] = t[i + 1]
  BY HeadTailProperties, EmptySeq, LenProperties
<1>2. /\ s \o t \in Seq(Entry) /\ Len(s \o t) = Len(s) + Len(t) /\ Len(s) \in Nat
      /\ \A i \in 1..Len(s) + Len(t) :
           (s \o t)[i] = IF i <= Len(s) THEN s[i] ELSE t[i - Len(s)]
  BY ConcatProperties, LenProperties
<1>3. /\ s \o Tail(t) \in Seq(Entry) /\ Len(s \o Tail(t)) = Len(s) + Len(t) - 1
      /\ \A i \in 1..Len(s) + Len(t) - 1 :
           (s \o Tail(t))[i] = IF i <= Len(s) THEN s[i] ELSE Tail(t)[i - Len(s)]
  <2>1. /\ s \o Tail(t) \in Seq(Entry) /\ Len(s \o Tail(t)) = Len(s) + Len(Tail(t))
        /\ \A i \in 1..Len(s) + Len(Tail(t)) :
             (s \o Tail(t))[i] = IF i <= Len(s) THEN s[i] ELSE Tail(t)[i - Len(s)]
    BY <1>1, ConcatProperties
  <2> QED
    BY <1>1, <1>2, <2>1
<1> DEFINE old(i) == IF i <= Len(s) THEN i ELSE i + 1
<1>4. \A i \in 1..Len(s) + Len(t) - 1 :
        old(i) \in 1..Len(s) + Len(t) /\ (s \o Tail(t))[i] = (s \o t)[old(i)]
  BY <1>1, <1>2, <1>3
<1>5. \A i, j \in 1..Len(s) + Len(t) - 1 : i < j => old(i) < old(j)
  BY <1>1, <1>2
<1>6. DOMAIN (s \o t) = 1..Len(s) + Len(t) /\ DOMAIN (s \o Tail(t)) = 1..Len(s) + Len(t) - 1
  BY <1>2, <1>3, LenProperties
<1> HIDE DEF old
<1>7. Ordered(s \o t) => Ordered(s \o Tail(t))
  <2> SUFFICES ASSUME Ordered(s \o t),
                      NEW i \in 1..Len(s) + Len(t) - 1, NEW j \in 1..Len(s) + Len(t) - 1,
                      i < j, (s \o Tail(t))[i][1] = (s \o Tail(t))[j][1]
               PROVE  (s \o Tail(t))[i][2] < (s \o Tail(t))[j][2]
    BY <1>6 DEF Ordered
  <2>1. /\ old(i) \in DOMAIN (s \o t) /\ old(j) \in DOMAIN (s \o t) /\ old(i) < old(j)
        /\ (s \o Tail(t))[i] = (s \o t)[old(i)] /\ (s \o Tail(t))[j] = (s \o t)[old(j)]
    BY <1>4, <1>5, <1>6
  <2> QED
    BY <2>1 DEF Ordered
<1>8. \A i \in 1..Len(s \o Tail(t)) :
        \E j \in 1..Len(s \o t) : (s \o Tail(t))[i] = (s \o t)[j]
  BY <1>2, <1>3, <1>4
<1> QED
  BY <1>3, <1>7, <1>8

(* Concatenation of sequences of entries associates. *)
LEMMA EntryConcat ==
  \A s, t, u \in Seq(Entry) : (s \o t) \o u = s \o (t \o u)
  BY ConcatAssociative

(* An entry appended to the second part is appended to the whole. *)
LEMMA ConcatAppend ==
  ASSUME NEW s \in Seq(Entry), NEW t \in Seq(Entry), NEW x \in Entry
  PROVE  s \o Append(t, x) = Append(s \o t, x)
<1> DEFINE both == s \o t
           last == <<x>>
<1>1. both \in Seq(Entry)
  BY ConcatProperties
<1>2. last \in Seq(Entry)
  OBVIOUS
<1>3. Append(t, x) = t \o last
  BY AppendIsConcat
<1>4. (s \o t) \o last = s \o (t \o last)
  <2> HIDE DEF last
  <2> QED
    BY <1>2, EntryConcat, Zenon
<1>5. both = s \o t
  OBVIOUS
<1>6. Append(both, x) = both \o last
  <2> HIDE DEF both
  <2> QED
    BY <1>1, AppendIsConcat
<1> HIDE DEF both, last
<1> QED
  BY <1>3, <1>4, <1>5, <1>6

(* The log so far: what is written, then what is pending. *)
TheLog == written \o Pending

(* The queue is the end of the log. *)
LEMMA LogEndsInQueue ==
  ASSUME TypeOK
  PROVE  /\ written \o (batch \o remaining) \in Seq(Entry)
         /\ TheLog = (written \o (batch \o remaining)) \o queue_
         /\ TheLog \in Seq(Entry)
<1>1. batch \o remaining \in Seq(Entry) /\ written \in Seq(Entry) /\ queue_ \in Seq(Entry)
  BY ConcatProperties DEF TypeOK
<1>2. TheLog = written \o ((batch \o remaining) \o queue_)
  BY DEF TheLog, Pending
<1>3. TheLog = (written \o (batch \o remaining)) \o queue_
  <2> DEFINE middle == batch \o remaining
  <2>1. middle \in Seq(Entry) /\ TheLog = written \o (middle \o queue_)
    BY <1>1, <1>2
  <2> HIDE DEF middle
  <2>2. (written \o middle) \o queue_ = written \o (middle \o queue_)
    BY <1>1, <2>1, EntryConcat, Zenon
  <2> QED
    BY <2>1, <2>2 DEF middle
<1>4. written \o (batch \o remaining) \in Seq(Entry)
  BY <1>1, ConcatProperties
<1> QED
  BY <1>1, <1>3, <1>4, ConcatProperties

(* The worker and Shutdown move entries along the log and change nothing   *)
(* in it.                                                                  *)
LEMMA LogMoves ==
  ASSUME TypeOK, Inv, WorkerStep \/ ShutdownBegin \/ ShutdownStep
  PROVE  TheLog' = TheLog
<1>1. /\ queue_ \in Seq(Entry) /\ batch \in Seq(Entry) /\ remaining \in Seq(Entry)
      /\ written \in Seq(Entry) /\ <<>> \in Seq(Entry)
  BY EmptySeq DEF TypeOK
<1>2. \A q \in Seq(Entry) : <<>> \o q = q /\ q \o <<>> = q
  BY ConcatEmptySeq
<1>3. ASSUME Collect, worker \in {"enter", "asleep"}, UNCHANGED <<written, remaining>>
      PROVE  TheLog' = TheLog
  <2>1. batch = <<>>
    BY <1>3 DEF Inv, Lifecycle
  <2>2. remaining = <<>>
    BY <1>3 DEF Inv, Lifecycle
  <2>3. batch' \o queue_' = queue_ /\ batch' \in Seq(Entry) /\ queue_' \in Seq(Entry)
    BY <1>1, <1>2, <1>3, <2>1, CollectSplits
  <2>4. (batch' \o remaining') \o queue_' = queue_
    BY <1>2, <1>3, <2>2, <2>3
  <2>5. (batch \o remaining) \o queue_ = queue_
    BY <1>1, <1>2, <2>1, <2>2
  <2> QED
    BY <1>3, <2>4, <2>5 DEF TheLog, Pending
<1>4. ASSUME UNCHANGED <<written, batch, remaining, queue_>>
      PROVE  TheLog' = TheLog
  BY <1>4 DEF TheLog, Pending
<1>5. CASE WorkerTest \/ WorkerSleep \/ WorkerNotify
  BY <1>4, <1>5 DEF WorkerTest, WorkerSleep, WorkerNotify, WorkerLeaves, stopperVars, outputVars
<1>6. CASE WorkerEnter \/ WorkerWake \/ WorkerTimesOut
  BY <1>3, <1>4, <1>6 DEF WorkerEnter, WorkerWake, WorkerTimesOut, WorkerLeaves,
     stopperVars, outputVars
<1>7. CASE WorkerProcess
  <2>1. remaining = <<>> /\ sinks_ = "open"
    BY <1>7 DEF WorkerProcess, Inv, Lifecycle, TypeOK
  <2>2. /\ written' = written \o batch /\ batch' = <<>> /\ remaining' = remaining
        /\ queue_' = queue_
    BY <1>7, <2>1 DEF WorkerProcess, ProcessBatch, WorkerLeaves, stopperVars
  <2>3. TheLog' = (written \o batch) \o queue_
    BY <1>1, <1>2, <2>1, <2>2 DEF TheLog, Pending
  <2>4. TheLog = written \o (batch \o queue_)
    BY <1>1, <1>2, <2>1 DEF TheLog, Pending
  <2> QED
    BY <1>1, <2>3, <2>4, EntryConcat, Zenon
<1>8. CASE ShutdownBegin \/ ShutdownNotify \/ ShutdownJoin \/ ShutdownFlush
  BY <1>4, <1>8 DEF ShutdownBegin, ShutdownNotify, ShutdownJoin, ShutdownFlush, StopperLeaves,
     workerVars, outputVars
<1>9. CASE ShutdownDrain
  <2>1. batch = <<>> /\ remaining = <<>>
    BY <1>9 DEF ShutdownDrain, Inv, Lifecycle
  <2>2. /\ remaining' = queue_ /\ queue_' = <<>> /\ batch' = batch /\ written' = written
    BY <1>9 DEF ShutdownDrain, StopperLeaves, workerVars, outputVars
  <2> QED
    BY <1>1, <1>2, <2>1, <2>2 DEF TheLog, Pending
<1>10. CASE ShutdownProcess
  <2>1. batch = <<>> /\ sinks_ = "open"
    BY <1>10 DEF ShutdownProcess, Inv, Lifecycle, TypeOK
  <2>2. /\ written' = written \o remaining /\ remaining' = <<>> /\ batch' = batch
        /\ queue_' = queue_
    BY <1>10, <2>1 DEF ShutdownProcess, ProcessBatch, StopperLeaves, workerVars
  <2>3. TheLog' = (written \o remaining) \o queue_
    BY <1>1, <1>2, <2>1, <2>2 DEF TheLog, Pending
  <2>4. TheLog = written \o (remaining \o queue_)
    BY <1>1, <1>2, <2>1 DEF TheLog, Pending
  <2> QED
    BY <1>1, <2>3, <2>4, EntryConcat, Zenon
<1> QED
  BY <1>5, <1>6, <1>7, <1>8, <1>9, <1>10 DEF WorkerStep, ShutdownStep

(* An enqueue call appends a younger entry of its thread, or leaves the    *)
(* log alone.                                                              *)
LEMMA ProducerOrder ==
  ASSUME TypeOK, Ordered(TheLog), Fresh(TheLog), NEW p \in Producers, ProducerStep(p)
  PROVE  Ordered(TheLog)' /\ Fresh(TheLog)'
<1> DEFINE head == written \o (batch \o remaining)
<1>1. head \in Seq(Entry) /\ TheLog = head \o queue_ /\ TheLog \in Seq(Entry)
  BY LogEndsInQueue
<1>2. /\ prod[p] # "idle" /\ sequence' = sequence
      /\ UNCHANGED <<written, batch, remaining>>
  BY CallOutcome DEF ProducerLeaves, workerVars, stopperVars, outputVars
<1>3. head' = head /\ queue_ \in Seq(Entry) /\ prod \in [Producers -> ProducerStates]
  BY <1>2 DEF TypeOK
<1>4. TheLog' = head \o queue_'
  <2>1. TypeOK'
    BY ProducerType
  <2>2. (TheLog = head \o queue_)'
    BY <2>1, LogEndsInQueue, PTL
  <2> QED
    BY <1>3, <2>2
<1> DEFINE e == CurrentEntry(p)
<1>5. e \in Entry /\ e[1] = p /\ e[2] = sequence[p]
  BY <1>2, CurrentEntryType DEF CurrentEntry
<1> HIDE DEF head, e
<1>6. ASSUME NEW s \in Seq(Entry), Ordered(s), prod' = [prod EXCEPT ![p] = "idle"],
             \A i \in 1..Len(s) : \E j \in 1..Len(TheLog) : s[i] = TheLog[j],
             TheLog' = Append(s, e)
      PROVE  Ordered(TheLog)' /\ Fresh(TheLog)'
  <2>1. /\ DOMAIN s = 1..Len(s) /\ Len(s) \in Nat
        /\ DOMAIN Append(s, e) = 1..(Len(s) + 1)
        /\ \A i \in 1..Len(s) : Append(s, e)[i] = s[i] /\ s[i] \in Entry
        /\ Append(s, e)[Len(s) + 1] = e
        /\ DOMAIN TheLog = 1..Len(TheLog)
    BY <1>1, <1>5, <1>6, AppendProperties, LenProperties, ElementOfSeq
  <2>2. \A i \in 1..Len(s) :
          /\ s[i][2] <= sequence[s[i][1]]
          /\ prod[s[i][1]] # "idle" => s[i][2] < sequence[s[i][1]]
    BY <1>6, <2>1 DEF Fresh
  <2>3. Ordered(Append(s, e))
    BY <1>2, <1>5, <1>6, <2>2, OrderedAppend
  <2>4. \A i \in 1..Len(s) :
          /\ s[i][2] <= sequence'[s[i][1]]
          /\ prod'[s[i][1]] # "idle" => s[i][2] < sequence'[s[i][1]]
    BY <1>2, <1>3, <1>6, <2>1, <2>2 DEF Entry
  <2>5. e[2] <= sequence'[e[1]] /\ prod'[e[1]] = "idle"
    BY <1>2, <1>3, <1>5, <1>6 DEF TypeOK
  <2>6. \A i \in 1..(Len(s) + 1) : i \in 1..Len(s) \/ i = Len(s) + 1
    BY <2>1
  <2>7. Fresh(TheLog)'
    BY <1>6, <2>1, <2>4, <2>5, <2>6 DEF Fresh
  <2> QED
    BY <1>6, <2>3, <2>7 DEF Ordered
<1>7. ASSUME UNCHANGED queue_, \A q \in Producers : prod'[q] # "idle" => prod[q] # "idle"
      PROVE  Ordered(TheLog)' /\ Fresh(TheLog)'
  <2>1. TheLog' = TheLog
    BY <1>1, <1>4, <1>7
  <2>2. \A i \in DOMAIN TheLog : TheLog[i][1] \in Producers
    BY <1>1, LenProperties, ElementOfSeq DEF Entry
  <2> QED
    BY <1>2, <1>7, <2>1, <2>2 DEF Ordered, Fresh
<1>8. CASE ~Full /\ Push(p, FALSE)
  <2>1. queue_' = Append(queue_, e) /\ prod' = [prod EXCEPT ![p] = "idle"]
    BY <1>8 DEF Push, e
  <2>2. head \o Append(queue_, e) = Append(head \o queue_, e)
    BY <1>1, <1>3, <1>5, ConcatAppend
  <2>3. TheLog' = Append(TheLog, e)
    BY <1>1, <1>4, <2>1, <2>2
  <2> QED
    BY <1>1, <1>6, <2>1, <2>3
<1>9. CASE Full /\ Push(p, TRUE)
  <2>1. queue_ # <<>>
    BY <1>9, ConstantsAssumption, EmptySeq DEF Full
  <2>2. queue_' = Append(Tail(queue_), e) /\ prod' = [prod EXCEPT ![p] = "idle"]
    BY <1>9 DEF Push, e
  <2>3. /\ head \o Tail(queue_) \in Seq(Entry) /\ Ordered(head \o Tail(queue_))
        /\ \A i \in 1..Len(head \o Tail(queue_)) :
             \E j \in 1..Len(TheLog) : (head \o Tail(queue_))[i] = TheLog[j]
    BY <1>1, <1>3, <2>1, DropFirst
  <2>4. Tail(queue_) \in Seq(Entry)
    BY <1>3, <2>1, HeadTailProperties
  <2>5. head \o Append(Tail(queue_), e) = Append(head \o Tail(queue_), e)
    BY <1>1, <1>5, <2>4, ConcatAppend
  <2>6. TheLog' = Append(head \o Tail(queue_), e)
    BY <1>4, <2>2, <2>5
  <2> QED
    BY <1>6, <2>2, <2>3, <2>6
<1>10. CASE Drop(p) \/ Refuse(p)
  BY <1>3, <1>7, <1>10 DEF Drop, Refuse
<1>11. ASSUME NEW state \in {"wait", "waitTimed"}, WaitForSpace(p, state)
       PROVE  Ordered(TheLog)' /\ Fresh(TheLog)'
  BY <1>2, <1>3, <1>7, <1>11 DEF WaitForSpace
<1> QED
  BY <1>8, <1>9, <1>10, <1>11, CallOutcome

(* The entries of each thread reach the sinks in the order it logged them, *)
(* whichever threads take them there.                                      *)
THEOREM PerThreadOrderHolds == Spec => []PerThreadOrder
<1> DEFINE OrderInv == Ordered(TheLog) /\ Fresh(TheLog)
<1>1. Init => OrderInv
  <2> SUFFICES ASSUME Init
               PROVE  OrderInv
    OBVIOUS
  <2>1. TheLog = <<>>
    BY EmptySeq, ConcatEmptySeq DEF Init, TheLog, Pending
  <2>2. DOMAIN TheLog = {}
    BY <2>1
  <2> QED
    BY <2>2 DEF Ordered, Fresh
<1>2. TypeOK /\ Inv /\ OrderInv /\ [Next]_vars => OrderInv'
  <2> SUFFICES ASSUME TypeOK, Inv, OrderInv, [Next]_vars
               PROVE  OrderInv'
    OBVIOUS
  <2>1. \A i \in DOMAIN TheLog : TheLog[i] \in Entry /\ TheLog[i][1] \in Producers
    BY LogEndsInQueue, LenProperties, ElementOfSeq DEF Entry
  <2>2. ASSUME TheLog' = TheLog, sequence' = sequence,
               \A q \in Producers : prod'[q] # "idle" => prod[q] # "idle"
        PROVE  OrderInv'
    BY <2>1, <2>2 DEF Ordered, Fresh
  <2>3. ASSUME UNCHANGED <<written, batch, remaining, queue_>>
        PROVE  TheLog' = TheLog
    BY <2>3 DEF TheLog, Pending
  <2>4. CASE Initialize \/ SetOverflowPolicy \/ UNCHANGED vars
    BY <2>2, <2>3, <2>4 DEF Initialize, SetOverflowPolicy, vars, workerVars, stopperVars, outputVars
  <2>5. ASSUME NEW p \in Producers, EnqueueBegin(p)
        PROVE  OrderInv'
    <3>1. TheLog' = TheLog
      BY <2>3, <2>5 DEF EnqueueBegin, ProducerLeaves, workerVars, stopperVars, outputVars
    <3>2. \A q \in Producers : /\ sequence'[q] = IF q = p THEN sequence[p] + 1 ELSE sequence[q]
                               /\ sequence[q] \in Nat
      BY <2>5, ConstantsAssumption DEF EnqueueBegin, TypeOK
    <3>3. prod[p] = "idle" /\ \A q \in Producers : q # p => prod'[q] = prod[q]
      BY <2>5 DEF EnqueueBegin, TypeOK
    <3>4. \A i \in DOMAIN TheLog : TheLog[i][2] \in Nat
      BY <2>1, ConstantsAssumption DEF Entry
    <3>5. Fresh(TheLog)'
      BY <2>1, <3>1, <3>2, <3>3, <3>4 DEF Fresh
    <3>6. Ordered(TheLog)'
      BY <3>1 DEF Ordered
    <3> QED
      BY <3>5, <3>6
  <2>6. ASSUME NEW p \in Producers, ProducerStep(p)
        PROVE  OrderInv'
    BY <2>6, ProducerOrder
  <2>7. ASSUME NEW p \in Producers, SpuriousWake(p)
        PROVE  OrderInv'
    <3>1. TheLog' = TheLog
      BY <2>3, <2>7 DEF SpuriousWake, ProducerLeaves, workerVars, stopperVars, outputVars
    <3> QED
      BY <2>2, <2>7, <3>1 DEF SpuriousWake, TypeOK
  <2>8. CASE WorkerStep
    <3>1. TheLog' = TheLog
      BY <2>8, LogMoves
    <3>2. /\ sequence' = sequence
          /\ \A q \in Producers : prod'[q] # "idle" => prod[q] # "idle"
      BY <2>8 DEF WorkerStep, WorkerTest, WorkerEnter, WorkerSleep, WorkerWake, WorkerTimesOut,
         WorkerNotify, WorkerProcess, WorkerLeaves, Woken
    <3> QED
      BY <2>2, <3>1, <3>2
  <2>9. CASE ShutdownBegin \/ ShutdownStep
    <3>1. TheLog' = TheLog
      BY <2>9, LogMoves
    <3>2. UNCHANGED <<sequence, prod>>
      BY <2>9 DEF ShutdownBegin, ShutdownStep, ShutdownNotify, ShutdownJoin, ShutdownDrain,
         ShutdownProcess, ShutdownFlush, StopperLeaves
    <3> QED
      BY <2>2, <3>1, <3>2
  <2> QED
    BY <2>4, <2>5, <2>6, <2>7, <2>8, <2>9 DEF Next
<1>3. OrderInv => PerThreadOrder
  BY DEF PerThreadOrder, TheLog
<1> QED
  BY <1>1, <1>2, <1>3, TypeCorrect, Invariance, PTL DEF Spec

----------------------------------------------------------------------------
(* A concatenation is cut where its parts meet. *)
LEMMA ConcatCut ==
  ASSUME NEW s \in Seq(Entry), NEW t \in Seq(Entry)
  PROVE  /\ SubSeq(s \o t, 1, Len(s)) = s
         /\ SubSeq(s \o t, Len(s) + 1, Len(s \o t)) = t
         /\ t # <<>> => SubSeq(s \o t, Len(s) + 2, Len(s \o t)) = Tail(t)
         /\ t # <<>> => Len(s) + 1 \in 1..Len(s \o t)
         /\ s # <<>> => Len(s) \in 1..Len(s \o t)
<1> DEFINE c == s \o t
           m == Len(s)
           n == Len(t)
<1>1. /\ c \in Seq(Entry) /\ Len(c) = m + n /\ m \in Nat /\ n \in Nat
      /\ \A i \in 1..(m + n) : c[i] = IF i <= m THEN s[i] ELSE t[i - m]
  BY ConcatProperties, LenProperties
<1>2. \A i \in 1..Len(c) : c[i] \in Entry
  BY <1>1, ElementOfSeq
<1> HIDE DEF c
<1>3. ASSUME NEW k \in 0..Len(c), NEW j \in 0..k
      PROVE  LET u == SubSeq(c, j + 1, k)
             IN  u \in Seq(Entry) /\ Len(u) = k - j /\ \A i \in 1..(k - j) : u[i] = c[j + i]
  <2>1. j + 1 \in Int /\ k \in Int /\ \A i \in (j + 1)..k : c[i] \in Entry
    BY <1>1, <1>2
  <2>2. k - (j + 1) + 1 = k - j /\ \A i \in 1..(k - j) : (j + 1) + i - 1 = j + i
    BY <1>1
  <2> QED
    BY <1>1, <2>1, <2>2, SubSeqProperties, SMTT(30)
<1>4. SubSeq(c, 1, m) = s
  <2> DEFINE u == SubSeq(c, 0 + 1, m)
  <2>1. u \in Seq(Entry) /\ Len(u) = m /\ \A i \in 1..m : u[i] = c[0 + i]
    <3>1. m \in 0..Len(c) /\ 0 \in 0..m /\ m - 0 = m
      BY <1>1
    <3> QED
      BY <1>3, <3>1
  <2>2. \A i \in 1..m : c[0 + i] = s[i]
    BY <1>1
  <2> HIDE DEF u
  <2>3. u = s
    BY <2>1, <2>2, SeqEqual
  <2> QED
    BY <2>3 DEF u
<1>5. SubSeq(c, m + 1, Len(c)) = t
  <2> DEFINE u == SubSeq(c, m + 1, Len(c))
  <2>1. u \in Seq(Entry) /\ Len(u) = n /\ \A i \in 1..n : u[i] = c[m + i]
    <3>1. Len(c) \in 0..Len(c) /\ m \in 0..Len(c) /\ Len(c) - m = n
      BY <1>1
    <3> QED
      BY <1>3, <3>1
  <2>2. \A i \in 1..n : c[m + i] = t[i]
    <3> TAKE i \in 1..n
    <3>1. m + i \in 1..(m + n) /\ ~(m + i <= m) /\ (m + i) - m = i
      BY <1>1
    <3> QED
      BY <1>1, <3>1
  <2> HIDE DEF u
  <2>3. u = t
    BY <2>1, <2>2, SeqEqual
  <2> QED
    BY <2>3 DEF u
<1>6. ASSUME t # <<>> PROVE SubSeq(c, m + 2, Len(c)) = Tail(t) /\ m + 1 \in 1..Len(c)
  <2> DEFINE u == SubSeq(c, (m + 1) + 1, Len(c))
             v == Tail(t)
  <2>1. v \in Seq(Entry) /\ Len(v) = n - 1 /\ n >= 1 /\ \A i \in 1..(n - 1) : v[i] = t[i + 1]
    BY <1>1, <1>6, HeadTailProperties, EmptySeq
  <2>2. m + 1 \in 1..Len(c)
    BY <1>1, <2>1
  <2>3. u \in Seq(Entry) /\ Len(u) = n - 1 /\ \A i \in 1..(n - 1) : u[i] = c[(m + 1) + i]
    <3>1. Len(c) \in 0..Len(c) /\ m + 1 \in 0..Len(c) /\ Len(c) - (m + 1) = n - 1
      BY <1>1, <2>1
    <3> QED
      BY <1>3, <3>1
  <2>4. \A i \in 1..(n - 1) : c[(m + 1) + i] = t[i + 1]
    <3> TAKE i \in 1..(n - 1)
    <3>1. (m + 1) + i \in 1..(m + n) /\ ~((m + 1) + i <= m) /\ ((m + 1) + i) - m = i + 1
      BY <1>1, <2>1
    <3> QED
      BY <1>1, <3>1
  <2>5. (m + 1) + 1 = m + 2
    BY <1>1
  <2> HIDE DEF u, v
  <2>6. u = v
    BY <2>1, <2>3, <2>4, SeqEqual
  <2> QED
    BY <2>2, <2>5, <2>6 DEF u, v
<1>7. ASSUME s # <<>> PROVE m \in 1..Len(c)
  BY <1>1, <1>7, EmptySeq
<1> QED
  BY <1>4, <1>5, <1>6, <1>7 DEF c

(* What is pending ends in the queue. *)
LEMMA PendingType ==
  ASSUME TypeOK
  PROVE  /\ batch \o remaining \in Seq(Entry) /\ queue_ \in Seq(Entry)
         /\ Pending = (batch \o remaining) \o queue_ /\ Pending \in Seq(Entry)
<1>1. batch \o remaining \in Seq(Entry) /\ queue_ \in Seq(Entry)
  BY ConcatProperties DEF TypeOK
<1> QED
  BY <1>1, ConcatProperties DEF Pending

(* A call that pushes accepts its entry, in place of one that is pending   *)
(* if it discards; every other outcome leaves the log alone.               *)
LEMMA ProducerRefines ==
  ASSUME TypeOK, NEW p \in Producers, ProducerStep(p)
  PROVE  Log!Accept \/ Log!AcceptDiscarding \/ UNCHANGED <<Pending, written>>
<1> DEFINE head == batch \o remaining
           e == CurrentEntry(p)
<1>1. head \in Seq(Entry) /\ queue_ \in Seq(Entry) /\ Pending = head \o queue_
  BY PendingType
<1>2. /\ prod[p] # "idle" /\ UNCHANGED <<written, batch, remaining>>
  BY CallOutcome DEF ProducerLeaves, workerVars, stopperVars, outputVars
<1>3. Pending' = head \o queue_' /\ written' = written
  BY <1>2 DEF Pending
<1>4. e \in Entry
  BY <1>2, CurrentEntryType
<1> HIDE DEF head, e
<1>5. CASE ~Full /\ Push(p, FALSE)
  <2>1. queue_' = Append(queue_, e)
    BY <1>5 DEF Push, e
  <2>2. head \o Append(queue_, e) = Append(head \o queue_, e)
    BY <1>1, <1>4, ConcatAppend
  <2>3. Pending' = Append(Pending, e)
    BY <1>1, <1>3, <2>1, <2>2
  <2> QED
    BY <1>3, <1>4, <2>3 DEF Log!Accept
<1>6. CASE Full /\ Push(p, TRUE)
  <2> DEFINE k == Len(head) + 1
  <2>1. queue_ # <<>>
    BY <1>6, ConstantsAssumption, EmptySeq DEF Full
  <2>2. queue_' = Append(Tail(queue_), e)
    BY <1>6 DEF Push, e
  <2>3. Tail(queue_) \in Seq(Entry)
    BY <1>1, <2>1, HeadTailProperties
  <2>4. head \o Append(Tail(queue_), e) = Append(head \o Tail(queue_), e)
    BY <1>1, <1>4, <2>3, ConcatAppend
  <2>5. /\ SubSeq(Pending, 1, Len(head)) = head
        /\ SubSeq(Pending, Len(head) + 2, Len(Pending)) = Tail(queue_)
        /\ k \in 1..Len(Pending)
    BY <1>1, <2>1, ConcatCut
  <2>6. k - 1 = Len(head) /\ k + 1 = Len(head) + 2
    BY <1>1, LenProperties
  <2>7. Log!Without(Pending, k) = head \o Tail(queue_)
    BY <2>5, <2>6 DEF Log!Without
  <2>8. Pending' = Append(Log!Without(Pending, k), e)
    BY <1>3, <2>2, <2>4, <2>7
  <2> HIDE DEF k
  <2> QED
    BY <1>3, <1>4, <2>5, <2>8 DEF Log!AcceptDiscarding
<1>7. CASE Drop(p) \/ Refuse(p)
  BY <1>1, <1>3, <1>7 DEF Drop, Refuse
<1>8. ASSUME NEW state \in {"wait", "waitTimed"}, WaitForSpace(p, state)
      PROVE  UNCHANGED <<Pending, written>>
  BY <1>1, <1>3, <1>8 DEF WaitForSpace
<1> QED
  BY <1>5, <1>6, <1>7, <1>8, CallOutcome

(* A batch that is handed to the sinks is delivered from the front. *)
LEMMA BatchRefines ==
  ASSUME NEW s \in Seq(Entry), NEW t \in Seq(Entry),
         Pending = s \o t, Pending' = t, written' = written \o s, written \in Seq(Entry)
  PROVE  Log!Deliver \/ UNCHANGED <<Pending, written>>
<1>1. CASE s = <<>>
  <2>1. <<>> \o t = t /\ written \o <<>> = written
    BY ConcatEmptySeq
  <2> QED
    BY <1>1, <2>1
<1>2. CASE s # <<>>
  <2>1. /\ SubSeq(s \o t, 1, Len(s)) = s
        /\ SubSeq(s \o t, Len(s) + 1, Len(s \o t)) = t
        /\ Len(s) \in 1..Len(s \o t)
    BY <1>2, ConcatCut
  <2>2. /\ Len(s) \in 1..Len(Pending)
        /\ written' = written \o SubSeq(Pending, 1, Len(s))
        /\ Pending' = SubSeq(Pending, Len(s) + 1, Len(Pending))
    BY <2>1
  <2> QED
    BY <2>2 DEF Log!Deliver
<1> QED
  BY <1>1, <1>2

(* The worker and Shutdown deliver, or move what is pending. *)
LEMMA MoveRefines ==
  ASSUME TypeOK, TypeOK', Inv, WorkerStep \/ ShutdownBegin \/ ShutdownStep
  PROVE  Log!Deliver \/ UNCHANGED <<Pending, written>>
<1>1. /\ queue_ \in Seq(Entry) /\ batch \in Seq(Entry) /\ remaining \in Seq(Entry)
      /\ written \in Seq(Entry) /\ Pending \in Seq(Entry)
  BY PendingType DEF TypeOK
<1>2. Pending' \in Seq(Entry)
  <2>1. batch' \in Seq(Entry) /\ remaining' \in Seq(Entry) /\ queue_' \in Seq(Entry)
    BY DEF TypeOK
  <2>2. batch' \o remaining' \in Seq(Entry)
    BY <2>1, ConcatProperties
  <2> QED
    BY <2>1, <2>2, ConcatProperties DEF Pending
<1>3. \A q \in Seq(Entry) : <<>> \o q = q /\ q \o <<>> = q
  BY ConcatEmptySeq
<1>4. CASE WorkerProcess
  <2>1. remaining = <<>> /\ sinks_ = "open"
    BY <1>4 DEF WorkerProcess, Inv, Lifecycle, TypeOK
  <2>2. /\ written' = written \o batch /\ batch' = <<>> /\ remaining' = remaining
        /\ queue_' = queue_
    BY <1>4, <2>1 DEF WorkerProcess, ProcessBatch, WorkerLeaves, stopperVars
  <2>3. Pending = batch \o queue_ /\ Pending' = queue_
    BY <1>1, <1>3, <2>1, <2>2 DEF Pending
  <2> QED
    BY <1>1, <2>2, <2>3, BatchRefines
<1>5. CASE ShutdownProcess
  <2>1. batch = <<>> /\ sinks_ = "open"
    BY <1>5 DEF ShutdownProcess, Inv, Lifecycle, TypeOK
  <2>2. /\ written' = written \o remaining /\ remaining' = <<>> /\ batch' = batch
        /\ queue_' = queue_
    BY <1>5, <2>1 DEF ShutdownProcess, ProcessBatch, StopperLeaves, workerVars
  <2>3. Pending = remaining \o queue_ /\ Pending' = queue_
    BY <1>1, <1>3, <2>1, <2>2 DEF Pending
  <2> QED
    BY <1>1, <2>2, <2>3, BatchRefines
<1>6. CASE ~WorkerProcess /\ ~ShutdownProcess
  <2>1. written' = written
    BY <1>6 DEF WorkerStep, WorkerTest, WorkerEnter, WorkerSleep, WorkerWake, WorkerTimesOut,
       WorkerNotify, ShutdownBegin, ShutdownStep, ShutdownNotify, ShutdownJoin, ShutdownDrain,
       ShutdownFlush, outputVars
  <2>2. written \o Pending' = written \o Pending
    BY <2>1, LogMoves DEF TheLog
  <2>3. Pending' = Pending
    BY <1>1, <1>2, <2>2, ConcatSimplifications
  <2> QED
    BY <2>1, <2>3
<1> QED
  BY <1>4, <1>5, <1>6

(* The logger implements the abstract log: every step of its threads       *)
(* accepts an entry at the end, delivers from the front, discards an       *)
(* undelivered entry for a new one, or changes nothing of the log.         *)
THEOREM LoggerImplementsLog == Spec => ImplementsLog
<1>1. Init => Log!Init
  <2> SUFFICES ASSUME Init PROVE Log!Init
    OBVIOUS
  <2>1. Pending = <<>>
    BY ConcatEmptySeq, EmptySeq DEF Init, Pending
  <2> QED
    BY <2>1 DEF Init, Log!Init
<1>2. TypeOK /\ TypeOK' /\ Inv /\ [Next]_vars => [Log!Next]_<<Pending, written>>
  <2> SUFFICES ASSUME TypeOK, TypeOK', Inv, [Next]_vars
               PROVE  Log!Next \/ UNCHANGED <<Pending, written>>
    OBVIOUS
  <2>1. ASSUME UNCHANGED <<written, batch, remaining, queue_>>
        PROVE  UNCHANGED <<Pending, written>>
    BY <2>1 DEF Pending
  <2>2. CASE Initialize \/ SetOverflowPolicy \/ UNCHANGED vars
    BY <2>1, <2>2 DEF Initialize, SetOverflowPolicy, vars, workerVars, stopperVars, outputVars
  <2>3. ASSUME NEW p \in Producers, EnqueueBegin(p) \/ SpuriousWake(p)
        PROVE  UNCHANGED <<Pending, written>>
    BY <2>1, <2>3 DEF EnqueueBegin, SpuriousWake, ProducerLeaves, workerVars, stopperVars,
       outputVars
  <2>4. ASSUME NEW p \in Producers, ProducerStep(p)
        PROVE  Log!Next \/ UNCHANGED <<Pending, written>>
    BY <2>4, ProducerRefines DEF Log!Next
  <2>5. CASE WorkerStep \/ ShutdownBegin \/ ShutdownStep
    BY <2>5, MoveRefines DEF Log!Next
  <2> QED
    BY <2>2, <2>3, <2>4, <2>5 DEF Next
<1> QED
  BY <1>1, <1>2, TypeCorrect, Invariance, PTL DEF Spec, ImplementsLog, Log!Spec
============================================================================
