---------------------------- MODULE AsyncLogger ----------------------------
(***************************************************************************)
(* One AsyncLogger of lib_logger (lib_logger/src/async_logger.cc): the     *)
(* producer threads that call Enqueue and EnqueueWithTimeout, the worker   *)
(* thread that hands batches of entries to the sinks, and the thread that  *)
(* calls Shutdown.                                                         *)
(*                                                                         *)
(* Every critical section of queue_mutex_ is one step.  The exception is   *)
(* the worker's timed wait: it has evaluated the wait predicate and still  *)
(* holds the mutex, but is not yet asleep, in the state "falling".         *)
(* Shutdown writes running_ and notifies queue_cv_ without the mutex, so   *)
(* its steps may fall into that gap, and a producer's may not.             *)
(***************************************************************************)
EXTENDS Integers, Sequences, FiniteSets

CONSTANTS
  Producers,   \* the threads that log
  MaxEntries,  \* bound: the calls each producer makes
  QueueSize,   \* config_.async_queue_size
  BatchSize,   \* BATCH_SIZE
  Policies     \* the overflow policies the configuration and callers choose from

ASSUME ConstantsAssumption ==
  /\ MaxEntries \in Nat
  /\ QueueSize \in Nat \ {0}
  /\ BatchSize \in Nat \ {0}
  /\ Policies \subseteq {"BLOCK", "DISCARD_OLDEST", "DISCARD_NEWEST"}

VARIABLES
  running_, overflow_policy_, queue_, dropped_count_, processed_count_,
  sinks_,      \* "open" from Initialize until Shutdown has flushed and cleared them
  worker,      \* where the worker thread is
  batch,       \* the worker's local batch
  signalled,   \* a notification of queue_cv_ reached the sleeping worker
  stopper,     \* where the thread that calls Shutdown is
  remaining,   \* Shutdown's local vector
  prod,        \* where each producer is
  sequence,    \* t_sequence: entries each producer has made
  written,     \* what the sinks have received, in order
  completed,   \* history: number of enqueue calls that have returned
  refused      \* history: those that returned false because of ~running_

vars == <<running_, overflow_policy_, queue_, dropped_count_, processed_count_,
          sinks_, worker, batch, signalled, stopper, remaining, prod, sequence,
          written, completed, refused>>

workerVars  == <<worker, batch>>
stopperVars == <<stopper, remaining>>
outputVars  == <<processed_count_, written>>

Entry == Producers \X (1..MaxEntries)

(* The entry the current call of p carries. *)
CurrentEntry(p) == <<p, sequence[p]>>

WorkerStates  == {"none", "test", "enter", "falling", "asleep", "notify",
                  "process", "exited"}
StopperStates == {"idle", "notify", "join", "drain", "process", "flush", "done"}
ProducerStates == {"idle", "lock", "lockTimed", "wait", "waitTimed", "woken",
                   "wokenTimed"}

(* queue_mutex_ is held across a step boundary only by a worker about to   *)
(* sleep.                                                                  *)
MutexFree == worker # "falling"

Full == Len(queue_) >= QueueSize

Init ==
  /\ running_ = FALSE
  /\ overflow_policy_ = "BLOCK"
  /\ queue_ = <<>>
  /\ dropped_count_ = 0
  /\ processed_count_ = 0
  /\ sinks_ = "none"
  /\ worker = "none"
  /\ batch = <<>>
  /\ signalled = FALSE
  /\ stopper = "idle"
  /\ remaining = <<>>
  /\ prod = [p \in Producers |-> "idle"]
  /\ sequence = [p \in Producers |-> 0]
  /\ written = <<>>
  /\ completed = 0
  /\ refused = 0

(* LogManager publishes a logger only after Initialize, and initializes it *)
(* once.                                                                   *)
Initialize ==
  /\ worker = "none"
  /\ \E policy \in Policies : overflow_policy_' = policy
  /\ sinks_' = "open"
  /\ running_' = TRUE
  /\ worker' = "test"
  /\ UNCHANGED <<queue_, dropped_count_, batch, signalled, stopperVars, prod,
                 sequence, outputVars, completed, refused>>

SetOverflowPolicy ==
  /\ worker # "none"
  /\ \E policy \in Policies \ {overflow_policy_} : overflow_policy_' = policy
  /\ UNCHANGED <<running_, queue_, dropped_count_, sinks_, workerVars, signalled,
                 stopperVars, prod, sequence, outputVars, completed, refused>>

----------------------------------------------------------------------------
(* The ways an enqueue call goes on, under queue_mutex_. *)

(* Mutant: the discarded entry is taken off the counter. *)
PushUncounts(p, discardOldest) ==
  /\ queue_' = Append(IF discardOldest THEN Tail(queue_) ELSE queue_, CurrentEntry(p))
  /\ dropped_count_' = IF discardOldest THEN dropped_count_ - 1 ELSE dropped_count_
  /\ signalled' = (signalled \/ worker = "asleep")
  /\ prod' = [prod EXCEPT ![p] = "idle"]
  /\ completed' = completed + 1
  /\ UNCHANGED refused

(* Mutant: the oldest entry is discarded without being counted. *)
PushDiscardsSilently(p, discardOldest) ==
  /\ queue_' = Append(IF discardOldest THEN Tail(queue_) ELSE queue_, CurrentEntry(p))
  /\ signalled' = (signalled \/ worker = "asleep")
  /\ prod' = [prod EXCEPT ![p] = "idle"]
  /\ completed' = completed + 1
  /\ UNCHANGED <<dropped_count_, refused>>

(* queue_.push and queue_cv_.notify_one, after popping the oldest entry    *)
(* when discardOldest.                                                     *)
Push(p, discardOldest) ==
  /\ queue_' = Append(IF discardOldest THEN Tail(queue_) ELSE queue_, CurrentEntry(p))
  /\ dropped_count_' = IF discardOldest THEN dropped_count_ + 1 ELSE dropped_count_
  /\ signalled' = (signalled \/ worker = "asleep")
  /\ prod' = [prod EXCEPT ![p] = "idle"]
  /\ completed' = completed + 1
  /\ UNCHANGED refused

(* return false, counted in dropped_count_. *)
Drop(p) ==
  /\ dropped_count_' = dropped_count_ + 1
  /\ prod' = [prod EXCEPT ![p] = "idle"]
  /\ completed' = completed + 1
  /\ UNCHANGED <<queue_, signalled, refused>>

(* return false because the logger has stopped: no counter says so. *)
Refuse(p) ==
  /\ prod' = [prod EXCEPT ![p] = "idle"]
  /\ completed' = completed + 1
  /\ refused' = refused + 1
  /\ UNCHANGED <<queue_, dropped_count_, signalled>>

(* Wait on space_cv_, which releases the mutex. *)
WaitForSpace(p, state) ==
  /\ prod' = [prod EXCEPT ![p] = state]
  /\ UNCHANGED <<queue_, dropped_count_, signalled, completed, refused>>

(* What a caller of space_cv_.wait does once it holds the mutex again. *)
AfterWait(p, state) ==
  \/ ~running_ /\ Refuse(p)
  \/ running_ /\ Full /\ WaitForSpace(p, state)
  \/ running_ /\ ~Full /\ Push(p, FALSE)

TryEnqueue(p) ==
  \/ ~Full /\ Push(p, FALSE)
  \/ /\ Full
     /\ \/ overflow_policy_ = "BLOCK" /\ AfterWait(p, "wait")
        \/ overflow_policy_ = "DISCARD_OLDEST" /\ Push(p, TRUE)
        \/ overflow_policy_ = "DISCARD_NEWEST" /\ Drop(p)

ProducerLeaves ==
  UNCHANGED <<running_, overflow_policy_, sinks_, workerVars, stopperVars, outputVars>>

(* Logger::Log makes the entry and calls Enqueue or EnqueueWithTimeout,    *)
(* which reads running_ before it takes the mutex.                         *)
EnqueueBegin(p) ==
  /\ worker # "none"
  /\ prod[p] = "idle"
  /\ sequence[p] < MaxEntries
  /\ sequence' = [sequence EXCEPT ![p] = @ + 1]
  /\ \/ /\ running_
        /\ \E state \in {"lock", "lockTimed"} : prod' = [prod EXCEPT ![p] = state]
        /\ UNCHANGED <<completed, refused>>
     \/ /\ ~running_
        /\ completed' = completed + 1
        /\ refused' = refused + 1
        /\ UNCHANGED prod
  /\ ProducerLeaves
  /\ UNCHANGED <<queue_, dropped_count_, signalled>>

Enqueue(p) ==
  /\ prod[p] = "lock"
  /\ MutexFree
  /\ TryEnqueue(p)
  /\ ProducerLeaves
  /\ UNCHANGED sequence

(* The policy is read again in TryEnqueue: when SetOverflowPolicy makes it *)
(* BLOCK in between, the call waits without a deadline.                    *)
EnqueueWithTimeout(p) ==
  /\ prod[p] = "lockTimed"
  /\ MutexFree
  /\ \/ Full /\ overflow_policy_ = "BLOCK" /\ AfterWait(p, "waitTimed")
     \/ ~(Full /\ overflow_policy_ = "BLOCK") /\ TryEnqueue(p)
     \/ Full /\ overflow_policy_ # "BLOCK" /\ "BLOCK" \in Policies /\ AfterWait(p, "wait")
  /\ ProducerLeaves
  /\ UNCHANGED sequence

(* Mutant: a notified waiter takes the queue to have room. *)
WakeWithoutRecheck(p) ==
  /\ prod[p] \in {"woken", "wokenTimed"}
  /\ MutexFree
  /\ IF running_ THEN Push(p, FALSE) ELSE Refuse(p)
  /\ ProducerLeaves
  /\ UNCHANGED sequence

(* A notified waiter has the mutex again and evaluates the predicate. *)
WakeForSpace(p) ==
  /\ prod[p] \in {"woken", "wokenTimed"}
  /\ MutexFree
  /\ AfterWait(p, IF prod[p] = "woken" THEN "wait" ELSE "waitTimed")
  /\ ProducerLeaves
  /\ UNCHANGED sequence

(* The deadline of wait_until has passed: the predicate is evaluated once  *)
(* more, and a caller that still finds the queue full drops its entry.     *)
WaitTimesOut(p) ==
  /\ prod[p] \in {"waitTimed", "wokenTimed"}
  /\ MutexFree
  /\ \/ ~running_ /\ Refuse(p)
     \/ running_ /\ Full /\ Drop(p)
     \/ running_ /\ ~Full /\ Push(p, FALSE)
  /\ ProducerLeaves
  /\ UNCHANGED sequence

(* A condition variable may wake a waiter for no reason. *)
Woken(state) == IF state = "wait" THEN "woken"
                ELSE IF state = "waitTimed" THEN "wokenTimed" ELSE state

SpuriousWake(p) ==
  /\ prod[p] \in {"wait", "waitTimed"}
  /\ prod' = [prod EXCEPT ![p] = Woken(@)]
  /\ ProducerLeaves
  /\ UNCHANGED <<queue_, dropped_count_, signalled, sequence, completed, refused>>

----------------------------------------------------------------------------
(* The worker thread. *)

WorkerLeaves ==
  UNCHANGED <<running_, overflow_policy_, dropped_count_, sinks_, stopperVars,
              sequence, completed, refused>>

(* Write every entry of entries to the open sinks; a sink that throws is   *)
(* ignored, and the entries are counted all the same.                      *)
ProcessBatch(entries) ==
  /\ written' = IF sinks_ = "open" THEN written \o entries ELSE written
  /\ processed_count_' = processed_count_ + Len(entries)

WorkerTest ==
  /\ worker = "test"
  /\ worker' = IF running_ THEN "enter" ELSE "exited"
  /\ WorkerLeaves
  /\ UNCHANGED <<queue_, batch, signalled, prod, outputVars>>

(* How many entries one batch takes from the queue. *)
BatchLength == IF Len(queue_) < BatchSize THEN Len(queue_) ELSE BatchSize

(* The rest of the critical section after wait_for has returned. *)
Collect ==
  IF ~running_ /\ queue_ = <<>>
    THEN worker' = "exited" /\ UNCHANGED <<batch, queue_>>
    ELSE /\ batch' = SubSeq(queue_, 1, BatchLength)
         /\ queue_' = SubSeq(queue_, BatchLength + 1, Len(queue_))
         /\ worker' = "notify"

WaitPredicate == queue_ # <<>> \/ ~running_

(* Take the mutex and evaluate the predicate of wait_for. *)
WorkerEnter ==
  /\ worker = "enter"
  /\ \/ WaitPredicate /\ Collect
     \/ ~WaitPredicate /\ worker' = "falling" /\ UNCHANGED <<batch, queue_>>
  /\ WorkerLeaves
  /\ UNCHANGED <<signalled, prod, outputVars>>

(* Fall asleep and release the mutex: notifications before this step are   *)
(* lost.                                                                   *)
WorkerSleep ==
  /\ worker = "falling"
  /\ worker' = "asleep"
  /\ signalled' = FALSE
  /\ WorkerLeaves
  /\ UNCHANGED <<queue_, batch, prod, outputVars>>

WorkerWake ==
  /\ worker = "asleep"
  /\ signalled
  /\ signalled' = FALSE
  /\ \/ WaitPredicate /\ Collect
     \/ ~WaitPredicate /\ worker' = "falling" /\ UNCHANGED <<batch, queue_>>
  /\ WorkerLeaves
  /\ UNCHANGED <<prod, outputVars>>

(* Mutant: wait in place of wait_for. *)
WorkerNeverTimesOut == FALSE /\ UNCHANGED vars

(* BATCH_TIMEOUT has passed: wait_for's result is ignored. *)
WorkerTimesOut ==
  /\ worker = "asleep"
  /\ signalled' = FALSE
  /\ Collect
  /\ WorkerLeaves
  /\ UNCHANGED <<prod, outputVars>>

(* Mutant: no notification of space_cv_. *)
WorkerTellsNobody ==
  /\ worker = "notify"
  /\ worker' = IF batch = <<>> THEN "test" ELSE "process"
  /\ WorkerLeaves
  /\ UNCHANGED <<queue_, batch, signalled, prod, outputVars>>

(* space_cv_.notify_all when entries were taken. *)
WorkerNotify ==
  /\ worker = "notify"
  /\ \/ /\ batch = <<>>
        /\ worker' = "test"
        /\ UNCHANGED prod
     \/ /\ batch # <<>>
        /\ worker' = "process"
        /\ prod' = [p \in Producers |-> Woken(prod[p])]
  /\ WorkerLeaves
  /\ UNCHANGED <<queue_, batch, signalled, outputVars>>

(* Mutant: batch.clear() is missing. *)
WorkerKeepsBatch ==
  /\ worker = "process"
  /\ ProcessBatch(batch)
  /\ worker' = "test"
  /\ WorkerLeaves
  /\ UNCHANGED <<queue_, batch, signalled, prod>>

WorkerProcess ==
  /\ worker = "process"
  /\ ProcessBatch(batch)
  /\ batch' = <<>>
  /\ worker' = "test"
  /\ WorkerLeaves
  /\ UNCHANGED <<queue_, signalled, prod>>

----------------------------------------------------------------------------
(* The thread that calls Shutdown.  A call that finds running_ already     *)
(* false returns at once and changes nothing.                              *)

StopperLeaves ==
  UNCHANGED <<overflow_policy_, dropped_count_, workerVars, prod, sequence,
              completed, refused>>

ShutdownBegin ==
  /\ stopper = "idle"
  /\ running_
  /\ running_' = FALSE
  /\ stopper' = "notify"
  /\ StopperLeaves
  /\ UNCHANGED <<queue_, sinks_, signalled, remaining, outputVars>>

(* queue_cv_.notify_all, without the mutex. *)
ShutdownNotify ==
  /\ stopper = "notify"
  /\ signalled' = (signalled \/ worker = "asleep")
  /\ stopper' = "join"
  /\ StopperLeaves
  /\ UNCHANGED <<running_, queue_, sinks_, remaining, outputVars>>

(* Mutant: worker_.join() is missing. *)
ShutdownWithoutJoin ==
  /\ stopper = "join"
  /\ stopper' = "drain"
  /\ StopperLeaves
  /\ UNCHANGED <<running_, queue_, sinks_, signalled, remaining, outputVars>>

ShutdownJoin ==
  /\ stopper = "join"
  /\ worker = "exited"
  /\ stopper' = "drain"
  /\ StopperLeaves
  /\ UNCHANGED <<running_, queue_, sinks_, signalled, remaining, outputVars>>

ShutdownDrain ==
  /\ stopper = "drain"
  /\ MutexFree
  /\ remaining' = queue_
  /\ queue_' = <<>>
  /\ stopper' = "process"
  /\ StopperLeaves
  /\ UNCHANGED <<running_, sinks_, signalled, outputVars>>

ShutdownProcess ==
  /\ stopper = "process"
  /\ ProcessBatch(remaining)
  /\ remaining' = <<>>
  /\ stopper' = "flush"
  /\ StopperLeaves
  /\ UNCHANGED <<running_, queue_, sinks_, signalled>>

ShutdownFlush ==
  /\ stopper = "flush"
  /\ sinks_' = "cleared"
  /\ stopper' = "done"
  /\ StopperLeaves
  /\ UNCHANGED <<running_, queue_, signalled, remaining, outputVars>>

----------------------------------------------------------------------------
WorkerStep ==
  WorkerTest \/ WorkerEnter \/ WorkerSleep \/ WorkerWake \/ WorkerTimesOut
    \/ WorkerNotify \/ WorkerProcess

ShutdownStep ==
  ShutdownNotify \/ ShutdownJoin \/ ShutdownDrain \/ ShutdownProcess \/ ShutdownFlush

ProducerStep(p) ==
  Enqueue(p) \/ EnqueueWithTimeout(p) \/ WakeForSpace(p) \/ WaitTimesOut(p)

Next ==
  \/ Initialize
  \/ SetOverflowPolicy
  \/ \E p \in Producers : EnqueueBegin(p) \/ ProducerStep(p) \/ SpuriousWake(p)
  \/ WorkerStep
  \/ ShutdownBegin
  \/ ShutdownStep

Spec == Init /\ [][Next]_vars

(* Started threads run.  Strong fairness for producers: queue_mutex_ does  *)
(* not starve a caller, although the worker takes it again and again.      *)
Fairness ==
  /\ WF_vars(WorkerStep)
  /\ WF_vars(ShutdownStep)
  /\ \A p \in Producers : SF_vars(ProducerStep(p))

FairSpec == Spec /\ Fairness

----------------------------------------------------------------------------
(* Entries accepted and neither written nor discarded, oldest first. *)
Pending == batch \o remaining \o queue_

InPending(e) == \E i \in DOMAIN Pending : Pending[i] = e

(* Every variable has a value of its type. *)
TypeOK ==
  /\ running_ \in BOOLEAN
  /\ overflow_policy_ \in {"BLOCK", "DISCARD_OLDEST", "DISCARD_NEWEST"}
  /\ queue_ \in Seq(Entry)
  /\ dropped_count_ \in Nat
  /\ processed_count_ \in Nat
  /\ sinks_ \in {"none", "open", "cleared"}
  /\ worker \in WorkerStates
  /\ batch \in Seq(Entry)
  /\ signalled \in BOOLEAN
  /\ stopper \in StopperStates
  /\ remaining \in Seq(Entry)
  /\ prod \in [Producers -> ProducerStates]
  /\ sequence \in [Producers -> 0..MaxEntries]
  /\ \A p \in Producers : prod[p] # "idle" => sequence[p] # 0
  /\ written \in Seq(Entry)
  /\ completed \in Nat
  /\ refused \in Nat

(* How the three kinds of thread depend on each other: the worker exists   *)
(* from Initialize on, is joined before the drain, and the sinks outlive   *)
(* both.                                                                   *)
Lifecycle ==
  /\ worker = "none" <=> sinks_ = "none"
  /\ worker = "none" => /\ ~running_ /\ stopper = "idle" /\ refused = 0
                         /\ \A p \in Producers : prod[p] = "idle"
  /\ running_ => stopper = "idle"
  /\ stopper \in {"drain", "process", "flush", "done"} => worker = "exited"
  /\ sinks_ = "cleared" <=> stopper = "done"
  /\ worker \notin {"notify", "process"} => batch = <<>>
  /\ stopper # "process" => remaining = <<>>

(* queue_ never holds more than async_queue_size entries and a batch never *)
(* more than BATCH_SIZE, whatever the policy, however it changes under the *)
(* callers, and however many blocked callers one notify_all wakes.         *)
QueueBounded == Len(queue_) <= QueueSize /\ Len(batch) <= BatchSize

(* The statistics account for every call: an enqueue call that returned    *)
(* was processed, is queued, is in a batch, was counted as dropped, or was *)
(* refused by a stopped logger; a running logger refuses nobody.           *)
StatisticsAddUp ==
  /\ completed = processed_count_ + Len(batch) + Len(remaining) + Len(queue_)
                   + dropped_count_ + refused
  /\ running_ => refused = 0

(* No entry is handed to sinks that Shutdown has cleared: what             *)
(* processed_count_ counts has reached the sinks.                          *)
ProcessedIsWritten == processed_count_ = Len(written)

(* The sinks see the entries of each thread in the order it logged them,   *)
(* each at most once, across batches and Shutdown's own last batch.        *)
Ordered(log) ==
  \A i, j \in DOMAIN log :
    i < j /\ log[i][1] = log[j][1] => log[i][2] < log[j][2]

PerThreadOrder == Ordered(written \o Pending)

(* No entry of a thread in the log is younger than the call it is making:  *)
(* what makes PerThreadOrder inductive.                                    *)
Fresh(log) ==
  \A i \in DOMAIN log :
    /\ log[i][2] <= sequence[log[i][1]]
    /\ prod[log[i][1]] # "idle" => log[i][2] < sequence[log[i][1]]

LogIsFresh == Fresh(written \o Pending)

(* An entry queued before Shutdown drains the queue does not stay there:   *)
(* it is written, or discarded to make room.                               *)
QueuedIsHandled ==
  \A e \in Entry :
    (InPending(e) /\ stopper \in {"idle", "notify", "join", "drain"}) ~> ~InPending(e)

(* Shutdown returns, although its notification may come before the worker  *)
(* sleeps and be lost: the timed wait makes up for it.                     *)
ShutdownReturns == (stopper = "notify") ~> (stopper = "done")

(* While the logger runs, callers do not all stay blocked on a full queue: *)
(* as long as one is in a call, another call returns.  It need not be the  *)
(* one that has waited longest, since a caller that comes later may take   *)
(* the place before a woken one has the mutex.  The n calls that have      *)
(* returned are counted to say so, and no number of further calls would    *)
(* make up for none returning.                                             *)
CallsReturn ==
  \A n \in 0..(Cardinality(Producers) * MaxEntries) :
    (completed = n /\ \E p \in Producers : prod[p] # "idle") ~> (completed > n \/ ~running_)

(* Neither entries nor calls stop for ever, though producers go on taking  *)
(* the mutex and the policy changes under them.                            *)
WorkGoesOn == QueuedIsHandled /\ CallsReturn

(* What the header says of Enqueue, "Non-blocking enqueue with             *)
(* configurable overflow policy": a call returns.                          *)
EnqueueReturns == \A p \in Producers : (prod[p] # "idle") ~> (prod[p] = "idle")

(* What Shutdown says of itself, "Process remaining logs in queue": once   *)
(* it has returned, no accepted entry is left unprocessed.                 *)
NothingLeftBehind == stopper = "done" => queue_ = <<>>

(* The abstract log: accepted entries are delivered in order, once. *)
Log == INSTANCE LogPipe WITH pending <- Pending, delivered <- written

(* The logger implements the abstract log: entries are accepted at the     *)
(* end, delivered from the front, and only an undelivered one is           *)
(* discarded, whichever thread does it.                                    *)
ImplementsLog == Log!Spec
============================================================================
