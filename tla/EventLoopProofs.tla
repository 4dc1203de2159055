-------------------------- MODULE EventLoopProofs --------------------------
(***************************************************************************)
(* Proofs about EventLoop, for any set of posting threads, any number of   *)
(* tasks and connections and any set of descriptors.                       *)
(***************************************************************************)
EXTENDS EventLoop, SequenceTheorems, FiniteSetTheorems, TLAPS

(* The variables of an event sequence after its head was dispatched. *)
LEMMA DispatchesType ==
  ASSUME TypeOK, NEW fd, Dispatches(fd)
  PROVE  /\ events \in Seq(Event) /\ events # <<>>
         /\ Head(events) \in Event /\ Head(events).fd = fd
         /\ events' = Tail(events) /\ events' \in Seq(Event)
         /\ running_' \in BOOLEAN
         /\ UNCHANGED <<posterVars, controller>>
<1>1. events \in Seq(Event) /\ events # <<>>
  BY DEF TypeOK, Dispatches
<1>2. Tail(events) \in Seq(Event) /\ Head(events) \in Event
  BY <1>1, HeadTailProperties
<1> QED
  BY <1>1, <1>2 DEF Dispatches, LoopLeaves, TypeOK

(* Dispatching the event at hand keeps the types, whatever descriptor it   *)
(* is for.                                                                 *)
LEMMA DispatchType ==
  ASSUME TypeOK,
         HandleRead \/ AcceptBegins \/ \E fd \in ConnFds : ConnectionEvent(fd)
  PROVE  TypeOK'
<1>1. CASE HandleRead
  BY <1>1, DispatchesType DEF HandleRead, TypeOK, LoopStates, ioVars, taskVars, posterVars
<1>2. CASE AcceptBegins
  BY <1>2, DispatchesType DEF AcceptBegins, TypeOK, LoopStates, ioVars, taskVars, posterVars
<1>3. ASSUME NEW fd \in ConnFds, ConnectionEvent(fd)
      PROVE  TypeOK'
  <2>1. /\ DOMAIN handlers_' \subseteq Fds
        /\ {WakeupFd, ListenFd} \subseteq DOMAIN handlers_'
        /\ \A f \in DOMAIN handlers_' : handlers_'[f] \in 0..identities
        /\ ready' \subseteq ConnFds \cap DOMAIN handlers_'
    BY <1>3, ConstantsAssumption
       DEF ConnectionEvent, RemoveFd, TypeOK, WakeupFd, ListenFd
  <2>2. events' \in Seq(Event) /\ running_' \in BOOLEAN /\ UNCHANGED <<posterVars, controller>>
    BY <1>3, DispatchesType DEF ConnectionEvent
  <2> QED
    BY <1>3, <2>1, <2>2 DEF ConnectionEvent, TypeOK, taskVars, posterVars
<1> QED
  BY <1>1, <1>2, <1>3

(* What Poll returns is a sequence of events, of different descriptors,    *)
(* each with the handler its descriptor has.                               *)
LEMMA PollEvents ==
  ASSUME TypeOK, Poll
  PROVE  /\ events' \in Seq(Event)
         /\ \A i \in DOMAIN events' :
              /\ events'[i].fd \in DOMAIN handlers_
              /\ handlers_[events'[i].fd] = events'[i].handler
         /\ \A i, j \in DOMAIN events' : events'[i].fd = events'[j].fd => i = j
<1> DEFINE n == Cardinality(ReadyFds)
<1>1. PICK order \in Orders(ReadyFds) :
        events' = [i \in DOMAIN order |-> [fd |-> order[i], handler |-> handlers_[order[i]]]]
  BY DEF Poll
<1>2. /\ order \in [1..n -> ReadyFds]
      /\ \A i, j \in 1..n : order[i] = order[j] => i = j
  BY <1>1 DEF Orders
<1>3. ReadyFds \subseteq DOMAIN handlers_
  BY DEF ReadyFds, TypeOK
<1>4. n \in Nat
  <2>1. IsFiniteSet(ReadyFds)
    <3>1. ReadyFds \subseteq ConnFds \cup {WakeupFd, ListenFd}
      BY DEF ReadyFds, TypeOK
    <3>2. IsFiniteSet({WakeupFd, ListenFd})
      <4>1. IsFiniteSet({WakeupFd}) /\ IsFiniteSet({ListenFd})
        BY FS_Singleton
      <4>2. IsFiniteSet({WakeupFd} \cup {ListenFd})
        BY <4>1, FS_Union
      <4>3. {WakeupFd, ListenFd} = {WakeupFd} \cup {ListenFd}
        OBVIOUS
      <4> QED
        BY <4>2, <4>3
    <3>3. IsFiniteSet(ConnFds \cup {WakeupFd, ListenFd})
      BY <3>2, ConstantsAssumption, FS_Union
    <3> QED
      BY <3>1, <3>3, FS_Subset
  <2> QED
    BY <2>1, FS_CardinalityType
<1> HIDE DEF n
<1>5. /\ DOMAIN events' = 1..n
      /\ \A i \in 1..n : events'[i] = [fd |-> order[i], handler |-> handlers_[order[i]]]
  BY <1>1, <1>2
<1>6. \A i \in 1..n : order[i] \in DOMAIN handlers_
  BY <1>2, <1>3
<1>7. \A i \in 1..n : [fd |-> order[i], handler |-> handlers_[order[i]]] \in Event
  <2>1. \A f \in DOMAIN handlers_ : f \in Fds /\ handlers_[f] \in Nat
    BY DEF TypeOK
  <2> QED
    BY <1>6, <2>1 DEF Event
<1>8. events' \in Seq(Event)
  <2>1. events' = [i \in 1..n |-> [fd |-> order[i], handler |-> handlers_[order[i]]]]
    BY <1>1, <1>2
  <2>2. events' \in [1..n -> Event]
    BY <1>7, <2>1
  <2> QED
    BY <1>4, <2>2, SeqDef
<1>9. \A i \in 1..n : events'[i].fd = order[i] /\ events'[i].handler = handlers_[order[i]]
  BY <1>5
<1> QED
  BY <1>2, <1>5, <1>6, <1>8, <1>9

(* Every step keeps the types. *)
LEMMA StepType ==
  ASSUME TypeOK, [Next]_vars
  PROVE  TypeOK'
<1> USE DEF TypeOK, ioVars, taskVars, posterVars, LoopLeaves
<1>1. CASE ConnectionArrives
  BY <1>1 DEF ConnectionArrives
<1>2. CASE PeerActs
  BY <1>2 DEF PeerActs
<1>3. ASSUME NEW t \in Posters, QueueInLoop(t)
      PROVE  TypeOK'
  <2>1. <<t, posted[t] + 1>> \in Task /\ posted' \in [Posters -> Nat]
    BY <1>3 DEF QueueInLoop, Task
  <2>2. pending_tasks_' \in Seq(Task)
    BY <1>3, <2>1, AppendProperties DEF QueueInLoop
  <2>3. poster' \in [Posters -> {"idle", "wake"}]
    BY <1>3 DEF QueueInLoop
  <2> QED
    BY <1>3, <2>1, <2>2, <2>3 DEF QueueInLoop
<1>4. ASSUME NEW t \in Posters, WakeUp(t)
      PROVE  TypeOK'
  BY <1>4 DEF WakeUp
<1>5. CASE ServerStart \/ ServerStop \/ StopWakesLoop \/ ServerJoin
  BY <1>5 DEF ServerStart, ServerStop, StopWakesLoop, ServerJoin, LoopStates
<1>6. CASE RunBegins \/ RunTests \/ DispatchDone
  BY <1>6 DEF RunBegins, RunTests, DispatchDone, LoopStates
<1>7. CASE PollInterrupted \/ PollFails \/ AcceptEnds \/ AcceptRefuses
  BY <1>7 DEF PollInterrupted, PollFails, AcceptEnds, AcceptRefuses, LoopStates
<1>8. CASE Poll
  BY <1>8, PollEvents DEF Poll, LoopStates
<1>9. CASE HandleRead \/ AcceptBegins \/ \E fd \in ConnFds : ConnectionEvent(fd)
  BY <1>9, DispatchType
<1>10. CASE SwapTasks
  BY <1>10, EmptySeq DEF SwapTasks, LoopStates
<1>11. CASE RunTask
  <2>1. tasks # <<>> => Tail(tasks) \in Seq(Task) /\ Append(executed, Head(tasks)) \in Seq(Task)
    BY HeadTailProperties, AppendProperties
  <2>2. tasks' \in Seq(Task) /\ executed' \in Seq(Task) /\ loop' \in LoopStates
    BY <1>11, <2>1 DEF RunTask, LoopStates
  <2> QED
    BY <1>11, <2>2 DEF RunTask
<1>12. CASE Accept
  <2>1. PICK fd \in FreeFds :
          handlers_' = [f \in DOMAIN handlers_ \cup {fd} |->
                          IF f = fd THEN identities + 1 ELSE handlers_[f]]
    BY <1>12 DEF Accept
  <2>2. /\ DOMAIN handlers_' \subseteq Fds
        /\ DOMAIN handlers_ \subseteq DOMAIN handlers_'
        /\ \A f \in DOMAIN handlers_' : handlers_'[f] \in 0..(identities + 1)
    BY <2>1 DEF FreeFds, Fds
  <2> QED
    BY <1>12, <2>2 DEF Accept
<1>13. CASE UNCHANGED vars
  BY <1>13 DEF vars
<1> QED
  BY <1>1, <1>2, <1>3, <1>4, <1>5, <1>6, <1>7, <1>8, <1>9, <1>10, <1>11, <1>12, <1>13
     DEF Next, LoopStep

(* The types of the loop's state, the posting threads' and the descriptor  *)
(* table's: no backlog below zero, no event or readiness of a descriptor   *)
(* that cannot be open.                                                    *)
THEOREM TypeCorrect == Spec => []TypeOK
<1>1. Init => TypeOK
  <2> SUFFICES ASSUME Init PROVE TypeOK
    OBVIOUS
  <2>1. /\ <<>> \in Seq(Event) /\ <<>> \in Seq(Task)
    BY EmptySeq
  <2>2. /\ events \in Seq(Event) /\ pending_tasks_ \in Seq(Task)
        /\ tasks \in Seq(Task) /\ executed \in Seq(Task)
    BY <2>1 DEF Init
  <2>3. /\ DOMAIN handlers_ = {WakeupFd, ListenFd} /\ identities = 0
        /\ \A fd \in DOMAIN handlers_ : handlers_[fd] = 0
    BY DEF Init
  <2>4. poster \in [Posters -> {"idle", "wake"}] /\ posted \in [Posters -> Nat]
    BY DEF Init
  <2>5. /\ DOMAIN handlers_ \subseteq Fds
        /\ {WakeupFd, ListenFd} \subseteq DOMAIN handlers_
        /\ \A fd \in DOMAIN handlers_ : handlers_[fd] \in 0..identities
        /\ identities \in Nat
    BY <2>3 DEF Fds
  <2>6. /\ running_ \in BOOLEAN /\ wakeup \in BOOLEAN
        /\ loop \in LoopStates /\ backlog \in Nat
        /\ ready \subseteq ConnFds \cap DOMAIN handlers_
        /\ controller \in {"idle", "started", "wake", "join", "stopped"}
    BY DEF Init, LoopStates
  <2> QED
    BY <2>2, <2>4, <2>5, <2>6 DEF TypeOK
<1>2. TypeOK /\ [Next]_vars => TypeOK'
  BY StepType
<1> QED
  BY <1>1, <1>2, PTL DEF Spec

----------------------------------------------------------------------------
(* A posted task is never overlooked: RunInLoop's push and write, and the  *)
(* loop's read and swap, may interleave in any way.                        *)
THEOREM NoWakeupIsLost == Spec => []NoLostWakeup
<1>1. Init => NoLostWakeup
  BY DEF Init, NoLostWakeup
<1>2. TypeOK /\ NoLostWakeup /\ [Next]_vars => NoLostWakeup'
  <2> SUFFICES ASSUME TypeOK, NoLostWakeup, [Next]_vars
               PROVE  NoLostWakeup'
    OBVIOUS
  <2> USE DEF NoLostWakeup, ioVars, taskVars, posterVars, LoopLeaves
  <2>1. CASE ConnectionArrives \/ PeerActs
    BY <2>1 DEF ConnectionArrives, PeerActs
  <2>2. ASSUME NEW t \in Posters, QueueInLoop(t)
        PROVE  poster'[t] = "wake"
    BY <2>2 DEF QueueInLoop, TypeOK
  <2>3. ASSUME NEW t \in Posters, WakeUp(t)
        PROVE  wakeup'
    BY <2>3 DEF WakeUp
  <2>4. CASE ServerStart \/ ServerStop \/ StopWakesLoop \/ ServerJoin
    BY <2>4 DEF ServerStart, ServerStop, StopWakesLoop, ServerJoin
  <2>5. CASE RunBegins \/ RunTests \/ DispatchDone \/ Poll \/ PollInterrupted \/ PollFails
    BY <2>5 DEF RunBegins, RunTests, DispatchDone, Poll, PollInterrupted, PollFails
  <2>6. CASE HandleRead \/ SwapTasks \/ RunTask
    BY <2>6 DEF HandleRead, SwapTasks, RunTask, Dispatches
  <2>7. CASE AcceptBegins \/ Accept \/ AcceptRefuses \/ AcceptEnds
    BY <2>7 DEF AcceptBegins, Accept, AcceptRefuses, AcceptEnds, Dispatches
  <2>8. ASSUME NEW fd \in ConnFds, ConnectionEvent(fd)
        PROVE  NoLostWakeup'
    BY <2>8 DEF ConnectionEvent, Dispatches
  <2>9. CASE UNCHANGED vars
    BY <2>9 DEF vars
  <2> QED
    BY <2>1, <2>2, <2>3, <2>4, <2>5, <2>6, <2>7, <2>8, <2>9 DEF Next, LoopStep
<1> QED
  BY <1>1, <1>2, TypeCorrect, PTL DEF Spec

----------------------------------------------------------------------------
(* Poll reports each descriptor once.  That is why a callback that closes  *)
(* its own descriptor leaves no event of it behind.                        *)
EventsDistinct ==
  \A i, j \in DOMAIN events : events[i].fd = events[j].fd => i = j

(* What is left of a batch after its first event was taken. *)
LEMMA RestOfBatch ==
  ASSUME TypeOK, NoStaleEvent, EventsDistinct, NEW fd, Dispatches(fd)
  PROVE  /\ EventsDistinct'
         /\ \A i \in DOMAIN events' :
              /\ events'[i].fd # fd
              /\ events'[i].fd \in DOMAIN handlers_
              /\ handlers_[events'[i].fd] = events'[i].handler
<1>1. /\ events \in Seq(Event) /\ events # <<>> /\ events' = Tail(events)
      /\ Head(events).fd = fd
  BY DispatchesType
<1>2. /\ Len(events) \in Nat \ {0} /\ DOMAIN events = 1..Len(events)
      /\ DOMAIN events' = 1..(Len(events) - 1)
      /\ \A i \in 1..(Len(events) - 1) : events'[i] = events[i + 1]
      /\ Head(events) = events[1]
  <2>1. /\ Tail(events) \in Seq(Event) /\ Len(Tail(events)) = Len(events) - 1
        /\ \A i \in 1..Len(Tail(events)) : Tail(events)[i] = events[i + 1]
    BY <1>1, HeadTailProperties
  <2>2. Len(events) \in Nat \ {0} /\ DOMAIN events = 1..Len(events)
    BY <1>1, EmptySeq, LenProperties
  <2>3. DOMAIN Tail(events) = 1..Len(Tail(events))
    BY <2>1, LenProperties
  <2> QED
    BY <1>1, <2>1, <2>2, <2>3
<1>3. \A i \in DOMAIN events' : i + 1 \in DOMAIN events /\ i + 1 # 1 /\ events'[i] = events[i + 1]
  BY <1>2
<1>4. EventsDistinct'
  <2> SUFFICES ASSUME NEW i \in DOMAIN events', NEW j \in DOMAIN events',
                      events'[i].fd = events'[j].fd
               PROVE  i = j
    BY DEF EventsDistinct
  <2>1. i + 1 = j + 1
    BY <1>3 DEF EventsDistinct
  <2> QED
    BY <1>2, <2>1
<1>5. 1 \in DOMAIN events /\ events[1].fd = fd
  BY <1>1, <1>2
<1>6. \A i \in DOMAIN events' : events'[i].fd # fd
  BY <1>3, <1>5 DEF EventsDistinct
<1> QED
  BY <1>3, <1>4, <1>6 DEF NoStaleEvent

(* No event that is still to be dispatched carries a pointer to a handler  *)
(* that is gone, although callbacks close and accept within the batch.     *)
THEOREM NoEventIsStale == Spec => []NoStaleEvent
<1> DEFINE BatchInv == NoStaleEvent /\ EventsDistinct
<1>1. Init => BatchInv
  BY DEF Init, NoStaleEvent, EventsDistinct
<1>2. TypeOK /\ BatchInv /\ [Next]_vars => BatchInv'
  <2> SUFFICES ASSUME TypeOK, BatchInv, [Next]_vars
               PROVE  BatchInv'
    OBVIOUS
  <2> USE DEF ioVars
  <2>1. ASSUME UNCHANGED <<events, handlers_>>
        PROVE  BatchInv'
    BY <2>1 DEF NoStaleEvent, EventsDistinct
  <2>2. CASE ConnectionArrives \/ PeerActs
    BY <2>1, <2>2 DEF ConnectionArrives, PeerActs
  <2>3. ASSUME NEW t \in Posters, QueueInLoop(t) \/ WakeUp(t)
        PROVE  BatchInv'
    BY <2>1, <2>3 DEF QueueInLoop, WakeUp
  <2>4. CASE ServerStart \/ ServerStop \/ StopWakesLoop \/ ServerJoin
    BY <2>1, <2>4 DEF ServerStart, ServerStop, StopWakesLoop, ServerJoin
  <2>5. CASE RunBegins \/ RunTests \/ DispatchDone \/ PollInterrupted \/ PollFails
    BY <2>1, <2>5 DEF RunBegins, RunTests, DispatchDone, PollInterrupted, PollFails
  <2>6. CASE SwapTasks \/ RunTask \/ AcceptRefuses \/ AcceptEnds
    BY <2>1, <2>6 DEF SwapTasks, RunTask, AcceptRefuses, AcceptEnds
  <2>7. CASE Poll
    <3>1. UNCHANGED handlers_
      BY <2>7 DEF Poll
    <3> QED
      BY <2>7, <3>1, PollEvents DEF NoStaleEvent, EventsDistinct
  <2>8. CASE HandleRead \/ AcceptBegins
    <3>1. PICK fd : Dispatches(fd)
      BY <2>8 DEF HandleRead, AcceptBegins
    <3>2. UNCHANGED handlers_
      BY <2>8 DEF HandleRead, AcceptBegins
    <3> QED
      BY <3>1, <3>2, RestOfBatch DEF NoStaleEvent
  <2>9. CASE Accept
    <3>1. PICK fd \in FreeFds :
            handlers_' = [f \in DOMAIN handlers_ \cup {fd} |->
                            IF f = fd THEN identities + 1 ELSE handlers_[f]]
      BY <2>9 DEF Accept
    <3>2. \A f \in DOMAIN handlers_ : f \in DOMAIN handlers_' /\ handlers_'[f] = handlers_[f]
      BY <3>1 DEF FreeFds
    <3>3. UNCHANGED events
      BY <2>9 DEF Accept
    <3> QED
      BY <3>2, <3>3 DEF NoStaleEvent, EventsDistinct
  <2>10. ASSUME NEW fd \in ConnFds, ConnectionEvent(fd)
         PROVE  BatchInv'
    <3>1. Dispatches(fd) /\ (UNCHANGED handlers_ \/ RemoveFd(fd))
      BY <2>10 DEF ConnectionEvent
    <3>2. \A f \in DOMAIN handlers_ :
            f # fd => f \in DOMAIN handlers_' /\ handlers_'[f] = handlers_[f]
      BY <3>1 DEF RemoveFd
    <3> QED
      BY <3>1, <3>2, RestOfBatch DEF NoStaleEvent
  <2>11. CASE UNCHANGED vars
    BY <2>1, <2>11 DEF vars
  <2> QED
    BY <2>2, <2>3, <2>4, <2>5, <2>6, <2>7, <2>8, <2>9, <2>10, <2>11 DEF Next, LoopStep
<1>3. BatchInv => NoStaleEvent
  OBVIOUS
<1> QED
  BY <1>1, <1>2, <1>3, TypeCorrect, PTL DEF Spec

----------------------------------------------------------------------------
(* A posted task is numbered, and by no more than its poster has posted;   *)
(* HandleRead's vector is empty when the loop comes to fill it.            *)
TasksAreNumbered ==
  \A i \in DOMAIN Posted : Posted[i][2] <= posted[Posted[i][1]]

VectorIsEmpty == loop # "tasks" => tasks = <<>>

(* Concatenation of sequences of tasks associates. *)
LEMMA TaskConcat ==
  \A s, t, u \in Seq(Task) : (s \o t) \o u = s \o (t \o u)
  BY ConcatAssociative

(* Taking the pending tasks and running them moves tasks along, and loses  *)
(* or repeats none.                                                        *)
LEMMA TasksMove ==
  ASSUME TypeOK, VectorIsEmpty, SwapTasks \/ RunTask
  PROVE  Posted' = Posted /\ VectorIsEmpty' /\ posted' = posted
<1>1. executed \in Seq(Task) /\ tasks \in Seq(Task) /\ pending_tasks_ \in Seq(Task)
  BY DEF TypeOK
<1>2. CASE SwapTasks
  <2>1. /\ tasks = <<>> /\ tasks' = pending_tasks_ /\ pending_tasks_' = <<>>
        /\ executed' = executed /\ loop' = "tasks"
    BY <1>2 DEF SwapTasks, VectorIsEmpty
  <2>2. executed \o tasks = executed
    BY <1>1, <2>1, ConcatEmptySeq
  <2>3. (executed \o pending_tasks_) \o <<>> = executed \o pending_tasks_
    <3>1. executed \o pending_tasks_ \in Seq(Task)
      BY <1>1, ConcatProperties
    <3> QED
      BY <3>1, ConcatEmptySeq
  <2> QED
    BY <1>2, <2>1, <2>2, <2>3 DEF SwapTasks, Posted, VectorIsEmpty, LoopLeaves, posterVars
<1>3. CASE RunTask /\ tasks # <<>>
  <2>1. /\ executed' = Append(executed, Head(tasks)) /\ tasks' = Tail(tasks)
        /\ pending_tasks_' = pending_tasks_ /\ loop' = "tasks" /\ posted' = posted
    BY <1>3 DEF RunTask, LoopLeaves, posterVars
  <2>2. /\ Head(tasks) \in Task /\ Tail(tasks) \in Seq(Task)
    BY <1>1, <1>3, HeadTailProperties
  <2>3. Append(executed, Head(tasks)) \o Tail(tasks) = executed \o tasks
    <3> DEFINE first == <<Head(tasks)>>
    <3>1. Append(executed, Head(tasks)) = executed \o first
      BY <1>1, <2>2, AppendIsConcat
    <3>2. first \in Seq(Task) /\ first \o Tail(tasks) = tasks
      BY <1>1, <1>3, <2>2, HeadTailProperties
    <3> HIDE DEF first
    <3>3. (executed \o first) \o Tail(tasks) = executed \o (first \o Tail(tasks))
      BY <1>1, <2>2, <3>2, TaskConcat, Zenon
    <3> QED
      BY <3>1, <3>2, <3>3
  <2> QED
    BY <2>1, <2>3 DEF Posted, VectorIsEmpty
<1>4. CASE RunTask /\ tasks = <<>>
  BY <1>4 DEF RunTask, Posted, VectorIsEmpty, LoopLeaves, posterVars
<1> QED
  BY <1>2, <1>3, <1>4

(* A task that its poster numbers next may join the end. *)
LEMMA TaskJoins ==
  ASSUME TypeOK, TasksAreNumbered, TasksInOrder, NEW t \in Posters, QueueInLoop(t)
  PROVE  TasksAreNumbered' /\ TasksInOrder'
<1> DEFINE task == <<t, posted[t] + 1>>
<1>1. /\ executed \in Seq(Task) /\ tasks \in Seq(Task) /\ pending_tasks_ \in Seq(Task)
      /\ task \in Task /\ posted[t] \in Nat
  BY DEF TypeOK, Task
<1>2. executed \o tasks \in Seq(Task) /\ Posted \in Seq(Task)
  BY <1>1, ConcatProperties DEF Posted
<1>3. task[1] = t /\ task[2] = posted[t] + 1
  OBVIOUS
<1>4. /\ posted' \in [Posters -> Nat]
      /\ posted'[t] = posted[t] + 1
      /\ \A u \in Posters : u # t => posted'[u] = posted[u]
      /\ pending_tasks_' = Append(pending_tasks_, task)
      /\ executed' = executed /\ tasks' = tasks
  BY <1>1 DEF QueueInLoop, TypeOK
<1> HIDE DEF task
<1>5. Posted' = Append(Posted, task)
  <2>1. Append(pending_tasks_, task) = pending_tasks_ \o <<task>> /\ <<task>> \in Seq(Task)
    BY <1>1, AppendIsConcat
  <2>2. Append(Posted, task) = Posted \o <<task>>
    BY <1>1, <1>2, AppendIsConcat
  <2>3. (executed \o tasks) \o (pending_tasks_ \o <<task>>)
          = ((executed \o tasks) \o pending_tasks_) \o <<task>>
    <3> DEFINE taken == executed \o tasks
               new == <<task>>
    <3>1. taken \in Seq(Task) /\ new \in Seq(Task) /\ pending_tasks_ \in Seq(Task)
      BY <1>1, <2>1, ConcatProperties DEF TypeOK
    <3> HIDE DEF taken, new
    <3>2. (taken \o pending_tasks_) \o new = taken \o (pending_tasks_ \o new)
      BY <3>1, TaskConcat, Zenon
    <3> QED
      BY <3>2 DEF taken, new
  <2> QED
    BY <1>4, <2>1, <2>2, <2>3 DEF Posted
<1>6. /\ Len(Posted) \in Nat /\ DOMAIN Posted = 1..Len(Posted)
      /\ DOMAIN Posted' = 1..(Len(Posted) + 1)
      /\ \A i \in 1..Len(Posted) : Posted'[i] = Posted[i]
      /\ Posted'[Len(Posted) + 1] = task
  <2>1. Append(Posted, task) \in Seq(Task) /\ Len(Append(Posted, task)) = Len(Posted) + 1
    BY <1>1, <1>2, AppendProperties
  <2>2. DOMAIN Append(Posted, task) = 1..(Len(Posted) + 1)
    BY <2>1, LenProperties
  <2> QED
    BY <1>1, <1>2, <1>5, <2>2, AppendProperties, LenProperties
<1>7. \A i \in 1..Len(Posted) :
        Posted[i][1] \in Posters /\ Posted[i][2] \in Nat /\ Posted[i][2] <= posted[Posted[i][1]]
  BY <1>2, <1>6, ElementOfSeq DEF Task, TasksAreNumbered
<1>8. TasksAreNumbered'
  <2> SUFFICES ASSUME NEW i \in 1..(Len(Posted) + 1)
               PROVE  Posted'[i][2] <= posted'[Posted'[i][1]]
    BY <1>6 DEF TasksAreNumbered
  <2>1. CASE i = Len(Posted) + 1
    BY <1>1, <1>3, <1>4, <1>6, <2>1
  <2>2. CASE i \in 1..Len(Posted)
    <3>1. Posted'[i] = Posted[i]
      BY <1>6, <2>2
    <3>2. posted[Posted[i][1]] \in Nat /\ posted[Posted[i][1]] <= posted'[Posted[i][1]]
      <4>1. \A u \in Posters : posted[u] \in Nat /\ posted[u] <= posted'[u]
        <5>1. posted \in [Posters -> Nat]
          BY DEF TypeOK
        <5> QED
          BY <1>4, <5>1
      <4>2. Posted[i][1] \in Posters
        BY <1>7, <2>2
      <4> QED
        BY <4>1, <4>2
    <3> QED
      BY <1>4, <1>7, <2>2, <3>1, <3>2
  <2> QED
    BY <1>6, <2>1, <2>2
<1>9. TasksInOrder'
  <2> SUFFICES ASSUME NEW i \in 1..(Len(Posted) + 1), NEW j \in 1..(Len(Posted) + 1),
                      i < j, Posted'[i][1] = Posted'[j][1]
               PROVE  Posted'[i][2] < Posted'[j][2]
    BY <1>6 DEF TasksInOrder
  <2>1. i \in 1..Len(Posted) /\ Posted'[i] = Posted[i]
    BY <1>6
  <2>2. CASE j = Len(Posted) + 1
    BY <1>1, <1>3, <1>6, <1>7, <2>1, <2>2
  <2>3. CASE j \in 1..Len(Posted)
    BY <1>6, <2>1, <2>3 DEF TasksInOrder
  <2> QED
    BY <1>6, <2>2, <2>3
<1> QED
  BY <1>8, <1>9

(* Each thread's tasks run in the order it posted them, and none twice,    *)
(* whether they are pending, in HandleRead's vector or done.               *)
THEOREM TasksStayInOrder == Spec => []TasksInOrder
<1> DEFINE TaskInv == VectorIsEmpty /\ TasksAreNumbered /\ TasksInOrder
<1>1. Init => TaskInv
  <2> SUFFICES ASSUME Init
               PROVE  TaskInv
    OBVIOUS
  <2>1. Posted = <<>>
    BY EmptySeq, ConcatEmptySeq DEF Init, Posted
  <2> QED
    BY <2>1 DEF Init, VectorIsEmpty, TasksAreNumbered, TasksInOrder
<1>2. TypeOK /\ TaskInv /\ [Next]_vars => TaskInv'
  <2> SUFFICES ASSUME TypeOK, TaskInv, [Next]_vars
               PROVE  TaskInv'
    OBVIOUS
  <2>1. ASSUME Posted' = Posted, posted' = posted
        PROVE  TasksAreNumbered' /\ TasksInOrder'
    BY <2>1 DEF TasksAreNumbered, TasksInOrder
  <2>2. ASSUME UNCHANGED <<taskVars, posted>>, loop' = "tasks" <=> loop = "tasks"
        PROVE  TaskInv'
    BY <2>1, <2>2 DEF taskVars, Posted, VectorIsEmpty
  <2> USE DEF posterVars, LoopLeaves
  <2>3. CASE ConnectionArrives \/ PeerActs
    BY <2>2, <2>3 DEF ConnectionArrives, PeerActs
  <2>4. ASSUME NEW t \in Posters, QueueInLoop(t)
        PROVE  TaskInv'
    BY <2>4, TaskJoins DEF QueueInLoop, VectorIsEmpty
  <2>5. ASSUME NEW t \in Posters, WakeUp(t)
        PROVE  TaskInv'
    BY <2>2, <2>5 DEF WakeUp
  <2>6. CASE ServerStart \/ ServerStop \/ StopWakesLoop \/ ServerJoin
    BY <2>2, <2>6 DEF ServerStart, ServerStop, StopWakesLoop, ServerJoin
  <2>7. CASE RunBegins \/ RunTests \/ DispatchDone \/ Poll \/ PollInterrupted \/ PollFails
    BY <2>2, <2>7 DEF RunBegins, RunTests, DispatchDone, Poll, PollInterrupted, PollFails
  <2>8. CASE SwapTasks \/ RunTask
    BY <2>1, <2>8, TasksMove
  <2>9. CASE HandleRead
    BY <2>2, <2>9 DEF HandleRead, Dispatches
  <2>10. CASE AcceptBegins \/ Accept \/ AcceptRefuses \/ AcceptEnds
    BY <2>2, <2>10 DEF AcceptBegins, Accept, AcceptRefuses, AcceptEnds, Dispatches
  <2>11. ASSUME NEW fd \in ConnFds, ConnectionEvent(fd)
         PROVE  TaskInv'
    BY <2>2, <2>11 DEF ConnectionEvent, Dispatches
  <2>12. CASE UNCHANGED vars
    BY <2>2, <2>12 DEF vars, taskVars
  <2> QED
    BY <2>3, <2>4, <2>5, <2>6, <2>7, <2>8, <2>9, <2>10, <2>11, <2>12 DEF Next, LoopStep
<1>3. TaskInv => TasksInOrder
  OBVIOUS
<1> QED
  BY <1>1, <1>2, <1>3, TypeCorrect, PTL DEF Spec
============================================================================
