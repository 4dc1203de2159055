----------------------------- MODULE EventLoop -----------------------------
(***************************************************************************)
(* The event loop of lib_network (src/event/event_loop.cc) on an epoll     *)
(* poller, run by a Server: the loop thread, the threads that post tasks   *)
(* with RunInLoop, and the thread that starts and stops the server.        *)
(*                                                                         *)
(* File descriptors are small numbers that the kernel hands out again      *)
(* after a close, so a handler is told apart by an identity that is never  *)
(* reused: the address of its EventHandler, in the code.  A connection's   *)
(* callback may remove its own descriptor only, which is all that the      *)
(* callbacks of this library do.                                           *)
(***************************************************************************)
EXTENDS Integers, Sequences, FiniteSets

CONSTANTS
  Posters,    \* threads that post tasks
  MaxTasks,   \* bound: tasks they post
  ConnFds,    \* descriptors the kernel hands out to accepted connections
  MaxConns    \* bound: connections that arrive

ASSUME ConstantsAssumption ==
  /\ MaxTasks \in Nat
  /\ MaxConns \in Nat
  /\ ConnFds \cap {0, 1} = {}
  /\ IsFiniteSet(ConnFds)

VARIABLES
  running_,        \* EventLoop::running_
  loop,            \* where the thread that executes Run is
  handlers_,       \* descriptor -> identity of its EventHandler
  events,          \* what Poll returned and Run has not dispatched yet
  wakeup,          \* the eventfd is readable
  backlog,         \* connections waiting in the listening socket
  ready,           \* connected descriptors with something to read
  identities,      \* connections accepted so far: the next identity
  pending_tasks_,
  tasks,           \* HandleRead's local vector
  executed,        \* history: the tasks that ran, in order
  poster,          \* where each poster is
  posted,          \* tasks each poster has posted
  controller       \* where the thread that calls Server::Start and Stop is

vars == <<running_, loop, handlers_, events, wakeup, backlog, ready, identities,
          pending_tasks_, tasks, executed, poster, posted, controller>>

ioVars      == <<handlers_, backlog, ready, identities>>
taskVars    == <<pending_tasks_, tasks, executed>>
posterVars  == <<poster, posted>>

WakeupFd == 0
ListenFd == 1
Fds == {WakeupFd, ListenFd} \cup ConnFds

Task == Posters \X (Nat \ {0})
Event == [fd : Fds, handler : Nat]

(* Init, and RegisterServer: the wakeup descriptor and the listening       *)
(* socket have their handlers before the loop runs.                        *)
Init ==
  /\ running_ = FALSE
  /\ loop = "none"
  /\ handlers_ = [fd \in {WakeupFd, ListenFd} |-> 0]
  /\ events = <<>>
  /\ wakeup = FALSE
  /\ backlog = 0
  /\ ready = {}
  /\ identities = 0
  /\ pending_tasks_ = <<>>
  /\ tasks = <<>>
  /\ executed = <<>>
  /\ poster = [t \in Posters |-> "idle"]
  /\ posted = [t \in Posters |-> 0]
  /\ controller = "idle"

----------------------------------------------------------------------------
(* The network and the clients of the loop. *)

ConnectionArrives ==
  /\ identities + backlog < MaxConns
  /\ backlog' = backlog + 1
  /\ UNCHANGED <<running_, loop, handlers_, events, wakeup, ready, identities, taskVars,
                 posterVars, controller>>

(* Data, a FIN or a reset arrives for an open connection. *)
PeerActs ==
  /\ \E fd \in (DOMAIN handlers_ \cap ConnFds) \ ready : ready' = ready \cup {fd}
  /\ UNCHANGED <<running_, loop, handlers_, events, wakeup, backlog, identities, taskVars,
                 posterVars, controller>>

(* Every task posted so far. *)
Posted == executed \o tasks \o pending_tasks_

(* RunInLoop from another thread: QueueInLoop pushes under mutex_, then    *)
(* WakeUp writes to the eventfd.                                           *)
QueueInLoop(t) ==
  /\ poster[t] = "idle"
  /\ Len(Posted) < MaxTasks
  /\ posted' = [posted EXCEPT ![t] = @ + 1]
  /\ pending_tasks_' = Append(pending_tasks_, <<t, posted[t] + 1>>)
  /\ poster' = [poster EXCEPT ![t] = "wake"]
  /\ UNCHANGED <<running_, loop, events, wakeup, ioVars, tasks, executed, controller>>

(* Mutant: only a running loop is woken. *)
WakeUpIfRunning(t) ==
  /\ poster[t] = "wake"
  /\ wakeup' = (wakeup \/ running_)
  /\ poster' = [poster EXCEPT ![t] = "idle"]
  /\ UNCHANGED <<running_, loop, events, ioVars, taskVars, posted, controller>>

WakeUp(t) ==
  /\ poster[t] = "wake"
  /\ wakeup' = TRUE
  /\ poster' = [poster EXCEPT ![t] = "idle"]
  /\ UNCHANGED <<running_, loop, events, ioVars, taskVars, posted, controller>>

(* Server::Start spawns the thread that runs the loop. *)
ServerStart ==
  /\ controller = "idle"
  /\ loop = "none"
  /\ loop' = "spawned"
  /\ controller' = "started"
  /\ UNCHANGED <<running_, events, wakeup, ioVars, taskVars, posterVars>>

(* Server::Stop: EventLoop::Stop clears running_ and writes the eventfd,   *)
(* then the thread is joined.                                              *)
ServerStop ==
  /\ controller = "started"
  /\ running_' = FALSE
  /\ controller' = "wake"
  /\ UNCHANGED <<loop, events, wakeup, ioVars, taskVars, posterVars>>

(* Mutant: Stop clears running_ and trusts the loop to notice. *)
StopWithoutWakeUp ==
  /\ controller = "wake"
  /\ controller' = "join"
  /\ UNCHANGED <<running_, loop, events, wakeup, ioVars, taskVars, posterVars>>

StopWakesLoop ==
  /\ controller = "wake"
  /\ wakeup' = TRUE
  /\ controller' = "join"
  /\ UNCHANGED <<running_, loop, events, ioVars, taskVars, posterVars>>

ServerJoin ==
  /\ controller = "join"
  /\ loop = "exited"
  /\ controller' = "stopped"
  /\ UNCHANGED <<running_, loop, events, wakeup, ioVars, taskVars, posterVars>>

----------------------------------------------------------------------------
(* The loop thread. *)

LoopLeaves == UNCHANGED <<posterVars, controller>>

(* Run sets running_ itself. *)
RunBegins ==
  /\ loop = "spawned"
  /\ running_' = TRUE
  /\ loop' = "test"
  /\ LoopLeaves
  /\ UNCHANGED <<events, wakeup, ioVars, taskVars>>

RunTests ==
  /\ loop = "test"
  /\ loop' = IF running_ THEN "poll" ELSE "exited"
  /\ LoopLeaves
  /\ UNCHANGED <<running_, events, wakeup, ioVars, taskVars>>

(* The descriptors epoll reports: level-triggered, since the poller keeps  *)
(* only EPOLLIN and EPOLLOUT of the requested events.                      *)
ReadyFds ==
  ready \cup (IF wakeup THEN {WakeupFd} ELSE {})
        \cup (IF backlog > 0 THEN {ListenFd} ELSE {})

(* The orders in which epoll may report a set of descriptors. *)
Orders(S) == {order \in [1..Cardinality(S) -> S] :
                \A i, j \in 1..Cardinality(S) : order[i] = order[j] => i = j}

(* Poll blocks until a descriptor is ready.  Each event carries the        *)
(* address of its handler.                                                 *)
Poll ==
  /\ loop = "poll"
  /\ ReadyFds # {}
  /\ \E order \in Orders(ReadyFds) :
       events' = [i \in DOMAIN order |-> [fd |-> order[i], handler |-> handlers_[order[i]]]]
  /\ loop' = "dispatch"
  /\ LoopLeaves
  /\ UNCHANGED <<running_, wakeup, ioVars, taskVars>>

(* epoll_wait is interrupted while it blocks: no events. *)
PollInterrupted ==
  /\ loop = "poll"
  /\ ReadyFds = {}
  /\ loop' = "dispatch"
  /\ LoopLeaves
  /\ UNCHANGED <<running_, events, wakeup, ioVars, taskVars>>

(* epoll_wait fails otherwise: Run returns. *)
PollFails ==
  /\ loop = "poll"
  /\ loop' = "exited"
  /\ LoopLeaves
  /\ UNCHANGED <<running_, events, wakeup, ioVars, taskVars>>

DispatchDone ==
  /\ loop = "dispatch"
  /\ events = <<>>
  /\ loop' = "test"
  /\ LoopLeaves
  /\ UNCHANGED <<running_, events, wakeup, ioVars, taskVars>>

(* The event at hand is for fd. *)
Dispatches(fd) ==
  /\ loop = "dispatch"
  /\ events # <<>>
  /\ Head(events).fd = fd
  /\ events' = Tail(events)
  /\ LoopLeaves
  /\ UNCHANGED running_

(* HandleRead reads the eventfd, then takes the pending tasks under        *)
(* mutex_, then runs them.                                                 *)
HandleRead ==
  /\ Dispatches(WakeupFd)
  /\ wakeup' = FALSE
  /\ loop' = "swap"
  /\ UNCHANGED <<ioVars, taskVars>>

(* Mutant: the pending tasks are copied, not swapped out. *)
CopyTasks ==
  /\ loop = "swap"
  /\ tasks' = pending_tasks_
  /\ loop' = "tasks"
  /\ LoopLeaves
  /\ UNCHANGED <<running_, events, wakeup, ioVars, pending_tasks_, executed>>

SwapTasks ==
  /\ loop = "swap"
  /\ tasks' = pending_tasks_
  /\ pending_tasks_' = <<>>
  /\ loop' = "tasks"
  /\ LoopLeaves
  /\ UNCHANGED <<running_, events, wakeup, ioVars, executed>>

(* Mutant: the eventfd is read when the tasks have run. *)
RunTaskThenReads ==
  /\ loop = "tasks"
  /\ \/ /\ tasks # <<>>
        /\ executed' = Append(executed, Head(tasks))
        /\ tasks' = Tail(tasks)
        /\ UNCHANGED <<loop, wakeup>>
     \/ /\ tasks = <<>>
        /\ wakeup' = FALSE
        /\ loop' = "dispatch"
        /\ UNCHANGED <<tasks, executed>>
  /\ LoopLeaves
  /\ UNCHANGED <<running_, events, ioVars, pending_tasks_>>

RunTask ==
  /\ loop = "tasks"
  /\ \/ /\ tasks # <<>>
        /\ executed' = Append(executed, Head(tasks))
        /\ tasks' = Tail(tasks)
        /\ UNCHANGED loop
     \/ /\ tasks = <<>>
        /\ loop' = "dispatch"
        /\ UNCHANGED <<tasks, executed>>
  /\ LoopLeaves
  /\ UNCHANGED <<running_, events, wakeup, ioVars, pending_tasks_>>

(* The listening socket's callback accepts until accept4 fails. *)
AcceptBegins ==
  /\ Dispatches(ListenFd)
  /\ loop' = "accept"
  /\ UNCHANGED <<wakeup, ioVars, taskVars>>

FreeFds == ConnFds \ DOMAIN handlers_

(* Mutant: accept4's failure goes unnoticed. *)
AcceptIgnoresFailure ==
  /\ loop = "accept"
  /\ \E fd \in FreeFds :
       handlers_' = [f \in DOMAIN handlers_ \cup {fd} |->
                       IF f = fd THEN identities + 1 ELSE handlers_[f]]
  /\ identities' = identities + 1
  /\ backlog' = backlog - 1
  /\ LoopLeaves
  /\ UNCHANGED <<running_, loop, events, wakeup, ready, taskVars>>

(* A new connection takes a free descriptor and gets a new handler. *)
Accept ==
  /\ loop = "accept"
  /\ backlog > 0
  /\ \E fd \in FreeFds :
       handlers_' = [f \in DOMAIN handlers_ \cup {fd} |->
                       IF f = fd THEN identities + 1 ELSE handlers_[f]]
  /\ identities' = identities + 1
  /\ backlog' = backlog - 1
  /\ LoopLeaves
  /\ UNCHANGED <<running_, loop, events, wakeup, ready, taskVars>>

(* The address is refused (or the TLS handshake fails at once): the        *)
(* descriptor is closed before it has a handler.                           *)
AcceptRefuses ==
  /\ loop = "accept"
  /\ backlog > 0
  /\ FreeFds # {}
  /\ identities' = identities + 1
  /\ backlog' = backlog - 1
  /\ LoopLeaves
  /\ UNCHANGED <<running_, loop, handlers_, events, wakeup, ready, taskVars>>

(* No connection is waiting, or no descriptor is left. *)
AcceptEnds ==
  /\ loop = "accept"
  /\ backlog = 0 \/ FreeFds = {}
  /\ loop' = "dispatch"
  /\ LoopLeaves
  /\ UNCHANGED <<running_, events, wakeup, ioVars, taskVars>>

RemoveFd(fd) == handlers_' = [f \in DOMAIN handlers_ \ {fd} |-> handlers_[f]]

(* Mutant: a callback closes a connection that is not its own. *)
ConnectionClosesOther(fd) ==
  /\ Dispatches(fd)
  /\ \E other \in ConnFds \cap DOMAIN handlers_ :
       /\ RemoveFd(other)
       /\ ready' = ready \ {fd, other}
  /\ UNCHANGED <<loop, wakeup, backlog, identities, taskVars>>

(* A connection's callback reads all there is, or nothing when its rate    *)
(* limiter refuses; when the peer has closed, it removes and closes its    *)
(* own descriptor.  An event whose descriptor has no handler any more is   *)
(* skipped.                                                                *)
ConnectionEvent(fd) ==
  /\ Dispatches(fd)
  /\ IF fd \in DOMAIN handlers_
       THEN \/ ready' = ready \ {fd} /\ (UNCHANGED handlers_ \/ RemoveFd(fd))
            \/ UNCHANGED <<ready, handlers_>>
       ELSE UNCHANGED <<ready, handlers_>>
  /\ UNCHANGED <<loop, wakeup, backlog, identities, taskVars>>

----------------------------------------------------------------------------
LoopStep ==
  \/ RunBegins \/ RunTests \/ Poll \/ DispatchDone
  \/ HandleRead \/ SwapTasks \/ RunTask
  \/ AcceptBegins \/ Accept \/ AcceptRefuses \/ AcceptEnds
  \/ \E fd \in ConnFds : ConnectionEvent(fd)

Next ==
  \/ ConnectionArrives \/ PeerActs
  \/ \E t \in Posters : QueueInLoop(t) \/ WakeUp(t)
  \/ ServerStart \/ ServerStop \/ StopWakesLoop \/ ServerJoin
  \/ LoopStep \/ PollInterrupted \/ PollFails

Spec == Init /\ [][Next]_vars

(* The threads run once started; nothing makes a peer act, a thread post,  *)
(* or the server start or stop.                                            *)
Fairness ==
  /\ WF_vars(LoopStep)
  /\ WF_vars(StopWakesLoop \/ ServerJoin)
  /\ \A t \in Posters : WF_vars(WakeUp(t))

FairSpec == Spec /\ Fairness

----------------------------------------------------------------------------
LoopStates == {"none", "spawned", "test", "poll", "dispatch", "swap", "tasks", "accept",
               "exited"}

(* Every variable has a value of its type. *)
TypeOK ==
  /\ running_ \in BOOLEAN
  /\ loop \in LoopStates
  /\ DOMAIN handlers_ \subseteq Fds
  /\ {WakeupFd, ListenFd} \subseteq DOMAIN handlers_
  /\ \A fd \in DOMAIN handlers_ : handlers_[fd] \in 0..identities
  /\ events \in Seq(Event)
  /\ wakeup \in BOOLEAN
  /\ backlog \in Nat
  /\ ready \subseteq ConnFds \cap DOMAIN handlers_
  /\ identities \in Nat
  /\ pending_tasks_ \in Seq(Task)
  /\ tasks \in Seq(Task)
  /\ executed \in Seq(Task)
  /\ poster \in [Posters -> {"idle", "wake"}]
  /\ posted \in [Posters -> Nat]
  /\ controller \in {"idle", "started", "wake", "join", "stopped"}

(* A posted task is never overlooked: while one is pending, the eventfd is *)
(* readable, or its poster has yet to write it, or the loop has read it    *)
(* and takes the tasks next.                                               *)
NoLostWakeup ==
  pending_tasks_ # <<>> =>
    wakeup \/ loop = "swap" \/ \E t \in Posters : poster[t] = "wake"

(* The raw handler pointer of an event not yet dispatched is not dangling: *)
(* its descriptor still belongs to the handler it was reported for,        *)
(* although callbacks close and accept descriptors within the same batch.  *)
NoStaleEvent ==
  \A i \in DOMAIN events :
    /\ events[i].fd \in DOMAIN handlers_
    /\ handlers_[events[i].fd] = events[i].handler

(* The tasks of each thread run in the order it posted them, each once. *)
TasksInOrder ==
  \A i, j \in DOMAIN Posted :
    i < j /\ Posted[i][1] = Posted[j][1] => Posted[i][2] < Posted[j][2]

IsIn(task, s) == \E i \in DOMAIN s : s[i] = task

(* A task posted to a loop that was started runs, unless the loop ends. *)
TaskRuns ==
  \A task \in Posters \X (1..MaxTasks) :
    (IsIn(task, pending_tasks_) /\ loop # "none") ~> (IsIn(task, executed) \/ loop = "exited")

(* Stop ends a loop that is running, and returns. *)
StopOfRunningLoop ==
  (controller = "wake" /\ ~running_ /\ loop # "spawned") ~> (controller = "stopped")

(* What the API documentation says of Stop, "Stop the server and close     *)
(* connections", and the header of Run, "Blocks until Stop() is called":   *)
(* Stop stops the loop, whenever it is called.                             *)
StopStops == (controller = "wake") ~> (controller = "stopped")
============================================================================
