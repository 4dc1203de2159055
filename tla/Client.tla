------------------------------- MODULE Client -------------------------------
(***************************************************************************)
(* A Client (lib_network/src/client.cc) that connects and disconnects: the *)
(* thread that calls Connect and Disconnect, the thread that runs its      *)
(* event loop, and the socket.                                             *)
(*                                                                         *)
(* Connect registers the descriptor with the running loop before it calls  *)
(* connect(2), and it sets state_ after it, so the loop handles events of  *)
(* a socket that is not connecting yet, with flags that were sampled       *)
(* earlier.  What is sent and received is left to the module Connection,   *)
(* failures of the poller to EventLoop.  Over TLS the handshake is begun   *)
(* on the unconnected socket, fails and closes it: such a client never     *)
(* gets to connect(2), and is left out.                                    *)
(***************************************************************************)
EXTENDS Integers

CONSTANTS
  MaxAttempts,   \* bound: calls of Connect
  Datagram       \* whether the mode is udp or quic: TRUE, FALSE or both

ASSUME ConstantsAssumption ==
  /\ MaxAttempts \in Nat
  /\ Datagram \subseteq BOOLEAN

VARIABLES
  datagram,      \* the socket is a datagram socket
  caller,        \* where the thread that calls Connect and Disconnect is
  attempts,      \* calls of Connect so far
  promise,       \* connect_promise_: "unset", "true" or "false"
  resolutions,   \* history: how often the promise of this attempt was set
  state_, fd_, registered, epollout,
  socket,        \* what became of the socket, as the kernel knows it
  closes,        \* history: calls of close(2) with its descriptor
  running_, loop, flags, wakeup

connVars   == <<state_, fd_, registered, epollout, closes>>
answerVars == <<promise, resolutions>>
loopVars   == <<running_, loop, flags, wakeup>>
callerVars == <<caller, attempts>>
vars == <<datagram, callerVars, answerVars, connVars, socket, loopVars>>

(* The constructor: a socket, and a loop that nobody runs. *)
Init ==
  /\ datagram \in Datagram
  /\ caller = "idle"
  /\ attempts = 0
  /\ promise = "unset"
  /\ resolutions = 0
  /\ state_ = "kDisconnected"
  /\ fd_ = "open"
  /\ registered = FALSE
  /\ epollout = FALSE
  /\ socket = "fresh"
  /\ closes = 0
  /\ running_ = FALSE
  /\ loop = "none"
  /\ flags = {}
  /\ wakeup = FALSE

----------------------------------------------------------------------------
(* The network answers a connection request, now or by its timeout; an     *)
(* established connection ends with the peer's FIN or with an error.       *)

NetworkAnswers ==
  /\ socket = "connecting"
  /\ \E answer \in {"connected", "failed"} : socket' = answer
  /\ UNCHANGED <<datagram, callerVars, answerVars, connVars, loopVars>>

PeerCloses ==
  /\ socket = "connected"
  /\ ~datagram
  /\ \E how \in {"finished", "failed"} : socket' = how
  /\ UNCHANGED <<datagram, callerVars, answerVars, connVars, loopVars>>

----------------------------------------------------------------------------
(* What both threads do. *)

(* connect_callback_: connect_promise_.set_value, which throws when it is  *)
(* set already.                                                            *)
Resolve(answer) ==
  /\ promise' = answer
  /\ resolutions' = resolutions + 1

(* HandleClose of a connection that was not kDisconnected when it was      *)
(* tested, whoever else has tested it: the state and RemoveFd, then the    *)
(* descriptor is closed if fd_ names one, and only then forgotten.         *)
Release ==
  /\ state_' = "kDisconnected"
  /\ registered' = (registered /\ fd_ # "open")
  /\ epollout' = FALSE
  /\ UNCHANGED <<fd_, closes>>

CloseFd ==
  /\ fd_ = "open"
  /\ closes' = closes + 1
  /\ UNCHANGED <<state_, fd_, registered, epollout>>

ForgetFd ==
  /\ fd_' = "closed"
  /\ UNCHANGED <<state_, registered, epollout, closes>>

----------------------------------------------------------------------------
(* Connect. *)

(* A new promise and its callback; the loop's thread, if there is none.    *)
ConnectBegins ==
  /\ caller = "idle"
  /\ attempts < MaxAttempts
  /\ attempts' = attempts + 1
  /\ promise' = "unset"
  /\ resolutions' = 0
  /\ loop' = IF loop = "none" THEN "spawned" ELSE loop
  /\ caller' = "register"
  /\ UNCHANGED <<datagram, connVars, socket, running_, flags, wakeup>>

(* AddFd, whose failure is ignored. *)
ConnectRegisters ==
  /\ caller = "register"
  /\ IF fd_ = "open" /\ closes = 0 /\ ~registered
       THEN registered' = TRUE /\ epollout' = TRUE
       ELSE UNCHANGED <<registered, epollout>>
  /\ caller' = "connect"
  /\ UNCHANGED <<datagram, attempts, answerVars, state_, fd_, closes, socket, loopVars>>

(* The address is invalid, or connect(2) fails at once: Connect returns    *)
(* false and leaves the descriptor as it is.                               *)
ConnectFails ==
  /\ caller = "connect"
  /\ caller' = "idle"
  /\ UNCHANGED <<datagram, attempts, answerVars, connVars, socket, loopVars>>

(* A datagram socket is connected at once, also when it was before; a      *)
(* non-blocking stream socket never is.                                    *)
ConnectSucceeds ==
  /\ caller = "connect"
  /\ fd_ = "open" /\ closes = 0
  /\ datagram /\ socket \in {"fresh", "connected"}
  /\ socket' = "connected"
  /\ state_' = "kConnected"
  /\ Resolve("true")
  /\ caller' = "wait"
  /\ UNCHANGED <<datagram, attempts, fd_, registered, epollout, closes, loopVars>>

(* EINPROGRESS. *)
ConnectInProgress ==
  /\ caller = "connect"
  /\ fd_ = "open" /\ closes = 0
  /\ ~datagram /\ socket = "fresh"
  /\ socket' = "connecting"
  /\ caller' = "mark"
  /\ UNCHANGED <<datagram, attempts, answerVars, connVars, loopVars>>

ConnectMarks ==
  /\ caller = "mark"
  /\ state_' = "kConnecting"
  /\ caller' = "wait"
  /\ UNCHANGED <<datagram, attempts, answerVars, fd_, registered, epollout, closes, socket, loopVars>>

(* future.get(), which has no timeout. *)
ConnectReturns ==
  /\ caller = "wait"
  /\ promise # "unset"
  /\ caller' = "idle"
  /\ UNCHANGED <<datagram, attempts, answerVars, connVars, socket, loopVars>>

----------------------------------------------------------------------------
(* Disconnect: ForceClose on the caller's thread, then Stop and join. *)

(* Mutant: closing is left to the loop. *)
DisconnectOnlyStops ==
  /\ caller = "idle"
  /\ caller' = "stop"
  /\ UNCHANGED <<datagram, attempts, answerVars, connVars, socket, loopVars>>

DisconnectBegins ==
  /\ caller = "idle"
  /\ caller' = IF state_ = "kDisconnected" THEN "stop" ELSE "release"
  /\ UNCHANGED <<datagram, attempts, answerVars, connVars, socket, loopVars>>

DisconnectReleases ==
  /\ caller = "release"
  /\ Release
  /\ caller' = "close"
  /\ UNCHANGED <<datagram, attempts, answerVars, socket, loopVars>>

DisconnectCloseFd ==
  /\ caller = "close"
  /\ \/ CloseFd /\ caller' = "forget"
     \/ fd_ # "open" /\ caller' = "stop" /\ UNCHANGED connVars
  /\ UNCHANGED <<datagram, attempts, answerVars, socket, loopVars>>

DisconnectForgetsFd ==
  /\ caller = "forget"
  /\ ForgetFd
  /\ caller' = "stop"
  /\ UNCHANGED <<datagram, attempts, answerVars, socket, loopVars>>

DisconnectStops ==
  /\ caller = "stop"
  /\ running_' = FALSE
  /\ caller' = "wake"
  /\ UNCHANGED <<datagram, attempts, answerVars, connVars, socket, loop, flags, wakeup>>

DisconnectWakes ==
  /\ caller = "wake"
  /\ wakeup' = TRUE
  /\ caller' = "join"
  /\ UNCHANGED <<datagram, attempts, answerVars, connVars, socket, running_, loop, flags>>

DisconnectJoins ==
  /\ caller = "join"
  /\ loop \in {"none", "exited"}
  /\ loop' = "none"
  /\ caller' = "idle"
  /\ UNCHANGED <<datagram, attempts, answerVars, connVars, socket, running_, flags, wakeup>>

----------------------------------------------------------------------------
(* The loop's thread. *)

LoopLeaves == UNCHANGED <<datagram, callerVars, socket>>

RunBegins ==
  /\ loop = "spawned"
  /\ running_' = TRUE
  /\ loop' = "test"
  /\ LoopLeaves
  /\ UNCHANGED <<answerVars, connVars, flags, wakeup>>

RunTests ==
  /\ loop = "test"
  /\ loop' = IF running_ THEN "poll" ELSE "exited"
  /\ LoopLeaves
  /\ UNCHANGED <<answerVars, connVars, running_, flags, wakeup>>

(* What epoll reports of the socket: one that was never connected counts   *)
(* as writable and, unless it is a datagram socket, as hung up.            *)
SocketFlags ==
  CASE socket = "fresh"      -> IF datagram THEN {"OUT"} ELSE {"OUT", "ERR"}
    [] socket = "connecting" -> {}
    [] socket = "connected"  -> {"OUT"}
    [] socket = "finished"   -> {"IN", "OUT"}
    [] socket = "failed"     -> {"IN", "OUT", "ERR"}

(* Mutant: the poller passes on every flag the kernel sets. *)
ReadyUnmasked ==
  (IF registered /\ closes = 0
     THEN (SocketFlags \ (IF epollout THEN {} ELSE {"OUT"}))
            \cup (IF socket = "finished" THEN {"RDHUP"} ELSE {})
     ELSE {})
    \cup (IF wakeup THEN {"WAKE"} ELSE {})

Ready ==
  (IF registered /\ closes = 0 THEN SocketFlags \ (IF epollout THEN {} ELSE {"OUT"}) ELSE {})
    \cup (IF wakeup THEN {"WAKE"} ELSE {})

Poll ==
  /\ loop = "poll"
  /\ Ready # {}
  /\ flags' = Ready
  /\ loop' = IF Ready = {"WAKE"} THEN "wake" ELSE "find"
  /\ LoopLeaves
  /\ UNCHANGED <<answerVars, connVars, running_, wakeup>>

(* Run looks the descriptor up again before it calls the callback. *)
FindHandler ==
  /\ loop = "find"
  /\ loop' = IF registered THEN "in" ELSE "wake"
  /\ LoopLeaves
  /\ UNCHANGED <<answerVars, connVars, running_, flags, wakeup>>

(* Mutant: an error while connecting is not reported. *)
HandleErrorSilently ==
  /\ UNCHANGED answerVars
  /\ loop' = "release"

(* HandleError up to the test in HandleClose, for a connection that is not *)
(* kDisconnected.                                                          *)
HandleError ==
  /\ IF state_ = "kConnecting" THEN Resolve("false") ELSE UNCHANGED answerVars
  /\ loop' = "release"

(* The end of the stream closes the connection, an error is reported.      *)
HandleRead ==
  /\ loop = "in"
  /\ IF "IN" \in flags /\ state_ # "kDisconnected" /\ socket \in {"finished", "failed"}
       THEN \/ socket = "finished" /\ loop' = "release" /\ UNCHANGED answerVars
            \/ socket = "failed" /\ HandleError
       ELSE loop' = "out" /\ UNCHANGED answerVars
  /\ LoopLeaves
  /\ UNCHANGED <<connVars, running_, flags, wakeup>>

(* Mutant: the connection is still kConnecting after it was reported. *)
HandleWriteForgets ==
  /\ loop = "out"
  /\ IF "OUT" \in flags /\ state_ # "kDisconnected"
       THEN \/ /\ state_ = "kConnecting" /\ socket = "failed"
               /\ HandleError
               /\ UNCHANGED epollout
            \/ /\ ~(state_ = "kConnecting" /\ socket = "failed")
               /\ IF state_ = "kConnecting" THEN Resolve("true") ELSE UNCHANGED answerVars
               /\ epollout' = FALSE
               /\ loop' = "err"
       ELSE loop' = "err" /\ UNCHANGED <<answerVars, epollout>>
  /\ LoopLeaves
  /\ UNCHANGED <<state_, fd_, registered, closes, running_, flags, wakeup>>

(* A connection that is kConnecting and whose socket has no error is       *)
(* connected; with nothing to write, EPOLLOUT is taken back.               *)
HandleWrite ==
  /\ loop = "out"
  /\ IF "OUT" \in flags /\ state_ # "kDisconnected"
       THEN \/ /\ state_ = "kConnecting" /\ socket = "failed"
               /\ HandleError
               /\ UNCHANGED <<state_, epollout>>
            \/ /\ ~(state_ = "kConnecting" /\ socket = "failed")
               /\ IF state_ = "kConnecting" THEN Resolve("true") ELSE UNCHANGED answerVars
               /\ state_' = "kConnected"
               /\ epollout' = FALSE
               /\ loop' = "err"
       ELSE loop' = "err" /\ UNCHANGED <<answerVars, state_, epollout>>
  /\ LoopLeaves
  /\ UNCHANGED <<fd_, registered, closes, running_, flags, wakeup>>

HandleErrorEvent ==
  /\ loop = "err"
  /\ IF "ERR" \in flags /\ state_ # "kDisconnected"
       THEN HandleError
       ELSE loop' = "wake" /\ UNCHANGED answerVars
  /\ LoopLeaves
  /\ UNCHANGED <<connVars, running_, flags, wakeup>>

(* The rest of the callback finds the connection closed. *)
LoopReleases ==
  /\ loop = "release"
  /\ Release
  /\ loop' = "close"
  /\ LoopLeaves
  /\ UNCHANGED <<answerVars, running_, flags, wakeup>>

LoopCloseFd ==
  /\ loop = "close"
  /\ \/ CloseFd /\ loop' = "forget"
     \/ fd_ # "open" /\ loop' = "wake" /\ UNCHANGED connVars
  /\ LoopLeaves
  /\ UNCHANGED <<answerVars, running_, flags, wakeup>>

LoopForgetsFd ==
  /\ loop = "forget"
  /\ ForgetFd
  /\ loop' = "wake"
  /\ LoopLeaves
  /\ UNCHANGED <<answerVars, running_, flags, wakeup>>

(* EventLoop::HandleRead, and the end of the batch. *)
BatchEnds ==
  /\ loop = "wake"
  /\ wakeup' = IF "WAKE" \in flags THEN FALSE ELSE wakeup
  /\ flags' = {}
  /\ loop' = "test"
  /\ LoopLeaves
  /\ UNCHANGED <<answerVars, connVars, running_>>

----------------------------------------------------------------------------
LoopStep ==
  \/ RunBegins \/ RunTests \/ Poll \/ FindHandler
  \/ HandleRead \/ HandleWrite \/ HandleErrorEvent
  \/ LoopReleases \/ LoopCloseFd \/ LoopForgetsFd \/ BatchEnds

ConnectStep ==
  \/ ConnectRegisters \/ ConnectFails \/ ConnectSucceeds \/ ConnectInProgress
  \/ ConnectMarks \/ ConnectReturns

DisconnectStep ==
  \/ DisconnectReleases \/ DisconnectCloseFd \/ DisconnectForgetsFd
  \/ DisconnectStops \/ DisconnectWakes \/ DisconnectJoins

Next ==
  \/ NetworkAnswers \/ PeerCloses
  \/ ConnectBegins \/ ConnectStep
  \/ DisconnectBegins \/ DisconnectStep
  \/ LoopStep

Spec == Init /\ [][Next]_vars

(* Both threads run, and a connection request is answered or times out. *)
Fairness ==
  /\ WF_vars(LoopStep)
  /\ WF_vars(ConnectStep)
  /\ WF_vars(DisconnectStep)
  /\ WF_vars(NetworkAnswers)

FairSpec == Spec /\ Fairness

----------------------------------------------------------------------------
(* Every variable has a value of its type. *)
TypeOK ==
  /\ datagram \in BOOLEAN
  /\ caller \in {"idle", "register", "connect", "mark", "wait", "release", "close",
                 "forget", "stop", "wake", "join"}
  /\ attempts \in 0..MaxAttempts
  /\ promise \in {"unset", "true", "false"}
  /\ resolutions \in Nat
  /\ state_ \in {"kConnecting", "kConnected", "kDisconnected"}
  /\ fd_ \in {"open", "closed"}
  /\ registered \in BOOLEAN
  /\ epollout \in BOOLEAN
  /\ socket \in {"fresh", "connecting", "connected", "finished", "failed"}
  /\ closes \in Nat
  /\ running_ \in BOOLEAN
  /\ loop \in {"none", "spawned", "test", "poll", "find", "in", "out", "err", "release",
               "close", "forget", "wake", "exited"}
  /\ flags \subseteq {"IN", "OUT", "ERR", "WAKE"}
  /\ wakeup \in BOOLEAN

(* The promise of an attempt is set at most once, by whichever of the two  *)
(* threads, whatever mixture of old and new flags the loop works through:  *)
(* a second set_value would throw on the loop's thread.                    *)
ResolvedOnce == resolutions <= 1

(* When Disconnect has joined the loop, a connection that was begun is     *)
(* closed, whichever thread did it: also one whose closing the loop had    *)
(* begun when Disconnect found it kDisconnected.                           *)
DisconnectCloses ==
  caller = "join" /\ loop \in {"none", "exited"} /\ socket # "fresh" => fd_ = "closed"

(* Connect returns, unless the peer closes as soon as it has accepted:     *)
(* then HandleRead may close the connection before HandleWrite has         *)
(* reported it, and the promise is never set.                              *)
AttemptEnds == (caller = "wait") ~> (caller # "wait" \/ socket = "finished")

(* What the integration test expects of a client whose server listens:     *)
(* Connect returns true and, a while later, Send does too.  A connection   *)
(* that was reported stays kConnected until the peer ends it or Disconnect *)
(* is called, which leaves no loop.                                        *)
ReportedConnectionWorks ==
  caller = "idle" /\ loop # "none" /\ promise = "true" /\ socket \notin {"finished", "failed"}
    => state_ = "kConnected"
=============================================================================
