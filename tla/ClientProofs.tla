---------------------------- MODULE ClientProofs ----------------------------
(***************************************************************************)
(* A promise of Connect is set at most once, and Disconnect leaves no      *)
(* connection open, for any number of attempts, although the caller's and  *)
(* the loop's thread work on one connection without a lock.                *)
(***************************************************************************)
EXTENDS Client, TLAPS

(* Until connect(2) has been called, nothing has happened to the           *)
(* connection that a thread could find or close.                           *)
Untouched ==
  socket = "fresh" =>
    /\ state_ = "kDisconnected"
    /\ caller \notin {"mark", "wait", "release", "close", "forget"}
    /\ loop \notin {"release", "close", "forget"}

(* A datagram socket neither waits for an answer nor fails, so that the    *)
(* loop never closes it and never sets the promise.                        *)
DatagramIsQuiet ==
  datagram =>
    /\ socket \in {"fresh", "connected"}
    /\ state_ # "kConnecting"
    /\ caller # "mark"
    /\ "ERR" \notin flags
    /\ loop \notin {"release", "close", "forget"}

(* The promise is still to be set: before connect(2) of an attempt that    *)
(* can succeed, between connect(2) and state_ = kConnecting, and while the *)
(* connection is kConnecting, up to the error that is about to close it.   *)
Unresolved ==
  /\ caller \in {"register", "connect"} /\ (datagram \/ socket = "fresh") => resolutions = 0
  /\ caller = "mark" => state_ = "kDisconnected" /\ resolutions = 0 /\ loop # "release"
  /\ state_ = "kConnecting" => resolutions = 0 \/ loop = "release"

(* A connection that was begun and is kDisconnected has been closed, is    *)
(* being closed by a thread that has made it so, or is not yet marked.     *)
SomebodyCloses ==
  state_ = "kDisconnected" /\ socket # "fresh" =>
    \/ fd_ = "closed"
    \/ loop \in {"close", "forget"}
    \/ caller \in {"mark", "close", "forget"}

(* When Disconnect goes on to stop the loop, the connection is closed or   *)
(* the loop is about to do it.                                             *)
StoppedIsClosing ==
  caller \in {"stop", "wake", "join"} =>
    socket = "fresh" \/ fd_ = "closed" \/ loop \in {"close", "forget"}

Inv ==
  /\ TypeOK
  /\ ResolvedOnce
  /\ Untouched
  /\ DatagramIsQuiet
  /\ Unresolved
  /\ SomebodyCloses
  /\ StoppedIsClosing

(* The connection and the promise agree with where the two threads are, in *)
(* every state that Connect, Disconnect and the loop reach.                *)
THEOREM Invariance == Spec => []Inv
<1>1. Init => Inv
  <2> SUFFICES ASSUME Init PROVE Inv
    OBVIOUS
  <2>1. TypeOK
    <3>1. datagram \in BOOLEAN
      BY ConstantsAssumption DEF Init
    <3>2. registered \in BOOLEAN /\ epollout \in BOOLEAN /\ running_ \in BOOLEAN /\ wakeup \in BOOLEAN
      BY DEF Init
    <3> QED
      BY <3>1, <3>2, ConstantsAssumption DEF Init, TypeOK
  <2>2. /\ ResolvedOnce /\ Untouched /\ DatagramIsQuiet /\ Unresolved /\ SomebodyCloses
        /\ StoppedIsClosing
    BY DEF Init, ResolvedOnce, Untouched, DatagramIsQuiet, Unresolved, SomebodyCloses,
           StoppedIsClosing
  <2> QED
    BY <2>1, <2>2 DEF Inv
<1>2. ASSUME Inv, [Next]_vars PROVE Inv'
  <2> USE <1>2 DEF Inv, TypeOK, ResolvedOnce, Untouched, DatagramIsQuiet, Unresolved,
                   SomebodyCloses, StoppedIsClosing
  <2>1. CASE NetworkAnswers
    BY <2>1 DEF NetworkAnswers, answerVars, connVars, loopVars, callerVars
  <2>2. CASE PeerCloses
    BY <2>2 DEF PeerCloses, answerVars, connVars, loopVars, callerVars
  <2>3. CASE ConnectBegins
    BY <2>3, ConstantsAssumption DEF ConnectBegins, answerVars, connVars, loopVars, callerVars
  <2>4. CASE ConnectRegisters
    <3>1. registered' \in BOOLEAN /\ epollout' \in BOOLEAN
      BY <2>4 DEF ConnectRegisters, connVars
    <3> QED
      BY <2>4, <3>1 DEF ConnectRegisters, answerVars, connVars, loopVars, callerVars
  <2>5. CASE ConnectFails
    BY <2>5 DEF ConnectFails, answerVars, connVars, loopVars, callerVars
  <2>6. CASE ConnectSucceeds
    BY <2>6 DEF ConnectSucceeds, Resolve, answerVars, connVars, loopVars, callerVars
  <2>7. CASE ConnectInProgress
    BY <2>7 DEF ConnectInProgress, answerVars, connVars, loopVars, callerVars
  <2>8. CASE ConnectMarks
    BY <2>8 DEF ConnectMarks, answerVars, connVars, loopVars, callerVars
  <2>9. CASE ConnectReturns
    BY <2>9 DEF ConnectReturns, answerVars, connVars, loopVars, callerVars
  <2>10. CASE DisconnectBegins
    BY <2>10 DEF DisconnectBegins, answerVars, connVars, loopVars, callerVars
  <2>11. CASE DisconnectReleases
    <3>1. registered' \in BOOLEAN /\ epollout' \in BOOLEAN
      BY <2>11 DEF DisconnectReleases, Release, connVars, loopVars
    <3> QED
      BY <2>11, <3>1 DEF DisconnectReleases, Release, answerVars, connVars, loopVars, callerVars
  <2>12. CASE DisconnectCloseFd
    BY <2>12 DEF DisconnectCloseFd, CloseFd, answerVars, connVars, loopVars, callerVars
  <2>13. CASE DisconnectForgetsFd
    BY <2>13 DEF DisconnectForgetsFd, ForgetFd, answerVars, connVars, loopVars, callerVars
  <2>14. CASE DisconnectStops
    <3>1. running_' \in BOOLEAN
      BY <2>14 DEF DisconnectStops, connVars
    <3> QED
      BY <2>14, <3>1 DEF DisconnectStops, answerVars, connVars, loopVars, callerVars
  <2>15. CASE DisconnectWakes
    BY <2>15 DEF DisconnectWakes, answerVars, connVars, loopVars, callerVars
  <2>16. CASE DisconnectJoins
    BY <2>16 DEF DisconnectJoins, answerVars, connVars, loopVars, callerVars
  <2>17. CASE RunBegins
    BY <2>17 DEF RunBegins, LoopLeaves, answerVars, connVars, loopVars, callerVars
  <2>18. CASE RunTests
    BY <2>18 DEF RunTests, LoopLeaves, answerVars, connVars, loopVars, callerVars
  <2>19. CASE Poll
    BY <2>19 DEF Poll, Ready, SocketFlags, LoopLeaves, answerVars, connVars, loopVars, callerVars
  <2>20. CASE FindHandler
    BY <2>20 DEF FindHandler, LoopLeaves, answerVars, connVars, loopVars, callerVars
  <2>21. CASE HandleRead
    BY <2>21 DEF HandleRead, HandleError, Resolve, LoopLeaves, answerVars, connVars, loopVars, callerVars
  <2>22. CASE HandleWrite
    <3>1. epollout' \in BOOLEAN
      BY <2>22 DEF HandleWrite, connVars
    <3> QED
      BY <2>22, <3>1 DEF HandleWrite, HandleError, Resolve, LoopLeaves, answerVars, connVars, loopVars, callerVars
  <2>23. CASE HandleErrorEvent
    BY <2>23 DEF HandleErrorEvent, HandleError, Resolve, LoopLeaves, answerVars, connVars, loopVars, callerVars
  <2>24. CASE LoopReleases
    <3>1. registered' \in BOOLEAN /\ epollout' \in BOOLEAN
      BY <2>24 DEF LoopReleases, Release, connVars, loopVars
    <3> QED
      BY <2>24, <3>1 DEF LoopReleases, Release, LoopLeaves, answerVars, connVars, loopVars, callerVars
  <2>25. CASE LoopCloseFd
    BY <2>25 DEF LoopCloseFd, CloseFd, LoopLeaves, answerVars, connVars, loopVars, callerVars
  <2>26. CASE LoopForgetsFd
    BY <2>26 DEF LoopForgetsFd, ForgetFd, LoopLeaves, answerVars, connVars, loopVars, callerVars
  <2>27. CASE BatchEnds
    <3>1. wakeup' \in BOOLEAN
      BY <2>27 DEF BatchEnds, connVars
    <3>2. /\ loop = "wake" /\ loop' = "test" /\ flags' = {}
          /\ UNCHANGED <<datagram, caller, attempts, promise, resolutions, state_, fd_, registered,
                         epollout, closes, socket, running_>>
      BY <2>27 DEF BatchEnds, LoopLeaves, answerVars, connVars, callerVars
    <3> QED
      BY <3>1, <3>2
  <2>28. CASE UNCHANGED vars
    BY <2>28 DEF vars, answerVars, connVars, loopVars, callerVars
  <2> QED
    BY <2>1, <2>2, <2>3, <2>4, <2>5, <2>6, <2>7, <2>8, <2>9, <2>10, <2>11, <2>12, <2>13, <2>14,
       <2>15, <2>16, <2>17, <2>18, <2>19, <2>20, <2>21, <2>22, <2>23, <2>24, <2>25, <2>26, <2>27,
       <2>28
       DEF Next, ConnectStep, DisconnectStep, LoopStep
<1> QED
  BY <1>1, <1>2, PTL DEF Spec

(* Every variable has a value of its type. *)
THEOREM TypeCorrect == Spec => []TypeOK
<1>1. Inv => TypeOK
  BY DEF Inv
<1> QED
  BY <1>1, Invariance, PTL

(* The promise of an attempt is set at most once, by whichever of the two  *)
(* threads: set_value never throws on the loop's thread, however old the   *)
(* flags are that it works through.                                        *)
THEOREM PromiseSetOnce == Spec => []ResolvedOnce
<1>1. Inv => ResolvedOnce
  BY DEF Inv
<1> QED
  BY <1>1, Invariance, PTL

(* When Disconnect has joined the loop, a connection that was begun is     *)
(* closed, also one whose closing the loop had begun when Disconnect found *)
(* it kDisconnected and left it alone.                                     *)
THEOREM NothingLeftOpen == Spec => []DisconnectCloses
<1>1. Inv => DisconnectCloses
  BY DEF Inv, StoppedIsClosing, DisconnectCloses
<1> QED
  BY <1>1, Invariance, PTL
=============================================================================
