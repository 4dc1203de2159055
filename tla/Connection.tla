----------------------------- MODULE Connection -----------------------------
(***************************************************************************)
(* One accepted Connection (lib_network/src/connection.cc) with the        *)
(* callback the reactor registers for it, its socket and its peer, from    *)
(* the accept to the close.                                                *)
(*                                                                         *)
(* The loop thread takes an event's flags and handles them in the order of *)
(* the callback: EPOLLIN, EPOLLOUT, EPOLLHUP.  The peer and the kernel act *)
(* in between.  Threads that got hold of the connection from its handler   *)
(* send through EventLoop::RunInLoop, whose tasks run between events, in   *)
(* order (see EventLoop), but they close it themselves: HandleClose takes  *)
(* no lock and may run on several threads at once.  Bytes sent are told    *)
(* apart by their message and their place in it; of bytes received it only *)
(* matters that there are some.                                            *)
(***************************************************************************)
EXTENDS Integers, Sequences

CONSTANTS
  MaxSends,     \* bound: messages sent
  MessageSize,  \* bytes of a message
  Capacity,     \* bytes the socket's send buffer holds
  Secure,       \* whether a TLS context is set: TRUE, FALSE or both
  Loop,         \* the loop's thread
  Closers       \* the other threads that may close a context

ASSUME ConstantsAssumption ==
  /\ MaxSends \in Nat
  /\ MessageSize \in Nat \ {0}
  /\ Capacity \in Nat \ {0}
  /\ Secure \subseteq BOOLEAN
  /\ Loop \notin Closers

VARIABLES
  secure,          \* ssl_ is set
  state_,
  fd_,             \* "open", or "closed" when it is -1
  registered,      \* the descriptor is in the loop's handlers_
  closing,         \* where each thread is in HandleClose
  closes,          \* how often close(2) was called on the descriptor
  epollout,        \* EPOLLOUT is requested
  output_buffer_,
  retry,           \* the buffer of an unfinished SSL_write: the caller's or output_buffer_
  progress,        \* bytes of that buffer that are on their way
  disconnects,     \* how often disconnect_callback_ has run
  pc, flags,       \* the part of the callback to run next, and the event's flags
  posted,          \* messages in tasks of other threads
  known,           \* the handler has seen the connection, and may have passed it on
  made,            \* messages made so far
  outsider,        \* history: a thread other than the loop's has closed the connection
  sent,            \* history: the bytes given to Send in the loop, in order
  socket,          \* bytes in the send buffer
  received,        \* bytes the peer has read
  fin,             \* shutdown(SHUT_WR) was called
  inbound,         \* there are bytes to read
  peer             \* the peer's side: "open", "fin" or "reset"

closeVars  == <<fd_, registered, closing, closes, disconnects>>
stateVars  == <<state_, closeVars>>
outputVars == <<epollout, output_buffer_, retry, progress, socket>>
netVars    == <<received, fin, inbound, peer>>
callVars   == <<pc, flags>>
userVars   == <<posted, known, made, outsider, sent>>
vars == <<secure, stateVars, outputVars, netVars, callVars, userVars>>

Threads == Closers \cup {Loop}

Bytes(m) == [k \in 1..MessageSize |-> <<m, k>>]

Room == Capacity - Len(socket)

Least(a, b) == IF a < b THEN a ELSE b

(* What Send was given and the socket was not. *)
Unsent == SubSeq(output_buffer_, progress + 1, Len(output_buffer_))

(* A connection whose descriptor accept4 has returned. *)
Init ==
  /\ secure \in Secure
  /\ state_ = IF secure THEN "kHandshaking" ELSE "kConnected"
  /\ fd_ = "open"
  /\ registered = FALSE
  /\ closing = [t \in Threads |-> "no"]
  /\ closes = 0
  /\ disconnects = 0
  /\ epollout = FALSE
  /\ output_buffer_ = <<>>
  /\ retry = "none"
  /\ progress = 0
  /\ socket = <<>>
  /\ received = <<>>
  /\ fin = FALSE
  /\ inbound = FALSE
  /\ peer = "open"
  /\ pc = "accept"
  /\ flags = {}
  /\ posted = <<>>
  /\ known = FALSE
  /\ made = 0
  /\ outsider = FALSE
  /\ sent = <<>>

----------------------------------------------------------------------------
(* The peer and its host. *)

PeerSends ==
  /\ peer = "open"
  /\ ~inbound
  /\ inbound' = TRUE
  /\ UNCHANGED <<secure, stateVars, outputVars, received, fin, peer, callVars, userVars>>

PeerReads ==
  /\ socket # <<>>
  /\ received' = Append(received, Head(socket))
  /\ socket' = Tail(socket)
  /\ UNCHANGED <<secure, stateVars, epollout, output_buffer_, retry, progress, fin, inbound,
                 peer, callVars, userVars>>

PeerCloses ==
  /\ peer # "reset"
  /\ \E how \in {"fin", "reset"} \ {peer} : peer' = how
  /\ UNCHANGED <<secure, stateVars, outputVars, received, fin, inbound, callVars, userVars>>

----------------------------------------------------------------------------
(* HandleClose, on the thread that found the peer gone or was asked to     *)
(* close.  HandleError does the same, but for a client that is connecting. *)

(* Mutant: no test for a connection that is closed already. *)
MayCloseAgain == TRUE

(* The test with which HandleClose begins. *)
MayClose == state_ # "kDisconnected"

(* Thread t has passed the test, or returns at once. *)
HandleClose(t) ==
  closing' = IF MayClose THEN [closing EXCEPT ![t] = "begin"] ELSE closing

CloseBegins(t) ==
  /\ closing[t] = "begin"
  /\ state_' = "kDisconnected"
  /\ registered' = FALSE
  /\ epollout' = FALSE
  /\ closing' = [closing EXCEPT ![t] = "socket"]
  /\ UNCHANGED <<secure, fd_, closes, disconnects, output_buffer_, retry, progress, socket,
                 netVars, callVars, userVars>>

CloseSocket(t) ==
  /\ closing[t] = "socket"
  /\ closes' = IF fd_ = "open" THEN closes + 1 ELSE closes
  /\ closing' = [closing EXCEPT ![t] = "report"]
  /\ UNCHANGED <<secure, state_, fd_, registered, disconnects, outputVars, netVars, callVars,
                 userVars>>

(* The descriptor is forgotten and disconnect_callback_ runs. *)
CloseReports(t) ==
  /\ closing[t] = "report"
  /\ fd_' = "closed"
  /\ disconnects' = disconnects + 1
  /\ closing' = [closing EXCEPT ![t] = "no"]
  /\ UNCHANGED <<secure, state_, registered, closes, outputVars, netVars, callVars, userVars>>

CloseStep(t) == CloseBegins(t) \/ CloseSocket(t) \/ CloseReports(t)

(* A context's Close on another thread. *)
ForceClose(t) ==
  /\ known
  /\ closing[t] = "no"
  /\ HandleClose(t)
  /\ outsider' = (outsider \/ MayClose)
  /\ UNCHANGED <<secure, state_, fd_, registered, closes, disconnects, outputVars, netVars,
                 callVars, posted, known, made, sent>>

----------------------------------------------------------------------------
(* What the loop thread does to the connection. *)

(* The loop's thread is at pc, and not inside HandleClose. *)
LoopAt(place) == pc = place /\ closing[Loop] = "no"

(* Mutant: EPOLLOUT is not requested for what the socket did not take. *)
NeverArm == UNCHANGED epollout

(* ModifyFd asks for EPOLLOUT when something is left to write; it fails,   *)
(* which is ignored, for a descriptor that was removed.                    *)
EnableWriting == epollout' = (epollout \/ (output_buffer_' # <<>> /\ registered))

(* Mutant: the message is written at once though others are waiting. *)
WriteOutOfTurn(m) ==
  LET data  == Bytes(m)
      taken == IF state_ = "kConnected" /\ peer # "reset"
                 THEN Least(MessageSize, Room) ELSE 0
  IN /\ ~secure
     /\ socket' = socket \o SubSeq(data, 1, taken)
     /\ output_buffer_' = output_buffer_ \o SubSeq(data, taken + 1, MessageSize)
     /\ UNCHANGED <<retry, progress>>

(* The bytes of message m join output_buffer_.  If it was empty, they are  *)
(* written at once: write takes what there is room for; SSL_write sends    *)
(* what there is room for but reports nothing until all is sent, and has   *)
(* to be called again with the same buffer.  An Append may move            *)
(* output_buffer_ elsewhere.  Errors are left to HandleWrite.              *)
AppendAndWrite(m) ==
  LET data   == Bytes(m)
      direct == state_ = "kConnected" /\ output_buffer_ = <<>> /\ peer # "reset"
      taken  == IF direct THEN Least(MessageSize, Room) ELSE 0
      held   == secure /\ taken < MessageSize
  IN /\ socket' = socket \o SubSeq(data, 1, taken)
     /\ output_buffer_' = output_buffer_ \o IF held THEN data
                                                    ELSE SubSeq(data, taken + 1, MessageSize)
     /\ progress' = IF direct /\ held THEN taken ELSE progress
     /\ \/ direct /\ retry' = (IF held THEN "caller" ELSE "none")
        \/ ~direct /\ UNCHANGED retry
        \/ ~direct /\ retry = "buffer" /\ retry' = "caller"

(* Send in the loop thread. *)
Send(m) ==
  /\ sent' = sent \o Bytes(m)
  /\ AppendAndWrite(m)
  /\ EnableWriting

----------------------------------------------------------------------------
(* What SSL_do_handshake does with what has come: it wants more, fails, or *)
(* succeeds, and what came after the handshake is read at once.            *)
HandshakeWantsMore ==
  /\ inbound \/ peer = "open"
  /\ UNCHANGED state_

HandshakeFails == inbound \/ peer # "open"

HandshakeSucceeds ==
  /\ inbound
  /\ peer = "open"
  /\ state_' = "kConnected"

(* The reactor's accept: SetConnected or SetSsl, which begins the          *)
(* handshake, then SetDisconnectCallback and AddFd.                        *)
AcceptedOpen ==
  /\ \/ ~secure /\ UNCHANGED <<state_, inbound>>
     \/ secure /\ (HandshakeWantsMore \/ HandshakeSucceeds) /\ inbound' = FALSE
  /\ registered' = TRUE
  /\ pc' = "idle"
  /\ UNCHANGED <<fd_, closes>>

(* A handshake that fails at once, or ends with the peer gone, closes the  *)
(* descriptor before disconnect_callback_ is set; AddFd then fails, and    *)
(* the loop hears no more of the connection.                               *)
AcceptedClosed ==
  /\ secure
  /\ HandshakeFails
  /\ inbound' = FALSE
  /\ state_' = "kDisconnected"
  /\ fd_' = "closed"
  /\ closes' = closes + 1
  /\ pc' = "unregistered"
  /\ UNCHANGED registered

Accept ==
  /\ LoopAt("accept")
  /\ AcceptedOpen \/ AcceptedClosed
  /\ UNCHANGED <<secure, closing, disconnects, outputVars, received, fin, peer, flags, userVars>>

----------------------------------------------------------------------------
(* Mutant: Poll and Run pass on every flag the kernel sets. *)
ReadyUnmasked ==
  (IF inbound \/ peer # "open" THEN {"IN"} ELSE {})
    \cup (IF epollout /\ (Room > 0 \/ peer = "reset" \/ fin) THEN {"OUT"} ELSE {})
    \cup (IF peer = "reset" \/ (peer = "fin" /\ fin) THEN {"HUP"} ELSE {})
    \cup (IF peer = "fin" THEN {"RDHUP"} ELSE {})

(* The events of the connection's descriptor, level-triggered; of the      *)
(* kernel's flags, EPOLLIN, EPOLLOUT, and EPOLLHUP or EPOLLERR get through *)
(* to the callback.                                                        *)
Ready ==
  (IF inbound \/ peer # "open" THEN {"IN"} ELSE {})
    \cup (IF epollout /\ (Room > 0 \/ peer = "reset" \/ fin) THEN {"OUT"} ELSE {})
    \cup (IF peer = "reset" \/ (peer = "fin" /\ fin) THEN {"HUP"} ELSE {})

EventArrives ==
  /\ LoopAt("idle")
  /\ registered
  /\ Ready # {}
  /\ flags' = Ready
  /\ pc' = "in"
  /\ UNCHANGED <<secure, stateVars, outputVars, netVars, userVars>>

SkipRead ==
  /\ LoopAt("in")
  /\ "IN" \notin flags \/ state_ = "kDisconnected"
  /\ pc' = "out"
  /\ UNCHANGED <<secure, stateVars, outputVars, netVars, flags, userVars>>

(* Mutant: the end of the stream is taken for a lack of data. *)
ReadIgnoresEnd ==
  /\ LoopAt("in")
  /\ "IN" \in flags
  /\ state_ \in {"kConnected", "kDisconnecting"}
  /\ inbound' = FALSE
  /\ pc' = IF state_ = "kConnected" THEN "handler" ELSE "out"
  /\ known' = (known \/ state_ = "kConnected")
  /\ UNCHANGED <<secure, stateVars, outputVars, received, fin, peer, flags, posted, made,
                 outsider, sent>>

(* HandleRead of a connection that is past its handshake reads until there *)
(* is nothing left, or until the peer's FIN or reset closes it; only then  *)
(* does the handler get to see what was read, if it is still connected.    *)
HandleRead ==
  /\ LoopAt("in")
  /\ "IN" \in flags
  /\ state_ \in {"kConnected", "kDisconnecting"}
  /\ inbound' = FALSE
  /\ IF peer = "open" THEN UNCHANGED closing ELSE HandleClose(Loop)
  /\ pc' = IF peer = "open" /\ state_ = "kConnected" THEN "handler" ELSE "out"
  /\ known' = (known \/ (peer = "open" /\ state_ = "kConnected"))
  /\ UNCHANGED <<secure, state_, fd_, registered, closes, disconnects, outputVars, received,
                 fin, peer, flags, posted, made, outsider, sent>>

HandleHandshake ==
  /\ LoopAt("in")
  /\ "IN" \in flags
  /\ state_ = "kHandshaking"
  /\ inbound' = FALSE
  /\ \/ HandshakeWantsMore /\ pc' = "out" /\ UNCHANGED <<closing, known>>
     \/ HandshakeFails /\ HandleClose(Loop) /\ pc' = "out" /\ UNCHANGED <<state_, known>>
     \/ HandshakeSucceeds /\ pc' = "handler" /\ known' = TRUE /\ UNCHANGED closing
  /\ UNCHANGED <<secure, fd_, registered, closes, disconnects, outputVars, received, fin, peer,
                 flags, posted, made, outsider, sent>>

(* OnMessage: the protocol handler sends, shuts down or closes, and        *)
(* returns.                                                                *)
HandlerSends ==
  /\ LoopAt("handler")
  /\ made < MaxSends
  /\ Send(made + 1)
  /\ made' = made + 1
  /\ UNCHANGED <<secure, stateVars, netVars, callVars, posted, known, outsider>>

(* Shutdown has an effect in kConnected only.  Another thread may close    *)
(* between its test and its assignment.                                    *)
HandlerShutsDown ==
  /\ LoopAt("handler")
  /\ state_ = "kConnected"
  /\ pc' = "shutdown"
  /\ UNCHANGED <<secure, stateVars, outputVars, netVars, flags, userVars>>

Shutdown ==
  /\ LoopAt("shutdown")
  /\ state_' = "kDisconnecting"
  /\ fin' = (output_buffer_ = <<>> /\ fd_ = "open")
  /\ pc' = "handler"
  /\ UNCHANGED <<secure, closeVars, outputVars, received, inbound, peer, flags, userVars>>

HandlerForceCloses ==
  /\ LoopAt("handler")
  /\ HandleClose(Loop)
  /\ UNCHANGED <<secure, state_, fd_, registered, closes, disconnects, outputVars, netVars,
                 callVars, userVars>>

HandlerReturns ==
  /\ LoopAt("handler")
  /\ pc' = "out"
  /\ UNCHANGED <<secure, stateVars, outputVars, netVars, flags, userVars>>

SkipWrite ==
  /\ LoopAt("out")
  /\ "OUT" \notin flags \/ state_ = "kDisconnected"
  /\ pc' = "hup"
  /\ UNCHANGED <<secure, stateVars, outputVars, netVars, flags, userVars>>

(* Writing is an error once the peer has reset the connection, after our   *)
(* own FIN, and for SSL_write with another buffer than the one it has to   *)
(* finish.                                                                 *)
WriteFails == peer = "reset" \/ fin \/ retry = "caller"

(* Mutant: EPOLLOUT is taken back whatever is left. *)
DisableAlways == epollout' = FALSE

(* ModifyFd takes EPOLLOUT back when nothing is left to write. *)
DisableWriting == epollout' = (epollout /\ output_buffer_' # <<>>)

HandleWrite ==
  /\ LoopAt("out")
  /\ "OUT" \in flags
  /\ state_ # "kDisconnected"
  /\ \/ /\ WriteFails /\ output_buffer_ # <<>>
        /\ HandleClose(Loop)
        /\ UNCHANGED outputVars
     \/ /\ ~(WriteFails /\ output_buffer_ # <<>>)
        /\ LET taken == Least(Len(Unsent), Room)
               done  == progress + taken
               held  == secure /\ done < Len(output_buffer_)
           IN /\ socket' = socket \o SubSeq(Unsent, 1, taken)
              /\ output_buffer_' = IF held THEN output_buffer_
                                   ELSE SubSeq(output_buffer_, done + 1, Len(output_buffer_))
              /\ progress' = IF held THEN done ELSE 0
              /\ retry' = IF held THEN "buffer" ELSE "none"
        /\ DisableWriting
        /\ UNCHANGED closing
  /\ pc' = "hup"
  /\ UNCHANGED <<secure, state_, fd_, registered, closes, disconnects, netVars, flags, userVars>>

HandleHangUp ==
  /\ LoopAt("hup")
  /\ IF "HUP" \in flags THEN HandleClose(Loop) ELSE UNCHANGED closing
  /\ pc' = "idle"
  /\ flags' = {}
  /\ UNCHANGED <<secure, state_, fd_, registered, closes, disconnects, outputVars, netVars,
                 userVars>>

(* Send from another thread: the message is copied into a task. *)
PostSend ==
  /\ known
  /\ made < MaxSends
  /\ posted' = Append(posted, made + 1)
  /\ made' = made + 1
  /\ UNCHANGED <<secure, stateVars, outputVars, netVars, callVars, known, outsider, sent>>

RunPostedSend ==
  /\ LoopAt("idle")
  /\ posted # <<>>
  /\ Send(Head(posted))
  /\ posted' = Tail(posted)
  /\ UNCHANGED <<secure, stateVars, netVars, callVars, known, made, outsider>>

----------------------------------------------------------------------------
LoopStep ==
  \/ Accept \/ EventArrives \/ SkipRead \/ HandleRead \/ HandleHandshake
  \/ Shutdown \/ HandlerReturns \/ SkipWrite \/ HandleWrite \/ HandleHangUp
  \/ CloseStep(Loop)

Next ==
  \/ PeerSends \/ PeerReads \/ PeerCloses
  \/ HandlerSends \/ HandlerShutsDown \/ HandlerForceCloses
  \/ PostSend \/ RunPostedSend
  \/ \E t \in Closers : ForceClose(t) \/ CloseStep(t)
  \/ LoopStep

Spec == Init /\ [][Next]_vars

(* The loop handles what epoll reports, and in each batch the tasks too; a *)
(* thread that closes goes on; the peer reads what it is sent.             *)
Fairness ==
  /\ WF_vars(LoopStep)
  /\ SF_vars(RunPostedSend)
  /\ WF_vars(PeerReads)
  /\ \A t \in Closers : WF_vars(CloseStep(t))

FairSpec == Spec /\ Fairness

----------------------------------------------------------------------------
Byte == (1..MaxSends) \X (1..MessageSize)

(* Every variable has a value of its type. *)
TypeOK ==
  /\ secure \in BOOLEAN
  /\ state_ \in {"kHandshaking", "kConnected", "kDisconnecting", "kDisconnected"}
  /\ fd_ \in {"open", "closed"}
  /\ registered \in BOOLEAN
  /\ closing \in [Threads -> {"no", "begin", "socket", "report"}]
  /\ closes \in Nat
  /\ disconnects \in Nat
  /\ epollout \in BOOLEAN
  /\ output_buffer_ \in Seq(Byte)
  /\ retry \in {"none", "caller", "buffer"}
  /\ progress \in Nat
  /\ socket \in Seq(Byte) /\ Len(socket) <= Capacity
  /\ received \in Seq(Byte)
  /\ fin \in BOOLEAN
  /\ inbound \in BOOLEAN
  /\ peer \in {"open", "fin", "reset"}
  /\ pc \in {"accept", "unregistered", "idle", "in", "handler", "shutdown", "out", "hup"}
  /\ flags \subseteq {"IN", "OUT", "HUP"}
  /\ posted \in Seq(1..MaxSends)
  /\ known \in BOOLEAN
  /\ made \in 0..MaxSends
  /\ outsider \in BOOLEAN
  /\ sent \in Seq(Byte)

(* However the direct write of Send and the later flushes of HandleWrite   *)
(* cut the messages, the peer gets the bytes in the order of the Sends:    *)
(* none is lost, repeated or overtaken.                                    *)
StreamIntact == received \o socket \o Unsent = sent

(* While something is left to write, EPOLLOUT is requested: no output is   *)
(* forgotten between Send's direct write and HandleWrite.                  *)
FlushArmed == output_buffer_ # <<>> /\ registered => epollout

(* However many threads find a connection closed or close it at the same   *)
(* time, none leaves to another what nobody does: one that is              *)
(* kDisconnected, or that the loop no longer watches, is closed, and its   *)
(* callback has run if there is one, or a thread is about to see to it.    *)
NeverHalfClosed ==
  \/ state_ # "kDisconnected" /\ (registered \/ pc = "accept")
  \/ \E t \in Threads : closing[t] # "no"
  \/ /\ ~registered
     /\ fd_ = "closed"
     /\ closes > 0
     /\ disconnects > 0 \/ pc = "unregistered"

(* "Already closed, prevent multiple calls", "Mark as closed to prevent     *)
(* double close": as long as only the loop's thread closes, the descriptor *)
(* is closed at most once and the callback runs at most once, whichever of *)
(* handshake, read, write, hang-up and the handler's ForceClose find the   *)
(* peer gone in one event.  Two threads that pass MayClose together close  *)
(* twice.                                                                  *)
ClosedOnce == ~outsider => closes <= 1 /\ disconnects <= 1

(* A close is seen through by one of the threads that are in it, and is    *)
(* done once while the loop's is the only one.                             *)
CloseIsWhole == NeverHalfClosed /\ ClosedOnce

(* A peer that closes is noticed, in whatever state the connection is. *)
PeerCloseIsNoticed == (peer # "open") ~> (fd_ = "closed")

(* Output reaches the socket when the peer reads, unless the connection    *)
(* closes.                                                                 *)
OutputDrains == (Unsent # <<>>) ~> (Unsent = <<>> \/ fd_ = "closed")
=============================================================================
