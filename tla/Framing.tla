------------------------------- MODULE Framing -------------------------------
(***************************************************************************)
(* The stream protocols: how the handlers of a server (lib_network/src/    *)
(* protocols) and the protocols of a client (include/network/core/client/  *)
(* protocols) cut the bytes of their connections into messages, with the   *)
(* token bucket that the connections of one handler share.                 *)
(*                                                                         *)
(* A connection is a reliable stream of bytes, as the module Connection    *)
(* shows, of which any number arrive at once.  A byte is the frame that it *)
(* belongs to and its place in it.  Where a parser treats the bytes of a   *)
(* field as one unit, and does nothing until it has them all, one byte     *)
(* stands for the field.  Bytes that are read as something they were not   *)
(* written as may say anything (HeaderAt).                                 *)
(*                                                                         *)
(* One thread runs all handlers; one step is one turn of a handler's loop. *)
(***************************************************************************)
EXTENDS Integers, Sequences, FiniteSets, SequencesExt

CONSTANTS
  Conns,        \* the connections of one handler, or the one of a client
  NoConn,
  Protocols,    \* the protocols to choose from
  Sizes,        \* the payload sizes of frames
  HeaderBytes,  \* the bytes of a length prefix or of an HTTP/2 frame header
  Wrap,         \* 2^32: sums with the length of a prefix are modulo this
  MaxLength,    \* the length that handlers do not accept to be exceeded
  LongSize,     \* the payload size from which WebSocket writes a second length
  Capacity,     \* of the token bucket
  Rate,         \* tokens per tick of the clock
  MaxFrames,    \* bound: the frames of each connection
  MaxTicks,     \* bound: ticks of the clock
  MaxDisorder   \* bound: the events that are followed once the order is lost

ASSUME ConstantsAssumption ==
  /\ NoConn \notin Conns
  /\ Sizes \subseteq Nat
  /\ HeaderBytes \in Nat \ {0}
  /\ Wrap \in Nat /\ \A n \in Sizes \cup {1, 2} : HeaderBytes + n < Wrap
  /\ {MaxLength, LongSize, Capacity, Rate, MaxTicks, MaxDisorder} \subseteq Nat
  /\ MaxFrames \in [Conns -> Nat]
  /\ Protocols \subseteq {"tcp", "rpc", "grpc", "http", "websocket", "tcp_client",
                          "rpc_client", "grpc_client", "http_client", "websocket_client"}

VARIABLES
  protocol,
  limited,       \* the handler has a rate_limiter_
  state_,        \* of each connection
  frames,        \* the frames that the peer of each connection sends
  wire,          \* bytes of them that have not arrived
  InputBuffer,   \* bytes that have arrived and are not retrieved
  serving,       \* the connection whose OnMessage runs
  context,       \* what the handler keeps for each connection
  parser_,       \* the WebSocket parser, one for all connections
  is_upgraded_,  \* likewise
  tokens_, last_refill_, now,
  handled,       \* history: the payloads that the user's handler received
  refused,       \* history: the frames that the rate limiter dropped
  admitted,      \* history: how many requests it let pass,
  burst,         \* and how many of them since the clock ticked
  disorder       \* history: the events since one that this protocol cannot cope with

streamVars  == <<protocol, limited, frames, wire>>
parserVars  == <<context, parser_, is_upgraded_>>
limiterVars == <<tokens_, last_refill_, admitted, burst>>
vars == <<streamVars, state_, InputBuffer, serving, parserVars, limiterVars, now, handled,
          refused, disorder>>

Clients == {"tcp_client", "rpc_client", "grpc_client", "http_client", "websocket_client"}

----------------------------------------------------------------------------
(* Frames and their bytes. *)

(* What a peer sends first, if not a message, and what besides messages.   *)
(* A DATA frame of HTTP/2 may hold one message, the first part of one that *)
(* is too long for a frame, the rest of that one, or a pair of messages.   *)
FirstKinds(p) ==
  CASE p = "grpc" -> {"preface", "junk"}
    [] p = "websocket" -> {"upgrade", "junk"}
    [] p = "websocket_client" -> {"upgrade"}
    [] OTHER -> {}

OtherKinds(p) ==
  CASE p \in {"tcp", "tcp_client", "rpc_client"} -> {"junk"}
    [] p = "rpc" -> {"junk", "huge"}
    [] p \in {"grpc", "grpc_client"} -> {"part", "rest", "pair", "control"}
    [] p = "websocket" -> {"control", "close"}
    [] OTHER -> {}

Openings == [kind : FirstKinds(protocol), size : {0}]
Messages ==
  UNION {[kind : {"message"}, size : Sizes],
         [kind : OtherKinds(protocol) \ {"pair"}, size : {1}],
         [kind : OtherKinds(protocol) \cap {"pair"}, size : {2}]}
Frame == Openings \cup Messages

(* Streams of n frames, the first of which is an opening if there are any. *)
(* The rest of a message follows its first part.                           *)
Streams(n) ==
  {s \in [1..n -> Frame] :
     \A i \in 1..n :
       /\ s[i] \in IF i = 1 /\ Openings # {} THEN Openings ELSE Messages
       /\ s[i].kind = "rest" <=> i > 1 /\ s[i - 1].kind = "part"}

(* The bytes before the payload.  HTTP: a request line, a Content-Length   *)
(* line if there is a body, an empty line.  WebSocket: a fixed header, a   *)
(* second length, and the mask key that only clients use.                  *)
HeaderLen(f) ==
  CASE protocol = "http" -> IF f.size > 0 THEN 3 ELSE 2
    [] protocol = "websocket" /\ f \in Messages -> IF f.size >= LongSize THEN 3 ELSE 2
    [] protocol = "websocket_client" /\ f \in Messages -> 1
    [] OTHER -> HeaderBytes

(* The length that a prefix gives: a huge one is not followed by so much. *)
Claimed(f) == IF f.kind = "huge" THEN Wrap - 1 ELSE f.size

(* The bytes of the k-th frame of a stream, of its payload, of the stream. *)
Bytes(k, f) == [i \in 1..(HeaderLen(f) + f.size) |-> <<k, i>>]
Payload(k, f) == [i \in 1..f.size |-> <<k, HeaderLen(f) + i>>]

AllBytes(s) == FlattenSeq([k \in DOMAIN s |-> Bytes(k, s[k])])

Drop(s, n) == SubSeq(s, n + 1, Len(s))

(* The frame that the bytes at the head of the buffer are read as. *)
HeaderAt(c) ==
  LET byte == Head(InputBuffer[c])
      f == frames[c][byte[1]]
  IN IF byte[2] = 1 /\ f \in Messages THEN {f} ELSE Messages

----------------------------------------------------------------------------
(* A connection that is accepted, by servers with OnConnection. *)

NoHeader == [kind |-> "none", size |-> 0]

(* What OnConnection puts into the context: HttpContext() and a Session. *)
InitialContext ==
  [state |-> CASE protocol = "http" -> "kExpectRequestLine"
               [] protocol = "grpc" -> "preface"
               [] OTHER -> "none",
   header |-> NoHeader, body |-> <<>>]

Init ==
  /\ protocol \in Protocols
  /\ limited \in IF protocol \in {"tcp", "http", "websocket"} THEN BOOLEAN ELSE {FALSE}
  /\ state_ = [c \in Conns |-> "none"]
  /\ frames \in {s \in [Conns -> UNION {Streams(MaxFrames[c]) : c \in Conns}] :
                   \A c \in Conns : s[c] \in Streams(MaxFrames[c])}
  /\ wire = [c \in Conns |-> AllBytes(frames[c])]
  /\ InputBuffer = [c \in Conns |-> <<>>]
  /\ serving = NoConn
  /\ context = [c \in Conns |-> InitialContext]
  /\ parser_ = [state |-> 1, header |-> NoHeader]
  /\ is_upgraded_ = FALSE
  /\ tokens_ = Capacity
  /\ last_refill_ = 0
  /\ now = 0
  /\ handled = [c \in Conns |-> <<>>]
  /\ refused = [c \in Conns |-> {}]
  /\ admitted = 0
  /\ burst = 0
  /\ disorder = 0

(* An event happens that the protocol copes with, or not. *)
Notes(fits) ==
  /\ disorder < MaxDisorder
  /\ disorder' = IF disorder = 0 /\ fits THEN 0 ELSE disorder + 1

(* WebSocketHandler::OnConnection begins anew for all connections. *)
OnConnection(c) ==
  /\ serving = NoConn
  /\ state_[c] = "none"
  /\ protocol \in Clients => \A d \in Conns : state_[d] = "none"
  /\ state_' = [state_ EXCEPT ![c] = "kConnected"]
  /\ is_upgraded_' = FALSE
  /\ Notes(~(is_upgraded_ /\ \E d \in Conns : state_[d] = "kConnected"))
  /\ UNCHANGED <<streamVars, InputBuffer, serving, context, parser_, limiterVars, now, handled,
                 refused>>

(* The protocols that cope with whatever arrives, and the frames that some *)
(* of the others do not cope with.                                         *)
AnyArrival == {"tcp", "rpc_client"}

Awkward == {"huge", "part", "rest", "pair"}

(* The arrivals after which a handler is known to serve every message.     *)
(* RPC loses track at a length that wraps, a TCP client at a frame that is *)
(* too long; gRPC wants each DATA frame to hold one message.  HTTP never   *)
(* leaves kDone, so one request is all.  WebSocket wants whole frames, of  *)
(* a length that it accepts, and its handshake alone, on one connection at *)
(* a time; its client wants one short frame at a time, the HTTP client one *)
(* response.                                                               *)
FittingArrival(c, n) ==
  LET new == SubSeq(wire[c], 1, n)
      number(i) == new[i][1]
      frame(i) == frames[c][number(i)]
      whole == /\ InputBuffer[c] = <<>>
               /\ new[1][2] = 1
               /\ new[n][2] = HeaderLen(frame(n)) + frame(n).size
      alone == number(1) = number(n)
  IN CASE protocol = "tcp_client" -> \A i \in 1..n : frame(i).size <= MaxLength
       [] protocol \in {"rpc", "grpc", "grpc_client"} ->
            \A i \in 1..n : frame(i).kind \notin Awkward
       [] protocol = "http" -> number(n) = 1
       [] protocol = "websocket" -> /\ whole
                                    /\ number(1) = 1 => alone /\ ~is_upgraded_
                                    /\ \A i \in 1..n : frame(i).size <= MaxLength
       [] protocol = "http_client" -> whole /\ alone
       [] protocol = "websocket_client" -> whole /\ alone /\ frame(1).size < LongSize
       [] OTHER -> TRUE

(* HandleRead, and IsConnected: OnMessage or OnDataReceived is called. *)
HandleRead(c) ==
  /\ serving = NoConn
  /\ state_[c] = "kConnected"
  /\ \E n \in 1..Len(wire[c]) :
       /\ InputBuffer' = [InputBuffer EXCEPT ![c] = @ \o SubSeq(wire[c], 1, n)]
       /\ wire' = [wire EXCEPT ![c] = Drop(@, n)]
       /\ Notes(FittingArrival(c, n))
  /\ serving' = c
  /\ UNCHANGED <<protocol, limited, frames, state_, parserVars, limiterVars, now, handled,
                 refused>>

----------------------------------------------------------------------------
(* TokenBucket and CheckRateLimit. *)

NewTokens == (now - last_refill_) * Rate

Refill == IF tokens_ + NewTokens < Capacity THEN tokens_ + NewTokens ELSE Capacity

(* Mutant: the tokens are not looked at before one is taken. *)
ConsumeUnchecked(passes) ==
  /\ passes
  /\ tokens_' = Refill - 1
  /\ last_refill_' = IF NewTokens > 0 THEN now ELSE last_refill_
  /\ admitted' = admitted + 1
  /\ burst' = burst + 1

(* Mutant: the time of the last refill is not kept. *)
ConsumeWithoutStamp(passes) ==
  /\ passes = (Refill >= 1)
  /\ tokens_' = Refill - (IF passes THEN 1 ELSE 0)
  /\ UNCHANGED last_refill_
  /\ admitted' = admitted + (IF passes THEN 1 ELSE 0)
  /\ burst' = burst + (IF passes THEN 1 ELSE 0)

Consume(passes) ==
  /\ passes = (Refill >= 1)
  /\ tokens_' = Refill - (IF passes THEN 1 ELSE 0)
  /\ last_refill_' = IF NewTokens > 0 THEN now ELSE last_refill_
  /\ admitted' = admitted + (IF passes THEN 1 ELSE 0)
  /\ burst' = burst + (IF passes THEN 1 ELSE 0)

CheckRateLimit(passes) ==
  IF limited THEN Consume(passes) ELSE passes /\ UNCHANGED limiterVars

Tick ==
  /\ limited
  /\ now < MaxTicks
  /\ now' = now + 1
  /\ burst' = 0
  /\ UNCHANGED <<streamVars, state_, InputBuffer, serving, parserVars, tokens_, last_refill_,
                 admitted, handled, refused, disorder>>

----------------------------------------------------------------------------
(* What the handlers' loops are made of. *)

Short(c, n) == Len(InputBuffer[c]) < n

Return ==
  /\ serving' = NoConn
  /\ UNCHANGED <<InputBuffer, state_, handled, refused>>

CloseAndReturn(c) ==
  /\ serving' = NoConn
  /\ state_' = [state_ EXCEPT ![c] = "kDisconnected"]
  /\ UNCHANGED <<InputBuffer, handled, refused>>

Retrieve(c, n) == InputBuffer' = [InputBuffer EXCEPT ![c] = Drop(@, n)]

Skip(c, n) ==
  /\ Retrieve(c, n)
  /\ UNCHANGED <<serving, state_, handled, refused>>

(* The user's handler gets the last f.size of the first n bytes, of a pair *)
(* of messages the first.  Through its stream context it may close the     *)
(* connection, where Close is ForceClose: the loop goes on all the same.   *)
Serve(c, f, n) ==
  /\ Retrieve(c, n)
  /\ handled' = [handled EXCEPT ![c] =
       Append(@, SubSeq(InputBuffer[c], n - f.size + 1, IF f.kind = "pair" THEN n - 1 ELSE n))]
  /\ \/ UNCHANGED state_
     \/ /\ protocol \in {"tcp", "rpc", "websocket"}
        /\ state_' = [state_ EXCEPT ![c] = "kDisconnected"]
  /\ UNCHANGED <<serving, refused>>

(* A payload that does not parse, and a DATA frame that Decode finds too   *)
(* short, is retrieved, and that is all.  The rest of a message is read as *)
(* one that begins there: its first bytes may happen to give a length.     *)
Dispatch(c, f, n) ==
  \/ f.kind \in {"message", "pair", "rest"} /\ Serve(c, f, n)
  \/ f.kind \notin {"message", "pair"} /\ Skip(c, n)

(* The rate limiter drops the frame. *)
Refuse(c, n) ==
  /\ Retrieve(c, n)
  /\ refused' = [refused EXCEPT ![c] = @ \cup {Head(InputBuffer[c])[1]}]
  /\ UNCHANGED <<serving, state_, handled>>

----------------------------------------------------------------------------
(* Length-prefixed envelopes. *)

TcpOnMessage(c) ==
  /\ UNCHANGED parserVars
  /\ \/ Short(c, HeaderBytes) /\ Return /\ UNCHANGED limiterVars
     \/ /\ ~Short(c, HeaderBytes)
        /\ \E f \in HeaderAt(c) :
             \/ f.size > MaxLength /\ CloseAndReturn(c) /\ UNCHANGED limiterVars
             \/ /\ f.size <= MaxLength
                /\ Short(c, HeaderBytes + f.size)
                /\ Return
                /\ UNCHANGED limiterVars
             \/ /\ f.size <= MaxLength
                /\ ~Short(c, HeaderBytes + f.size)
                /\ \/ CheckRateLimit(TRUE) /\ Dispatch(c, f, HeaderBytes + f.size)
                   \/ CheckRateLimit(FALSE) /\ Refuse(c, HeaderBytes + f.size)

(* 4 + length, in 32 bits. *)
FrameEnd(f) == (HeaderBytes + Claimed(f)) % Wrap

RpcOnMessage(c) ==
  /\ UNCHANGED <<parserVars, limiterVars>>
  /\ \/ Short(c, HeaderBytes) /\ Return
     \/ /\ ~Short(c, HeaderBytes)
        /\ \E f \in HeaderAt(c) :
             \/ Short(c, FrameEnd(f)) /\ Return
             \/ ~Short(c, FrameEnd(f)) /\ Dispatch(c, f, FrameEnd(f))

(* The client drops all that has arrived when a frame is too long. *)
TcpOnDataReceived(c) ==
  /\ UNCHANGED <<parserVars, limiterVars>>
  /\ \/ Short(c, HeaderBytes) /\ Return
     \/ /\ ~Short(c, HeaderBytes)
        /\ \E f \in HeaderAt(c) :
             \/ /\ f.size > MaxLength
                /\ Retrieve(c, Len(InputBuffer[c]))
                /\ serving' = NoConn
                /\ UNCHANGED <<state_, handled, refused>>
             \/ /\ f.size <= MaxLength
                /\ IF Short(c, HeaderBytes + f.size)
                     THEN Return
                     ELSE Dispatch(c, f, HeaderBytes + f.size)

RpcOnDataReceived(c) ==
  /\ UNCHANGED <<parserVars, limiterVars>>
  /\ \/ Short(c, HeaderBytes) /\ Return
     \/ /\ ~Short(c, HeaderBytes)
        /\ \E f \in HeaderAt(c) :
             \/ f.size > MaxLength /\ CloseAndReturn(c)
             \/ /\ f.size <= MaxLength
                /\ IF Short(c, HeaderBytes + f.size)
                     THEN Return
                     ELSE Dispatch(c, f, HeaderBytes + f.size)

----------------------------------------------------------------------------
(* HTTP/2 with gRPC: the preface, then frames whose headers are retrieved  *)
(* before their payloads have arrived.  The stream context's Close ends    *)
(* the stream, and not the connection.                                     *)

Goes(c, state, f) == context' = [context EXCEPT ![c].state = state, ![c].header = f]

OnPreface(c) ==
  \/ Short(c, HeaderBytes) /\ Return /\ UNCHANGED context
  \/ /\ ~Short(c, HeaderBytes)
     /\ IF frames[c][1].kind = "preface"
          THEN Skip(c, HeaderBytes) /\ Goes(c, "kReadingHeader", NoHeader)
          ELSE CloseAndReturn(c) /\ UNCHANGED context

ParseHeader(c) ==
  \/ Short(c, HeaderBytes) /\ Return /\ UNCHANGED context
  \/ /\ ~Short(c, HeaderBytes)
     /\ \E f \in HeaderAt(c) : Goes(c, "kReadingPayload", f)
     /\ Skip(c, HeaderBytes)

ParsePayload(c) ==
  LET f == context[c].header
  IN \/ Short(c, f.size) /\ Return /\ UNCHANGED context
     \/ /\ ~Short(c, f.size)
        /\ Dispatch(c, f, f.size)
        /\ Goes(c, "kReadingHeader", NoHeader)

GrpcOnMessage(c) ==
  /\ UNCHANGED <<parser_, is_upgraded_, limiterVars>>
  /\ \/ context[c].state = "preface" /\ OnPreface(c)
     \/ context[c].state = "kReadingHeader" /\ ParseHeader(c)
     \/ context[c].state = "kReadingPayload" /\ ParsePayload(c)

(* The client retrieves header and payload together. *)
GrpcOnDataReceived(c) == RpcOnMessage(c)

----------------------------------------------------------------------------
(* HTTP: ParseRequest goes as far as the bytes allow and keeps its state   *)
(* in the context; nothing takes it back from kDone, so that every later   *)
(* arrival serves the same request again.                                  *)

HttpParseLine(c) ==
  LET request == context[c]
      byte == Head(InputBuffer[c])
      f == frames[c][byte[1]]
  IN /\ request.state \in {"kExpectRequestLine", "kExpectHeaders"}
     /\ \/ InputBuffer[c] = <<>> /\ Return /\ UNCHANGED context
        \/ /\ InputBuffer[c] # <<>>
           /\ context' = [context EXCEPT ![c] =
                CASE request.state = "kExpectRequestLine" -> [@ EXCEPT !.state = "kExpectHeaders"]
                  [] request.state = "kExpectHeaders" /\ byte[2] < HeaderLen(f) ->
                       [@ EXCEPT !.header = f]
                  [] OTHER ->
                       [@ EXCEPT !.state = IF request.header # NoHeader THEN "kExpectBody" ELSE "kDone"]]
           /\ Skip(c, 1)

(* Mutant: the body is what has arrived of it. *)
HttpParseSomeBody(c) ==
  LET size == context[c].header.size
      there == IF Short(c, size) THEN Len(InputBuffer[c]) ELSE size
  IN /\ context[c].state = "kExpectBody"
     /\ Skip(c, there)
     /\ context' = [context EXCEPT ![c].state = "kDone",
                                   ![c].body = SubSeq(InputBuffer[c], 1, there)]

HttpParseBody(c) ==
  LET size == context[c].header.size
  IN /\ context[c].state = "kExpectBody"
     /\ \/ Short(c, size) /\ Return /\ UNCHANGED context
        \/ /\ ~Short(c, size)
           /\ Skip(c, size)
           /\ context' = [context EXCEPT ![c].state = "kDone",
                                         ![c].body = SubSeq(InputBuffer[c], 1, size)]

(* A request over the limit is answered with 429, a response with a        *)
(* payload ends in Shutdown; other outcomes leave the connection open.     *)
HttpServe(c) ==
  /\ context[c].state = "kDone"
  /\ \/ /\ CheckRateLimit(FALSE)
        /\ refused' = [refused EXCEPT ![c] = @ \cup {1}]
        /\ state_' = [state_ EXCEPT ![c] = "kDisconnecting"]
        /\ UNCHANGED handled
     \/ /\ CheckRateLimit(TRUE)
        /\ handled' = [handled EXCEPT ![c] = Append(@, context[c].body)]
        /\ \E state \in {"kConnected", "kDisconnecting"} : state_' = [state_ EXCEPT ![c] = state]
        /\ UNCHANGED refused
  /\ serving' = NoConn
  /\ UNCHANGED <<InputBuffer, context>>

HttpOnMessage(c) ==
  /\ UNCHANGED <<parser_, is_upgraded_>>
  /\ \/ (HttpParseLine(c) \/ HttpParseBody(c)) /\ UNCHANGED limiterVars
     \/ HttpServe(c)

(* The client takes what has arrived after the empty line for the body,    *)
(* and drops the buffer.  Its strstr does not stop where the bytes stop:   *)
(* what it finds there, of an earlier response, gives the body a negative  *)
(* length, and the exception ends the client.                              *)
HttpOnDataReceived(c) ==
  LET buf == InputBuffer[c]
      empty == {i \in DOMAIN buf : buf[i][2] = HeaderLen(frames[c][buf[i][1]])}
  IN /\ UNCHANGED <<parserVars, limiterVars>>
     /\ \/ /\ empty # {}
           /\ \E i \in empty :
                /\ \A j \in empty : i <= j
                /\ handled' = [handled EXCEPT ![c] = Append(@, Drop(buf, i))]
           /\ Retrieve(c, Len(buf))
           /\ serving' = NoConn
           /\ UNCHANGED <<state_, refused>>
        \/ empty = {} /\ Return
        \/ empty = {} /\ handled[c] # <<>> /\ CloseAndReturn(c)

----------------------------------------------------------------------------
(* WebSocket. *)

(* Bytes are retrieved, and the connection is closed. *)
End(c, n, dropped) ==
  /\ Retrieve(c, n)
  /\ refused' = [refused EXCEPT ![c] = @ \cup dropped]
  /\ state_' = [state_ EXCEPT ![c] = "kDisconnected"]
  /\ serving' = NoConn
  /\ UNCHANGED handled

(* The request has a Sec-WebSocket-Key. *)
HandshakeProcess(f) == f.kind = "upgrade"

(* Before the upgrade OnMessage looks for the end of a request with        *)
(* strstr, which does not stop where the bytes stop: behind them there may *)
(* still be the request that this connection began with.  It returns       *)
(* without a look at what follows the request.                             *)
Upgrade(c) ==
  LET byte == Head(InputBuffer[c])
      found == ~Short(c, HeaderBytes) /\ byte = <<1, 1>>
      Answer(n) == /\ is_upgraded_' = TRUE
                   /\ Retrieve(c, n)
                   /\ serving' = NoConn
                   /\ UNCHANGED <<state_, handled, refused>>
      Reject(n) == End(c, n, {}) /\ UNCHANGED is_upgraded_
  IN /\ ~is_upgraded_
     /\ UNCHANGED <<context, parser_, limiterVars>>
     /\ \/ ~found /\ Return /\ UNCHANGED is_upgraded_
        \/ found /\ HandshakeProcess(frames[c][1]) /\ Answer(HeaderBytes)
        \/ found /\ ~HandshakeProcess(frames[c][1]) /\ Reject(HeaderBytes)
        \/ /\ byte[1] # 1
           /\ \/ Answer(Len(InputBuffer[c]))
              \/ Reject(Len(InputBuffer[c]))

(* The parser's states 1 to 4 are kHeader, kPayloadLength, kMaskKey and    *)
(* kPayload.  Where the bytes do not suffice it remembers the state, but   *)
(* the bytes it has used stay in the buffer, and the next call begins with *)
(* them again: a second length is then read from other bytes.  It also     *)
(* stops, for good, at a length that is too large.                         *)
ParsedHeaders(c) ==
  CASE parser_.state = 1 -> HeaderAt(c)
    [] parser_.state = 2 -> [kind : {parser_.header.kind}, size : Sizes]
    [] OTHER -> {parser_.header}

Extended(f) == parser_.state = 2 \/ f.size >= LongSize

Field(state, f) ==
  CASE state = 1 -> 1
    [] state = 2 -> IF Extended(f) THEN 1 ELSE 0
    [] state = 3 -> 1
    [] state = 4 -> f.size

(* The bytes that are used from the parser's state to the last one. *)
Through(last, f) ==
  LET used(state) == IF state \in parser_.state..last THEN Field(state, f) ELSE 0
  IN used(1) + used(2) + used(3) + used(4)

Stops(c, f) ==
  {state \in parser_.state..4 :
     \/ Short(c, Through(state, f))
     \/ state = 2 /\ Extended(f) /\ f.size > MaxLength}

(* One frame, if it is parsed: consumed bytes of the buffer. *)
WebSocketFrame(c, f) ==
  LET consumed == Through(4, f)
      number == Head(InputBuffer[c])[1]
  IN IF Stops(c, f) # {}
       THEN /\ parser_' = [state |-> CHOOSE s \in Stops(c, f) : \A t \in Stops(c, f) : s <= t,
                           header |-> f]
            /\ Return
            /\ UNCHANGED limiterVars
       ELSE /\ parser_' = [state |-> 1, header |-> NoHeader]
            /\ \/ f.kind = "control" /\ Skip(c, consumed) /\ UNCHANGED limiterVars
               \/ f.kind = "message" /\ CheckRateLimit(TRUE) /\ Serve(c, f, consumed)
               \/ f.kind = "message" /\ CheckRateLimit(FALSE) /\ End(c, consumed, {number})
               \/ f.kind = "close" /\ UNCHANGED limiterVars /\ End(c, consumed, {})

WebSocketOnMessage(c) ==
  \/ Upgrade(c)
  \/ /\ is_upgraded_
     /\ UNCHANGED <<context, is_upgraded_>>
     /\ \/ InputBuffer[c] = <<>> /\ Return /\ UNCHANGED <<parser_, limiterVars>>
        \/ /\ InputBuffer[c] # <<>>
           /\ \E f \in ParsedHeaders(c) : WebSocketFrame(c, f)

(* The client looks for the status line, drops all that has arrived with   *)
(* it, and then takes one frame per call, whose length it takes from one   *)
(* byte.                                                                   *)
WebSocketOnDataReceived(c) ==
  /\ UNCHANGED <<context, parser_, limiterVars, refused, state_>>
  /\ serving' = NoConn
  /\ IF is_upgraded_
       THEN \E f \in HeaderAt(c), g \in Messages :
              /\ g = f \/ f.size >= LongSize
              /\ IF Short(c, 1 + g.size)
                   THEN UNCHANGED <<InputBuffer, handled>>
                   ELSE /\ Retrieve(c, 1 + g.size)
                        /\ handled' = [handled EXCEPT ![c] =
                             Append(@, SubSeq(InputBuffer[c], 2, 1 + g.size))]
              /\ UNCHANGED is_upgraded_
       ELSE /\ is_upgraded_' = (Head(InputBuffer[c]) = <<1, 1>>)
            /\ Retrieve(c, IF is_upgraded_' THEN Len(InputBuffer[c]) ELSE 0)
            /\ UNCHANGED handled

----------------------------------------------------------------------------
OnMessage(c) ==
  /\ serving = c
  /\ \/ protocol = "tcp" /\ TcpOnMessage(c)
     \/ protocol = "rpc" /\ RpcOnMessage(c)
     \/ protocol = "grpc" /\ GrpcOnMessage(c)
     \/ protocol = "http" /\ HttpOnMessage(c)
     \/ protocol = "websocket" /\ WebSocketOnMessage(c)
     \/ protocol = "tcp_client" /\ TcpOnDataReceived(c)
     \/ protocol = "rpc_client" /\ RpcOnDataReceived(c)
     \/ protocol = "grpc_client" /\ GrpcOnDataReceived(c)
     \/ protocol = "http_client" /\ HttpOnDataReceived(c)
     \/ protocol = "websocket_client" /\ WebSocketOnDataReceived(c)
  /\ UNCHANGED <<streamVars, now, disorder>>

Next ==
  \/ \E c \in Conns : OnConnection(c) \/ HandleRead(c) \/ OnMessage(c)
  \/ Tick

Spec == Init /\ [][Next]_vars

----------------------------------------------------------------------------
(* Properties. *)

Byte == Nat \X Nat

(* Every variable has its type; the token bucket holds between none and    *)
(* Capacity tokens.                                                        *)
TypeOK ==
  /\ protocol \in Protocols
  /\ limited \in BOOLEAN
  /\ state_ \in [Conns -> {"none", "kConnected", "kDisconnecting", "kDisconnected"}]
  /\ frames \in [Conns -> Seq(Frame)]
  /\ wire \in [Conns -> Seq(Byte)]
  /\ InputBuffer \in [Conns -> Seq(Byte)]
  /\ serving \in Conns \cup {NoConn}
  /\ \A c \in Conns :
       /\ context[c].state \in {"none", "preface", "kReadingHeader", "kReadingPayload",
                                "kExpectRequestLine", "kExpectHeaders", "kExpectBody", "kDone"}
       /\ context[c].header \in Frame \cup {NoHeader}
       /\ context[c].body \in Seq(Byte)
  /\ parser_ \in [state : 1..4, header : [kind : {h.kind : h \in Frame \cup {NoHeader}}, size : Nat]]
  /\ is_upgraded_ \in BOOLEAN
  /\ tokens_ \in 0..Capacity
  /\ now \in 0..MaxTicks
  /\ last_refill_ \in 0..now
  /\ handled \in [Conns -> Seq(Seq(Byte))]
  /\ refused \in [Conns -> SUBSET Nat]
  /\ admitted \in Nat
  /\ burst \in Nat
  /\ disorder \in 0..MaxDisorder

(* The first frame that is not retrieved to its end. *)
FirstLeft(c) ==
  LET left == InputBuffer[c] \o wire[c]
  IN IF left = <<>> THEN Len(frames[c]) + 1 ELSE Head(left)[1]

(* The frames whose payloads a handler should have received: the messages  *)
(* before FirstLeft that the rate limiter did not drop.                    *)
Expected(c) ==
  {k \in 1..(FirstLeft(c) - 1) : frames[c][k].kind = "message" /\ k \notin refused[c]}

(* The payloads in s are those of the frames in set, in their order. *)
Delivers(c, s, set) ==
  /\ Len(s) = Cardinality(set)
  /\ \A k \in set : s[Cardinality({j \in set : j <= k})] = Payload(k, frames[c][k])

(* However the bytes of the connections are cut and interleaved, each      *)
(* message reaches the user's handler whole, once, and in order, unless    *)
(* the rate limiter drops it: without exception for the TCP handler and    *)
(* the RPC client; for the gRPC handler and client if every DATA frame     *)
(* holds one message; for the others as long as the bytes arrive as        *)
(* FittingArrival says.                                                    *)
MessagesIntact ==
  disorder = 0 \/ protocol \in AnyArrival =>
    \A c \in Conns : serving # c => Delivers(c, handled[c], Expected(c))

(* No OnMessage returns with a complete frame in the buffer of a           *)
(* connection that is still served: nothing would come to call it again.   *)
NothingStranded ==
  (disorder = 0 \/ protocol \in AnyArrival) /\ serving = NoConn =>
    \A c \in Conns : state_[c] = "kConnected" /\ InputBuffer[c] # <<>> =>
      LET k == Head(InputBuffer[c])[1]
          last == Bytes(k, frames[c][k])[HeaderLen(frames[c][k]) + frames[c][k].size]
      IN \A i \in 1..Len(InputBuffer[c]) : InputBuffer[c][i] # last

(* However the bytes of a stream that fits the protocol are cut, each      *)
(* message of it reaches the user's handler whole, once, in order, and as  *)
(* soon as it has arrived.                                                 *)
MessagesDelivered == MessagesIntact /\ NothingStranded

(* The connections of a handler together never get more requests through   *)
(* its token bucket than the capacity at once, or than the capacity and    *)
(* the rate allow since the beginning.                                     *)
RateHeld ==
  limited => burst <= Capacity /\ admitted <= Capacity + Rate * now
==============================================================================
