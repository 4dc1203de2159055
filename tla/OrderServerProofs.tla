------------------------- MODULE OrderServerProofs -------------------------
(***************************************************************************)
(* Proofs about OrderServer, for any connections, descriptors, addresses,  *)
(* requests and number of ticks.                                           *)
(***************************************************************************)
EXTENDS OrderServer, SequenceTheorems, FiniteSetTheorems, TLAPS

Open == {c \in Conns : state_[c] = "kConnected"}

(* An open connection, its registry entry and the kernel agree. *)
Agrees ==
  \A c \in Open : fd_[c] \in Fds /\ connections_[fd_[c]] = c /\ sockets[fd_[c]] = c

(* Where the loop's thread is in a request of current, there is one. *)
Busy ==
  /\ loop \in {"handler", "subscribing", "subscribed"} => current \in Conns
  /\ loop \in {"subscribing", "subscribed"} => done[current] < read[current]

(* The publisher begins when main starts it, has the mutex exactly while   *)
(* it writes, and holds a connection only at a position that exists.       *)
Locked ==
  /\ main = "starting" => publisher = "none"
  /\ (mutex_ = "publisher") <=> (publisher = "writing")
  /\ held # NoConn => publisher = "writing" /\ position <= Len(subscribers_)

Gauge == active_connections >= Cardinality(Open)

Inv == TypeOK /\ Agrees /\ Busy /\ Locked /\ Gauge /\ RightPeer

----------------------------------------------------------------------------
(* Connections whose descriptors are registered for them have different    *)
(* ones, so that there are no more of them than entries in the registry.   *)
LEMMA OpenAreRegistered ==
  ASSUME NEW S, NEW fds, NEW registry, NoConn \notin S,
         \A c \in S : fds[c] \in Fds /\ registry[fds[c]] = c
  PROVE  /\ IsFiniteSet(S)
         /\ Cardinality(S) \in Nat /\ Registered(registry) \in Nat
         /\ Cardinality(S) <= Registered(registry)
<1> DEFINE entries == {fd \in Fds : registry[fd] # NoConn}
           f == [c \in S |-> fds[c]]
<1>1. IsFiniteSet(entries)
  BY ConstantsAssumption, FS_Subset
<1>2. f \in Injection(S, entries)
  BY DEF Injection, IsInjective
<1>3. IsFiniteSet(S) /\ Cardinality(S) <= Cardinality(entries)
  BY <1>1, <1>2, FS_Injection
<1>4. Cardinality(S) \in Nat /\ Cardinality(entries) \in Nat
  BY <1>1, <1>3, FS_CardinalityType
<1> QED
  BY <1>3, <1>4 DEF Registered

(* A message that is sent arrives at the peer of its connection, or is     *)
(* not sent.                                                               *)
LEMMA SendsToOwner ==
  ASSUME PeerTypes, ReactorTypes, Agrees, RightPeer, NEW m \in Message, Send(m)
  PROVE  got' \in [Conns -> Seq(Message)] /\ RightPeer'
<1>1. m.to \in Conns
  BY DEF Message
<1>2. CASE state_[m.to] = "kConnected"
  <2>1. sockets[fd_[m.to]] = m.to /\ m.to # NoConn
    BY <1>1, <1>2, ConstantsAssumption DEF Agrees, Open
  <2>2. got' = [got EXCEPT ![m.to] = Append(@, m)]
    BY <1>2, <2>1 DEF Send
  <2>3. got[m.to] \in Seq(Message)
    BY <1>1 DEF PeerTypes
  <2>4. Append(got[m.to], m) \in Seq(Message)
    BY <2>3, AppendProperties
  <2>5. got' \in [Conns -> Seq(Message)]
    BY <1>1, <2>2, <2>4 DEF PeerTypes
  <2>6. ASSUME NEW c \in Conns, NEW i \in DOMAIN got'[c]
        PROVE  got'[c][i].to = c
    <3>1. CASE c = m.to
      BY <1>1, <2>2, <2>3, <2>6, <3>1, AppendProperties DEF PeerTypes, RightPeer
    <3>2. CASE c # m.to
      BY <1>1, <2>2, <2>6, <3>2 DEF PeerTypes, RightPeer
    <3> QED
      BY <3>1, <3>2
  <2> QED
    BY <2>5, <2>6 DEF RightPeer
<1>3. CASE state_[m.to] # "kConnected"
  BY <1>3 DEF Send, PeerTypes, RightPeer
<1> QED
  BY <1>2, <1>3

(* What the three kinds of messages are made of. *)
LEMMA MessageTypes ==
  ASSUME PeerTypes, ThreadTypes, NEW c \in Conns
  PROVE  /\ \A id \in Nat : Response(c, id) \in Message
         /\ Ack(c) \in Message
         /\ Tick(c) \in Message
<1>1. done[c] + 1 \in Nat /\ tick \in Nat
  <2>1. MaxTicks \in Nat
    BY ConstantsAssumption
  <2>2. tick \in 0..MaxTicks /\ done[c] \in Nat
    BY DEF PeerTypes, ThreadTypes
  <2> QED
    BY <2>1, <2>2
<1> QED
  BY <1>1 DEF Response, Ack, Tick, Message

----------------------------------------------------------------------------
(* What a step leaves alone keeps what is said about it. *)
LEMMA UnchangedPeers ==
  ASSUME UNCHANGED <<peerVars, read, done, got>>
  PROVE  PeerTypes = PeerTypes' /\ RightPeer = RightPeer'
BY DEF PeerTypes, RightPeer, peerVars

(* What is said of the reactor holds while its variables stay. *)
LEMMA UnchangedReactor ==
  ASSUME UNCHANGED reactorVars
  PROVE  ReactorTypes = ReactorTypes' /\ Agrees = Agrees' /\ Gauge = Gauge'
BY DEF ReactorTypes, Agrees, Gauge, Open, reactorVars

(* What is said of the orders holds while their variables stay. *)
LEMMA UnchangedOrders ==
  ASSUME UNCHANGED <<orderVars, script>>
  PROVE  OrderTypes = OrderTypes'
BY DEF OrderTypes, orderVars

(* What is said of the threads holds while their variables stay. *)
LEMMA UnchangedThreads ==
  ASSUME UNCHANGED <<mutex_, subscribers_, publisherVars, mainVars, loop, current, pending_tasks_>>
  PROVE  ThreadTypes = ThreadTypes' /\ Locked = Locked'
BY DEF ThreadTypes, Locked, publisherVars, mainVars

(* A peer asks or closes. *)
LEMMA PeerKeepsInv ==
  ASSUME Inv, NEW c \in Conns, PeerStep(c)
  PROVE  Inv'
<1>1. UNCHANGED <<ip, script, read, done, got, reactorVars, orderVars, mutex_, subscribers_,
                  publisherVars, mainVars, loop, current, pending_tasks_>>
  BY DEF PeerStep, PeerAsks, PeerCloses
<1>2. PeerTypes'
  <2>1. peer' \in [Conns -> {"waiting", "open", "refused", "closed"}]
    BY DEF Inv, TypeOK, PeerTypes, PeerStep, PeerAsks, PeerCloses
  <2>2. /\ asked' \in [Conns -> Nat]
        /\ \A d \in Conns : asked[d] <= asked'[d] /\ asked'[d] <= Len(script[d])
    <3>1. CASE PeerAsks(c)
      BY <3>1 DEF Inv, TypeOK, PeerTypes, PeerAsks
    <3>2. CASE PeerCloses(c)
      BY <3>2 DEF Inv, TypeOK, PeerTypes, PeerCloses
    <3> QED
      BY <3>1, <3>2 DEF PeerStep
  <2> QED
    BY <1>1, <2>1, <2>2 DEF Inv, TypeOK, PeerTypes
<1>3. RightPeer' /\ Busy'
  BY <1>1 DEF Inv, RightPeer, Busy
<1> QED
  BY <1>1, <1>2, <1>3, UnchangedReactor, UnchangedOrders, UnchangedThreads DEF Inv, TypeOK

(* An accepted connection gets a descriptor that no open one has. *)
LEMMA AcceptKeepsInv ==
  ASSUME Inv, NEW c \in Conns, Accept(c)
  PROVE  Inv'
<1>1. UNCHANGED <<ip, script, asked, read, done, got, orderVars, mutex_, subscribers_,
                  publisherVars, mainVars, loop, current, pending_tasks_>>
  BY DEF Accept
<1>2. PeerTypes' /\ RightPeer' /\ Busy'
  <2>1. peer' \in [Conns -> {"waiting", "open", "refused", "closed"}]
    BY DEF Inv, TypeOK, PeerTypes, Accept
  <2> QED
    BY <1>1, <2>1 DEF Inv, TypeOK, PeerTypes, RightPeer, Busy
<1>3. ReactorTypes' /\ Agrees' /\ Gauge'
  <2>1. CASE ~AllowConnection(c)
    BY <2>1, UnchangedReactor DEF Inv, TypeOK, Accept
  <2>2. CASE AllowConnection(c)
    <3>1. PICK fd \in Fds :
            /\ sockets[fd] = NoConn
            /\ conn_counts_' = [conn_counts_ EXCEPT ![ip[c]] = @ + 1]
            /\ sockets' = [sockets EXCEPT ![fd] = c]
            /\ fd_' = [fd_ EXCEPT ![c] = fd]
            /\ state_' = [state_ EXCEPT ![c] = "kConnected"]
            /\ connections_' = [connections_ EXCEPT ![fd] = c]
            /\ active_connections' = Registered(connections_')
      BY <2>2 DEF Accept
    <3>2. \A d \in Open : fd_[d] # fd
      BY <3>1, ConstantsAssumption DEF Inv, Agrees, Open
    <3>3. Agrees'
      BY <3>1, <3>2 DEF Inv, TypeOK, ReactorTypes, Agrees, Open
    <3>4. conn_counts_' \in [Ips -> 0..max_conn_per_ip]
      <4>1. max_conn_per_ip \in Nat
        BY ConstantsAssumption
      <4>2. ip[c] \in Ips /\ conn_counts_ \in [Ips -> 0..max_conn_per_ip]
        BY DEF Inv, TypeOK, PeerTypes, ReactorTypes
      <4> QED
        BY <2>2, <3>1, <4>1, <4>2 DEF AllowConnection
    <3>5. IsFiniteSet({f \in Fds : connections_'[f] # NoConn})
      BY ConstantsAssumption, FS_Subset
    <3>6. active_connections' \in Nat
      BY <3>1, <3>5, FS_CardinalityType DEF Registered
    <3>7. ReactorTypes'
      BY <3>1, <3>4, <3>6 DEF Inv, TypeOK, ReactorTypes
    <3>8. Gauge'
      <4>1. Cardinality(Open') <= Registered(connections_') /\ Cardinality(Open') \in Nat
        BY <3>3, ConstantsAssumption, OpenAreRegistered DEF Agrees, Open
      <4> QED
        BY <3>1, <3>6, <4>1 DEF Gauge
    <3> QED
      BY <3>3, <3>7, <3>8
  <2> QED
    BY <2>1, <2>2
<1> QED
  BY <1>1, <1>2, <1>3, UnchangedOrders, UnchangedThreads DEF Inv, TypeOK

(* HandleClose takes one connection from the open ones and leaves the      *)
(* registry as it is.                                                      *)
LEMMA CloseKeepsReactor ==
  ASSUME Inv, NEW c \in Open, HandleClose(c), UNCHANGED conn_counts_
  PROVE  ReactorTypes' /\ Agrees' /\ Gauge'
<1>1. fd_[c] \in Fds /\ sockets[fd_[c]] = c /\ c \in Conns
  BY DEF Inv, Agrees, Open
<1>2. /\ state_' = [state_ EXCEPT ![c] = "kDisconnected"]
      /\ sockets' = [sockets EXCEPT ![fd_[c]] = NoConn]
      /\ fd_' = [fd_ EXCEPT ![c] = NoFd]
      /\ active_connections' = Registered(connections_) - 1
  BY DEF HandleClose, DisconnectCallback
<1>3. connections_' = connections_
  <2>1. fd_'[c] = NoFd /\ NoFd \notin Fds
    BY <1>1, <1>2, ConstantsAssumption DEF Inv, TypeOK, ReactorTypes
  <2>2. connections_' = [fd \in Fds |-> connections_[fd]]
    BY <2>1 DEF HandleClose, DisconnectCallback
  <2> QED
    BY <2>2 DEF Inv, TypeOK, ReactorTypes
<1>4. Open' = Open \ {c}
  BY <1>1, <1>2 DEF Inv, TypeOK, ReactorTypes, Open
<1>5. Agrees'
  <2>1. \A d \in Open \ {c} : fd_[d] # fd_[c]
    BY <1>1 DEF Inv, Agrees
  <2> QED
    BY <1>1, <1>2, <1>3, <1>4, <2>1 DEF Inv, TypeOK, ReactorTypes, Agrees, Open
<1>6. /\ IsFiniteSet(Open) /\ Cardinality(Open) \in Nat /\ Registered(connections_) \in Nat
      /\ Cardinality(Open) <= Registered(connections_)
  <2>1. NoConn \notin Open /\ \A d \in Open : fd_[d] \in Fds /\ connections_[fd_[d]] = d
    BY ConstantsAssumption DEF Inv, Agrees, Open
  <2> QED
    BY <2>1, OpenAreRegistered
<1>7. IsFiniteSet(Open') /\ Cardinality(Open') = Cardinality(Open) - 1
  BY <1>4, <1>6, FS_RemoveElement
<1>8. Cardinality(Open') \in Nat
  BY <1>7, FS_CardinalityType
<1>9. active_connections' \in Nat /\ active_connections' >= Cardinality(Open')
  BY <1>2, <1>6, <1>7, <1>8
<1> QED
  BY <1>1, <1>2, <1>3, <1>5, <1>9 DEF Inv, TypeOK, ReactorTypes, Gauge

(* Reading closes the connection, or begins a callback. *)
LEMMA ReadKeepsInv ==
  ASSUME Inv, NEW c \in Conns, HandleRead(c)
  PROVE  Inv'
<1>1. UNCHANGED <<peerVars, done, got, conn_counts_, orderVars, mutex_, subscribers_,
                  publisherVars, mainVars, pending_tasks_>> /\ loop = "idle" /\ c \in Open
  BY DEF HandleRead, Open
<1>2. CASE HandleClose(c) /\ UNCHANGED <<read, loop, current>>
  <2>1. ReactorTypes' /\ Agrees' /\ Gauge'
    BY <1>1, <1>2, CloseKeepsReactor
  <2>2. Busy'
    BY <1>1, <1>2 DEF Inv, Busy
  <2> QED
    BY <1>1, <1>2, <2>1, <2>2, UnchangedPeers, UnchangedOrders, UnchangedThreads
       DEF Inv, TypeOK, peerVars
<1>3. CASE /\ read' = [read EXCEPT ![c] = asked[c]]
           /\ loop' = "handler" /\ current' = c
           /\ UNCHANGED <<sockets, state_, fd_, connections_, active_connections>>
  <2>1. PeerTypes' /\ RightPeer'
    BY <1>1, <1>3 DEF Inv, TypeOK, PeerTypes, RightPeer, peerVars
  <2>2. ThreadTypes' /\ Busy' /\ Locked'
    BY <1>1, <1>3 DEF Inv, TypeOK, ThreadTypes, Busy, Locked, publisherVars, mainVars
  <2>3. UNCHANGED reactorVars
    BY <1>1, <1>3 DEF reactorVars
  <2> QED
    BY <1>1, <2>1, <2>2, <2>3, UnchangedReactor, UnchangedOrders DEF Inv, TypeOK, peerVars
<1> QED
  BY <1>2, <1>3 DEF HandleRead

----------------------------------------------------------------------------
(* A request at whose turn it is, is one that its peer's script has. *)
LEMMA RequestType ==
  ASSUME PeerTypes, NEW c \in Conns, Turn(c)
  PROVE  /\ done[c] + 1 \in Nat
         /\ Request(c).kind \in {"named", "unnamed", "invalid", "subscribe"}
         /\ Request(c).id \in OrderIds \cup {0}
         /\ Request(c).id \in Nat
<1> DEFINE Requests == [kind : {"named", "unnamed", "invalid", "subscribe"},
                        id : OrderIds \cup {0}]
<1>1. script[c] \in Seq(Requests)
  BY ConstantsAssumption DEF PeerTypes
<1>2. done[c] + 1 \in 1..Len(script[c])
  <2>1. /\ done[c] \in Nat /\ read[c] \in Nat /\ asked[c] \in Nat
        /\ done[c] < read[c] /\ read[c] <= asked[c] /\ asked[c] <= Len(script[c])
    BY DEF PeerTypes, Turn
  <2>2. Len(script[c]) \in Nat
    BY <1>1
  <2> QED
    BY <2>1, <2>2
<1>3. script[c][done[c] + 1] \in Requests
  <2> HIDE DEF Requests
  <2> QED
    BY <1>1, <1>2, ElementOfSeq
<1>4. OrderIds \subseteq Nat
  BY ConstantsAssumption
<1>5. done[c] + 1 \in Nat
  BY DEF PeerTypes
<1>6. Request(c) \in Requests
  BY <1>3 DEF Request
<1>7. /\ Request(c).kind \in {"named", "unnamed", "invalid", "subscribe"}
      /\ Request(c).id \in OrderIds \cup {0}
  BY <1>6
<1>8. Request(c).id \in Nat
  <2> DEFINE id == Request(c).id
  <2>1. id \in OrderIds \cup {0}
    BY <1>7
  <2> HIDE DEF id
  <2>2. id \in Nat
    BY <1>4, <2>1
  <2> QED
    BY <2>2 DEF id
<1> QED
  BY <1>5, <1>7, <1>8

(* A request that is finished was one that had been read. *)
LEMMA FinishKeepsPeers ==
  ASSUME PeerTypes, NEW c \in Conns, done[c] < read[c], Finish(c), UNCHANGED <<peerVars, read>>,
         got' \in [Conns -> Seq(Message)]
  PROVE  PeerTypes'
<1>1. /\ done' \in [Conns -> Nat]
      /\ \A d \in Conns : done'[d] <= read[d]
  BY DEF PeerTypes, Finish
<1> QED
  BY <1>1 DEF PeerTypes, peerVars

(* An order that is placed is valid, and answered on its own connection. *)
LEMMA PlaceOrderKeeps ==
  ASSUME Inv, NEW c \in Conns, Turn(c), Request(c).kind # "subscribe", PlaceOrder(c),
         UNCHANGED script
  PROVE  OrderTypes' /\ got' \in [Conns -> Seq(Message)] /\ RightPeer'
<1> DEFINE order == <<c, done[c] + 1>>
<1> USE DEF Inv, TypeOK
<1>1. /\ done[c] + 1 \in Nat /\ Request(c).id \in Nat
      /\ Request(c).kind \in {"named", "unnamed", "invalid", "subscribe"}
  BY RequestType
<1>2. id_counter_ \in Nat
  BY DEF OrderTypes
<1>3. PICK id \in Nat : Send(Response(c, id))
  <2>1. CASE Rejects(c)
    BY <2>1 DEF PlaceOrder
  <2>2. CASE ~Rejects(c)
    BY <1>1, <1>2, <2>2 DEF PlaceOrder
  <2> QED
    BY <2>1, <2>2
<1>4. Response(c, id) \in Message
  BY MessageTypes
<1>5. got' \in [Conns -> Seq(Message)] /\ RightPeer'
  BY <1>3, <1>4, SendsToOwner
<1>6. OrderTypes'
  <2>1. CASE Rejects(c)
    BY <2>1 DEF PlaceOrder, OrderTypes, orderVars, Rejects
  <2>2. CASE ~Rejects(c)
    <3>1. /\ order \in Conns \X Nat
          /\ script[order[1]][order[2]].kind \in Valid
      BY <1>1, <2>2 DEF Rejects, Request, Valid
    <3>2. PICK key \in Nat : orders_' = [orders_ EXCEPT ![key] = order]
      BY <1>1, <1>2, <2>2 DEF PlaceOrder
    <3>3. orders_' \in [OrderIds -> (Conns \X Nat) \cup {NoOrder}]
      BY <3>1, <3>2 DEF OrderTypes
    <3>4. ASSUME NEW i \in OrderIds, orders_'[i] # NoOrder
          PROVE  script[orders_'[i][1]][orders_'[i][2]].kind \in Valid
      <4>1. CASE i = key
        BY <3>1, <3>2, <4>1 DEF OrderTypes
      <4>2. CASE i # key
        BY <3>2, <3>4, <4>2 DEF OrderTypes
      <4> QED
        BY <4>1, <4>2
    <3>5. id_counter_' \in Nat
      BY <1>2, <2>2 DEF PlaceOrder, NextId
    <3> QED
      BY <3>3, <3>4, <3>5 DEF OrderTypes
  <2> QED
    BY <2>1, <2>2
<1> QED
  BY <1>5, <1>6

(* A turn of the handler's loop. *)
LEMMA HandlerKeepsInv ==
  ASSUME Inv, NEW c \in Conns, HandlerStep(c)
  PROVE  Inv'
<1>1. UNCHANGED <<peerVars, read, reactorVars, mutex_, subscribers_, publisherVars, mainVars,
                  pending_tasks_>> /\ OnMessage(c) /\ current = c /\ loop = "handler"
  BY DEF HandlerStep, OnMessage
<1>2. script' = script
  BY <1>1 DEF peerVars
<1>3. PeerTypes' /\ RightPeer' /\ OrderTypes'
  <2>1. CASE UNCHANGED <<done, got, orderVars>>
    BY <1>1, <1>2, <2>1, UnchangedPeers, UnchangedOrders DEF Inv, TypeOK
  <2>2. CASE Turn(c) /\ Finish(c) /\ UNCHANGED <<got, orderVars>>
    <3>1. PeerTypes'
      BY <1>1, <2>2, FinishKeepsPeers DEF Inv, TypeOK, Turn, PeerTypes
    <3> QED
      BY <1>2, <2>2, <3>1, UnchangedOrders DEF Inv, TypeOK, RightPeer
  <2>3. CASE Turn(c) /\ Request(c).kind # "subscribe" /\ PlaceOrder(c) /\ Finish(c)
    BY <1>1, <1>2, <2>3, PlaceOrderKeeps, FinishKeepsPeers DEF Inv, TypeOK, Turn
  <2> QED
    BY <1>1, <2>1, <2>2, <2>3 DEF OnMessage
<1>4. /\ loop' \in {"idle", "handler", "subscribing"}
      /\ current' \in Conns \cup {NoConn}
      /\ loop' # "idle" => current' = c
      /\ loop' = "subscribing" => done' = done /\ done[c] < read[c]
  BY <1>1 DEF OnMessage, Turn
<1>5. Busy'
  BY <1>1, <1>4 DEF Busy
<1>6. ThreadTypes' /\ Locked'
  BY <1>1, <1>4 DEF Inv, TypeOK, ThreadTypes, Locked, publisherVars, mainVars
<1> QED
  BY <1>1, <1>3, <1>5, <1>6, UnchangedReactor DEF Inv, TypeOK

(* The subscription and its acknowledgement. *)
LEMMA SubscriptionKeepsInv ==
  ASSUME Inv, Subscribe \/ Acknowledge
  PROVE  Inv'
<1>1. current \in Conns /\ done[current] < read[current]
  BY DEF Inv, Busy, Subscribe, Acknowledge
<1>2. CASE Subscribe
  <2>1. UNCHANGED <<peerVars, read, done, got, reactorVars, orderVars, mutex_, publisherVars,
                    mainVars, current, pending_tasks_>> /\ script' = script
    BY <1>2 DEF Subscribe, peerVars
  <2>2. /\ subscribers_' \in Seq(Conns)
        /\ Len(subscribers_') = Len(subscribers_) + 1
        /\ Len(subscribers_) \in Nat
    BY <1>1, <1>2 DEF Subscribe, Inv, TypeOK, ThreadTypes
  <2>3. ThreadTypes' /\ Locked'
    BY <1>2, <2>1, <2>2 DEF Subscribe, Inv, TypeOK, ThreadTypes, Locked, publisherVars, mainVars
  <2>4. Busy'
    BY <1>1, <1>2, <2>1 DEF Subscribe, Busy
  <2> QED
    BY <2>1, <2>3, <2>4, UnchangedPeers, UnchangedReactor, UnchangedOrders DEF Inv, TypeOK
<1>3. CASE Acknowledge
  <2>1. UNCHANGED <<peerVars, read, reactorVars, orderVars, mutex_, subscribers_, publisherVars,
                    mainVars, current, pending_tasks_>> /\ script' = script
    BY <1>3 DEF Acknowledge, peerVars
  <2>2. Ack(current) \in Message
    BY <1>1, MessageTypes DEF Inv, TypeOK
  <2>3. got' \in [Conns -> Seq(Message)] /\ RightPeer'
    BY <1>3, <2>2, SendsToOwner DEF Acknowledge, Inv, TypeOK
  <2>4. PeerTypes'
    BY <1>1, <1>3, <2>1, <2>3, FinishKeepsPeers DEF Acknowledge, Inv, TypeOK
  <2>5. ThreadTypes' /\ Locked' /\ Busy'
    BY <1>1, <1>3, <2>1
       DEF Acknowledge, Inv, TypeOK, ThreadTypes, Locked, Busy, publisherVars, mainVars
  <2> QED
    BY <2>1, <2>3, <2>4, <2>5, UnchangedReactor, UnchangedOrders DEF Inv, TypeOK
<1> QED
  BY <1>2, <1>3

(* A task sends the tick it was posted with. *)
LEMMA TaskKeepsInv ==
  ASSUME Inv, RunTask
  PROVE  Inv'
<1>1. UNCHANGED <<peerVars, read, done, reactorVars, orderVars, mutex_, subscribers_,
                  publisherVars, mainVars, loop, current>> /\ script' = script
  BY DEF RunTask, peerVars
<1>2. pending_tasks_ \in Seq(Message) /\ pending_tasks_ # <<>>
  BY DEF RunTask, Inv, TypeOK, ThreadTypes
<1>3. Head(pending_tasks_) \in Message /\ Tail(pending_tasks_) \in Seq(Message)
  BY <1>2, HeadTailProperties
<1>4. got' \in [Conns -> Seq(Message)] /\ RightPeer'
  BY <1>3, SendsToOwner DEF RunTask, Inv, TypeOK
<1>5. PeerTypes'
  BY <1>1, <1>4 DEF Inv, TypeOK, PeerTypes, peerVars
<1>6. ThreadTypes' /\ Locked' /\ Busy'
  BY <1>1, <1>3 DEF RunTask, Inv, TypeOK, ThreadTypes, Locked, Busy, publisherVars, mainVars
<1> QED
  BY <1>1, <1>4, <1>5, <1>6, UnchangedReactor, UnchangedOrders DEF Inv, TypeOK

(* The publisher writes only with its mutex. *)
LEMMA PublisherKeepsInv ==
  ASSUME Inv, PublisherStep
  PROVE  Inv'
<1>1. UNCHANGED <<peerVars, read, done, got, reactorVars, orderVars, subscribers_, mainVars,
                  loop, current>> /\ script' = script
  BY DEF PublisherStep, peerVars, TestRunning, LockMutex, LockContext, Write, UnlockMutex
<1>2. Len(subscribers_) \in Nat /\ MaxTicks \in Nat
  BY ConstantsAssumption DEF Inv, TypeOK, ThreadTypes
<1>3. ThreadTypes' /\ Locked'
  <2>1. CASE TestRunning
    BY <1>1, <1>2, <2>1 DEF TestRunning, Inv, TypeOK, ThreadTypes, Locked, mainVars
  <2>2. CASE LockMutex
    BY <1>1, <1>2, <2>2 DEF LockMutex, Inv, TypeOK, ThreadTypes, Locked, mainVars
  <2>3. CASE LockContext
    <3>1. subscribers_[position] \in Conns
      BY <1>2, <2>3 DEF LockContext, Inv, TypeOK, ThreadTypes
    <3> QED
      BY <1>1, <1>2, <2>3, <3>1 DEF LockContext, Inv, TypeOK, ThreadTypes, Locked, mainVars
  <2>4. CASE Write
    <3>1. held \in Conns /\ position <= Len(subscribers_)
      BY <2>4 DEF Write, Inv, TypeOK, ThreadTypes, Locked
    <3>2. Tick(held) \in Message
      BY <3>1, MessageTypes DEF Inv, TypeOK
    <3>3. pending_tasks_' \in Seq(Message)
      BY <2>4, <3>2, AppendProperties DEF Write, Inv, TypeOK, ThreadTypes
    <3> QED
      BY <1>1, <1>2, <2>4, <3>1, <3>3 DEF Write, Inv, TypeOK, ThreadTypes, Locked, mainVars
  <2>5. CASE UnlockMutex
    BY <1>1, <1>2, <2>5 DEF UnlockMutex, Inv, TypeOK, ThreadTypes, Locked, mainVars
  <2> QED
    BY <2>1, <2>2, <2>3, <2>4, <2>5 DEF PublisherStep
<1>4. Busy'
  BY <1>1 DEF Inv, Busy
<1> QED
  BY <1>1, <1>3, <1>4, UnchangedPeers, UnchangedReactor, UnchangedOrders DEF Inv, TypeOK

(* The main thread, and the end of the loop. *)
LEMMA MainKeepsInv ==
  ASSUME Inv, MainStep \/ LoopEnds
  PROVE  Inv'
<1>1. UNCHANGED <<peerVars, read, done, got, reactorVars, orderVars, mutex_, subscribers_, tick,
                  position, held, current, pending_tasks_>> /\ script' = script
  BY DEF MainStep, LoopEnds, peerVars, publisherVars
<1>2. /\ running_' \in BOOLEAN
      /\ main' \in {"starting", "waiting", "joining", "done"}
      /\ publisher' = publisher \/ publisher' = "testing"
      /\ main' = "starting" => (main = "starting" /\ publisher' = publisher)
      /\ loop' = loop \/ loop' = "ended"
  <2>1. CASE LoopEnds
    BY <2>1 DEF Inv, TypeOK, ThreadTypes, LoopEnds, publisherVars, mainVars
  <2>2. CASE MainStep
    <3>1. loop' = loop
      BY <2>2 DEF MainStep
    <3>2. CASE Start
      BY <3>1, <3>2 DEF Start
    <3>3. CASE Stop
      BY <3>1, <3>3 DEF Stop
    <3>4. CASE Join
      <4>1. running_ \in BOOLEAN /\ running_' = running_
        BY <3>4 DEF Inv, TypeOK, ThreadTypes, Join
      <4> QED
        BY <3>1, <3>4, <4>1 DEF Join
    <3> QED
      BY <2>2, <3>2, <3>3, <3>4 DEF MainStep
  <2> QED
    BY <2>1, <2>2
<1>3. publisher' # publisher => publisher = "none"
  BY DEF Inv, Locked, MainStep, LoopEnds, Start, Stop, Join, publisherVars
<1>4. ThreadTypes' /\ Locked' /\ Busy'
  BY <1>1, <1>2, <1>3 DEF Inv, TypeOK, ThreadTypes, Locked, Busy
<1> QED
  BY <1>1, <1>4, UnchangedPeers, UnchangedReactor, UnchangedOrders DEF Inv, TypeOK

----------------------------------------------------------------------------
(* The inductive invariant: with the types, open connections, registry and *)
(* kernel agree about descriptors, the loop's thread is in a request that  *)
(* exists, and the publisher has its mutex exactly while it writes.        *)
THEOREM Invariance == Spec => []Inv
<1>1. Init => Inv
  <2> SUFFICES ASSUME Init PROVE Inv
    OBVIOUS
  <2>1. {max_conn_per_ip, MaxTicks} \subseteq Nat
    BY ConstantsAssumption
  <2>2. Open = {}
    BY DEF Init, Open
  <2>3. PeerTypes
    <3>1. ip \in [Conns -> Ips] /\ \A c \in Conns : Len(script[c]) \in Nat
      BY ConstantsAssumption DEF Init
    <3> QED
      BY <3>1 DEF Init, PeerTypes
  <2>4. ReactorTypes /\ Agrees
    BY <2>1, <2>2 DEF Init, ReactorTypes, Agrees
  <2>5. OrderTypes
    BY DEF Init, OrderTypes
  <2>6. ThreadTypes
    <3>1. <<>> \in Seq(Conns) /\ <<>> \in Seq(Message) /\ 1 \in 1..(Len(<<>>) + 1)
      OBVIOUS
    <3>2. tick \in 0..MaxTicks
      BY <2>1 DEF Init
    <3> QED
      BY <3>1, <3>2 DEF Init, ThreadTypes
  <2>9. Busy /\ Locked
    BY DEF Init, Busy, Locked
  <2>7. Gauge
    BY <2>2, FS_EmptySet DEF Init, Gauge
  <2>8. RightPeer
    BY DEF Init, RightPeer
  <2> QED
    BY <2>3, <2>4, <2>5, <2>6, <2>7, <2>8, <2>9 DEF Inv, TypeOK
<1>2. Inv /\ [Next]_vars => Inv'
  <2> SUFFICES ASSUME Inv, [Next]_vars PROVE Inv'
    OBVIOUS
  <2>1. CASE UNCHANGED vars
    <3>1. Busy'
      BY <2>1 DEF Inv, Busy, vars
    <3> QED
      BY <2>1, <3>1, UnchangedPeers, UnchangedReactor, UnchangedOrders, UnchangedThreads
         DEF Inv, TypeOK, vars, peerVars
  <2> QED
    BY <2>1, PeerKeepsInv, AcceptKeepsInv, ReadKeepsInv, HandlerKeepsInv, SubscriptionKeepsInv,
       TaskKeepsInv, PublisherKeepsInv, MainKeepsInv DEF Next, LoopStep
<1> QED
  BY <1>1, <1>2, PTL DEF Spec

(* The types, for any connections, descriptors and requests: in particular *)
(* the gauge never goes below zero, though it is computed as one less than *)
(* the size of a registry from which nothing is erased.                    *)
THEOREM TypeCorrect == Spec => []TypeOK
<1>1. Inv => TypeOK
  BY DEF Inv
<1> QED
  BY <1>1, Invariance, PTL

(* No message reaches a peer for whose connection it was not written,      *)
(* however many ticks of closed connections are posted when their          *)
(* descriptors are given to others.                                        *)
THEOREM RightPeerHolds == Spec => []RightPeer
<1>1. Inv => RightPeer
  BY DEF Inv
<1> QED
  BY <1>1, Invariance, PTL

(* The registry has every open connection under its descriptor, and the    *)
(* gauge is at least their number, although closed ones stay registered.   *)
THEOREM RegistryAlwaysCovers == Spec => []RegistryCovers
<1>1. Inv => RegistryCovers
  BY DEF Inv, RegistryCovers, Agrees, Gauge, Open
<1> QED
  BY <1>1, Invariance, PTL

----------------------------------------------------------------------------
(* The orders.  The map orders_ of the code takes any id, in particular    *)
(* every one that GenerateId makes: AnyId says so of OrderIds.             *)

AnyId == Nat \ {0} \subseteq OrderIds

(* A client has chosen id n. *)
Chosen(n) ==
  \E d \in Conns : \E k \in 1..done[d] : script[d][k].kind = "named" /\ script[d][k].id = n

(* What c was told about an order without an id of its own still holds.    *)
(* The counter is past the id, so that GenerateId gives it to no other.    *)
Kept(c, m) ==
  m.kind = "response" /\ m.n # 0 /\ script[c][m.re].kind = "unnamed" =>
    m.n < id_counter_ /\ (orders_[m.n] = <<c, m.re>> \/ Chosen(m.n))

(* Only ticks are posted: a response is sent where its order is placed. *)
OnlyTicks == \A i \in DOMAIN pending_tasks_ : pending_tasks_[i].kind = "tick"

Ledger ==
  /\ id_counter_ >= 1
  /\ OnlyTicks
  /\ \A c \in Conns : \A i \in DOMAIN got[c] : Kept(c, got[c][i])

(* After a Send there is one message more, if any, and it is m. *)
LEMMA SendAddsOne ==
  ASSUME PeerTypes, ReactorTypes, Agrees, NEW m \in Message, Send(m),
         NEW c \in Conns, NEW i \in DOMAIN got'[c]
  PROVE  (i \in DOMAIN got[c] /\ got'[c][i] = got[c][i]) \/ (c = m.to /\ got'[c][i] = m)
<1>1. m.to \in Conns
  BY DEF Message
<1>2. CASE state_[m.to] = "kConnected"
  <2>1. sockets[fd_[m.to]] = m.to /\ m.to # NoConn
    BY <1>1, <1>2, ConstantsAssumption DEF Agrees, Open
  <2>2. got' = [got EXCEPT ![m.to] = Append(@, m)]
    BY <1>2, <2>1 DEF Send
  <2>3. got[m.to] \in Seq(Message)
    BY <1>1 DEF PeerTypes
  <2>4. CASE c = m.to
    BY <1>1, <2>2, <2>3, <2>4, AppendProperties DEF PeerTypes
  <2>5. CASE c # m.to
    BY <1>1, <2>2, <2>5 DEF PeerTypes
  <2> QED
    BY <2>4, <2>5
<1>3. CASE state_[m.to] # "kConnected"
  BY <1>3 DEF Send
<1> QED
  BY <1>2, <1>3

(* Requests that are finished stay so: an id stays chosen. *)
LEMMA ChosenStays ==
  ASSUME PeerTypes, script' = script, done' \in [Conns -> Nat],
         \A d \in Conns : done[d] <= done'[d],
         NEW n, Chosen(n)
  PROVE  Chosen(n)'
<1>1. PICK d \in Conns : \E k \in 1..done[d] : script[d][k].kind = "named" /\ script[d][k].id = n
  BY DEF Chosen
<1>2. PICK k \in 1..done[d] : script[d][k].kind = "named" /\ script[d][k].id = n
  BY <1>1
<1>3. k \in 1..done'[d]
  BY <1>2 DEF PeerTypes
<1> QED
  BY <1>2, <1>3 DEF Chosen

(* An order that is kept stays kept while orders are untouched and         *)
(* requests only get done.                                                 *)
LEMMA KeptStays ==
  ASSUME PeerTypes, script' = script, UNCHANGED orderVars, done' \in [Conns -> Nat],
         \A d \in Conns : done[d] <= done'[d],
         NEW c, NEW m, Kept(c, m)
  PROVE  Kept(c, m)'
BY ChosenStays DEF Kept, orderVars

(* An order that is placed replaces no order under a generated id, unless  *)
(* its own id was chosen by a client.                                      *)
LEMMA PlacingKeepsOthers ==
  ASSUME Inv, Ledger, NEW c \in Conns, Turn(c), PlaceOrder(c), Finish(c), script' = script,
         NEW d \in Conns, NEW m \in Message, Kept(d, m)
  PROVE  Kept(d, m)'
<1>1. /\ done' \in [Conns -> Nat] /\ \A e \in Conns : done[e] <= done'[e]
      /\ done'[c] = done[c] + 1 /\ done[c] \in Nat
  BY DEF Inv, TypeOK, PeerTypes, Finish
<1>2. m.n \in Nat /\ id_counter_ \in Nat /\ PeerTypes
  BY DEF Message, Inv, TypeOK, OrderTypes
<1>3. CASE Rejects(c)
  BY <1>1, <1>2, <1>3, KeptStays DEF PlaceOrder
<1>4. CASE ~Rejects(c) /\ Request(c).kind = "named"
  <2>1. orders_' = [orders_ EXCEPT ![Request(c).id] = <<c, done[c] + 1>>] /\ id_counter_' = id_counter_
    BY <1>4 DEF PlaceOrder
  <2>2. CASE m.n = Request(c).id
    <3>1. done[c] + 1 \in 1..done'[c]
      BY <1>1
    <3>2. Chosen(m.n)'
      BY <1>4, <2>2, <3>1 DEF Chosen, Request
    <3> QED
      BY <2>1, <3>2 DEF Kept
  <2>3. CASE m.n # Request(c).id
    <3>1. orders_'[m.n] = orders_[m.n]
      BY <2>1, <2>3 DEF Inv, TypeOK, OrderTypes
    <3> QED
      BY <1>1, <1>2, <2>1, <3>1, ChosenStays DEF Kept
  <2> QED
    BY <2>2, <2>3
<1>5. CASE ~Rejects(c) /\ Request(c).kind # "named"
  <2>1. orders_' = [orders_ EXCEPT ![id_counter_] = <<c, done[c] + 1>>]
        /\ id_counter_' = id_counter_ + 1
    BY <1>5 DEF PlaceOrder, NextId
  <2>2. m.n < id_counter_ => orders_'[m.n] = orders_[m.n] /\ m.n < id_counter_'
    BY <1>2, <2>1 DEF Inv, TypeOK, OrderTypes
  <2> QED
    BY <1>1, <1>2, <2>2, ChosenStays DEF Kept
<1> QED
  BY <1>3, <1>4, <1>5

(* The response says where the order is. *)
LEMMA ResponseIsKept ==
  ASSUME AnyId, Inv, Ledger, NEW c \in Conns, Turn(c), Request(c).kind # "subscribe",
         PlaceOrder(c), script' = script
  PROVE  /\ id_counter_' >= 1
         /\ \E id \in Nat : Send(Response(c, id)) /\ \A m : m = Response(c, id) => Kept(c, m)'
<1>1. /\ done[c] + 1 \in Nat /\ Request(c).id \in Nat /\ id_counter_ \in Nat /\ id_counter_ >= 1
      /\ Request(c).kind \in {"named", "unnamed", "invalid", "subscribe"}
  BY RequestType DEF Inv, TypeOK, OrderTypes, Ledger
<1>2. CASE Rejects(c)
  <2>1. Send(Response(c, 0)) /\ id_counter_' = id_counter_
    BY <1>2 DEF PlaceOrder, orderVars
  <2>2. \A m : m = Response(c, 0) => Kept(c, m)'
    BY DEF Kept, Response
  <2> QED
    BY <1>1, <2>1, <2>2
<1>3. CASE ~Rejects(c) /\ Request(c).kind = "named"
  <2>1. Send(Response(c, Request(c).id)) /\ id_counter_' = id_counter_
    BY <1>3 DEF PlaceOrder
  <2>2. \A m : m = Response(c, Request(c).id) => Kept(c, m)'
    BY <1>3 DEF Kept, Response, Request
  <2> QED
    BY <1>1, <2>1, <2>2
<1>4. CASE ~Rejects(c) /\ Request(c).kind # "named"
  <2>1. /\ Send(Response(c, id_counter_)) /\ id_counter_' = id_counter_ + 1
        /\ orders_' = [orders_ EXCEPT ![id_counter_] = <<c, done[c] + 1>>]
    BY <1>4 DEF PlaceOrder, NextId
  <2>2. id_counter_ \in OrderIds
    BY <1>1 DEF AnyId
  <2>3. orders_'[id_counter_] = <<c, done[c] + 1>> /\ id_counter_ < id_counter_'
    BY <1>1, <2>1, <2>2 DEF Inv, TypeOK, OrderTypes
  <2>4. \A m : m = Response(c, id_counter_) => Kept(c, m)'
    BY <2>3 DEF Kept, Response
  <2> QED
    BY <1>1, <2>1, <2>4
<1> QED
  BY <1>2, <1>3, <1>4

(* A message that is sent and may be told joins the ones that were. *)
LEMMA SendKeepsLedger ==
  ASSUME Inv, Ledger, NEW m \in Message, Send(m), Kept(m.to, m)',
         \A d \in Conns : \A n \in Message : Kept(d, n) => Kept(d, n)'
  PROVE  \A d \in Conns : \A i \in DOMAIN got'[d] : \A n : n = got'[d][i] => Kept(d, n)'
<1> SUFFICES ASSUME NEW d \in Conns, NEW i \in DOMAIN got'[d]
             PROVE  \A n : n = got'[d][i] => Kept(d, n)'
  OBVIOUS
<1>1. (i \in DOMAIN got[d] /\ got'[d][i] = got[d][i]) \/ (d = m.to /\ got'[d][i] = m)
  BY SendAddsOne DEF Inv, TypeOK
<1>2. CASE i \in DOMAIN got[d] /\ got'[d][i] = got[d][i]
  <2>1. got[d][i] \in Message
    BY <1>2, ElementOfSeq DEF Inv, TypeOK, PeerTypes
  <2>2. PICK n \in Message : n = got[d][i]
    BY <2>1
  <2>3. Kept(d, n)
    BY <1>2, <2>2 DEF Ledger
  <2>4. Kept(d, n)'
    BY <2>2, <2>3
  <2> QED
    BY <1>2, <2>2, <2>4
<1>3. CASE d = m.to /\ got'[d][i] = m
  BY <1>3
<1> QED
  BY <1>1, <1>2, <1>3

(* Requests may be finished, and messages sent that are not about orders. *)
LEMMA OtherStepsKeepLedger ==
  ASSUME Inv, Ledger, script' = script, UNCHANGED orderVars, OnlyTicks',
         done' = done \/ \E c \in Conns : Finish(c),
         UNCHANGED got \/ \E m \in Message : m.kind # "response" /\ Send(m)
  PROVE  Ledger'
<1>1. PeerTypes /\ done' \in [Conns -> Nat] /\ \A d \in Conns : done[d] <= done'[d]
  <2>1. PeerTypes /\ done \in [Conns -> Nat]
    BY DEF Inv, TypeOK, PeerTypes
  <2>2. CASE done' = done
    BY <2>1, <2>2
  <2>3. CASE \E c \in Conns : Finish(c)
    BY <2>1, <2>3 DEF Finish
  <2> QED
    BY <2>1, <2>2, <2>3
<1>2. \A d \in Conns : \A n \in Message : Kept(d, n) => Kept(d, n)'
  BY <1>1, KeptStays
<1>3. \A d \in Conns : \A i \in DOMAIN got'[d] : \A n : n = got'[d][i] => Kept(d, n)'
  <2>1. CASE UNCHANGED got
    BY <1>1, <2>1, KeptStays DEF Ledger
  <2>2. CASE \E m \in Message : m.kind # "response" /\ Send(m)
    <3>1. PICK m \in Message : m.kind # "response" /\ Send(m)
      BY <2>2
    <3>2. Kept(m.to, m)'
      BY <3>1 DEF Kept
    <3> QED
      BY <1>2, <3>1, <3>2, SendKeepsLedger
  <2> QED
    BY <2>1, <2>2
<1> QED
  BY <1>3 DEF Ledger, orderVars

(* No step of a connection's handler gives an id twice or answers          *)
(* elsewhere.                                                              *)
LEMMA HandlerKeepsLedger ==
  ASSUME AnyId, Inv, Ledger, NEW c \in Conns, HandlerStep(c)
  PROVE  Ledger'
<1>1. script' = script /\ pending_tasks_' = pending_tasks_ /\ OnMessage(c)
  BY DEF HandlerStep, peerVars
<1>2. OnlyTicks'
  BY <1>1 DEF Ledger, OnlyTicks
<1>3. CASE UNCHANGED <<got, orderVars>> /\ (done' = done \/ Finish(c))
  BY <1>1, <1>2, <1>3, OtherStepsKeepLedger
<1>4. CASE Turn(c) /\ Request(c).kind # "subscribe" /\ PlaceOrder(c) /\ Finish(c)
  <2>1. /\ id_counter_' >= 1
        /\ \E id \in Nat : Send(Response(c, id)) /\ \A m : m = Response(c, id) => Kept(c, m)'
    BY <1>1, <1>4, ResponseIsKept
  <2>2. PICK id \in Nat : Send(Response(c, id)) /\ \A m : m = Response(c, id) => Kept(c, m)'
    BY <2>1
  <2>3. Response(c, id) \in Message
    BY MessageTypes DEF Inv, TypeOK
  <2>4. PICK m \in Message : m = Response(c, id)
    BY <2>3
  <2>5. Send(m) /\ m.to = c /\ Kept(m.to, m)'
    <3>1. Send(m) /\ m.to = c
      BY <2>2, <2>4 DEF Response
    <3>2. Kept(c, m)'
      BY <2>2, <2>4
    <3> QED
      BY <3>1, <3>2
  <2>6. \A d \in Conns : \A n \in Message : Kept(d, n) => Kept(d, n)'
    BY <1>1, <1>4, PlacingKeepsOthers
  <2>7. \A d \in Conns : \A i \in DOMAIN got'[d] : \A n : n = got'[d][i] => Kept(d, n)'
    BY <2>5, <2>6, SendKeepsLedger
  <2> QED
    BY <1>2, <2>1, <2>7 DEF Ledger
<1> QED
  BY <1>1, <1>3, <1>4 DEF OnMessage

(* Every step keeps the ledger. *)
LEMMA LedgerNext ==
  ASSUME AnyId, Inv, Ledger, [Next]_vars
  PROVE  Ledger'
<1>1. CASE \E c \in Conns : HandlerStep(c)
  BY <1>1, HandlerKeepsLedger
<1>2. CASE Acknowledge
  <2>1. current \in Conns
    BY <1>2 DEF Inv, Busy, Acknowledge
  <2>2. Ack(current) \in Message /\ Ack(current).kind # "response"
    BY <2>1, MessageTypes DEF Inv, TypeOK, Ack
  <2>3. OnlyTicks'
    BY <1>2 DEF Acknowledge, Ledger, OnlyTicks
  <2> QED
    BY <1>2, <2>1, <2>2, <2>3, OtherStepsKeepLedger DEF Acknowledge, peerVars
<1>3. CASE RunTask
  <2>1. pending_tasks_ \in Seq(Message) /\ pending_tasks_ # <<>>
    BY <1>3 DEF RunTask, Inv, TypeOK, ThreadTypes
  <2>2. Head(pending_tasks_) \in Message /\ Head(pending_tasks_).kind = "tick"
    BY <2>1, HeadTailProperties DEF Ledger, OnlyTicks
  <2>3. OnlyTicks'
    BY <1>3, <2>1, HeadTailProperties DEF RunTask, Ledger, OnlyTicks
  <2> QED
    BY <1>3, <2>2, <2>3, OtherStepsKeepLedger DEF RunTask, peerVars
<1>4. CASE PublisherStep
  <2>1. script' = script /\ UNCHANGED <<got, done, orderVars>>
    BY <1>4 DEF PublisherStep, peerVars, TestRunning, LockMutex, LockContext, Write, UnlockMutex
  <2>2. OnlyTicks'
    <3>1. CASE Write
      <4>1. pending_tasks_ \in Seq(Message) /\ held \in Conns
        BY <3>1 DEF Write, Inv, TypeOK, ThreadTypes
      <4>2. Tick(held) \in Message /\ Tick(held).kind = "tick"
        BY <4>1, MessageTypes DEF Inv, TypeOK, Tick
      <4> QED
        BY <3>1, <4>1, <4>2, AppendProperties DEF Write, Ledger, OnlyTicks
    <3>2. CASE ~Write
      BY <1>4, <3>2
         DEF PublisherStep, TestRunning, LockMutex, LockContext, UnlockMutex, Ledger, OnlyTicks
    <3> QED
      BY <3>1, <3>2
  <2> QED
    BY <2>1, <2>2, OtherStepsKeepLedger
<1>5. CASE \/ \E c \in Conns : PeerStep(c) \/ Accept(c) \/ HandleRead(c)
           \/ Subscribe \/ LoopEnds \/ MainStep \/ UNCHANGED vars
  <2>1. script' = script /\ UNCHANGED <<got, done, orderVars, pending_tasks_>>
    BY <1>5 DEF PeerStep, PeerAsks, PeerCloses, Accept, HandleRead, Subscribe, LoopEnds,
                MainStep, vars, peerVars
  <2>2. OnlyTicks'
    BY <2>1 DEF Ledger, OnlyTicks
  <2> QED
    BY <2>1, <2>2, OtherStepsKeepLedger
<1> QED
  BY <1>1, <1>2, <1>3, <1>4, <1>5 DEF Next, LoopStep

(* When any id can be a key of the map, an order that was accepted without *)
(* an id stays where its response said, unless a client chose that id: no  *)
(* two orders are given one id by GenerateId.                              *)
THEOREM AcceptedOrdersKept ==
  ASSUME AnyId
  PROVE  Spec => []OrdersKept
<1>1. Init => Ledger
  BY DEF Init, Ledger, OnlyTicks
<1>2. Inv /\ Ledger /\ [Next]_vars => Ledger'
  BY LedgerNext
<1>3. Ledger => OrdersKept
  BY DEF Ledger, Kept, Chosen, OrdersKept
<1> QED
  BY <1>1, <1>2, <1>3, Invariance, PTL DEF Spec

----------------------------------------------------------------------------
(* Counting.  How many of the first n elements of s are in M. *)

Count(s, n, M) == Cardinality({i \in 1..n : s[i] \in M})

Num(b) == IF b THEN 1 ELSE 0

(* Counts are natural numbers, and none are among no elements. *)
LEMMA CountType ==
  ASSUME NEW s, NEW n \in Nat, NEW M
  PROVE  /\ IsFiniteSet({i \in 1..n : s[i] \in M})
         /\ Count(s, n, M) \in Nat
         /\ n = 0 => Count(s, n, M) = 0
<1>1. IsFiniteSet(1..n)
  BY FS_Interval
<1>2. IsFiniteSet({i \in 1..n : s[i] \in M})
  BY <1>1, FS_Subset
<1>3. n = 0 => {i \in 1..n : s[i] \in M} = {}
  OBVIOUS
<1> QED
  BY <1>2, <1>3, FS_CardinalityType, FS_EmptySet DEF Count

(* One element more counts one more if it is in the set. *)
LEMMA CountNext ==
  ASSUME NEW s, NEW n \in Nat, NEW M
  PROVE  Count(s, n + 1, M) = Count(s, n, M) + Num(s[n + 1] \in M)
<1> DEFINE A == {i \in 1..n : s[i] \in M}
           B == {i \in 1..(n + 1) : s[i] \in M}
<1>1. IsFiniteSet(A) /\ Cardinality(A) \in Nat
  BY CountType DEF Count
<1>2. CASE s[n + 1] \in M
  <2>1. B = A \cup {n + 1} /\ n + 1 \notin A
    BY <1>2
  <2> QED
    BY <1>1, <1>2, <2>1, FS_AddElement DEF Count, Num
<1>3. CASE s[n + 1] \notin M
  <2>1. B = A
    BY <1>3
  <2> QED
    BY <1>1, <1>3, <2>1 DEF Count, Num
<1> QED
  BY <1>2, <1>3

(* Longer prefixes count no less. *)
LEMMA CountGrows ==
  ASSUME NEW s, NEW n \in Nat, NEW k \in Nat, n <= k, NEW M
  PROVE  Count(s, n, M) <= Count(s, k, M)
<1>1. {i \in 1..n : s[i] \in M} \subseteq {i \in 1..k : s[i] \in M}
  OBVIOUS
<1>2. IsFiniteSet({i \in 1..k : s[i] \in M})
  BY CountType
<1> QED
  BY <1>1, <1>2, FS_Subset DEF Count

(* Appending an element counts it, and leaves the prefixes as they are. *)
LEMMA CountAppend ==
  ASSUME NEW S, NEW s \in Seq(S), NEW e \in S, NEW M
  PROVE  /\ Count(Append(s, e), Len(Append(s, e)), M) = Count(s, Len(s), M) + Num(e \in M)
         /\ \A n \in 0..Len(s) : Count(Append(s, e), n, M) = Count(s, n, M)
<1>1. /\ Len(s) \in Nat /\ Len(Append(s, e)) = Len(s) + 1 /\ Append(s, e)[Len(s) + 1] = e
      /\ \A i \in 1..Len(s) : Append(s, e)[i] = s[i]
  BY AppendProperties
<1>2. ASSUME NEW n \in 0..Len(s)
      PROVE  Count(Append(s, e), n, M) = Count(s, n, M)
  <2>1. {i \in 1..n : Append(s, e)[i] \in M} = {i \in 1..n : s[i] \in M}
    BY <1>1
  <2> QED
    BY <2>1 DEF Count
<1>3. Count(Append(s, e), Len(s) + 1, M) = Count(Append(s, e), Len(s), M) + Num(e \in M)
  BY <1>1, CountNext
<1>4. Count(Append(s, e), Len(s), M) = Count(s, Len(s), M)
  BY <1>1, <1>2
<1> QED
  BY <1>1, <1>2, <1>3, <1>4

(* Without its head a sequence counts one less if the head is in the set. *)
LEMMA CountTail ==
  ASSUME NEW S, NEW s \in Seq(S), s # <<>>, NEW M
  PROVE  Count(s, Len(s), M) = Count(Tail(s), Len(Tail(s)), M) + Num(Head(s) \in M)
<1> DEFINE A == {i \in 1..Len(s) : s[i] \in M}
           B == {i \in 1..Len(Tail(s)) : Tail(s)[i] \in M}
           f == [i \in B |-> i + 1]
<1>1. /\ Len(s) \in Nat /\ Len(s) >= 1 /\ Len(Tail(s)) = Len(s) - 1 /\ Head(s) = s[1]
      /\ \A i \in 1..Len(Tail(s)) : Tail(s)[i] = s[i + 1]
  BY HeadTailProperties, EmptySeq
<1>2. IsFiniteSet(A) /\ IsFiniteSet(B) /\ Cardinality(B) \in Nat /\ Cardinality(A) \in Nat
  <2>1. Len(s) \in Nat /\ Len(Tail(s)) \in Nat
    BY <1>1
  <2>2. IsFiniteSet(A) /\ IsFiniteSet(B)
    BY <2>1, CountType
  <2> QED
    BY <2>2, FS_CardinalityType
<1>3. f \in Bijection(B, A \ {1})
  <2>1. f \in [B -> A \ {1}]
    BY <1>1
  <2>2. \A i, j \in B : f[i] = f[j] => i = j
    BY <1>1
  <2>3. \A j \in A \ {1} : j - 1 \in B /\ f[j - 1] = j
    <3> SUFFICES ASSUME NEW j \in A \ {1} PROVE j - 1 \in B /\ f[j - 1] = j
      OBVIOUS
    <3>1. j - 1 \in 1..Len(Tail(s)) /\ (j - 1) + 1 = j /\ s[j] \in M
      BY <1>1
    <3>2. Tail(s)[j - 1] = s[j]
      BY <1>1, <3>1
    <3> QED
      BY <3>1, <3>2
  <2> HIDE DEF f, A, B
  <2> QED
    BY <2>1, <2>2, <2>3 DEF Bijection, Injection, IsInjective, Surjection
<1>4. Cardinality(A \ {1}) = Cardinality(B)
  BY <1>2, <1>3, FS_Bijection DEF ExistsBijection
<1>5. Cardinality(A \ {1}) = Cardinality(A) - Num(Head(s) \in M)
  <2>1. 1 \in A <=> Head(s) \in M
    BY <1>1
  <2>2. Cardinality(A \ {1}) = IF 1 \in A THEN Cardinality(A) - 1 ELSE Cardinality(A)
    BY <1>2, FS_RemoveElement
  <2> HIDE DEF A
  <2> QED
    BY <1>2, <2>1, <2>2 DEF Num
<1>6. Count(s, Len(s), M) = Cardinality(A) /\ Count(Tail(s), Len(Tail(s)), M) = Cardinality(B)
  BY DEF Count
<1> HIDE DEF A, B
<1> QED
  BY <1>2, <1>4, <1>5, <1>6 DEF Num

----------------------------------------------------------------------------
(* The market data.  A tick that was written for c and not lost is either  *)
(* posted or arrived: Owed counts both.                                    *)

TicksOf(t) == {m \in Message : m.kind = "tick" /\ m.n = t}

Acks == {m \in Message : m.kind = "ack"}

Got(c, t)    == Count(got[c], Len(got[c]), TicksOf(t))
Acked(c)     == Count(got[c], Len(got[c]), Acks)
Posted(c, t) == Count(pending_tasks_, Len(pending_tasks_), {m \in TicksOf(t) : m.to = c})
Owed(c, t)   == Got(c, t) + Posted(c, t)

(* The subscriptions of c among the first n. *)
Subs(c, n) == Count(subscribers_, n, {c})

(* The publisher has been through all subscribers with tick t. *)
Complete(t) == t < tick \/ (t = tick /\ publisher \notin {"locking", "writing"})

(* How many of them it has been through. *)
Due(t) ==
  IF Complete(t) THEN Len(subscribers_)
  ELSE IF t = tick /\ publisher = "writing" THEN position - 1 ELSE 0

(* A connection stays open while its requests are handled. *)
Served == loop \in {"handler", "subscribing", "subscribed"} => state_[current] = "kConnected"

(* Who has not been accepted has not subscribed. *)
Newcomers ==
  \A c \in Conns : peer[c] = "waiting" =>
    state_[c] # "kConnected" /\ \A i \in DOMAIN subscribers_ : subscribers_[i] # c

HeldNow == held # NoConn => held = subscribers_[position]

(* At most one subscription is not acknowledged, the one being made. *)
SubsAcked ==
  \A c \in Conns : Subs(c, Len(subscribers_)) <= Acked(c) + Num(loop = "subscribed" /\ current = c)

(* Nobody is owed more copies of a tick than subscriptions it was for. *)
Bounded == \A c \in Conns : \A t \in Nat : Owed(c, t) <= Subs(c, Due(t))

(* As long as it is open, a connection is owed no fewer than that, and of  *)
(* no later tick fewer than of an earlier one.                             *)
Level ==
  \A c \in Conns : state_[c] = "kConnected" =>
    /\ \A t, u \in Nat : t <= u /\ Complete(u) => Owed(c, t) <= Owed(c, u)
    /\ publisher = "writing" => Owed(c, tick) >= Subs(c, position - 1)

(* Ticks are posted in order, and arrive in the order they were posted. *)
Posting ==
  /\ \A i \in DOMAIN pending_tasks_ : pending_tasks_[i].n <= tick
  /\ \A i, j \in DOMAIN pending_tasks_ : i <= j => pending_tasks_[i].n <= pending_tasks_[j].n

Arriving ==
  \A c \in Conns : \A i \in DOMAIN got[c] : IsTick(got[c][i]) =>
    /\ got[c][i].n <= tick
    /\ \A j \in DOMAIN pending_tasks_ : got[c][i].n <= pending_tasks_[j].n

InOrder ==
  \A c \in Conns : \A i, j \in DOMAIN got[c] :
    i <= j /\ IsTick(got[c][i]) /\ IsTick(got[c][j]) => got[c][i].n <= got[c][j].n

(* AckBeforeTicks, in terms of Count. *)
AcksFirst ==
  \A c \in Conns : \A i \in DOMAIN got[c] : IsTick(got[c][i]) =>
    Count(got[c], i, TicksOf(got[c][i].n)) <= Count(got[c], i, Acks)

Market ==
  /\ OnlyTicks /\ Served /\ Newcomers /\ HeldNow
  /\ SubsAcked /\ Bounded /\ Level
  /\ Posting /\ Arriving /\ InOrder /\ AcksFirst

(* The numbers in the account of market data are natural. *)
LEMMA MarketTypes ==
  ASSUME TypeOK
  PROVE  /\ tick \in Nat /\ Len(subscribers_) \in Nat
         /\ position \in Nat /\ position - 1 \in Nat /\ position <= Len(subscribers_) + 1
         /\ \A t \in Nat : Due(t) \in Nat /\ Due(t) <= Len(subscribers_)
         /\ \A c \in Conns : \A n \in Nat : Subs(c, n) \in Nat
         /\ \A c \in Conns : Acked(c) \in Nat
         /\ \A c \in Conns : \A t \in Nat :
              Got(c, t) \in Nat /\ Posted(c, t) \in Nat /\ Owed(c, t) \in Nat
<1>1. /\ tick \in Nat /\ Len(subscribers_) \in Nat
      /\ position \in Nat /\ position - 1 \in Nat /\ position <= Len(subscribers_) + 1
  BY ConstantsAssumption DEF TypeOK, ThreadTypes
<1>2. \A t \in Nat : Due(t) \in Nat /\ Due(t) <= Len(subscribers_)
  BY <1>1 DEF Due
<1>3. \A c \in Conns : \A n \in Nat : Subs(c, n) \in Nat
  BY CountType DEF Subs
<1>4. ASSUME NEW c \in Conns, NEW t \in Nat
      PROVE  Acked(c) \in Nat /\ Got(c, t) \in Nat /\ Posted(c, t) \in Nat /\ Owed(c, t) \in Nat
  <2>1. Len(got[c]) \in Nat /\ Len(pending_tasks_) \in Nat
    BY DEF TypeOK, PeerTypes, ThreadTypes
  <2>2. Acked(c) \in Nat
    BY <2>1, CountType DEF Acked
  <2>3. Got(c, t) \in Nat
    BY <2>1, CountType DEF Got
  <2>4. Posted(c, t) \in Nat
    BY <2>1, CountType DEF Posted
  <2> QED
    BY <2>2, <2>3, <2>4 DEF Owed
<1>5. \A c \in Conns : Acked(c) \in Nat
  BY <1>4
<1> QED
  BY <1>1, <1>2, <1>3, <1>4, <1>5

(* What is owed after a step. *)
LEMMA OwedTypeNext ==
  TypeOK' => \A c \in Conns : \A t \in Nat : Owed(c, t)' \in Nat
<1> DEFINE OwedType == \A c \in Conns : \A t \in Nat : Owed(c, t) \in Nat
<1>1. TypeOK => OwedType
  BY MarketTypes
<1> HIDE DEF OwedType
<1>2. TypeOK' => OwedType'
  BY <1>1, PTL
<1> QED
  BY <1>2 DEF OwedType

(* What a Send does to what a peer has. *)
LEMMA SendAppends ==
  ASSUME Inv, NEW m \in Message, Send(m), NEW c \in Conns
  PROVE  IF c = m.to /\ state_[c] = "kConnected" THEN got'[c] = Append(got[c], m)
                                                 ELSE got'[c] = got[c]
<1>1. m.to \in Conns
  BY DEF Message
<1>2. CASE state_[m.to] = "kConnected"
  <2>1. sockets[fd_[m.to]] = m.to /\ m.to # NoConn
    BY <1>1, <1>2, ConstantsAssumption DEF Inv, Agrees, Open
  <2>2. got' = [got EXCEPT ![m.to] = Append(@, m)]
    BY <1>2, <2>1 DEF Send
  <2> QED
    BY <1>1, <1>2, <2>2 DEF Inv, TypeOK, PeerTypes
<1>3. CASE state_[m.to] # "kConnected"
  BY <1>3 DEF Send
<1> QED
  BY <1>2, <1>3

(* A message that is sent is counted at the connection that it is for, if  *)
(* that is open.                                                           *)
LEMMA SendCounts ==
  ASSUME Inv, NEW m \in Message, Send(m), NEW c \in Conns
  PROVE  /\ Acked(c)' = Acked(c) + Num(c = m.to /\ state_[c] = "kConnected" /\ m \in Acks)
         /\ \A t \in Nat : Got(c, t)' = Got(c, t) + Num(c = m.to /\ state_[c] = "kConnected" /\ m \in TicksOf(t))
<1>1. got[c] \in Seq(Message) /\ TypeOK
  BY DEF Inv, TypeOK, PeerTypes
<1>2. Acked(c) \in Nat /\ \A t \in Nat : Got(c, t) \in Nat
  BY <1>1, MarketTypes
<1>3. CASE c = m.to /\ state_[c] = "kConnected"
  <2>1. got'[c] = Append(got[c], m)
    BY <1>3, SendAppends
  <2>2. Acked(c)' = Acked(c) + Num(m \in Acks)
    BY <1>1, <2>1, CountAppend DEF Acked, Acks
  <2>3. \A t \in Nat : Got(c, t)' = Got(c, t) + Num(m \in TicksOf(t))
    BY <1>1, <2>1, CountAppend DEF Got, TicksOf
  <2> QED
    BY <1>3, <2>2, <2>3 DEF Num
<1>4. CASE ~(c = m.to /\ state_[c] = "kConnected")
  <2>1. got'[c] = got[c]
    BY <1>4, SendAppends
  <2>2. Acked(c)' = Acked(c) /\ \A t \in Nat : Got(c, t)' = Got(c, t)
    BY <2>1 DEF Acked, Got, Acks, TicksOf
  <2> QED
    BY <1>2, <1>4, <2>2 DEF Num
<1> QED
  BY <1>3, <1>4

(* A message that is not a tick changes nothing that is owed. *)
LEMMA OtherSendsOweTheSame ==
  ASSUME Inv, NEW m \in Message, m.kind # "tick", Send(m), pending_tasks_' = pending_tasks_,
         NEW c \in Conns, NEW t \in Nat
  PROVE  Owed(c, t)' = Owed(c, t)
<1>1. Got(c, t) \in Nat
  BY MarketTypes DEF Inv
<1>2. m \notin TicksOf(t)
  BY DEF TicksOf
<1>3. Got(c, t)' = Got(c, t)
  BY <1>1, <1>2, SendCounts DEF Num
<1>4. Posted(c, t)' = Posted(c, t)
  BY DEF Posted, TicksOf
<1> QED
  BY <1>3, <1>4 DEF Owed

(* A task that runs moves a tick from those that are posted to those that  *)
(* arrived, or loses it if the connection is closed.                       *)
LEMMA TaskMovesTick ==
  ASSUME Inv, OnlyTicks, RunTask, NEW c \in Conns, NEW t \in Nat
  PROVE  /\ Owed(c, t)' <= Owed(c, t)
         /\ state_[c] = "kConnected" => Owed(c, t)' = Owed(c, t)
<1> DEFINE m == Head(pending_tasks_)
           P == {n \in TicksOf(t) : n.to = c}
<1>1. pending_tasks_ \in Seq(Message) /\ pending_tasks_ # <<>> /\ Send(m)
      /\ pending_tasks_' = Tail(pending_tasks_)
  BY DEF RunTask, Inv, TypeOK, ThreadTypes
<1>2. m \in Message /\ Tail(pending_tasks_) \in Seq(Message)
  BY <1>1, HeadTailProperties
<1>3. Posted(c, t) = Count(Tail(pending_tasks_), Len(Tail(pending_tasks_)), P) + Num(m \in P)
  <2> HIDE DEF P
  <2>1. Count(pending_tasks_, Len(pending_tasks_), P)
          = Count(Tail(pending_tasks_), Len(Tail(pending_tasks_)), P) + Num(m \in P)
    BY <1>1, CountTail
  <2> QED
    BY <2>1 DEF Posted, P
<1>4. Posted(c, t)' = Count(Tail(pending_tasks_), Len(Tail(pending_tasks_)), P)
  BY <1>1 DEF Posted, TicksOf
<1>5. Got(c, t)' = Got(c, t) + Num(c = m.to /\ state_[c] = "kConnected" /\ m \in TicksOf(t))
  BY <1>1, <1>2, SendCounts
<1>6. m \in P <=> m.to = c /\ m \in TicksOf(t)
  OBVIOUS
<1>7. Got(c, t) \in Nat /\ Posted(c, t) \in Nat
  BY MarketTypes DEF Inv
<1>8. Count(Tail(pending_tasks_), Len(Tail(pending_tasks_)), P) \in Nat
  <2>1. Len(Tail(pending_tasks_)) \in Nat
    BY <1>2
  <2> QED
    BY <2>1, CountType
<1> HIDE DEF m, P
<1> QED
  BY <1>3, <1>4, <1>5, <1>6, <1>7, <1>8 DEF Owed, Num

(* The publisher owes a tick to the subscriber that it has just been       *)
(* through.                                                                *)
LEMMA WriteOwes ==
  ASSUME Inv, Write, NEW c \in Conns, NEW t \in Nat
  PROVE  Owed(c, t)' = Owed(c, t) + Num(c = held /\ t = tick)
<1> DEFINE P == {n \in TicksOf(t) : n.to = c}
<1>1. pending_tasks_ \in Seq(Message) /\ held \in Conns /\ got' = got
      /\ pending_tasks_' = Append(pending_tasks_, Tick(held))
  BY DEF Write, Inv, TypeOK, ThreadTypes
<1>2. Tick(held) \in Message
  BY <1>1, MessageTypes DEF Inv, TypeOK
<1>3. Count(pending_tasks_', Len(pending_tasks_'), P)
        = Count(pending_tasks_, Len(pending_tasks_), P) + Num(Tick(held) \in P)
  <2> HIDE DEF P
  <2> QED
    BY <1>1, <1>2, CountAppend
<1>4. Posted(c, t)' = Posted(c, t) + Num(Tick(held) \in P)
  BY <1>3 DEF Posted, TicksOf
<1>5. Tick(held) \in P <=> c = held /\ t = tick
  BY <1>2 DEF TicksOf, Tick
<1>6. Got(c, t)' = Got(c, t)
  BY <1>1 DEF Got, TicksOf
<1>7. Got(c, t) \in Nat /\ Posted(c, t) \in Nat
  BY MarketTypes DEF Inv
<1> HIDE DEF P
<1> QED
  BY <1>4, <1>5, <1>6, <1>7 DEF Owed, Num

(* The publisher is as far as it was, no connection is opened, and only    *)
(* closed ones are owed less.                                              *)
LEMMA LevelsStay ==
  ASSUME Inv, Inv', Bounded, Level, UNCHANGED subscribers_,
         \A t \in Nat : (Complete(t)' <=> Complete(t)) /\ Due(t)' = Due(t),
         publisher' = "writing" => publisher = "writing" /\ UNCHANGED <<tick, position>>,
         \A c \in Conns : state_'[c] = "kConnected" => state_[c] = "kConnected",
         \A c \in Conns : \A t \in Nat :
           /\ Owed(c, t)' <= Owed(c, t)
           /\ state_'[c] = "kConnected" => Owed(c, t)' = Owed(c, t)
  PROVE  Bounded' /\ Level'
<1>1. \A c \in Conns : \A n : Subs(c, n)' = Subs(c, n)
  BY DEF Subs
<1>2. Bounded'
  <2> SUFFICES ASSUME NEW c \in Conns, NEW t \in Nat
               PROVE  Owed(c, t)' <= Subs(c, Due(t))'
    BY DEF Bounded
  <2>1. Subs(c, Due(t))' = Subs(c, Due(t))
    BY <1>1
  <2>2. /\ Owed(c, t)' <= Owed(c, t) /\ Owed(c, t) <= Subs(c, Due(t))
        /\ Owed(c, t) \in Nat /\ Owed(c, t)' \in Nat /\ Subs(c, Due(t)) \in Nat
    BY MarketTypes, OwedTypeNext DEF Inv, Bounded
  <2> QED
    BY <2>1, <2>2
<1>3. Level'
  <2> SUFFICES ASSUME NEW c \in Conns, state_'[c] = "kConnected"
               PROVE  /\ \A t, u \in Nat : t <= u /\ Complete(u)' => Owed(c, t)' <= Owed(c, u)'
                      /\ publisher' = "writing" => Owed(c, tick)' >= Subs(c, position - 1)'
    BY DEF Level
  <2>1. state_[c] = "kConnected" /\ \A t \in Nat : Owed(c, t)' = Owed(c, t)
    OBVIOUS
  <2>2. \A t, u \in Nat : t <= u /\ Complete(u)' => Owed(c, t)' <= Owed(c, u)'
    BY <2>1 DEF Level
  <2>3. ASSUME publisher' = "writing"
        PROVE  Owed(c, tick)' >= Subs(c, position - 1)'
    <3>1. UNCHANGED <<tick, position>> /\ publisher = "writing" /\ tick \in Nat
      BY <2>3, MarketTypes DEF Inv
    <3>2. Owed(c, tick)' = Owed(c, tick) /\ Subs(c, position - 1)' = Subs(c, position - 1)
      BY <1>1, <2>1, <3>1 DEF Owed, Got, Posted
    <3> QED
      BY <2>1, <3>1, <3>2 DEF Level
  <2> QED
    BY <2>2, <2>3
<1> QED
  BY <1>2, <1>3

(* In particular when the publisher does nothing, or begins or ends. *)
LEMMA PublisherStays ==
  ASSUME UNCHANGED <<tick, position, subscribers_>>,
         publisher' = publisher \/ {publisher, publisher'} \cap {"locking", "writing"} = {}
  PROVE  /\ \A t \in Nat : (Complete(t)' <=> Complete(t)) /\ Due(t)' = Due(t)
         /\ publisher' = "writing" => publisher = "writing" /\ UNCHANGED <<tick, position>>
BY DEF Complete, Due

(* A message arrives after those that were there: it may, if it is a tick, *)
(* be none that is older, and none that was not asked for.                 *)
LEMMA SendKeepsOrder ==
  ASSUME Inv, Arriving, InOrder, AcksFirst, NEW m \in Message, Send(m), tick' = tick,
         \A k \in DOMAIN pending_tasks_' : \E j \in DOMAIN pending_tasks_ :
           pending_tasks_'[k] = pending_tasks_[j],
         IsTick(m) =>
           /\ m.n <= tick
           /\ \A j \in DOMAIN pending_tasks_' : m.n <= pending_tasks_'[j].n
           /\ \A i \in DOMAIN got[m.to] : IsTick(got[m.to][i]) => got[m.to][i].n <= m.n
           /\ state_[m.to] = "kConnected" => Got(m.to, m.n) + 1 <= Acked(m.to)
  PROVE  Arriving' /\ InOrder' /\ AcksFirst'
<1> DEFINE Good(q) ==
      /\ \A i \in DOMAIN q : IsTick(q[i]) =>
           q[i].n <= tick' /\ \A j \in DOMAIN pending_tasks_' : q[i].n <= pending_tasks_'[j].n
      /\ \A i, j \in DOMAIN q : i <= j /\ IsTick(q[i]) /\ IsTick(q[j]) => q[i].n <= q[j].n
      /\ \A i \in DOMAIN q : IsTick(q[i]) => Count(q, i, TicksOf(q[i].n)) <= Count(q, i, Acks)
<1>1. ASSUME NEW c \in Conns
      PROVE  Good(got[c])
  BY DEF Arriving, InOrder, AcksFirst
<1>2. ASSUME NEW c \in Conns, c = m.to, state_[c] = "kConnected"
      PROVE  Good(Append(got[c], m))
  <2> DEFINE s == got[c]
             r == Append(got[c], m)
  <2>1. /\ s \in Seq(Message) /\ Len(s) \in Nat /\ DOMAIN s = 1..Len(s)
        /\ r \in Seq(Message) /\ Len(r) = Len(s) + 1 /\ DOMAIN r = 1..(Len(s) + 1)
        /\ r[Len(s) + 1] = m /\ \A i \in 1..Len(s) : r[i] = s[i]
    BY AppendProperties DEF Inv, TypeOK, PeerTypes
  <2>2. ASSUME NEW M, NEW n \in 0..Len(s)
        PROVE  Count(r, n, M) = Count(s, n, M)
    <3>1. {i \in 1..n : r[i] \in M} = {i \in 1..n : s[i] \in M}
      BY <2>1
    <3> QED
      BY <3>1 DEF Count
  <2>3. \A M : Count(r, Len(s) + 1, M) = Count(s, Len(s), M) + Num(m \in M)
    BY <2>1, CountAppend
  <2>4. Good(s)
    BY <1>1
  <2>5. IsTick(m) => Count(r, Len(s) + 1, TicksOf(m.n)) <= Count(r, Len(s) + 1, Acks)
    <3> SUFFICES ASSUME IsTick(m)
                 PROVE  Count(r, Len(s) + 1, TicksOf(m.n)) <= Count(r, Len(s) + 1, Acks)
      OBVIOUS
    <3>1. m \in TicksOf(m.n) /\ m \notin Acks /\ m.n \in Nat
      BY DEF TicksOf, Acks, IsTick, Message
    <3>2. Got(c, m.n) \in Nat /\ Acked(c) \in Nat
      BY <3>1, MarketTypes DEF Inv
    <3>3. Got(c, m.n) + 1 <= Acked(c)
      BY <1>2
    <3>4. Num(m \in TicksOf(m.n)) = 1 /\ Num(m \in Acks) = 0
      BY <3>1 DEF Num
    <3>5. /\ Count(r, Len(s) + 1, TicksOf(m.n)) = Got(c, m.n) + 1
          /\ Count(r, Len(s) + 1, Acks) = Acked(c) + 0
      BY <2>3, <3>4 DEF Got, Acked
    <3> QED
      BY <3>2, <3>3, <3>5
  <2>6. ASSUME NEW i \in DOMAIN r, IsTick(r[i])
        PROVE  /\ r[i].n <= tick' /\ \A j \in DOMAIN pending_tasks_' : r[i].n <= pending_tasks_'[j].n
               /\ Count(r, i, TicksOf(r[i].n)) <= Count(r, i, Acks)
    <3>1. CASE i = Len(s) + 1
      BY <2>1, <2>5, <2>6, <3>1
    <3>2. CASE i \in 1..Len(s)
      <4>1. r[i] = s[i] /\ i \in DOMAIN s /\ i \in 0..Len(s)
        BY <2>1, <3>2
      <4>2. /\ Count(r, i, TicksOf(s[i].n)) = Count(s, i, TicksOf(s[i].n))
            /\ Count(r, i, Acks) = Count(s, i, Acks)
        BY <2>2, <4>1
      <4> HIDE DEF r, s
      <4> QED
        BY <2>4, <2>6, <4>1, <4>2
    <3> QED
      BY <2>1, <3>1, <3>2
  <2>7. ASSUME NEW i \in DOMAIN r, NEW j \in DOMAIN r, i <= j, IsTick(r[i]), IsTick(r[j])
        PROVE  r[i].n <= r[j].n
    <3>1. CASE j \in 1..Len(s)
      <4>1. i \in 1..Len(s)
        BY <2>1, <2>7, <3>1
      <4>2. r[i] = s[i] /\ r[j] = s[j] /\ i \in DOMAIN s /\ j \in DOMAIN s
        BY <2>1, <3>1, <4>1
      <4> HIDE DEF r, s
      <4> QED
        BY <2>4, <2>7, <4>2
    <3>2. CASE j = Len(s) + 1 /\ i \in 1..Len(s)
      <4>1. r[i] = s[i] /\ r[j] = m /\ i \in DOMAIN s
        BY <2>1, <3>2
      <4> QED
        BY <1>2, <2>7, <4>1
    <3>3. CASE j = Len(s) + 1 /\ i = Len(s) + 1
      <4>1. m.n \in Nat
        BY DEF Message
      <4> QED
        BY <2>1, <3>3, <4>1
    <3> QED
      BY <2>1, <3>1, <3>2, <3>3
  <2> HIDE DEF r
  <2>8. Good(r)
    BY <2>6, <2>7
  <2> QED
    BY <2>8 DEF r
<1>3. ASSUME NEW c \in Conns
      PROVE  Good(got'[c])
  <2>1. CASE c = m.to /\ state_[c] = "kConnected"
    BY <1>2, <2>1, SendAppends
  <2>2. CASE ~(c = m.to /\ state_[c] = "kConnected")
    BY <1>1, <2>2, SendAppends
  <2> QED
    BY <2>1, <2>2
<1>4. Arriving' /\ InOrder'
  BY <1>3 DEF Arriving, InOrder, IsTick
<1>5. AcksFirst'
  BY <1>3 DEF AcksFirst, IsTick, TicksOf, Acks
<1> QED
  BY <1>4, <1>5

(* A step that sends, posts, accepts and subscribes nothing. *)
LEMMA QuietKeepsMarket ==
  ASSUME Inv, Inv', Market, UNCHANGED <<got, pending_tasks_, tick, position, subscribers_, held>>,
         publisher' = publisher \/ {publisher, publisher'} \cap {"locking", "writing"} = {},
         \A c \in Conns : state_'[c] = "kConnected" => state_[c] = "kConnected",
         \A c \in Conns : peer'[c] = "waiting" => peer[c] = "waiting",
         Served',
         loop # "subscribed" \/ UNCHANGED <<loop, current>>
  PROVE  Market'
<1>1. \A c \in Conns : \A t \in Nat : Owed(c, t)' = Owed(c, t) /\ Owed(c, t) \in Nat
  <2>1. \A c \in Conns : \A t \in Nat : Owed(c, t)' = Owed(c, t)
    BY DEF Owed, Got, Posted, TicksOf
  <2> QED
    BY <2>1, MarketTypes DEF Inv
<1>2. \A c \in Conns : \A t \in Nat :
        Owed(c, t)' <= Owed(c, t) /\ (state_'[c] = "kConnected" => Owed(c, t)' = Owed(c, t))
  BY <1>1
<1>3. Bounded' /\ Level'
  BY <1>2, LevelsStay, PublisherStays DEF Market
<1>4. SubsAcked'
  <2> SUFFICES ASSUME NEW c \in Conns
               PROVE  Subs(c, Len(subscribers_))' <= Acked(c)' + Num(loop' = "subscribed" /\ current' = c)
    BY DEF SubsAcked, Num
  <2>1. Subs(c, Len(subscribers_))' = Subs(c, Len(subscribers_)) /\ Acked(c)' = Acked(c)
    BY DEF Subs, Acked, Acks
  <2>2. Subs(c, Len(subscribers_)) <= Acked(c) + Num(loop = "subscribed" /\ current = c)
    BY DEF Market, SubsAcked
  <2>3. Subs(c, Len(subscribers_)) \in Nat /\ Acked(c) \in Nat
    BY MarketTypes DEF Inv
  <2>4. CASE loop # "subscribed"
    BY <2>1, <2>2, <2>3, <2>4 DEF Num
  <2>5. CASE UNCHANGED <<loop, current>>
    BY <2>1, <2>2, <2>5
  <2> QED
    BY <2>4, <2>5
<1>5. OnlyTicks' /\ Newcomers' /\ HeldNow'
  BY DEF Market, OnlyTicks, Newcomers, HeldNow
<1>6. Posting' /\ Arriving' /\ InOrder'
  BY DEF Market, Posting, Arriving, InOrder, IsTick
<1>7. AcksFirst'
  BY DEF Market, AcksFirst, IsTick, TicksOf, Acks
<1> QED
  BY <1>3, <1>4, <1>5, <1>6, <1>7 DEF Market

(* Responses and acknowledgements are sent at once, by the loop.  Then a   *)
(* subscription is no longer being made, if it is its acknowledgement.     *)
LEMMA AnswerKeepsMarket ==
  ASSUME Inv, Inv', Market, NEW m \in Message, m.kind # "tick", Send(m),
         UNCHANGED <<pending_tasks_, subscribers_, publisherVars, state_, peer, current>>,
         loop' = "handler",
         \/ loop = "handler"
         \/ loop = "subscribed" /\ m.kind = "ack" /\ m.to = current
  PROVE  Market'
<1>1. UNCHANGED <<publisher, tick, position, held>>
  BY DEF publisherVars
<1>2. \A c \in Conns : \A t \in Nat : Owed(c, t)' = Owed(c, t) /\ Owed(c, t) \in Nat
  BY OtherSendsOweTheSame, MarketTypes DEF Inv
<1>3. \A c \in Conns : \A t \in Nat :
        Owed(c, t)' <= Owed(c, t) /\ (state_'[c] = "kConnected" => Owed(c, t)' = Owed(c, t))
  BY <1>2
<1>4. Bounded' /\ Level'
  BY <1>1, <1>3, LevelsStay, PublisherStays DEF Market
<1>5. SubsAcked'
  <2> SUFFICES ASSUME NEW c \in Conns
               PROVE  Subs(c, Len(subscribers_))' <= Acked(c)'
    <3>1. ASSUME NEW c \in Conns
          PROVE  Acked(c)' \in Nat
      <4>1. Acked(c) \in Nat
        BY MarketTypes DEF Inv
      <4>2. Acked(c)' = Acked(c) + Num(c = m.to /\ state_[c] = "kConnected" /\ m \in Acks)
        BY SendCounts
      <4> QED
        BY <4>1, <4>2 DEF Num
    <3> QED
      BY <3>1 DEF SubsAcked, Num
  <2>1. Subs(c, Len(subscribers_))' = Subs(c, Len(subscribers_))
    BY DEF Subs
  <2>2. Subs(c, Len(subscribers_)) <= Acked(c) + Num(loop = "subscribed" /\ current = c)
    BY DEF Market, SubsAcked
  <2>3. Subs(c, Len(subscribers_)) \in Nat /\ Acked(c) \in Nat
    BY MarketTypes DEF Inv
  <2>4. Acked(c)' = Acked(c) + Num(c = m.to /\ state_[c] = "kConnected" /\ m \in Acks)
    BY SendCounts
  <2>5. CASE loop = "subscribed" /\ current = c
    <3>1. c = m.to /\ state_[c] = "kConnected" /\ m \in Acks
      BY <2>5 DEF Market, Served, Acks
    <3> QED
      BY <2>1, <2>2, <2>3, <2>4, <2>5, <3>1 DEF Num
  <2>6. CASE ~(loop = "subscribed" /\ current = c)
    BY <2>1, <2>2, <2>3, <2>4, <2>6 DEF Num
  <2> QED
    BY <2>5, <2>6
<1>6. Arriving' /\ InOrder' /\ AcksFirst'
  BY <1>1, SendKeepsOrder DEF Market, IsTick
<1>7. OnlyTicks' /\ Newcomers' /\ HeldNow' /\ Posting'
  BY <1>1 DEF Market, OnlyTicks, Newcomers, HeldNow, Posting
<1>8. Served'
  BY DEF Market, Served
<1> QED
  BY <1>4, <1>5, <1>6, <1>7, <1>8 DEF Market

(* A tick that arrives was posted for a subscription, which has been       *)
(* acknowledged because the loop is not in a request.                      *)
LEMMA TaskKeepsMarket ==
  ASSUME Inv, Inv', Market, RunTask
  PROVE  Market'
<1> DEFINE m == Head(pending_tasks_)
<1>1. /\ loop = "idle" /\ pending_tasks_ # <<>> /\ pending_tasks_ \in Seq(Message)
      /\ Send(m) /\ pending_tasks_' = Tail(pending_tasks_)
      /\ UNCHANGED <<subscribers_, publisher, tick, position, held, state_, peer, loop, current>>
  BY DEF RunTask, Inv, TypeOK, ThreadTypes, publisherVars, reactorVars, peerVars
<1>2. /\ m \in Message /\ m = pending_tasks_[1] /\ Len(pending_tasks_) \in Nat \ {0}
      /\ DOMAIN pending_tasks_ = 1..Len(pending_tasks_)
      /\ DOMAIN pending_tasks_' = 1..(Len(pending_tasks_) - 1)
      /\ \A k \in DOMAIN pending_tasks_' :
           k + 1 \in DOMAIN pending_tasks_ /\ pending_tasks_'[k] = pending_tasks_[k + 1]
  BY <1>1, HeadTailProperties, EmptySeq
<1>3. m.to \in Conns /\ m.n \in Nat /\ IsTick(m) /\ 1 \in DOMAIN pending_tasks_
  BY <1>2 DEF Message, IsTick, Market, OnlyTicks
<1> HIDE DEF m
<1>4. Bounded' /\ Level'
  <2>1. \A c \in Conns : \A t \in Nat :
          Owed(c, t)' <= Owed(c, t) /\ (state_'[c] = "kConnected" => Owed(c, t)' = Owed(c, t))
    BY <1>1, TaskMovesTick DEF Market
  <2> QED
    BY <1>1, <2>1, LevelsStay, PublisherStays DEF Market
<1>5. Got(m.to, m.n) + 1 <= Acked(m.to)
  <2> DEFINE c == m.to
             t == m.n
  <2>1. Posted(c, t) >= 1
    <3> DEFINE P == {n \in TicksOf(t) : n.to = c}
    <3>1. m \in P
      BY <1>2, <1>3 DEF TicksOf, IsTick
    <3>2. Count(pending_tasks_, Len(pending_tasks_), P)
            = Count(Tail(pending_tasks_), Len(Tail(pending_tasks_)), P) + Num(m \in P)
      <4> HIDE DEF P
      <4> QED
        BY <1>1, CountTail DEF m
    <3>3. Count(Tail(pending_tasks_), Len(Tail(pending_tasks_)), P) \in Nat
      <4>1. Len(Tail(pending_tasks_)) \in Nat
        BY <1>1, HeadTailProperties
      <4> QED
        BY <4>1, CountType
    <3>4. Posted(c, t) = Count(pending_tasks_, Len(pending_tasks_), P)
      BY DEF Posted
    <3> HIDE DEF P, c, t
    <3> QED
      BY <3>1, <3>2, <3>3, <3>4 DEF Num
  <2>2. c \in Conns /\ t \in Nat
    BY <1>3
  <2> HIDE DEF c, t
  <2>3. Owed(c, t) <= Subs(c, Due(t))
    BY <2>2 DEF Market, Bounded
  <2>4. Subs(c, Due(t)) <= Subs(c, Len(subscribers_))
    BY <2>2, MarketTypes, CountGrows DEF Inv, Subs
  <2>5. Subs(c, Len(subscribers_)) <= Acked(c)
    <3>1. Subs(c, Len(subscribers_)) <= Acked(c) + Num(FALSE)
      <4>1. Num(loop = "subscribed" /\ current = c) = Num(FALSE)
        BY <1>1 DEF Num
      <4> QED
        BY <2>2, <4>1 DEF Market, SubsAcked
    <3> QED
      BY <2>2, <3>1, MarketTypes DEF Inv, Num
  <2>6. /\ Got(c, t) \in Nat /\ Posted(c, t) \in Nat /\ Acked(c) \in Nat
        /\ Subs(c, Due(t)) \in Nat /\ Subs(c, Len(subscribers_)) \in Nat
    BY <2>2, MarketTypes DEF Inv
  <2>7. Got(c, t) + 1 <= Acked(c)
    BY <2>1, <2>3, <2>4, <2>5, <2>6 DEF Owed
  <2> QED
    BY <2>7 DEF c, t
<1>6. Arriving' /\ InOrder' /\ AcksFirst'
  <2>1. m.n <= tick /\ \A j \in DOMAIN pending_tasks_' : m.n <= pending_tasks_'[j].n
    BY <1>2, <1>3 DEF Market, Posting
  <2>2. \A i \in DOMAIN got[m.to] : IsTick(got[m.to][i]) => got[m.to][i].n <= m.n
    BY <1>2, <1>3 DEF Market, Arriving
  <2>3. \A k \in DOMAIN pending_tasks_' : \E j \in DOMAIN pending_tasks_ :
          pending_tasks_'[k] = pending_tasks_[j]
    BY <1>2
  <2> QED
    BY <1>1, <1>2, <1>5, <2>1, <2>2, <2>3, SendKeepsOrder DEF Market
<1>7. Posting' /\ OnlyTicks'
  BY <1>1, <1>2 DEF Market, Posting, OnlyTicks
<1>8. Newcomers' /\ HeldNow' /\ Served'
  BY <1>1 DEF Market, Newcomers, HeldNow, Served
<1>9. SubsAcked'
  <2> SUFFICES ASSUME NEW c \in Conns
               PROVE  Subs(c, Len(subscribers_))' <= Acked(c)' + Num(loop' = "subscribed" /\ current' = c)
    BY DEF SubsAcked, Num
  <2>1. Subs(c, Len(subscribers_))' = Subs(c, Len(subscribers_))
    BY <1>1 DEF Subs
  <2>2. Subs(c, Len(subscribers_)) <= Acked(c) + Num(loop = "subscribed" /\ current = c)
    BY DEF Market, SubsAcked
  <2>3. m \notin Acks
    BY <1>3 DEF Acks, IsTick
  <2>4. Acked(c)' = Acked(c) + Num(c = m.to /\ state_[c] = "kConnected" /\ m \in Acks)
    BY <1>1, <1>2, SendCounts
  <2>5. Acked(c) \in Nat
    BY MarketTypes DEF Inv
  <2> QED
    BY <1>1, <2>1, <2>2, <2>3, <2>4, <2>5 DEF Num
<1> QED
  BY <1>4, <1>6, <1>7, <1>8, <1>9 DEF Market

(* Who is not among the subscribers has no subscription. *)
LEMMA NoSubscription ==
  ASSUME TypeOK, NEW c \in Conns, \A i \in DOMAIN subscribers_ : subscribers_[i] # c,
         NEW n \in Nat, n <= Len(subscribers_)
  PROVE  Subs(c, n) = 0
<1>1. {i \in 1..n : subscribers_[i] \in {c}} = {}
  BY DEF TypeOK, ThreadTypes
<1> QED
  BY <1>1, FS_EmptySet DEF Subs, Count

(* A connection that is accepted is owed nothing yet. *)
LEMMA AcceptKeepsMarket ==
  ASSUME Inv, Inv', Market, NEW c \in Conns, Accept(c)
  PROVE  Market'
<1>1. /\ loop = "idle" /\ peer[c] = "waiting"
      /\ UNCHANGED <<got, pending_tasks_, subscribers_, publisher, tick, position, held, loop, current>>
  BY DEF Accept, publisherVars
<1>2. CASE state_' = state_ /\ peer' = [peer EXCEPT ![c] = "refused"]
  <2>1. \A d \in Conns : peer'[d] = "waiting" => peer[d] = "waiting"
    BY <1>2 DEF Inv, TypeOK, PeerTypes
  <2> QED
    BY <1>1, <1>2, <2>1, QuietKeepsMarket DEF Served
<1>3. CASE state_' = [state_ EXCEPT ![c] = "kConnected"] /\ peer' = [peer EXCEPT ![c] = "open"]
  <2>1. \A d \in Conns : d # c => state_'[d] = state_[d] /\ peer'[d] = peer[d]
    BY <1>3 DEF Inv, TypeOK, ReactorTypes, PeerTypes
  <2>2. peer'[c] = "open"
    BY <1>3 DEF Inv, TypeOK, PeerTypes
  <2>3. ASSUME NEW d \in Conns, NEW t \in Nat
        PROVE  /\ Owed(d, t)' = Owed(d, t) /\ Owed(d, t) \in Nat
               /\ Subs(d, Due(t))' = Subs(d, Due(t))
               /\ Complete(t)' <=> Complete(t)
    <3>1. Owed(d, t)' = Owed(d, t)
      BY <1>1 DEF Owed, Got, Posted, TicksOf
    <3>2. Subs(d, Due(t))' = Subs(d, Due(t)) /\ (Complete(t)' <=> Complete(t))
      BY <1>1 DEF Subs, Due, Complete
    <3> QED
      BY <3>1, <3>2, MarketTypes DEF Inv
  <2>4. Bounded'
    BY <2>3 DEF Market, Bounded
  <2>5. \A t \in Nat : Owed(c, t) = 0
    <3> SUFFICES ASSUME NEW t \in Nat PROVE Owed(c, t) = 0
      OBVIOUS
    <3>1. Subs(c, Due(t)) = 0
      BY <1>1, NoSubscription, MarketTypes DEF Inv, Market, Newcomers
    <3>2. Owed(c, t) <= Subs(c, Due(t)) /\ Owed(c, t) \in Nat
      BY <2>3 DEF Market, Bounded
    <3> QED
      BY <3>1, <3>2
  <2>6. Level'
    <3> SUFFICES ASSUME NEW d \in Conns, state_'[d] = "kConnected"
                 PROVE  /\ \A t, u \in Nat : t <= u /\ Complete(u)' => Owed(d, t)' <= Owed(d, u)'
                        /\ publisher' = "writing" => Owed(d, tick)' >= Subs(d, position - 1)'
      BY DEF Level
    <3>1. /\ tick \in Nat /\ Owed(d, tick)' = Owed(d, tick)
          /\ Subs(d, position - 1)' = Subs(d, position - 1)
      BY <1>1, MarketTypes DEF Inv, Owed, Got, Posted, TicksOf, Subs
    <3>2. CASE d = c
      <4>1. Subs(c, position - 1) = 0
        <5>1. position - 1 \in Nat /\ position - 1 <= Len(subscribers_)
          BY MarketTypes DEF Inv
        <5> QED
          BY <1>1, <5>1, NoSubscription DEF Inv, Market, Newcomers
      <4> QED
        BY <2>3, <2>5, <3>1, <3>2, <4>1
    <3>3. CASE d # c
      BY <1>1, <2>1, <2>3, <3>1, <3>3 DEF Market, Level
    <3> QED
      BY <3>2, <3>3
  <2>7. SubsAcked'
    BY <1>1 DEF Market, SubsAcked, Subs, Acked, Acks
  <2>8. OnlyTicks' /\ HeldNow' /\ Served'
    BY <1>1 DEF Market, OnlyTicks, HeldNow, Served
  <2>9. Newcomers'
    BY <1>1, <2>1, <2>2 DEF Market, Newcomers
  <2>10. Posting' /\ Arriving' /\ InOrder'
    BY <1>1 DEF Market, Posting, Arriving, InOrder, IsTick
  <2>11. AcksFirst'
    BY <1>1 DEF Market, AcksFirst, IsTick, TicksOf, Acks
  <2> QED
    BY <2>4, <2>6, <2>7, <2>8, <2>9, <2>10, <2>11 DEF Market
<1> QED
  BY <1>2, <1>3 DEF Accept, reactorVars

(* A subscription is made while the publisher does not write, so that what *)
(* is due of a tick does not change under way.                             *)
LEMMA SubscribeKeepsMarket ==
  ASSUME Inv, Inv', Market, Subscribe
  PROVE  Market'
<1>1. /\ loop = "subscribing" /\ loop' = "subscribed" /\ mutex_ = "free"
      /\ subscribers_' = Append(subscribers_, current) /\ subscribers_ \in Seq(Conns)
      /\ UNCHANGED <<got, pending_tasks_, publisher, tick, position, held, state_, peer, current>>
  BY DEF Subscribe, publisherVars, reactorVars, peerVars, Inv, TypeOK, ThreadTypes
<1>2. current \in Conns /\ state_[current] = "kConnected" /\ publisher # "writing" /\ held = NoConn
  BY <1>1 DEF Inv, Busy, Locked, Market, Served
<1>3. /\ Len(subscribers_) \in Nat /\ Len(subscribers_') = Len(subscribers_) + 1
      /\ DOMAIN subscribers_' = 1..(Len(subscribers_) + 1)
      /\ DOMAIN subscribers_ = 1..Len(subscribers_)
      /\ subscribers_'[Len(subscribers_) + 1] = current
      /\ \A i \in 1..Len(subscribers_) : subscribers_'[i] = subscribers_[i]
  BY <1>1, <1>2, AppendProperties
<1>4. ASSUME NEW c \in Conns
      PROVE  Subs(c, Len(subscribers_))' = Subs(c, Len(subscribers_)) + Num(current = c)
  <2>1. Count(subscribers_', Len(subscribers_'), {c})
          = Count(subscribers_, Len(subscribers_), {c}) + Num(current \in {c})
    BY <1>1, <1>2, CountAppend
  <2> QED
    BY <2>1 DEF Subs, Num
<1>5. ASSUME NEW c \in Conns, NEW t \in Nat
      PROVE  /\ Owed(c, t)' = Owed(c, t) /\ Owed(c, t) \in Nat
             /\ Complete(t)' <=> Complete(t)
  BY <1>1, MarketTypes DEF Inv, Owed, Got, Posted, TicksOf, Complete
<1>6. Bounded'
  <2> SUFFICES ASSUME NEW c \in Conns, NEW t \in Nat
               PROVE  Owed(c, t)' <= Subs(c, Due(t))'
    BY DEF Bounded
  <2>1. Owed(c, t) <= Subs(c, Due(t)) /\ Owed(c, t) \in Nat /\ Owed(c, t)' = Owed(c, t)
    BY <1>5 DEF Market, Bounded
  <2>2. CASE Complete(t)
    <3>1. Due(t) = Len(subscribers_) /\ Due(t)' = Len(subscribers_)'
      BY <1>5, <2>2 DEF Due
    <3>2. Subs(c, Due(t))' = Subs(c, Due(t)) + Num(current = c)
      BY <1>4, <3>1 DEF Subs
    <3>3. Subs(c, Due(t)) \in Nat
      BY MarketTypes DEF Inv
    <3> QED
      BY <2>1, <3>2, <3>3 DEF Num
  <2>3. CASE ~Complete(t)
    <3>1. Due(t) = 0 /\ Due(t)' = 0
      BY <1>1, <1>2, <1>5, <2>3 DEF Due
    <3>2. Subs(c, Due(t)) = 0 /\ Subs(c, Due(t))' = 0
      BY <3>1, CountType DEF Subs
    <3> QED
      BY <2>1, <3>2
  <2> QED
    BY <2>2, <2>3
<1>7. Level'
  BY <1>1, <1>2, <1>5 DEF Market, Level
<1>8. SubsAcked'
  <2> SUFFICES ASSUME NEW c \in Conns
               PROVE  Subs(c, Len(subscribers_))' <= Acked(c)' + Num(loop' = "subscribed" /\ current' = c)
    BY DEF SubsAcked, Num
  <2>1. Acked(c)' = Acked(c)
    BY <1>1 DEF Acked, Acks
  <2>2. Subs(c, Len(subscribers_)) <= Acked(c) + Num(loop = "subscribed" /\ current = c)
    BY DEF Market, SubsAcked
  <2>3. Subs(c, Len(subscribers_)) \in Nat /\ Acked(c) \in Nat
    BY MarketTypes DEF Inv
  <2> QED
    BY <1>1, <1>4, <2>1, <2>2, <2>3 DEF Num
<1>9. Newcomers'
  <2> SUFFICES ASSUME NEW c \in Conns, peer'[c] = "waiting"
               PROVE  state_'[c] # "kConnected" /\ \A i \in DOMAIN subscribers_' : subscribers_'[i] # c
    BY DEF Newcomers
  <2>1. /\ state_[c] # "kConnected" /\ c # current
        /\ \A i \in 1..Len(subscribers_) : subscribers_[i] # c
    BY <1>1, <1>2, <1>3 DEF Market, Newcomers
  <2> QED
    BY <1>1, <1>3, <2>1
<1>10. OnlyTicks' /\ HeldNow' /\ Served'
  BY <1>1, <1>2 DEF Market, OnlyTicks, HeldNow, Served
<1>11. Posting' /\ Arriving' /\ InOrder'
  BY <1>1 DEF Market, Posting, Arriving, InOrder, IsTick
<1>12. AcksFirst'
  BY <1>1 DEF Market, AcksFirst, IsTick, TicksOf, Acks
<1> QED
  BY <1>6, <1>7, <1>8, <1>9, <1>10, <1>11, <1>12 DEF Market

(* What the publisher leaves alone. *)
LEMMA PublisherLeaves ==
  ASSUME Market, PublisherStep
  PROVE  /\ UNCHANGED <<got, subscribers_, state_, peer, loop, current>>
         /\ Served' /\ Newcomers' /\ SubsAcked' /\ InOrder' /\ AcksFirst'
<1>1. UNCHANGED <<got, subscribers_, state_, peer, loop, current>>
  BY DEF PublisherStep, peerVars, reactorVars, TestRunning, LockMutex, LockContext, Write, UnlockMutex
<1>2. Served' /\ Newcomers'
  BY <1>1 DEF Market, Served, Newcomers
<1>3. SubsAcked'
  BY <1>1 DEF Market, SubsAcked, Subs, Acked, Acks
<1>4. InOrder'
  BY <1>1 DEF Market, InOrder, IsTick
<1>5. AcksFirst'
  BY <1>1 DEF Market, AcksFirst, IsTick, TicksOf, Acks
<1> QED
  BY <1>1, <1>2, <1>3, <1>4, <1>5

(* A step of the publisher that posts nothing leaves what is owed as it    *)
(* is.                                                                     *)
LEMMA NothingPosted ==
  ASSUME Inv, Market, PublisherStep, pending_tasks_' = pending_tasks_, tick' \in Nat, tick <= tick'
  PROVE  /\ OnlyTicks' /\ Posting' /\ Arriving'
         /\ \A c \in Conns : \A t \in Nat : Owed(c, t)' = Owed(c, t) /\ Owed(c, t) \in Nat
         /\ \A c \in Conns : \A n : Subs(c, n)' = Subs(c, n)
<1>1. UNCHANGED <<got, subscribers_>> /\ tick \in Nat
  BY PublisherLeaves, MarketTypes DEF Inv
<1>2. OnlyTicks'
  BY DEF Market, OnlyTicks
<1>3. \A i \in DOMAIN pending_tasks_ : pending_tasks_[i].n \in Nat
  <2>1. \A i \in DOMAIN pending_tasks_ : pending_tasks_[i] \in Message
    BY ElementOfSeq DEF Inv, TypeOK, ThreadTypes
  <2> QED
    BY <2>1 DEF Message
<1>4. Posting'
  BY <1>1, <1>3 DEF Market, Posting
<1>5. \A c \in Conns : \A i \in DOMAIN got[c] : got[c][i].n \in Nat
  <2>1. \A c \in Conns : \A i \in DOMAIN got[c] : got[c][i] \in Message
    BY ElementOfSeq DEF Inv, TypeOK, PeerTypes
  <2> QED
    BY <2>1 DEF Message
<1>6. Arriving'
  BY <1>1, <1>5 DEF Market, Arriving, IsTick
<1>7. \A c \in Conns : \A t \in Nat : Owed(c, t)' = Owed(c, t)
  BY <1>1 DEF Owed, Got, Posted, TicksOf
<1>8. \A c \in Conns : \A n : Subs(c, n)' = Subs(c, n)
  BY <1>1 DEF Subs
<1> QED
  BY <1>2, <1>4, <1>6, <1>7, <1>8, MarketTypes DEF Inv

(* The next tick begins, or the publisher ends. *)
LEMMA TestKeepsMarket ==
  ASSUME Inv, Inv', Market, PublisherStep, TestRunning
  PROVE  Market'
<1>1. /\ publisher = "testing" /\ UNCHANGED <<position, held, pending_tasks_>>
      /\ \/ publisher' = "done" /\ tick' = tick
         \/ publisher' = "locking" /\ tick' = tick + 1
  BY DEF TestRunning
<1>2. tick \in Nat /\ tick' \in Nat /\ tick <= tick'
  <2>1. tick \in Nat
    BY MarketTypes DEF Inv
  <2> QED
    BY <1>1, <2>1
<1>3. \A t \in Nat : (Complete(t)' <=> Complete(t)) /\ Due(t)' = Due(t)
  BY <1>1, <1>2, PublisherLeaves DEF Complete, Due
<1>4. Bounded' /\ Level'
  <2>1. \A c \in Conns : \A t \in Nat :
          Owed(c, t)' <= Owed(c, t) /\ (state_'[c] = "kConnected" => Owed(c, t)' = Owed(c, t))
    BY <1>1, <1>2, NothingPosted
  <2> QED
    BY <1>1, <1>3, <2>1, PublisherLeaves, LevelsStay DEF Market
<1>5. HeldNow'
  BY <1>1, PublisherLeaves DEF Market, HeldNow
<1> QED
  BY <1>1, <1>2, <1>4, <1>5, PublisherLeaves, NothingPosted DEF Market

(* With the mutex, the publisher begins with the first subscriber. *)
LEMMA LockKeepsMarket ==
  ASSUME Inv, Inv', Market, PublisherStep, LockMutex
  PROVE  Market'
<1>1. /\ publisher = "locking" /\ publisher' = "writing" /\ position' = 1
      /\ UNCHANGED <<tick, held, pending_tasks_, subscribers_, state_>> /\ held = NoConn
  BY PublisherLeaves DEF LockMutex, Inv, Locked
<1>2. tick \in Nat
  BY MarketTypes DEF Inv
<1>3. \A t \in Nat : (Complete(t)' <=> Complete(t)) /\ Due(t)' = Due(t)
  BY <1>1, <1>2 DEF Complete, Due
<1>4. /\ OnlyTicks' /\ Posting' /\ Arriving'
      /\ \A c \in Conns : \A t \in Nat : Owed(c, t)' = Owed(c, t) /\ Owed(c, t) \in Nat
      /\ \A c \in Conns : \A n : Subs(c, n)' = Subs(c, n)
  BY <1>1, <1>2, NothingPosted
<1>5. Bounded'
  <2> SUFFICES ASSUME NEW c \in Conns, NEW t \in Nat
               PROVE  Owed(c, t)' <= Subs(c, Due(t))'
    BY DEF Bounded
  <2>1. Subs(c, Due(t))' = Subs(c, Due(t))
    BY <1>1, <1>3 DEF Subs
  <2> QED
    BY <1>4, <2>1 DEF Market, Bounded
<1>6. Level'
  <2> SUFFICES ASSUME NEW c \in Conns, state_'[c] = "kConnected"
               PROVE  /\ \A t, u \in Nat : t <= u /\ Complete(u)' => Owed(c, t)' <= Owed(c, u)'
                      /\ Owed(c, tick)' >= Subs(c, position - 1)'
    BY DEF Level
  <2>1. \A t, u \in Nat : t <= u /\ Complete(u)' => Owed(c, t)' <= Owed(c, u)'
    BY <1>1, <1>3, <1>4 DEF Market, Level
  <2>2. Subs(c, position - 1)' = 0
    <3>1. (position - 1)' = 0
      BY <1>1
    <3>2. Count(subscribers_', 0, {c}) = 0
      BY CountType
    <3> QED
      BY <3>1, <3>2 DEF Subs
  <2>3. Owed(c, tick)' = Owed(c, tick) /\ Owed(c, tick) \in Nat
    <3>1. Owed(c, tick)' = Owed(c, tick)
      BY <1>1, PublisherLeaves DEF Owed, Got, Posted, TicksOf
    <3> QED
      BY <1>2, <1>4, <3>1
  <2> QED
    BY <2>1, <2>2, <2>3
<1>7. HeldNow'
  BY <1>1 DEF HeldNow
<1> QED
  BY <1>4, <1>5, <1>6, <1>7, PublisherLeaves DEF Market

(* Who has no connection any more is passed over; an open one has. *)
LEMMA ContextKeepsMarket ==
  ASSUME Inv, Inv', Market, PublisherStep, LockContext
  PROVE  Market'
<1>1. /\ publisher = "writing" /\ position <= Len(subscribers_)
      /\ UNCHANGED <<publisher, tick, pending_tasks_, subscribers_, state_>>
  BY PublisherLeaves DEF LockContext
<1>2. /\ tick \in Nat /\ position \in Nat /\ position - 1 \in Nat /\ position >= 1
      /\ Len(subscribers_) \in Nat
  BY MarketTypes DEF Inv
<1>3. /\ OnlyTicks' /\ Posting' /\ Arriving'
      /\ \A c \in Conns : \A t \in Nat : Owed(c, t)' = Owed(c, t) /\ Owed(c, t) \in Nat
      /\ \A c \in Conns : \A n : Subs(c, n)' = Subs(c, n)
  BY <1>1, <1>2, NothingPosted
<1>4. CASE held' = subscribers_[position] /\ position' = position
  <2>1. HeldNow'
    BY <1>1, <1>4 DEF HeldNow
  <2>2. \A c \in Conns : \A t \in Nat :
          Owed(c, t)' <= Owed(c, t) /\ (state_'[c] = "kConnected" => Owed(c, t)' = Owed(c, t))
    BY <1>3
  <2>3. Bounded' /\ Level'
    BY <1>1, <1>4, <2>2, LevelsStay, PublisherStays DEF Market
  <2> QED
    BY <1>3, <2>1, <2>3, PublisherLeaves DEF Market
<1>5. CASE ~Alive(subscribers_[position]) /\ position' = position + 1 /\ held' = held /\ held = NoConn
  <2>1. HeldNow'
    BY <1>5 DEF HeldNow
  <2>2. ASSUME NEW c \in Conns
        PROVE  Subs(c, position) = Subs(c, position - 1) + Num(subscribers_[position] = c)
    <3>1. Count(subscribers_, (position - 1) + 1, {c})
            = Count(subscribers_, position - 1, {c}) + Num(subscribers_[(position - 1) + 1] \in {c})
      BY <1>2, CountNext
    <3>2. (position - 1) + 1 = position
      BY <1>2
    <3> QED
      BY <3>1, <3>2 DEF Subs, Num
  <2>3. Bounded'
    <3> SUFFICES ASSUME NEW c \in Conns, NEW t \in Nat
                 PROVE  Owed(c, t)' <= Subs(c, Due(t))'
      BY DEF Bounded
    <3>1. /\ Owed(c, t) <= Subs(c, Due(t)) /\ Owed(c, t) \in Nat /\ Owed(c, t)' = Owed(c, t)
          /\ Subs(c, Due(t)) \in Nat
      BY <1>3, MarketTypes DEF Inv, Market, Bounded
    <3>2. CASE t = tick
      <4>1. Due(t) = position - 1 /\ Due(t)' = position
        BY <1>1, <1>2, <1>5, <3>2 DEF Due, Complete
      <4>2. Subs(c, Due(t))' = Subs(c, position)
        BY <1>1, <4>1 DEF Subs
      <4>3. Subs(c, position) = Subs(c, Due(t)) + Num(subscribers_[position] = c)
        BY <2>2, <4>1
      <4> QED
        BY <3>1, <4>2, <4>3 DEF Num
    <3>3. CASE t # tick
      <4>1. Due(t)' = Due(t)
        BY <1>1, <3>3 DEF Due, Complete
      <4>2. Subs(c, Due(t))' = Subs(c, Due(t))
        BY <1>1, <4>1 DEF Subs
      <4> QED
        BY <3>1, <4>2
    <3> QED
      BY <3>2, <3>3
  <2>4. Level'
    <3> SUFFICES ASSUME NEW c \in Conns, state_'[c] = "kConnected"
                 PROVE  /\ \A t, u \in Nat : t <= u /\ Complete(u)' => Owed(c, t)' <= Owed(c, u)'
                        /\ Owed(c, tick)' >= Subs(c, position - 1)'
      BY DEF Level
    <3>1. \A t \in Nat : Complete(t)' <=> Complete(t)
      BY <1>1 DEF Complete
    <3>2. \A t, u \in Nat : t <= u /\ Complete(u)' => Owed(c, t)' <= Owed(c, u)'
      BY <1>1, <1>3, <3>1 DEF Market, Level
    <3>3. subscribers_[position] # c
      <4>1. Alive(c)
        BY <1>1 DEF Inv, Agrees, Open, Alive
      <4> QED
        BY <1>5, <4>1
    <3>4. Subs(c, position - 1)' = Subs(c, position)
      <4>1. (position - 1)' = position
        BY <1>2, <1>5
      <4> QED
        BY <1>1, <4>1 DEF Subs
    <3>5. Owed(c, tick)' = Owed(c, tick)
      BY <1>1, PublisherLeaves DEF Owed, Got, Posted, TicksOf
    <3>6. Owed(c, tick) >= Subs(c, position - 1) /\ Subs(c, position - 1) \in Nat
      BY <1>1, <1>2, MarketTypes DEF Inv, Market, Level
    <3>7. Subs(c, position) = Subs(c, position - 1)
      BY <2>2, <3>3, <3>6 DEF Num
    <3> QED
      BY <3>2, <3>4, <3>5, <3>6, <3>7
  <2> QED
    BY <1>3, <2>1, <2>3, <2>4, PublisherLeaves DEF Market
<1> QED
  BY <1>4, <1>5 DEF LockContext

(* A tick is written for one subscription more. *)
LEMMA WriteKeepsMarket ==
  ASSUME Inv, Inv', Market, PublisherStep, Write
  PROVE  Market'
<1>1. /\ publisher = "writing" /\ held \in Conns /\ position' = position + 1 /\ held' = NoConn
      /\ UNCHANGED <<publisher, tick, got, subscribers_, state_>>
      /\ held = subscribers_[position] /\ position <= Len(subscribers_)
      /\ pending_tasks_ \in Seq(Message) /\ pending_tasks_' = Append(pending_tasks_, Tick(held))
  BY PublisherLeaves DEF Write, Inv, TypeOK, ThreadTypes, Locked, Market, HeldNow
<1>2. tick \in Nat /\ position \in Nat /\ position - 1 \in Nat /\ (position - 1) + 1 = position
  BY MarketTypes DEF Inv
<1>3. ASSUME NEW c \in Conns
      PROVE  Subs(c, position) = Subs(c, position - 1) + Num(held = c) /\ Subs(c, position - 1) \in Nat
  <2>1. Count(subscribers_, (position - 1) + 1, {c})
          = Count(subscribers_, position - 1, {c}) + Num(subscribers_[(position - 1) + 1] \in {c})
    BY <1>2, CountNext
  <2>2. Subs(c, position - 1) \in Nat
    BY <1>2, MarketTypes DEF Inv
  <2> QED
    BY <1>1, <1>2, <2>1, <2>2 DEF Subs, Num
<1>4. ASSUME NEW c \in Conns, NEW t \in Nat
      PROVE  Owed(c, t)' = Owed(c, t) + Num(c = held /\ t = tick) /\ Owed(c, t) \in Nat
  BY WriteOwes, MarketTypes DEF Inv
<1>5. \A t \in Nat : Complete(t)' <=> Complete(t)
  BY <1>1 DEF Complete
<1>6. Bounded'
  <2> SUFFICES ASSUME NEW c \in Conns, NEW t \in Nat
               PROVE  Owed(c, t)' <= Subs(c, Due(t))'
    BY DEF Bounded
  <2>1. Owed(c, t) <= Subs(c, Due(t)) /\ Subs(c, Due(t)) \in Nat
    BY MarketTypes DEF Inv, Market, Bounded
  <2>2. CASE t = tick
    <3>1. Due(t) = position - 1 /\ Due(t)' = position
      BY <1>1, <1>2, <2>2 DEF Due, Complete
    <3>2. Subs(c, Due(t))' = Subs(c, position)
      BY <1>1, <3>1 DEF Subs
    <3>3. Subs(c, position) = Subs(c, Due(t)) + Num(held = c)
      BY <1>3, <3>1
    <3> QED
      BY <1>4, <2>1, <2>2, <3>2, <3>3 DEF Num
  <2>3. CASE t # tick
    <3>1. Due(t)' = Due(t)
      BY <1>1, <2>3 DEF Due, Complete
    <3>2. Subs(c, Due(t))' = Subs(c, Due(t))
      BY <1>1, <3>1 DEF Subs
    <3> QED
      BY <1>4, <2>1, <2>3, <3>2 DEF Num
  <2> QED
    BY <2>2, <2>3
<1>7. Level'
  <2> SUFFICES ASSUME NEW c \in Conns, state_'[c] = "kConnected"
               PROVE  /\ \A t, u \in Nat : t <= u /\ Complete(u)' => Owed(c, t)' <= Owed(c, u)'
                      /\ Owed(c, tick)' >= Subs(c, position - 1)'
    BY DEF Level
  <2>1. ASSUME NEW t \in Nat, NEW u \in Nat, t <= u, Complete(u)'
        PROVE  Owed(c, t)' <= Owed(c, u)'
    <3>1. t # tick /\ u # tick /\ Complete(u)
      BY <1>1, <1>2, <1>5, <2>1 DEF Complete
    <3>2. Owed(c, t)' = Owed(c, t) /\ Owed(c, u)' = Owed(c, u)
      BY <1>4, <3>1 DEF Num
    <3> QED
      BY <1>1, <2>1, <3>1, <3>2 DEF Market, Level
  <2>2. Owed(c, tick) >= Subs(c, position - 1)
    BY <1>1 DEF Market, Level
  <2>3. Owed(c, tick)' = Owed(c, tick) + Num(c = held) /\ Owed(c, tick) \in Nat
    <3>1. PICK t \in Nat : t = tick
      BY <1>2
    <3>2. Owed(c, tick)' = Owed(c, t)'
      BY <1>1, <3>1 DEF Owed, Got, Posted, TicksOf
    <3>3. Owed(c, t)' = Owed(c, t) + Num(c = held /\ t = tick) /\ Owed(c, t) \in Nat
      BY <1>4
    <3> QED
      BY <3>1, <3>2, <3>3 DEF Num
  <2>4. Subs(c, position - 1)' = Subs(c, position)
    <3>1. (position - 1)' = position
      BY <1>1, <1>2
    <3> QED
      BY <1>1, <3>1 DEF Subs
  <2>5. Owed(c, tick)' >= Subs(c, position - 1)'
    BY <1>3, <2>2, <2>3, <2>4 DEF Num
  <2> QED
    BY <2>1, <2>5
<1>8. Tick(held) \in Message /\ Tick(held).kind = "tick" /\ Tick(held).n = tick
  BY <1>1, MessageTypes DEF Inv, TypeOK, Tick
<1>9. /\ Len(pending_tasks_) \in Nat /\ DOMAIN pending_tasks_ = 1..Len(pending_tasks_)
      /\ DOMAIN pending_tasks_' = 1..(Len(pending_tasks_) + 1)
      /\ pending_tasks_'[Len(pending_tasks_) + 1] = Tick(held)
      /\ \A j \in 1..Len(pending_tasks_) : pending_tasks_'[j] = pending_tasks_[j]
  BY <1>1, <1>8, AppendProperties
<1>10. OnlyTicks'
  BY <1>8, <1>9 DEF Market, OnlyTicks
<1>11. Posting'
  <2>1. ASSUME NEW j \in DOMAIN pending_tasks_'
        PROVE  pending_tasks_'[j].n <= tick
    <3>1. CASE j = Len(pending_tasks_) + 1
      BY <1>2, <1>8, <1>9, <3>1
    <3>2. CASE j \in 1..Len(pending_tasks_)
      BY <1>9, <3>2 DEF Market, Posting
    <3> QED
      BY <1>9, <3>1, <3>2
  <2>2. ASSUME NEW j \in DOMAIN pending_tasks_', NEW k \in DOMAIN pending_tasks_', j <= k
        PROVE  pending_tasks_'[j].n <= pending_tasks_'[k].n
    <3>1. CASE k = Len(pending_tasks_) + 1
      BY <1>8, <1>9, <2>1, <3>1
    <3>2. CASE k \in 1..Len(pending_tasks_)
      <4>1. j \in 1..Len(pending_tasks_)
        BY <1>9, <2>2, <3>2
      <4> QED
        BY <1>9, <2>2, <3>2, <4>1 DEF Market, Posting
    <3> QED
      BY <1>9, <3>1, <3>2
  <2> QED
    BY <1>1, <2>1, <2>2 DEF Posting
<1>12. Arriving'
  <2> SUFFICES ASSUME NEW c \in Conns, NEW k \in DOMAIN got[c], IsTick(got[c][k])
               PROVE  /\ got[c][k].n <= tick
                      /\ \A j \in DOMAIN pending_tasks_' : got[c][k].n <= pending_tasks_'[j].n
    BY <1>1 DEF Arriving, IsTick
  <2>1. /\ got[c][k].n <= tick
        /\ \A j \in 1..Len(pending_tasks_) : got[c][k].n <= pending_tasks_[j].n
    BY <1>9 DEF Market, Arriving
  <2> QED
    BY <1>8, <1>9, <2>1
<1>13. HeldNow'
  BY <1>1 DEF HeldNow
<1> QED
  BY <1>6, <1>7, <1>10, <1>11, <1>12, <1>13, PublisherLeaves DEF Market

(* When the publisher has been through all subscribers, an open connection *)
(* is owed a copy of the tick for each of its subscriptions.               *)
LEMMA UnlockKeepsMarket ==
  ASSUME Inv, Inv', Market, PublisherStep, UnlockMutex
  PROVE  Market'
<1>1. /\ publisher = "writing" /\ publisher' = "testing" /\ position > Len(subscribers_)
      /\ UNCHANGED <<tick, position, held, pending_tasks_, subscribers_, state_>>
  BY PublisherLeaves DEF UnlockMutex
<1>2. tick \in Nat /\ position - 1 = Len(subscribers_) /\ Len(subscribers_) \in Nat
  <2>1. /\ tick \in Nat /\ position \in Nat /\ position <= Len(subscribers_) + 1
        /\ Len(subscribers_) \in Nat
    BY MarketTypes DEF Inv
  <2> QED
    BY <1>1, <2>1
<1>3. /\ OnlyTicks' /\ Posting' /\ Arriving'
      /\ \A c \in Conns : \A t \in Nat : Owed(c, t)' = Owed(c, t) /\ Owed(c, t) \in Nat
      /\ \A c \in Conns : \A n : Subs(c, n)' = Subs(c, n)
  BY <1>1, <1>2, NothingPosted
<1>4. \A t \in Nat : Due(t)' = Due(t) /\ (Complete(t)' <=> Complete(t) \/ t = tick)
  BY <1>1, <1>2 DEF Due, Complete
<1>5. Bounded'
  <2> SUFFICES ASSUME NEW c \in Conns, NEW t \in Nat
               PROVE  Owed(c, t)' <= Subs(c, Due(t))'
    BY DEF Bounded
  <2>1. Subs(c, Due(t))' = Subs(c, Due(t))
    BY <1>1, <1>4 DEF Subs
  <2> QED
    BY <1>3, <2>1 DEF Market, Bounded
<1>6. Level'
  <2> SUFFICES ASSUME NEW c \in Conns, state_'[c] = "kConnected",
                      NEW t \in Nat, NEW u \in Nat, t <= u, Complete(u)'
               PROVE  Owed(c, t) <= Owed(c, u)
    BY <1>1, <1>3 DEF Level
  <2>1. state_[c] = "kConnected"
    BY <1>1
  <2>2. CASE Complete(u)
    BY <2>1, <2>2 DEF Market, Level
  <2>3. CASE u = tick
    <3>1. Owed(c, t) <= Subs(c, Due(t)) /\ Owed(c, t) \in Nat
      BY <1>3 DEF Market, Bounded
    <3>2. /\ Due(t) \in Nat /\ Due(t) <= Len(subscribers_)
          /\ Subs(c, Due(t)) \in Nat /\ Subs(c, Len(subscribers_)) \in Nat
      BY MarketTypes DEF Inv
    <3>3. Subs(c, Due(t)) <= Subs(c, Len(subscribers_))
      BY <1>2, <3>2, CountGrows DEF Subs
    <3>4. Subs(c, Len(subscribers_)) <= Owed(c, tick) /\ Owed(c, tick) \in Nat
      BY <1>1, <1>2, <1>3, <2>1 DEF Market, Level
    <3> QED
      BY <2>3, <3>1, <3>2, <3>3, <3>4
  <2> QED
    BY <1>4, <2>2, <2>3
<1>7. HeldNow'
  BY <1>1 DEF Market, HeldNow
<1> QED
  BY <1>3, <1>5, <1>6, <1>7, PublisherLeaves DEF Market

(* No step of a connection's handler disturbs the account of market data. *)
LEMMA HandlerKeepsMarket ==
  ASSUME Inv, Inv', Market, NEW c \in Conns, HandlerStep(c)
  PROVE  Market'
<1>1. /\ OnMessage(c) /\ loop = "handler" /\ current = c /\ state_[c] = "kConnected"
      /\ UNCHANGED <<pending_tasks_, subscribers_, publisherVars, publisher, tick, position, held,
                     state_, peer>>
  BY DEF HandlerStep, OnMessage, peerVars, reactorVars, publisherVars, Market, Served
<1>2. CASE UNCHANGED got /\ loop' = "idle"
  BY <1>1, <1>2, QuietKeepsMarket DEF Served
<1>3. CASE UNCHANGED <<got, current>>
  BY <1>1, <1>3, QuietKeepsMarket DEF Served
<1>4. CASE Turn(c) /\ Request(c).kind # "subscribe" /\ PlaceOrder(c) /\ UNCHANGED <<loop, current>>
  <2>1. Request(c).id \in Nat /\ id_counter_ \in Nat
    BY <1>4, RequestType DEF Inv, TypeOK, OrderTypes
  <2>2. PICK id \in Nat : Send(Response(c, id))
    BY <1>4, <2>1 DEF PlaceOrder
  <2>3. Response(c, id) \in Message /\ Response(c, id).kind # "tick"
    BY MessageTypes DEF Inv, TypeOK, Response
  <2> QED
    BY <1>1, <1>4, <2>2, <2>3, AnswerKeepsMarket
<1> QED
  BY <1>1, <1>2, <1>3, <1>4 DEF OnMessage

(* Every step keeps the account of market data. *)
LEMMA MarketNext ==
  ASSUME Inv, Inv', Market, [Next]_vars
  PROVE  Market'
<1>1. CASE \E c \in Conns : PeerStep(c) \/ HandleRead(c)
  <2>1. PICK c \in Conns : PeerStep(c) \/ HandleRead(c)
    BY <1>1
  <2>2. UNCHANGED <<got, pending_tasks_, publisher, tick, position, subscribers_, held>>
    BY <2>1 DEF PeerStep, HandleRead, publisherVars
  <2>3. CASE PeerStep(c)
    <3>1. UNCHANGED <<state_, loop, current>> /\ Served'
      BY <2>3 DEF PeerStep, reactorVars, Market, Served
    <3>2. \A d \in Conns : peer'[d] = "waiting" => peer[d] = "waiting"
      BY <2>3 DEF PeerStep, PeerAsks, PeerCloses, Inv, TypeOK, PeerTypes
    <3> QED
      BY <2>2, <3>1, <3>2, QuietKeepsMarket
  <2>4. CASE HandleRead(c)
    <3>1. peer' = peer /\ loop = "idle" /\ state_[c] = "kConnected"
      BY <2>4 DEF HandleRead, peerVars
    <3>2. \A d \in Conns : state_'[d] = "kConnected" => state_[d] = "kConnected"
      BY <2>4 DEF HandleRead, HandleClose, Inv, TypeOK, ReactorTypes
    <3>3. Served'
      BY <2>4, <3>1 DEF HandleRead, Served
    <3> QED
      BY <2>2, <3>1, <3>2, <3>3, QuietKeepsMarket
  <2> QED
    BY <2>1, <2>3, <2>4
<1>2. CASE \E c \in Conns : Accept(c)
  BY <1>2, AcceptKeepsMarket
<1>3. CASE Subscribe
  BY <1>3, SubscribeKeepsMarket
<1>4. CASE Acknowledge
  <2>1. current \in Conns /\ UNCHANGED <<pending_tasks_, subscribers_, publisherVars, state_, peer, current>>
    BY <1>4 DEF Inv, Busy, Acknowledge, reactorVars, peerVars
  <2>2. Ack(current) \in Message /\ Ack(current).kind = "ack" /\ Ack(current).to = current
    BY <2>1, MessageTypes DEF Inv, TypeOK, Ack
  <2>3. Send(Ack(current)) /\ loop = "subscribed" /\ loop' = "handler"
    BY <1>4 DEF Acknowledge
  <2> QED
    BY <2>1, <2>2, <2>3, AnswerKeepsMarket
<1>5. CASE RunTask
  BY <1>5, TaskKeepsMarket
<1>6. CASE \E c \in Conns : HandlerStep(c)
  BY <1>6, HandlerKeepsMarket
<1>7. CASE PublisherStep
  BY <1>7, TestKeepsMarket, LockKeepsMarket, ContextKeepsMarket, WriteKeepsMarket, UnlockKeepsMarket
     DEF PublisherStep
<1>8. CASE LoopEnds \/ MainStep \/ UNCHANGED vars
  <2>1. UNCHANGED <<got, pending_tasks_, tick, position, subscribers_, held, state_, peer, current>>
    BY <1>8 DEF LoopEnds, MainStep, vars, publisherVars, reactorVars, peerVars
  <2>2. publisher' = publisher \/ {publisher, publisher'} \cap {"locking", "writing"} = {}
    BY <1>8 DEF LoopEnds, MainStep, Start, Stop, Join, vars, publisherVars, Inv, Locked
  <2>3. loop' = loop \/ (loop = "idle" /\ loop' = "ended")
    BY <1>8 DEF LoopEnds, MainStep, vars
  <2>4. Served'
    BY <2>1, <2>3 DEF Market, Served
  <2> QED
    BY <2>1, <2>2, <2>3, <2>4, QuietKeepsMarket
<1> QED
  BY <1>1, <1>2, <1>3, <1>4, <1>5, <1>6, <1>7, <1>8 DEF Next, LoopStep

(* Before anything is published nothing is owed. *)
LEMMA MarketInit ==
  ASSUME Inv, Init
  PROVE  Market
<1>1. /\ subscribers_ = <<>> /\ pending_tasks_ = <<>> /\ tick = 0 /\ publisher = "none"
      /\ held = NoConn /\ loop = "idle" /\ \A c \in Conns : got[c] = <<>> /\ state_[c] # "kConnected"
  BY DEF Init
<1>2. OnlyTicks /\ Served /\ Newcomers /\ HeldNow
  BY <1>1 DEF OnlyTicks, Served, Newcomers, HeldNow
<1>3. ASSUME NEW s, NEW M
      PROVE  Count(s, 0, M) = 0
  BY CountType
<1>4. ASSUME NEW c \in Conns
      PROVE  Subs(c, 0) = 0 /\ Acked(c) = 0 /\ \A t \in Nat : Owed(c, t) = 0
  BY <1>1, <1>3 DEF Subs, Acked, Owed, Got, Posted
<1>5. SubsAcked
  BY <1>1, <1>4 DEF SubsAcked, Num
<1>6. \A t \in Nat : Due(t) = 0
  BY <1>1 DEF Due
<1>7. Bounded /\ Level
  BY <1>1, <1>4, <1>6 DEF Bounded, Level
<1>8. Posting /\ Arriving /\ InOrder /\ AcksFirst
  BY <1>1 DEF Posting, Arriving, InOrder, AcksFirst
<1> QED
  BY <1>2, <1>5, <1>7, <1>8 DEF Market

(* From the account follows that ticks arrive in order, and none is left   *)
(* out.                                                                    *)
LEMMA MarketImplies ==
  ASSUME Inv, Market
  PROVE  MarketDataInOrder
<1>1. ASSUME NEW c \in Conns, NEW n \in 0..Len(got[c])
      PROVE  /\ \A t : Copies(c, t, n) = Count(got[c], n, TicksOf(t))
             /\ Cardinality({j \in 1..n : got[c][j].kind = "ack"}) = Count(got[c], n, Acks)
  <2>1. got[c] \in Seq(Message) /\ Len(got[c]) \in Nat
    BY DEF Inv, TypeOK, PeerTypes
  <2>2. \A j \in 1..n : got[c][j] \in Message
    BY <2>1, ElementOfSeq
  <2>3. ASSUME NEW t
        PROVE  {j \in 1..n : IsTick(got[c][j]) /\ got[c][j].n = t} = {j \in 1..n : got[c][j] \in TicksOf(t)}
    BY <2>2 DEF IsTick, TicksOf
  <2>4. {j \in 1..n : got[c][j].kind = "ack"} = {j \in 1..n : got[c][j] \in Acks}
    BY <2>2 DEF Acks
  <2> QED
    BY <2>3, <2>4 DEF Copies, Count
<1>2. AckBeforeTicks
  <2> SUFFICES ASSUME NEW c \in Conns, NEW i \in DOMAIN got[c], IsTick(got[c][i])
               PROVE  Copies(c, got[c][i].n, i)
                        <= Cardinality({j \in 1..i : got[c][j].kind = "ack"})
    BY DEF AckBeforeTicks
  <2>1. i \in 0..Len(got[c])
    BY DEF Inv, TypeOK, PeerTypes
  <2> QED
    BY <1>1, <2>1 DEF Market, AcksFirst
<1>3. TicksInOrder
  <2> SUFFICES ASSUME NEW c \in Conns, publisher = "testing", pending_tasks_ = <<>>,
                      state_[c] = "kConnected", NEW t \in 1..tick, NEW u \in t..tick
               PROVE  Copies(c, t, Len(got[c])) <= Copies(c, u, Len(got[c]))
    BY DEF TicksInOrder, Market, InOrder
  <2>1. tick \in Nat /\ t \in Nat /\ u \in Nat /\ t <= u /\ Complete(u)
    <3>1. tick \in Nat
      BY MarketTypes DEF Inv
    <3> QED
      BY <3>1 DEF Complete
  <2>2. ASSUME NEW v \in Nat
        PROVE  Owed(c, v) = Copies(c, v, Len(got[c]))
    <3>1. Posted(c, v) = 0
      BY CountType DEF Posted
    <3>2. Got(c, v) \in Nat
      BY MarketTypes DEF Inv
    <3>3. Len(got[c]) \in 0..Len(got[c])
      BY DEF Inv, TypeOK, PeerTypes
    <3>4. Got(c, v) = Copies(c, v, Len(got[c]))
      BY <1>1, <3>3 DEF Got
    <3> QED
      BY <3>1, <3>2, <3>4 DEF Owed
  <2>3. Owed(c, t) <= Owed(c, u)
    BY <2>1 DEF Market, Level
  <2> QED
    BY <2>1, <2>2, <2>3
<1> QED
  BY <1>2, <1>3 DEF MarketDataInOrder

(* For any number of connections, subscriptions and ticks: a subscriber    *)
(* gets its acknowledgement before any tick of the subscription, the ticks *)
(* in the order they were published and, from then on, one copy of each of *)
(* them for every subscription, although the publisher posts its writes to *)
(* the loop while the loop answers requests itself.                        *)
THEOREM MarketDataReachesSubscribers == Spec => []MarketDataInOrder
<1>1. Inv /\ Init => Market
  BY MarketInit
<1>2. Inv /\ Inv' /\ Market /\ [Next]_vars => Market'
  BY MarketNext
<1>3. Inv /\ Market => MarketDataInOrder
  BY MarketImplies
<1> QED
  BY <1>1, <1>2, <1>3, Invariance, PTL DEF Spec
============================================================================
