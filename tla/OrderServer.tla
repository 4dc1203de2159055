---------------------------- MODULE OrderServer ----------------------------
(***************************************************************************)
(* The order management server (apps/server/main.cc): three threads over   *)
(* one Server in TCP mode.                                                 *)
(*                                                                         *)
(*   - The loop thread accepts (event/reactor.cc), asks DdosProtection,    *)
(*     keeps the registry connections_, and runs the handler of requests,  *)
(*     which places orders and subscribes contexts to market data.         *)
(*   - The publisher thread writes a tick to every subscribed context.     *)
(*     Its writes become tasks of the loop.                                *)
(*   - The main thread waits for the loop's end and stops the publisher.   *)
(*                                                                         *)
(* Descriptors are reused; Connection objects, which contexts refer to     *)
(* weakly and tasks strongly, are not.  What is shown elsewhere is taken   *)
(* for granted: requests arrive whole (Framing), tasks run in the order    *)
(* they were posted (EventLoop), a Send is written in full (Connection).   *)
(* The rate limiter may drop any request (Framing has its rules).          *)
(***************************************************************************)
EXTENDS Integers, Sequences, FiniteSets

CONSTANTS
  Conns, NoConn,
  Fds, NoFd,        \* NoFd is -1
  Ips,
  max_conn_per_ip,
  OrderIds,         \* the ids that orders can have
  NoOrder,
  Scripts,          \* bound: the requests that the peers may make
  Addresses,        \* bound: the addresses that the peers may have
  MaxTicks          \* bound: ticks that are published

ASSUME ConstantsAssumption ==
  /\ NoConn \notin Conns
  /\ Fds \subseteq Nat /\ IsFiniteSet(Fds) /\ NoFd \notin Fds
  /\ {max_conn_per_ip, MaxTicks} \subseteq Nat
  /\ OrderIds \subseteq Nat \ {0}
  /\ NoOrder \notin Conns \X Nat
  /\ Scripts \subseteq [Conns -> Seq([kind : {"named", "unnamed", "invalid", "subscribe"},
                                      id : OrderIds \cup {0}])]
  /\ Addresses \subseteq [Conns -> Ips]

VARIABLES
  ip,                    \* of each peer: its address,
  script,                \* and the requests it will make: orders with an id of the
                         \* client's, without, or invalid, and subscriptions
  peer,                  \* "waiting", "open", "refused" or "closed"
  asked, read, done,     \* requests that were sent, read by HandleRead, and handled
  got,                   \* what arrived at each peer
  sockets,               \* the kernel's: the peer that is connected to a descriptor
  state_, fd_,           \* of each Connection
  connections_, active_connections, conn_counts_,
  orders_, id_counter_,
  mutex_, subscribers_,  \* of the MarketDataPublisher
  publisher, tick, position, held,
  running_, main,
  loop, current,         \* where the loop thread is, and in whose callback
  pending_tasks_

peerVars      == <<ip, script, peer, asked>>
reactorVars   == <<sockets, state_, fd_, connections_, active_connections, conn_counts_>>
orderVars     == <<orders_, id_counter_>>
publisherVars == <<publisher, tick, position, held>>
mainVars      == <<running_, main>>
vars == <<peerVars, read, done, got, reactorVars, orderVars, mutex_, subscribers_,
          publisherVars, mainVars, loop, current, pending_tasks_>>

(* Messages say whom they are for, so that a message can be recognised     *)
(* that reaches somebody else.                                             *)
Response(c, id) == [to |-> c, kind |-> "response", re |-> done[c] + 1, n |-> id]
Ack(c)          == [to |-> c, kind |-> "ack", re |-> done[c] + 1, n |-> 0]
Tick(c)         == [to |-> c, kind |-> "tick", re |-> 0, n |-> tick]

(* RegisterServer has returned; so has Server::Start. *)
Init ==
  /\ ip \in Addresses
  /\ script \in Scripts
  /\ peer = [c \in Conns |-> "waiting"]
  /\ asked = [c \in Conns |-> 0]
  /\ read = [c \in Conns |-> 0]
  /\ done = [c \in Conns |-> 0]
  /\ got = [c \in Conns |-> <<>>]
  /\ sockets = [fd \in Fds |-> NoConn]
  /\ state_ = [c \in Conns |-> "kDisconnected"]
  /\ fd_ = [c \in Conns |-> NoFd]
  /\ connections_ = [fd \in Fds |-> NoConn]
  /\ active_connections = 0
  /\ conn_counts_ = [a \in Ips |-> 0]
  /\ orders_ = [i \in OrderIds |-> NoOrder]
  /\ id_counter_ = 1
  /\ mutex_ = "free"
  /\ subscribers_ = <<>>
  /\ publisher = "none"
  /\ tick = 0
  /\ position = 1
  /\ held = NoConn
  /\ running_ = FALSE
  /\ main = "starting"
  /\ loop = "idle"
  /\ current = NoConn
  /\ pending_tasks_ = <<>>

----------------------------------------------------------------------------
(* The peers, as long as somebody attends to them. *)

PeerAsks(c) ==
  /\ peer[c] = "open"
  /\ asked[c] < Len(script[c])
  /\ asked' = [asked EXCEPT ![c] = @ + 1]
  /\ UNCHANGED <<ip, script, peer>>

PeerCloses(c) ==
  /\ peer[c] = "open"
  /\ peer' = [peer EXCEPT ![c] = "closed"]
  /\ UNCHANGED <<ip, script, asked>>

PeerStep(c) ==
  /\ loop # "ended"
  /\ PeerAsks(c) \/ PeerCloses(c)
  /\ UNCHANGED <<read, done, got, reactorVars, orderVars, mutex_, subscribers_,
                 publisherVars, mainVars, loop, current, pending_tasks_>>

----------------------------------------------------------------------------
(* The reactor, on the loop thread. *)

AllowConnection(c) == conn_counts_[ip[c]] < max_conn_per_ip

Registered(registry) == Cardinality({fd \in Fds : registry[fd] # NoConn})

(* The accept callback, once per connection that waits; accept4 gives the *)
(* lowest descriptor that is free.                                         *)
Accept(c) ==
  /\ loop = "idle"
  /\ peer[c] = "waiting"
  /\ \E fd \in Fds :
       /\ sockets[fd] = NoConn
       /\ \A lower \in Fds : lower < fd => sockets[lower] # NoConn
       /\ IF AllowConnection(c)
            THEN /\ peer' = [peer EXCEPT ![c] = "open"]
                 /\ conn_counts_' = [conn_counts_ EXCEPT ![ip[c]] = @ + 1]
                 /\ sockets' = [sockets EXCEPT ![fd] = c]
                 /\ fd_' = [fd_ EXCEPT ![c] = fd]
                 /\ state_' = [state_ EXCEPT ![c] = "kConnected"]
                 /\ connections_' = [connections_ EXCEPT ![fd] = c]
                 /\ active_connections' = Registered(connections_')
            ELSE /\ peer' = [peer EXCEPT ![c] = "refused"]
                 /\ UNCHANGED reactorVars
  /\ UNCHANGED <<ip, script, asked, read, done, got, orderVars, mutex_, subscribers_,
                 publisherVars, mainVars, loop, current, pending_tasks_>>

(* Mutant: the entry is erased, and before the gauge is set. *)
DisconnectCallbackErasesFirst(c) ==
  /\ connections_' = [fd \in Fds |-> IF fd = fd_[c] THEN NoConn ELSE connections_[fd]]
  /\ active_connections' = Registered(connections_') - 1

(* The callback erases the entry of c->Fd(), which by now is -1. *)
DisconnectCallback(c) ==
  /\ active_connections' = Registered(connections_) - 1
  /\ connections_' = [fd \in Fds |-> IF fd = fd_'[c] THEN NoConn ELSE connections_[fd]]

(* Mutant: the descriptor is closed, and no note is made of it. *)
HandleCloseUnnoted(c) ==
  /\ sockets' = [sockets EXCEPT ![fd_[c]] = NoConn]
  /\ UNCHANGED <<state_, fd_>>
  /\ DisconnectCallback(c)

HandleClose(c) ==
  /\ state_' = [state_ EXCEPT ![c] = "kDisconnected"]
  /\ sockets' = [sockets EXCEPT ![fd_[c]] = NoConn]
  /\ fd_' = [fd_ EXCEPT ![c] = NoFd]
  /\ DisconnectCallback(c)

(* HandleRead closes at the end of the stream, whatever came before it;    *)
(* otherwise OnMessage is called with what was read.                       *)
HandleRead(c) ==
  /\ loop = "idle"
  /\ state_[c] = "kConnected"
  /\ \/ /\ peer[c] = "closed"
        /\ HandleClose(c)
        /\ UNCHANGED <<read, loop, current>>
     \/ /\ peer[c] # "closed"
        /\ asked[c] > read[c]
        /\ read' = [read EXCEPT ![c] = asked[c]]
        /\ loop' = "handler"
        /\ current' = c
        /\ UNCHANGED <<sockets, state_, fd_, connections_, active_connections>>
  /\ UNCHANGED <<peerVars, done, got, conn_counts_, orderVars, mutex_, subscribers_,
                 publisherVars, mainVars, pending_tasks_>>

(* Send on the loop thread.  Of a connection that is not connected, the    *)
(* message stays in the output buffer for good.                            *)
Send(m) ==
  LET to == IF state_[m.to] = "kConnected" THEN sockets[fd_[m.to]] ELSE NoConn
  IN got' = IF to = NoConn THEN got ELSE [got EXCEPT ![to] = Append(@, m)]

----------------------------------------------------------------------------
(* The handler of requests, called by TcpHandler::OnMessage in a loop. *)

Turn(c) == done[c] < read[c]

Request(c) == script[c][done[c] + 1]

Finish(c) == done' = [done EXCEPT ![c] = @ + 1]

(* Mutant: orders are not checked. *)
RejectsNothing(c) == FALSE

Rejects(c) == Request(c).kind = "invalid"

(* Mutant: GenerateId reads the counter and leaves it. *)
SameId == id_counter_

(* The counter after GenerateId. *)
NextId == id_counter_ + 1

(* OrderManager::PlaceOrder, and the response that says what became of it. *)
PlaceOrder(c) ==
  \/ /\ Rejects(c)
     /\ UNCHANGED orderVars
     /\ Send(Response(c, 0))
  \/ /\ ~Rejects(c) /\ Request(c).kind = "named"
     /\ orders_' = [orders_ EXCEPT ![Request(c).id] = <<c, done[c] + 1>>]
     /\ UNCHANGED id_counter_
     /\ Send(Response(c, Request(c).id))
  \/ /\ ~Rejects(c) /\ Request(c).kind # "named"
     /\ orders_' = [orders_ EXCEPT ![id_counter_] = <<c, done[c] + 1>>]
     /\ id_counter_' = NextId
     /\ Send(Response(c, id_counter_))

(* One turn: nothing is left, the request is dropped, or it is handled.    *)
(* A subscription needs the publisher's mutex.                             *)
OnMessage(c) ==
  /\ loop = "handler"
  /\ current = c
  /\ \/ /\ ~Turn(c)
        /\ loop' = "idle"
        /\ current' = NoConn
        /\ UNCHANGED <<done, got, orderVars>>
     \/ /\ Turn(c)
        /\ Finish(c)
        /\ UNCHANGED <<got, orderVars, loop, current>>
     \/ /\ Turn(c) /\ Request(c).kind # "subscribe"
        /\ PlaceOrder(c)
        /\ Finish(c)
        /\ UNCHANGED <<loop, current>>
     \/ /\ Turn(c) /\ Request(c).kind = "subscribe"
        /\ loop' = "subscribing"
        /\ UNCHANGED <<done, got, orderVars, current>>

Subscribe ==
  /\ loop = "subscribing"
  /\ mutex_ = "free"
  /\ subscribers_' = Append(subscribers_, current)
  /\ loop' = "subscribed"
  /\ UNCHANGED <<peerVars, read, done, got, reactorVars, orderVars, mutex_, publisherVars,
                 mainVars, current, pending_tasks_>>

(* Back in TcpHandler, the acknowledgement is sent as any response is. *)
Acknowledge ==
  /\ loop = "subscribed"
  /\ Send(Ack(current))
  /\ Finish(current)
  /\ loop' = "handler"
  /\ UNCHANGED <<peerVars, read, reactorVars, orderVars, mutex_, subscribers_, publisherVars,
                 mainVars, current, pending_tasks_>>

RunTask ==
  /\ loop = "idle"
  /\ pending_tasks_ # <<>>
  /\ Send(Head(pending_tasks_))
  /\ pending_tasks_' = Tail(pending_tasks_)
  /\ UNCHANGED <<peerVars, read, done, reactorVars, orderVars, mutex_, subscribers_,
                 publisherVars, mainVars, loop, current>>

(* Poll fails, which ends Run. *)
LoopEnds ==
  /\ loop = "idle"
  /\ loop' = "ended"
  /\ UNCHANGED <<peerVars, read, done, got, reactorVars, orderVars, mutex_, subscribers_,
                 publisherVars, mainVars, current, pending_tasks_>>

----------------------------------------------------------------------------
(* The publisher thread, and its Start and Stop on the main thread. *)

(* The conn_.lock() of a context succeeds while somebody owns the          *)
(* connection: the registry, a task, the publisher, or a callback.         *)
Alive(c) ==
  \/ \E fd \in Fds : connections_[fd] = c
  \/ \E i \in DOMAIN pending_tasks_ : pending_tasks_[i].to = c
  \/ c \in {held, current}

TestRunning ==
  /\ publisher = "testing"
  /\ \/ ~running_ /\ publisher' = "done" /\ UNCHANGED tick
     \/ running_ /\ tick < MaxTicks /\ publisher' = "locking" /\ tick' = tick + 1
  /\ UNCHANGED <<position, held, mutex_, pending_tasks_, got>>

LockMutex ==
  /\ publisher = "locking"
  /\ mutex_ = "free"
  /\ mutex_' = "publisher"
  /\ publisher' = "writing"
  /\ position' = 1
  /\ UNCHANGED <<tick, held, pending_tasks_, got>>

LockContext ==
  /\ publisher = "writing"
  /\ position <= Len(subscribers_)
  /\ held = NoConn
  /\ IF Alive(subscribers_[position])
       THEN held' = subscribers_[position] /\ UNCHANGED position
       ELSE position' = position + 1 /\ UNCHANGED held
  /\ UNCHANGED <<publisher, tick, mutex_, pending_tasks_, got>>

(* Mutant: Send does not ask which thread it runs on. *)
WriteFromAnyThread ==
  /\ publisher = "writing"
  /\ held # NoConn
  /\ Send(Tick(held))
  /\ held' = NoConn
  /\ position' = position + 1
  /\ UNCHANGED <<publisher, tick, mutex_, pending_tasks_>>

(* Mutant: one task at a time. *)
WriteWhenIdle ==
  /\ publisher = "writing"
  /\ held # NoConn
  /\ pending_tasks_ = <<>>
  /\ pending_tasks_' = Append(pending_tasks_, Tick(held))
  /\ held' = NoConn
  /\ position' = position + 1
  /\ UNCHANGED <<publisher, tick, mutex_, got>>

(* Send on another thread than the loop's posts a task. *)
Write ==
  /\ publisher = "writing"
  /\ held # NoConn
  /\ pending_tasks_' = Append(pending_tasks_, Tick(held))
  /\ held' = NoConn
  /\ position' = position + 1
  /\ UNCHANGED <<publisher, tick, mutex_, got>>

UnlockMutex ==
  /\ publisher = "writing"
  /\ position > Len(subscribers_)
  /\ mutex_' = "free"
  /\ publisher' = "testing"
  /\ UNCHANGED <<tick, position, held, pending_tasks_, got>>

PublisherStep ==
  /\ TestRunning \/ LockMutex \/ LockContext \/ Write \/ UnlockMutex
  /\ UNCHANGED <<peerVars, read, done, reactorVars, orderVars, subscribers_, mainVars, loop,
                 current>>

Start ==
  /\ main = "starting"
  /\ running_' = TRUE
  /\ publisher' = "testing"
  /\ main' = "waiting"

(* Server::Wait has returned. *)
Stop ==
  /\ main = "waiting"
  /\ loop = "ended"
  /\ running_' = FALSE
  /\ main' = "joining"
  /\ UNCHANGED publisher

Join ==
  /\ main = "joining"
  /\ publisher = "done"
  /\ main' = "done"
  /\ UNCHANGED <<running_, publisher>>

MainStep ==
  /\ Start \/ Stop \/ Join
  /\ UNCHANGED <<peerVars, read, done, got, reactorVars, orderVars, mutex_, subscribers_, tick,
                 position, held, loop, current, pending_tasks_>>

----------------------------------------------------------------------------
HandlerStep(c) ==
  /\ OnMessage(c)
  /\ UNCHANGED <<peerVars, read, reactorVars, mutex_, subscribers_, publisherVars, mainVars,
                 pending_tasks_>>

LoopStep == Subscribe \/ Acknowledge \/ RunTask \/ \E c \in Conns : HandleRead(c) \/ HandlerStep(c)

Next ==
  \/ \E c \in Conns : PeerStep(c) \/ Accept(c)
  \/ LoopStep \/ LoopEnds
  \/ PublisherStep
  \/ MainStep

Spec == Init /\ [][Next]_vars

(* The three threads run. *)
Fairness == WF_vars(LoopStep) /\ WF_vars(PublisherStep) /\ WF_vars(MainStep)

FairSpec == Spec /\ Fairness

----------------------------------------------------------------------------
(* Properties. *)

Message == [to : Conns, kind : {"response", "ack", "tick"}, re : Nat, n : Nat]

Valid == {"named", "unnamed"}

PeerTypes ==
  /\ ip \in [Conns -> Ips]
  /\ script \in Scripts
  /\ peer \in [Conns -> {"waiting", "open", "refused", "closed"}]
  /\ asked \in [Conns -> Nat] /\ read \in [Conns -> Nat] /\ done \in [Conns -> Nat]
  /\ \A c \in Conns : done[c] <= read[c] /\ read[c] <= asked[c] /\ asked[c] <= Len(script[c])
  /\ got \in [Conns -> Seq(Message)]

ReactorTypes ==
  /\ sockets \in [Fds -> Conns \cup {NoConn}]
  /\ state_ \in [Conns -> {"kConnected", "kDisconnected"}]
  /\ fd_ \in [Conns -> Fds \cup {NoFd}]
  /\ connections_ \in [Fds -> Conns \cup {NoConn}]
  /\ active_connections \in Nat
  /\ conn_counts_ \in [Ips -> 0..max_conn_per_ip]

OrderTypes ==
  /\ orders_ \in [OrderIds -> (Conns \X Nat) \cup {NoOrder}]
  /\ \A i \in OrderIds : orders_[i] # NoOrder => script[orders_[i][1]][orders_[i][2]].kind \in Valid
  /\ id_counter_ \in Nat

ThreadTypes ==
  /\ mutex_ \in {"free", "publisher"}
  /\ subscribers_ \in Seq(Conns)
  /\ publisher \in {"none", "testing", "locking", "writing", "done"}
  /\ tick \in 0..MaxTicks
  /\ position \in 1..(Len(subscribers_) + 1)
  /\ held \in Conns \cup {NoConn}
  /\ running_ \in BOOLEAN
  /\ main \in {"starting", "waiting", "joining", "done"}
  /\ loop \in {"idle", "handler", "subscribing", "subscribed", "ended"}
  /\ current \in Conns \cup {NoConn}
  /\ pending_tasks_ \in Seq(Message)

(* Every variable has its type; requests are read before they are handled, *)
(* and only orders that are valid are kept.                                *)
TypeOK == PeerTypes /\ ReactorTypes /\ OrderTypes /\ ThreadTypes

(* A descriptor is reused while ticks for the connection that had it are   *)
(* still posted, and while its contexts are still subscribed: no peer ever *)
(* gets a message that was written for another connection.                 *)
RightPeer == \A c \in Conns : \A i \in DOMAIN got[c] : got[c][i].to = c

IsTick(m) == m.kind = "tick"

(* How often tick t is among the first n messages that c got. *)
Copies(c, t, n) == Cardinality({i \in 1..n : IsTick(got[c][i]) /\ got[c][i].n = t})

(* Subscribe makes a context visible to the publisher before the           *)
(* acknowledgement is sent.  Still no tick overtakes it: a client gets no  *)
(* more copies of a tick than subscriptions it has seen acknowledged.      *)
AckBeforeTicks ==
  \A c \in Conns : \A i \in DOMAIN got[c] : IsTick(got[c][i]) =>
    Copies(c, got[c][i].n, i) <= Cardinality({j \in 1..i : got[c][j].kind = "ack"})

(* A client gets ticks in the order in which they were published, and from *)
(* its subscription on it gets all of them, once per subscription: when    *)
(* nothing is under way, it has of no later tick fewer copies than of an   *)
(* earlier one.                                                            *)
TicksInOrder ==
  \A c \in Conns :
    LET copies(t) == Copies(c, t, Len(got[c]))
    IN /\ \A i, j \in DOMAIN got[c] : i <= j /\ IsTick(got[c][i]) /\ IsTick(got[c][j]) =>
            got[c][i].n <= got[c][j].n
       /\ publisher = "testing" /\ pending_tasks_ = <<>> /\ state_[c] = "kConnected" =>
            \A t \in 1..tick : \A u \in t..tick : copies(t) <= copies(u)

(* What a subscriber sees of the market data: its acknowledgement first,   *)
(* then all ticks in order, although two threads send to it.               *)
MarketDataInOrder == AckBeforeTicks /\ TicksInOrder

(* The registry loses no open connection, though entries are overwritten   *)
(* when descriptors are reused, and the gauge, though it is computed from  *)
(* entries that are never erased, does not understate the open ones.       *)
RegistryCovers ==
  LET open == {c \in Conns : state_[c] = "kConnected"}
  IN /\ \A c \in open : connections_[fd_[c]] = c /\ sockets[fd_[c]] = c
     /\ active_connections >= Cardinality(open)

(* An order without an id of the client's is kept under the id that its    *)
(* response gives, unless a client chose that id for another order.        *)
OrdersKept ==
  \A c \in Conns : \A i \in DOMAIN got[c] :
    LET m == got[c][i]
    IN m.kind = "response" /\ m.n # 0 /\ script[c][m.re].kind = "unnamed" =>
         \/ orders_[m.n] = <<c, m.re>>
         \/ \E d \in Conns : \E k \in 1..done[d] :
              script[d][k].kind = "named" /\ script[d][k].id = m.n

(* The loop thread waits for a mutex that is held while tasks are posted   *)
(* to it: it does get it.                                                  *)
SubscribeReturns == (loop = "subscribing") ~> (loop = "subscribed")

(* Every request is handled, be it read together with others, unless the   *)
(* connection or the server ends.                                          *)
RequestsHandled ==
  \A c \in Conns :
    (asked[c] > done[c]) ~> (asked[c] = done[c] \/ state_[c] = "kDisconnected" \/ loop = "ended")

(* When the loop has ended, the publisher is stopped and main returns. *)
PublisherStops == (loop = "ended") ~> (main = "done")

(* The loop, the publisher and main never wait for each other for good:    *)
(* requests are done with, those that the rate limiter drops too,          *)
(* Subscribe gets its mutex, and the server ends.                          *)
NobodyWaitsForever == SubscribeReturns /\ RequestsHandled /\ PublisherStops
=============================================================================
