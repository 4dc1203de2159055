--------------------------- MODULE FramingProofs ---------------------------
(***************************************************************************)
(* The rate limit of Framing, the types, and that messages are delivered:  *)
(* for any protocols, streams and ways to cut them, any number of          *)
(* connections, any capacity and rate.                                     *)
(*                                                                         *)
(* The stream of a connection is given by FlattenSeq, which is recursive.  *)
(* Induction for sets of natural numbers follows from finite sets being    *)
(* well-founded (LeastOf, InductionOn); with it StreamIsWhole shows the    *)
(* one fact about streams that the rest uses: from each byte follows the   *)
(* rest of its frame, and then the next frame.  Retrieving bytes keeps it. *)
(*                                                                         *)
(* Delivery rests on OrderInv: where each protocol's parser stands in the  *)
(* stream, that no frame has arrived that it does not cope with, that the  *)
(* payloads handed on are those of the frames passed, and that a call      *)
(* returns only when the rest of a frame has not arrived.                  *)
(***************************************************************************)
EXTENDS Framing, SequenceTheorems, FiniteSetTheorems, WellFoundedInduction, TLAPS

(* What the bucket holds and what it has let through add up to no more     *)
(* than it was given: Capacity at first, and Rate for every tick that it   *)
(* has been refilled for.  The same holds since the last tick, once the    *)
(* bucket has been refilled for it.                                        *)
BucketInv ==
  /\ tokens_ \in Nat /\ last_refill_ \in Nat /\ now \in Nat
  /\ admitted \in Nat /\ burst \in Nat
  /\ last_refill_ <= now
  /\ tokens_ + admitted <= Capacity + Rate * last_refill_
  /\ tokens_ + burst <= Capacity
  /\ last_refill_ < now /\ Rate > 0 => burst = 0

(* Consume keeps it, also where the refill is cut off at the capacity. *)
LEMMA ConsumeKeeps ==
  ASSUME BucketInv, NEW passes \in BOOLEAN, Consume(passes), now' = now
  PROVE  BucketInv'
<1>1. Capacity \in Nat /\ Rate \in Nat
  BY ConstantsAssumption
<1>2. /\ tokens_ \in Nat /\ last_refill_ \in Nat /\ now \in Nat
      /\ admitted \in Nat /\ burst \in Nat /\ last_refill_ <= now
  BY DEF BucketInv
<1>3. NewTokens \in Nat /\ Rate * now \in Nat /\ Rate * last_refill_ \in Nat
  BY <1>1, <1>2 DEF NewTokens
<1>4. Rate * last_refill_ + NewTokens = Rate * now
  BY <1>1, <1>2 DEF NewTokens
<1>5. /\ Refill \in Nat /\ Refill <= Capacity
      /\ Refill <= tokens_ + NewTokens
      /\ NewTokens = 0 => Refill = tokens_
  BY <1>1, <1>2, <1>3 DEF BucketInv, Refill
<1>6. PICK k \in {0, 1} : /\ tokens_' = Refill - k /\ admitted' = admitted + k
                          /\ burst' = burst + k /\ k <= Refill
  <2>1. CASE passes
    BY <1>5, <2>1 DEF Consume
  <2>2. CASE ~passes
    BY <1>2, <1>5, <2>2 DEF Consume
  <2> QED
    BY <2>1, <2>2
<1>7. CASE NewTokens = 0
  <2>1. last_refill_' = last_refill_
    BY <1>7 DEF Consume
  <2>2. ~(last_refill_ < now /\ Rate > 0)
    <3>1. SUFFICES ASSUME last_refill_ < now, Rate > 0 PROVE FALSE
      OBVIOUS
    <3>2. now - last_refill_ \in Nat /\ now - last_refill_ >= 1
      BY <1>2, <3>1
    <3>3. (now - last_refill_) * Rate >= 1
      BY <1>1, <3>1, <3>2
    <3> QED
      BY <1>7, <3>3 DEF NewTokens
  <2> QED
    BY <1>1, <1>2, <1>3, <1>5, <1>6, <1>7, <2>1, <2>2 DEF BucketInv
<1>8. CASE NewTokens > 0
  <2>1. last_refill_' = now
    BY <1>8 DEF Consume
  <2>2. burst = 0
    <3>1. last_refill_ # now /\ Rate # 0
      BY <1>1, <1>2, <1>8 DEF NewTokens
    <3> QED
      BY <1>1, <1>2, <3>1 DEF BucketInv
  <2>3. tokens_' + admitted' <= Capacity + Rate * last_refill_'
    BY <1>1, <1>2, <1>3, <1>4, <1>5, <1>6, <2>1 DEF BucketInv
  <2> QED
    BY <1>1, <1>2, <1>3, <1>5, <1>6, <2>1, <2>2, <2>3 DEF BucketInv
<1> QED
  BY <1>3, <1>7, <1>8

(* Whatever a handler does, it touches its bucket only through Consume. *)
LEMMA HandlersConsume ==
  ASSUME NEW c \in Conns, OnMessage(c)
  PROVE  UNCHANGED limiterVars \/ \E passes \in BOOLEAN : Consume(passes)
<1>1. ASSUME NEW passes \in BOOLEAN, CheckRateLimit(passes)
      PROVE  UNCHANGED limiterVars \/ Consume(passes)
  BY <1>1 DEF CheckRateLimit
<1>2. CASE TcpOnMessage(c)
  BY <1>1, <1>2 DEF TcpOnMessage
<1>3. CASE RpcOnMessage(c) \/ GrpcOnDataReceived(c)
  BY <1>3 DEF RpcOnMessage, GrpcOnDataReceived
<1>4. CASE GrpcOnMessage(c)
  BY <1>4 DEF GrpcOnMessage
<1>5. CASE HttpOnMessage(c)
  BY <1>1, <1>5 DEF HttpOnMessage, HttpServe
<1>6. CASE WebSocketOnMessage(c)
  <2>1. CASE Upgrade(c)
    BY <2>1 DEF Upgrade
  <2>2. ASSUME NEW f, WebSocketFrame(c, f)
        PROVE  UNCHANGED limiterVars \/ \E passes \in BOOLEAN : Consume(passes)
    BY <1>1, <2>2 DEF WebSocketFrame
  <2> QED
    BY <1>6, <2>1, <2>2 DEF WebSocketOnMessage
<1>7. CASE \/ TcpOnDataReceived(c) \/ RpcOnDataReceived(c)
           \/ HttpOnDataReceived(c) \/ WebSocketOnDataReceived(c)
  BY <1>7 DEF TcpOnDataReceived, RpcOnDataReceived, HttpOnDataReceived, WebSocketOnDataReceived
<1> QED
  BY <1>2, <1>3, <1>4, <1>5, <1>6, <1>7 DEF OnMessage

(* However the connections of a handler share its token bucket, no more    *)
(* requests pass than the capacity at once, or than the capacity and the   *)
(* rate allow since the beginning.                                         *)
THEOREM RateAlwaysHeld == Spec => []RateHeld
<1>1. Init => BucketInv
  BY ConstantsAssumption DEF Init, BucketInv
<1>2. BucketInv /\ [Next]_vars => BucketInv'
  <2> SUFFICES ASSUME BucketInv, [Next]_vars PROVE BucketInv'
    OBVIOUS
  <2>1. CASE UNCHANGED <<limiterVars, now>>
    BY <2>1 DEF BucketInv, limiterVars
  <2>2. ASSUME NEW c \in Conns, OnMessage(c)
        PROVE  BucketInv'
    <3>1. now' = now
      BY <2>2 DEF OnMessage
    <3>2. UNCHANGED limiterVars \/ \E passes \in BOOLEAN : Consume(passes)
      BY <2>2, HandlersConsume
    <3> QED
      BY <2>1, <3>1, <3>2, ConsumeKeeps
  <2>3. CASE Tick
    BY <2>3, ConstantsAssumption DEF Tick, BucketInv
  <2>4. ASSUME NEW c \in Conns, OnConnection(c) \/ HandleRead(c)
        PROVE  BucketInv'
    BY <2>1, <2>4 DEF OnConnection, HandleRead
  <2> QED
    BY <2>1, <2>2, <2>3, <2>4 DEF Next, vars
<1>3. BucketInv => RateHeld
  <2> SUFFICES ASSUME BucketInv PROVE RateHeld
    OBVIOUS
  <2>1. Capacity \in Nat /\ Rate \in Nat
    BY ConstantsAssumption
  <2>2. Rate * last_refill_ <= Rate * now
    BY <2>1 DEF BucketInv
  <2>3. Rate * last_refill_ \in Nat /\ Rate * now \in Nat
    BY <2>1 DEF BucketInv
  <2> QED
    BY <2>1, <2>2, <2>3 DEF BucketInv, RateHeld
<1> QED
  BY <1>1, <1>2, <1>3, PTL DEF Spec

----------------------------------------------------------------------------
(* A set of natural numbers has a least one: the intervals below them are  *)
(* finite, and finite sets are well-founded by inclusion.                  *)
LEMMA LeastOf ==
  ASSUME NEW T \in SUBSET Nat, T # {}
  PROVE  \E n \in T : \A m \in T : n <= m
<1> DEFINE below == {0..n : n \in T}
           R == StrictSubsetOrdering(Nat)
           S == FiniteSubsetsOf(Nat)
<1>1. IsWellFoundedOn(R, S)
  BY FS_StrictSubsetOrderingWellFounded
<1>2. below \subseteq S /\ below # {}
  <2>1. \A n \in Nat : IsFiniteSet(0..n)
    BY FS_Interval
  <2>2. \A n \in T : n \in Nat /\ 0..n \in SUBSET Nat
    OBVIOUS
  <2>3. \A n \in T : 0..n \in S
    BY <2>1, <2>2 DEF FiniteSubsetsOf
  <2> QED
    BY <2>3
<1> HIDE DEF R, S
<1>3. PICK x \in below : \A y \in below : ~(<<y, x>> \in R)
  BY <1>1, <1>2, WFMin
<1>4. PICK n \in T : x = 0..n
  BY <1>3
<1>5. ASSUME NEW m \in T, m < n
      PROVE  FALSE
  <2>1. 0..m \in below
    OBVIOUS
  <2>2. 0..m \subseteq Nat /\ 0..n \subseteq Nat /\ 0..m \subseteq 0..n /\ 0..m # 0..n
    <3>1. n \in 0..n /\ n \notin 0..m
      BY <1>5
    <3> QED
      BY <1>5, <3>1
  <2>3. <<0..m, 0..n>> \in R
    BY <2>2 DEF R, StrictSubsetOrdering
  <2> QED
    BY <1>3, <1>4, <2>1, <2>3
<1> QED
  BY <1>5

(* Induction, for sets. *)
LEMMA InductionOn ==
  ASSUME NEW T, 0 \in T, \A n \in Nat : n \in T => n + 1 \in T
  PROVE  \A n \in Nat : n \in T
<1> DEFINE U == Nat \ T
<1>1. SUFFICES ASSUME U # {} PROVE FALSE
  OBVIOUS
<1>2. PICK n \in U : \A m \in U : n <= m
  BY <1>1, LeastOf
<1>3. n - 1 \in Nat /\ n - 1 \notin U
  BY <1>2
<1> QED
  BY <1>2, <1>3

(* What FlattenSeq concatenates, one sequence after the other. *)
IsFlat(g, q, n) == g = [i \in 1..n |-> IF i = 1 THEN q[i] ELSE g[i - 1] \o q[i]]

(* The element that IsFlat gives. *)
LEMMA FlatAt ==
  ASSUME NEW g, NEW q, NEW n, IsFlat(g, q, n), NEW i \in 1..n
  PROVE  g[i] = IF i = 1 THEN q[i] ELSE g[i - 1] \o q[i]
<1> DEFINE F(j) == IF j = 1 THEN q[j] ELSE g[j - 1] \o q[j]
<1>1. g = [j \in 1..n |-> F(j)]
  BY DEF IsFlat
<1> HIDE DEF F
<1>2. g[i] = F(i)
  BY <1>1
<1> QED
  BY <1>2 DEF F

(* The next element is the one before with a sequence behind it. *)
LEMMA FlatNext ==
  ASSUME NEW g, NEW q, NEW n \in Nat, IsFlat(g, q, n), NEW i \in 1..(n - 1)
  PROVE  g[i + 1] = g[i] \o q[i + 1]
<1>1. i + 1 \in 1..n /\ i + 1 # 1 /\ (i + 1) - 1 = i
  OBVIOUS
<1> DEFINE F(j) == IF j = 1 THEN q[j] ELSE g[j - 1] \o q[j]
<1>2. g = [j \in 1..n |-> F(j)]
  BY DEF IsFlat
<1> HIDE DEF F
<1>3. g[i + 1] = F(i + 1)
  BY <1>1, <1>2
<1>4. F(i + 1) = g[(i + 1) - 1] \o q[i + 1]
  BY <1>1 DEF F
<1> QED
  BY <1>1, <1>3, <1>4

(* A function as IsFlat describes exists, by induction. *)
LEMMA FlatExists ==
  ASSUME NEW q
  PROVE  \A n \in Nat : \E g : IsFlat(g, q, n)
<1> DEFINE T == {n \in Nat : \E g : IsFlat(g, q, n)}
<1>1. 0 \in T
  <2> DEFINE g == [i \in 1..0 |-> <<>>]
  <2>1. IsFlat(g, q, 0)
    BY DEF IsFlat
  <2> QED
    BY <2>1
<1>2. ASSUME NEW n \in Nat, n \in T
      PROVE  n + 1 \in T
  <2>1. PICK g : IsFlat(g, q, n)
    BY <1>2
  <2> DEFINE h == [i \in 1..(n + 1) |-> IF i <= n THEN g[i] ELSE IF i = 1 THEN q[i] ELSE g[n] \o q[i]]
  <2>2. ASSUME NEW i \in 1..(n + 1)
        PROVE  h[i] = IF i = 1 THEN q[i] ELSE h[i - 1] \o q[i]
    <3>1. CASE i = n + 1
      <4>1. i # 1 => h[i - 1] = g[n]
        BY <3>1
      <4>2. h[i] = IF i = 1 THEN q[i] ELSE g[n] \o q[i]
        BY <3>1
      <4> QED
        BY <4>1, <4>2
    <3>2. CASE i <= n
      <4>1. g[i] = IF i = 1 THEN q[i] ELSE g[i - 1] \o q[i]
        <5>1. i \in 1..n
          BY <3>2
        <5> HIDE DEF h
        <5> QED
          BY <2>1, <5>1, FlatAt
      <4>2. i # 1 => h[i - 1] = g[i - 1]
        BY <3>2
      <4>3. h[i] = g[i]
        BY <3>2
      <4> QED
        BY <4>1, <4>2, <4>3
    <3> QED
      BY <3>1, <3>2
  <2>3. IsFlat(h, q, n + 1)
    <3>1. h = [i \in 1..(n + 1) |-> h[i]]
      OBVIOUS
    <3> HIDE DEF h
    <3> QED
      BY <2>2, <3>1 DEF IsFlat
  <2> QED
    BY <2>3
<1>3. \A n \in Nat : n \in T
  <2> HIDE DEF T
  <2> QED
    BY <1>1, <1>2, InductionOn
<1> QED
  BY <1>3

(* FlattenSeq is the last of them. *)
LEMMA FlattenUnfolds ==
  ASSUME NEW q, Len(q) \in Nat, Len(q) # 0
  PROVE  \E g : IsFlat(g, q, Len(q)) /\ FlattenSeq(q) = g[Len(q)]
<1> DEFINE flat == CHOOSE g : g = [i \in 1..Len(q) |-> IF i = 1 THEN q[i] ELSE g[i - 1] \o q[i]]
<1>1. FlattenSeq(q) = flat[Len(q)]
  BY Zenon DEF FlattenSeq
<1>2. \E g : g = [i \in 1..Len(q) |-> IF i = 1 THEN q[i] ELSE g[i - 1] \o q[i]]
  BY FlatExists DEF IsFlat
<1>3. IsFlat(flat, q, Len(q))
  BY <1>2, Zenon DEF IsFlat
<1> HIDE DEF flat
<1> QED
  BY <1>1, <1>3

----------------------------------------------------------------------------
(* Frames and what is left of a stream of them. *)

FrameLen(f) == HeaderLen(f) + f.size

(* What a peer sends as a message, or besides messages. *)
LEMMA MessageFacts ==
  ASSUME NEW f \in Messages
  PROVE  /\ f.kind \in {"message"} \cup OtherKinds(protocol)
         /\ f.size \in Sizes \/ f.size \in {1, 2}
         /\ f.size \in Nat
         /\ f = [kind |-> f.kind, size |-> f.size]
         /\ f.kind = "pair" => f.size > 0
<1>1. \/ f \in [kind : {"message"}, size : Sizes]
      \/ f \in [kind : OtherKinds(protocol) \ {"pair"}, size : {1}]
      \/ f \in [kind : OtherKinds(protocol) \cap {"pair"}, size : {2}]
  BY DEF Messages
<1>2. Sizes \subseteq Nat
  BY ConstantsAssumption
<1>3. CASE f \in [kind : {"message"}, size : Sizes]
  BY <1>2, <1>3
<1>4. CASE f \in [kind : OtherKinds(protocol) \ {"pair"}, size : {1}]
  BY <1>4
<1>5. CASE f \in [kind : OtherKinds(protocol) \cap {"pair"}, size : {2}]
  BY <1>5
<1> QED
  BY <1>1, <1>3, <1>4, <1>5

(* A frame has a header, and its length is that of header and payload. *)
LEMMA FrameSizes ==
  ASSUME NEW f \in Frame
  PROVE  /\ f.size \in Nat
         /\ HeaderLen(f) \in Nat \ {0}
         /\ FrameLen(f) \in Nat \ {0}
         /\ HeaderLen(f) + f.size = FrameLen(f)
<1>1. f.size \in Nat
  <2>1. f.size \in {0} \/ f \in Messages
    BY DEF Frame, Openings
  <2> QED
    BY <2>1, MessageFacts
<1>2. HeaderLen(f) \in {1, 2, 3, HeaderBytes}
  BY DEF HeaderLen
<1>3. HeaderLen(f) \in Nat \ {0}
  BY <1>2, ConstantsAssumption
<1> QED
  BY <1>1, <1>3 DEF FrameLen

(* s is what is left of the first m frames of fr, from some byte on: from  *)
(* each byte follows the rest of its frame, and then the next frame.       *)
Follows(s, fr, m, i) ==
  LET k == s[i][1]
      p == s[i][2]
      n == FrameLen(fr[k])
  IN /\ k \in 1..m /\ p \in 1..n
     /\ i + (n - p) <= Len(s)
     /\ \A q \in p..n : s[i + (q - p)] = <<k, q>>
     /\ IF i + (n - p) = Len(s) THEN k = m ELSE s[i + (n - p) + 1] = <<k + 1, 1>>

(* Follows, with its parts given by name. *)
LEMMA FollowsIntro ==
  ASSUME NEW s, NEW fr, NEW m, NEW i, NEW k \in 1..m, NEW p \in 1..FrameLen(fr[k]),
         s[i] = <<k, p>>,
         i + (FrameLen(fr[k]) - p) <= Len(s),
         \A q \in p..FrameLen(fr[k]) : s[i + (q - p)] = <<k, q>>,
         IF i + (FrameLen(fr[k]) - p) = Len(s) THEN k = m
         ELSE s[i + (FrameLen(fr[k]) - p) + 1] = <<k + 1, 1>>
  PROVE  Follows(s, fr, m, i)
<1>1. s[i][1] = k /\ s[i][2] = p
  OBVIOUS
<1> QED
  BY <1>1 DEF Follows

Whole(s, fr, m) == \A i \in 1..Len(s) : Follows(s, fr, m, i)

(* A function on the first n numbers is a sequence. *)
LEMMA FunctionIsSeq ==
  ASSUME NEW S, NEW n \in Nat, NEW f \in [1..n -> S]
  PROVE  f \in Seq(S) /\ Len(f) = n
<1>1. f \in Seq(S)
  BY SeqDef
<1>2. DOMAIN f = 1..n /\ DOMAIN f = 1..Len(f) /\ Len(f) \in Nat
  BY <1>1, LenProperties
<1> QED
  BY <1>1, <1>2

(* A frame more. *)
LEMMA WholeGrows ==
  ASSUME NEW N \in Nat, NEW fr \in [1..N -> Frame], NEW m \in 1..(N - 1),
         NEW s \in Seq(Byte), s # <<>>, Whole(s, fr, m)
  PROVE  /\ s \o Bytes(m + 1, fr[m + 1]) \in Seq(Byte)
         /\ Whole(s \o Bytes(m + 1, fr[m + 1]), fr, m + 1)
<1> DEFINE f == fr[m + 1]
           b == Bytes(m + 1, f)
           t == s \o b
           L == FrameLen(f)
<1>1. m + 1 \in 1..N /\ f \in Frame /\ L \in Nat \ {0} /\ L = HeaderLen(f) + f.size
  BY FrameSizes
<1>2. b = [i \in 1..L |-> <<m + 1, i>>]
  BY <1>1 DEF Bytes
<1>3. b \in Seq(Byte) /\ Len(b) = L /\ \A i \in 1..L : b[i] = <<m + 1, i>>
  <2>1. \A i \in 1..L : <<m + 1, i>> \in Byte
    BY <1>1 DEF Byte
  <2>2. b \in [1..L -> Byte]
    BY <1>2, <2>1
  <2>3. \A i \in 1..L : b[i] = <<m + 1, i>>
    BY <1>2
  <2> HIDE DEF b, L
  <2>4. b \in Seq(Byte) /\ Len(b) = L
    BY <1>1, <2>2, FunctionIsSeq
  <2> QED
    BY <2>3, <2>4
<1>4. Len(s) \in Nat /\ Len(s) > 0
  BY LenProperties, EmptySeq
<1> HIDE DEF b, L
<1>5. /\ t \in Seq(Byte) /\ Len(t) = Len(s) + L
      /\ \A i \in 1..Len(s) : t[i] = s[i]
      /\ \A i \in 1..L : t[Len(s) + i] = <<m + 1, i>>
  <2>1. /\ t \in Seq(Byte) /\ Len(t) = Len(s) + Len(b)
        /\ \A i \in 1..(Len(s) + Len(b)) : t[i] = IF i <= Len(s) THEN s[i] ELSE b[i - Len(s)]
    BY <1>3, ConcatProperties
  <2>2. ASSUME NEW i \in 1..L PROVE t[Len(s) + i] = <<m + 1, i>>
    <3>1. /\ Len(s) + i \in 1..(Len(s) + Len(b)) /\ ~(Len(s) + i <= Len(s))
          /\ Len(s) + i - Len(s) = i
      BY <1>1, <1>3, <1>4
    <3>2. t[Len(s) + i] = b[Len(s) + i - Len(s)]
      BY <2>1, <3>1
    <3> QED
      BY <1>3, <3>1, <3>2
  <2>3. ASSUME NEW i \in 1..Len(s) PROVE t[i] = s[i]
    BY <1>1, <1>3, <1>4, <2>1
  <2> QED
    BY <1>3, <2>1, <2>2, <2>3
<1> HIDE DEF t
<1>6. ASSUME NEW i \in 1..Len(s) PROVE Follows(t, fr, m + 1, i)
  <2> DEFINE k == s[i][1]
             p == s[i][2]
             n == FrameLen(fr[k])
  <2>1. /\ k \in 1..m /\ p \in 1..n
        /\ i + (n - p) <= Len(s)
        /\ \A q \in p..n : s[i + (q - p)] = <<k, q>>
        /\ IF i + (n - p) = Len(s) THEN k = m ELSE s[i + (n - p) + 1] = <<k + 1, 1>>
    BY <1>6 DEF Whole, Follows
  <2>2. n \in Nat
    <3>1. k \in 1..N
      BY <2>1
    <3>2. fr[k] \in Frame
      BY <3>1
    <3> QED
      BY <3>2, FrameSizes
  <2>3. t[i] = s[i]
    BY <1>5
  <2> HIDE DEF k, p, n
  <2>4. \A q \in p..n : t[i + (q - p)] = <<k, q>>
    <3> SUFFICES ASSUME NEW q \in p..n PROVE t[i + (q - p)] = <<k, q>>
      OBVIOUS
    <3>1. i + (q - p) \in 1..Len(s)
      BY <1>4, <2>1, <2>2
    <3> QED
      BY <1>5, <2>1, <3>1
  <2>5. i + (n - p) # Len(t) /\ i + (n - p) <= Len(t)
    BY <1>1, <1>4, <1>5, <2>1, <2>2
  <2>6. t[i + (n - p) + 1] = <<k + 1, 1>>
    <3>1. CASE i + (n - p) = Len(s)
      <4>1. t[Len(s) + 1] = <<m + 1, 1>>
        BY <1>1, <1>5
      <4> QED
        BY <2>1, <3>1, <4>1
    <3>2. CASE i + (n - p) < Len(s)
      <4>1. i + (n - p) + 1 \in 1..Len(s)
        BY <1>4, <2>1, <2>2, <3>2
      <4> QED
        BY <1>5, <2>1, <3>2, <4>1
    <3>3. i + (n - p) <= Len(s) /\ i + (n - p) \in Int
      BY <1>4, <2>1, <2>2
    <3> QED
      BY <1>4, <3>1, <3>2, <3>3
  <2>7. k \in 1..(m + 1)
    BY <2>1
  <2> QED
    BY <2>1, <2>3, <2>4, <2>5, <2>6, <2>7 DEF Follows, k, p, n
<1>7. ASSUME NEW i \in 1..L PROVE Follows(t, fr, m + 1, Len(s) + i)
  <2>1. t[Len(s) + i] = <<m + 1, i>>
    BY <1>5, <1>7
  <2>2. \A q \in i..L : t[(Len(s) + i) + (q - i)] = <<m + 1, q>>
    <3> SUFFICES ASSUME NEW q \in i..L PROVE t[(Len(s) + i) + (q - i)] = <<m + 1, q>>
      OBVIOUS
    <3>1. q \in 1..L /\ (Len(s) + i) + (q - i) = Len(s) + q
      BY <1>1, <1>4
    <3> QED
      BY <1>5, <3>1
  <2>3. (Len(s) + i) + (L - i) = Len(t)
    BY <1>1, <1>4, <1>5
  <2>4. t[Len(s) + i][1] = m + 1 /\ t[Len(s) + i][2] = i /\ FrameLen(fr[m + 1]) = L
    BY <2>1 DEF L
  <2>5. m + 1 \in 1..(m + 1) /\ i \in 1..L
    OBVIOUS
  <2> QED
    BY <2>2, <2>3, <2>4, <2>5 DEF Follows
<1>8. ASSUME NEW i \in 1..Len(t) PROVE Follows(t, fr, m + 1, i)
  <2>1. CASE i <= Len(s)
    BY <1>4, <1>6, <2>1
  <2>2. CASE i > Len(s)
    <3>1. i - Len(s) \in 1..L /\ Len(s) + (i - Len(s)) = i
      BY <1>1, <1>4, <1>5, <2>2
    <3> QED
      BY <1>7, <3>1
  <2> QED
    BY <1>4, <2>1, <2>2
<1> QED
  BY <1>5, <1>8 DEF Whole, t, b

(* The bytes of a stream are whole frames from the first on. *)
LEMMA StreamIsWhole ==
  ASSUME NEW N \in Nat, NEW fr \in [1..N -> Frame]
  PROVE  /\ AllBytes(fr) \in Seq(Byte)
         /\ Whole(AllBytes(fr), fr, N)
         /\ N = 0 <=> AllBytes(fr) = <<>>
         /\ N > 0 => AllBytes(fr)[1] = <<1, 1>>
<1> DEFINE q == [k \in DOMAIN fr |-> Bytes(k, fr[k])]
<1>1. fr \in Seq(Frame) /\ Len(fr) = N /\ DOMAIN fr = 1..N
  BY FunctionIsSeq
<1>2. AllBytes(fr) = FlattenSeq(q)
  BY DEF AllBytes
<1>3. ASSUME NEW k \in 1..N
      PROVE  /\ q[k] = Bytes(k, fr[k])
             /\ q[k] \in Seq(Byte) /\ Len(q[k]) = FrameLen(fr[k])
             /\ \A i \in 1..FrameLen(fr[k]) : q[k][i] = <<k, i>>
  <2>1. q[k] = Bytes(k, fr[k])
    BY <1>1
  <2>2. fr[k] \in Frame /\ FrameLen(fr[k]) \in Nat
    BY FrameSizes
  <2>3. q[k] = [i \in 1..FrameLen(fr[k]) |-> <<k, i>>]
    BY <2>1 DEF Bytes, FrameLen
  <2>4. \A i \in 1..FrameLen(fr[k]) : <<k, i>> \in Byte
    BY <2>2 DEF Byte
  <2>5. q[k] \in [1..FrameLen(fr[k]) -> Byte]
    BY <2>3, <2>4
  <2>6. \A i \in 1..FrameLen(fr[k]) : q[k][i] = <<k, i>>
    BY <2>3
  <2> HIDE DEF q
  <2> QED
    BY <2>1, <2>2, <2>5, <2>6, FunctionIsSeq
<1>4. q \in Seq(Seq(Byte)) /\ Len(q) = N
  <2>1. q \in [1..N -> Seq(Byte)]
    BY <1>1, <1>3
  <2> HIDE DEF q
  <2> QED
    BY <2>1, FunctionIsSeq
<1>5. CASE N = 0
  <2>1. q = <<>>
    BY <1>4, <1>5, EmptySeq
  <2> HIDE DEF q
  <2>2. FlattenSeq(q) = <<>>
    BY <1>4, <1>5, <2>1 DEF FlattenSeq
  <2>3. <<>> \in Seq(Byte) /\ Len(<<>>) = 0
    BY EmptySeq
  <2> QED
    BY <1>2, <1>5, <2>2, <2>3 DEF Whole
<1>6. CASE N > 0
  <2> HIDE DEF q
  <2>1. PICK g : IsFlat(g, q, N) /\ FlattenSeq(q) = g[N]
    BY <1>4, <1>6, FlattenUnfolds
  <2> DEFINE Good(s, m) == /\ s \in Seq(Byte) /\ s # <<>> /\ Whole(s, fr, m) /\ s[1] = <<1, 1>>
             T == {m \in Nat : m + 1 \in 1..N => Good(g[m + 1], m + 1)}
  <2>2. 0 \in T
    <3>1. g[1] = q[1]
      BY <1>6, <2>1, FlatAt
    <3>2. FrameLen(fr[1]) \in Nat \ {0}
      BY <1>6, FrameSizes
    <3>3. /\ q[1] \in Seq(Byte) /\ Len(q[1]) = FrameLen(fr[1])
          /\ \A i \in 1..FrameLen(fr[1]) : q[1][i] = <<1, i>>
      BY <1>3, <1>6
    <3>4. q[1] # <<>> /\ q[1][1] = <<1, 1>>
      BY <3>2, <3>3, EmptySeq
    <3>5. ASSUME NEW i \in 1..Len(q[1]) PROVE Follows(q[1], fr, 1, i)
      <4>1. i \in 1..FrameLen(fr[1])
        BY <3>3
      <4>3. \A j \in i..FrameLen(fr[1]) : q[1][i + (j - i)] = <<1, j>>
        BY <3>2, <3>3, <4>1
      <4>4. i + (FrameLen(fr[1]) - i) = Len(q[1])
        BY <3>2, <3>3, <4>1
      <4>5. 1 \in 1..1 /\ q[1][i] = <<1, i>> /\ i + (FrameLen(fr[1]) - i) <= Len(q[1])
        BY <3>2, <3>3, <4>1, <4>4
      <4> QED
        BY <4>1, <4>3, <4>4, <4>5, FollowsIntro
    <3>6. Good(g[1], 1)
      BY <3>1, <3>3, <3>4, <3>5 DEF Whole
    <3> QED
      BY <3>6
  <2>3. ASSUME NEW m \in Nat, m \in T
        PROVE  m + 1 \in T
    <3> SUFFICES ASSUME (m + 1) + 1 \in 1..N
                 PROVE  Good(g[(m + 1) + 1], (m + 1) + 1)
      OBVIOUS
    <3> DEFINE M == m + 1
    <3>1. M \in 1..(N - 1) /\ M \in 1..N /\ M + 1 \in 1..N /\ M + 1 # 1 /\ (M + 1) - 1 = M
      OBVIOUS
    <3>2. Good(g[M], M)
      BY <2>3, <3>1
    <3> HIDE DEF M
    <3>3. g[M + 1] = g[M] \o q[M + 1]
      BY <2>1, <3>1, FlatNext
    <3>4. q[M + 1] = Bytes(M + 1, fr[M + 1]) /\ q[M + 1] \in Seq(Byte)
      BY <1>3, <3>1
    <3>5. g[M + 1] \in Seq(Byte) /\ Whole(g[M + 1], fr, M + 1)
      BY <3>1, <3>2, <3>3, <3>4, WholeGrows
    <3>6. g[M + 1] # <<>> /\ g[M + 1][1] = <<1, 1>>
      <4> DEFINE a == g[M]
                 b == q[M + 1]
                 t == g[M + 1]
      <4>1. a \in Seq(Byte) /\ a # <<>> /\ b \in Seq(Byte) /\ t = a \o b /\ a[1] = <<1, 1>>
        BY <3>2, <3>3, <3>4
      <4> HIDE DEF a, b, t
      <4>2. Len(a) \in Nat /\ Len(a) > 0 /\ Len(b) \in Nat
        BY <4>1, LenProperties, EmptySeq
      <4>3. /\ t \in Seq(Byte) /\ Len(t) = Len(a) + Len(b)
            /\ \A i \in 1..(Len(a) + Len(b)) : t[i] = IF i <= Len(a) THEN a[i] ELSE b[i - Len(a)]
        BY <4>1, ConcatProperties
      <4>4. t[1] = a[1]
        BY <4>2, <4>3
      <4>5. Len(t) # 0
        BY <4>2, <4>3
      <4>6. t # <<>> /\ t[1] = <<1, 1>>
        BY <4>1, <4>4, <4>5, EmptySeq
      <4> QED
        BY <4>6 DEF t
    <3>7. Good(g[M + 1], M + 1)
      BY <3>5, <3>6
    <3> QED
      BY <3>7 DEF M
  <2>4. \A m \in Nat : m \in T
    <3> HIDE DEF T
    <3> QED
      BY <2>2, <2>3, InductionOn
  <2>5. Good(g[N], N)
    <3>1. N - 1 \in Nat /\ (N - 1) + 1 = N /\ N \in 1..N
      BY <1>6
    <3>2. N - 1 \in T
      BY <2>4, <3>1
    <3> HIDE DEF Good
    <3>3. Good(g[(N - 1) + 1], (N - 1) + 1)
      BY <3>1, <3>2
    <3> QED
      BY <3>1, <3>3
  <2> QED
    BY <1>2, <1>6, <2>1, <2>5
<1> QED
  BY <1>5, <1>6

----------------------------------------------------------------------------
(* What is left of a sequence without its first n elements. *)
LEMMA DropFacts ==
  ASSUME NEW S, NEW s \in Seq(S), NEW n \in 0..Len(s)
  PROVE  /\ Drop(s, n) \in Seq(S)
         /\ Len(Drop(s, n)) = Len(s) - n
         /\ \A i \in 1..(Len(s) - n) : Drop(s, n)[i] = s[n + i]
         /\ n = 0 => Drop(s, n) = s
         /\ n = Len(s) => Drop(s, n) = <<>>
<1>1. Len(s) \in Nat /\ n \in Nat /\ n <= Len(s) /\ n + 1 \in Int /\ Len(s) \in Int
  BY LenProperties
<1>2. \A i \in (n + 1)..Len(s) : s[i] \in S
  BY <1>1, ElementOfSeq
<1> DEFINE t == SubSeq(s, n + 1, Len(s))
<1>3. /\ t \in Seq(S)
      /\ Len(t) = IF n + 1 <= Len(s) THEN Len(s) - (n + 1) + 1 ELSE 0
      /\ \A i \in 1..(Len(s) - (n + 1) + 1) : t[i] = s[(n + 1) + i - 1]
  BY <1>1, <1>2, SubSeqProperties
<1>4. t = Drop(s, n)
  BY DEF Drop
<1> HIDE DEF t
<1>5. Len(t) = Len(s) - n
  BY <1>1, <1>3
<1>6. ASSUME NEW i \in 1..(Len(s) - n) PROVE t[i] = s[n + i]
  <2>1. i \in 1..(Len(s) - (n + 1) + 1) /\ (n + 1) + i - 1 = n + i
    BY <1>1
  <2> QED
    BY <1>3, <2>1
<1>7. n = 0 => t = s
  <2>1. n = 0 => t = SubSeq(s, 1, Len(s))
    BY <1>1 DEF t
  <2> QED
    BY <2>1, SubSeqFull
<1>8. n = Len(s) => t = <<>>
  <2>1. n = Len(s) => Len(t) = 0
    BY <1>1, <1>5
  <2> QED
    BY <1>3, <2>1, EmptySeq
<1> QED
  BY <1>3, <1>4, <1>5, <1>6, <1>7, <1>8

(* A part of a sequence. *)
LEMMA PartFacts ==
  ASSUME NEW S, NEW s \in Seq(S), NEW m \in Nat, NEW n \in Nat, m + n <= Len(s)
  PROVE  /\ SubSeq(s, m + 1, m + n) \in Seq(S)
         /\ Len(SubSeq(s, m + 1, m + n)) = n
         /\ \A i \in 1..n : SubSeq(s, m + 1, m + n)[i] = s[m + i]
<1>1. Len(s) \in Nat /\ m + 1 \in Int /\ m + n \in Int
  BY LenProperties
<1>2. \A i \in (m + 1)..(m + n) : s[i] \in S
  BY <1>1, ElementOfSeq
<1> DEFINE t == SubSeq(s, m + 1, m + n)
<1>3. /\ t \in Seq(S)
      /\ Len(t) = IF m + 1 <= m + n THEN (m + n) - (m + 1) + 1 ELSE 0
      /\ \A i \in 1..((m + n) - (m + 1) + 1) : t[i] = s[(m + 1) + i - 1]
  BY <1>1, <1>2, SubSeqProperties
<1> HIDE DEF t
<1>4. Len(t) = n
  BY <1>3
<1>5. ASSUME NEW i \in 1..n PROVE t[i] = s[m + i]
  <2>1. i \in 1..((m + n) - (m + 1) + 1) /\ (m + 1) + i - 1 = m + i
    OBVIOUS
  <2> QED
    BY <1>3, <2>1
<1> QED
  BY <1>3, <1>4, <1>5 DEF t

(* What is left stays whole when a part of it has been read. *)
LEMMA WholeDrops ==
  ASSUME NEW N \in Nat, NEW fr \in [1..N -> Frame], NEW s \in Seq(Byte), Whole(s, fr, N),
         NEW n \in 0..Len(s)
  PROVE  Whole(Drop(s, n), fr, N)
<1> DEFINE t == Drop(s, n)
<1>1. /\ t \in Seq(Byte) /\ Len(t) = Len(s) - n
      /\ \A i \in 1..(Len(s) - n) : t[i] = s[n + i]
  BY DropFacts
<1>2. Len(s) \in Nat /\ n \in Nat
  BY LenProperties
<1> HIDE DEF t
<1>3. ASSUME NEW i \in 1..Len(t) PROVE Follows(t, fr, N, i)
  <2> DEFINE k == s[n + i][1]
             p == s[n + i][2]
             L == FrameLen(fr[k])
  <2>1. n + i \in 1..Len(s) /\ t[i] = s[n + i]
    BY <1>1, <1>2
  <2>2. /\ k \in 1..N /\ p \in 1..L
        /\ (n + i) + (L - p) <= Len(s)
        /\ \A q \in p..L : s[(n + i) + (q - p)] = <<k, q>>
        /\ IF (n + i) + (L - p) = Len(s) THEN k = N ELSE s[(n + i) + (L - p) + 1] = <<k + 1, 1>>
    BY <2>1 DEF Whole, Follows
  <2>3. L \in Nat
    BY <2>2, FrameSizes
  <2>4. s[n + i] = <<k, p>>
    BY <2>1, ElementOfSeq DEF Byte
  <2>5. L = FrameLen(fr[k])
    OBVIOUS
  <2> HIDE DEF k, p, L
  <2>6. i + (L - p) <= Len(t) /\ (i + (L - p) = Len(t) <=> (n + i) + (L - p) = Len(s))
    BY <1>1, <1>2, <2>2, <2>3
  <2>7. ASSUME NEW q \in p..L PROVE t[i + (q - p)] = <<k, q>>
    <3>1. i + (q - p) \in 1..(Len(s) - n) /\ n + (i + (q - p)) = (n + i) + (q - p)
      BY <1>1, <1>2, <2>2, <2>3
    <3> QED
      BY <1>1, <2>2, <3>1
  <2>8. ASSUME i + (L - p) # Len(t) PROVE t[i + (L - p) + 1] = <<k + 1, 1>>
    <3>1. /\ i + (L - p) + 1 \in 1..(Len(s) - n)
          /\ n + (i + (L - p) + 1) = (n + i) + (L - p) + 1
          /\ (n + i) + (L - p) # Len(s)
      <4>1. p \in 1..L /\ Len(t) = Len(s) - n
        BY <1>1, <2>2
      <4>2. i + (L - p) < Len(t)
        BY <1>2, <2>3, <2>6, <2>8, <4>1
      <4> QED
        BY <1>2, <2>3, <4>1, <4>2
    <3> QED
      BY <1>1, <2>2, <3>1
  <2> QED
    BY <2>1, <2>2, <2>4, <2>5, <2>6, <2>7, <2>8, FollowsIntro
<1> QED
  BY <1>3 DEF Whole, t

----------------------------------------------------------------------------
(* Types. *)

Left(c) == InputBuffer[c] \o wire[c]

ContextStates == {"none", "preface", "kReadingHeader", "kReadingPayload",
                  "kExpectRequestLine", "kExpectHeaders", "kExpectBody", "kDone"}
Context == [state : ContextStates, header : Frame \cup {NoHeader}, body : Seq(Byte)]
Parser  == [state : 1..4, header : [kind : {h.kind : h \in Frame \cup {NoHeader}}, size : Nat]]
States  == {"none", "kConnected", "kDisconnecting", "kDisconnected"}

(* What a connection has not retrieved is the rest of its stream, so that  *)
(* every byte names a frame: without it a header that is read would have   *)
(* no type.                                                                *)
Streaming ==
  \A c \in Conns : /\ frames[c] \in Streams(MaxFrames[c])
                   /\ Whole(Left(c), frames[c], MaxFrames[c])

TypeInv ==
  /\ TypeOK
  /\ context \in [Conns -> Context]
  /\ Streaming

(* What a handler may do to its connection, as far as types go. *)
Outcomes(c) == {state_[c]} \cup (States \ {"none"})

Moves(c) ==
  /\ \E n \in 0..Len(InputBuffer[c]) : Retrieve(c, n)
  /\ \E x \in Outcomes(c) : state_' = [state_ EXCEPT ![c] = x]
  /\ handled' = handled \/ \E x \in Seq(Byte) : handled' = [handled EXCEPT ![c] = Append(@, x)]
  /\ \E x \in SUBSET Nat : refused' = [refused EXCEPT ![c] = @ \cup x]
  /\ serving' \in {serving, NoConn}

Keeps(c) ==
  /\ \E x \in Context : context' = [context EXCEPT ![c] = x]
  /\ parser_' \in Parser
  /\ is_upgraded_' \in BOOLEAN

(* The types of what belongs to one connection. *)
LEMMA TypesOf ==
  ASSUME TypeInv, NEW c \in Conns
  PROVE  /\ InputBuffer \in [Conns -> Seq(Byte)] /\ InputBuffer[c] \in Seq(Byte)
         /\ Len(InputBuffer[c]) \in Nat
         /\ wire \in [Conns -> Seq(Byte)] /\ wire[c] \in Seq(Byte) /\ Len(wire[c]) \in Nat
         /\ state_ \in [Conns -> States] /\ state_[c] \in States
         /\ handled \in [Conns -> Seq(Seq(Byte))] /\ handled[c] \in Seq(Seq(Byte))
         /\ refused \in [Conns -> SUBSET Nat] /\ refused[c] \in SUBSET Nat
         /\ context \in [Conns -> Context] /\ context[c] \in Context
         /\ parser_ \in Parser /\ is_upgraded_ \in BOOLEAN
         /\ HeaderBytes \in Nat /\ HeaderBytes > 0
<1>1. /\ InputBuffer \in [Conns -> Seq(Byte)] /\ wire \in [Conns -> Seq(Byte)]
      /\ state_ \in [Conns -> States] /\ handled \in [Conns -> Seq(Seq(Byte))]
      /\ refused \in [Conns -> SUBSET Nat]
      /\ parser_ \in Parser /\ is_upgraded_ \in BOOLEAN
  BY DEF TypeInv, TypeOK, States, Parser
<1>2. context \in [Conns -> Context]
  BY DEF TypeInv
<1>3. HeaderBytes \in Nat /\ HeaderBytes > 0
  BY ConstantsAssumption
<1>4. InputBuffer[c] \in Seq(Byte) /\ wire[c] \in Seq(Byte)
  BY <1>1
<1> QED
  BY <1>1, <1>2, <1>3, <1>4, LenProperties

(* The first byte of a buffer that is not empty. *)
LEMMA FirstOf ==
  ASSUME TypeInv, NEW c \in Conns, Len(InputBuffer[c]) > 0
  PROVE  /\ InputBuffer[c] # <<>>
         /\ Head(InputBuffer[c]) = InputBuffer[c][1]
         /\ Head(InputBuffer[c]) \in Byte
         /\ Head(InputBuffer[c])[1] \in Nat
<1>1. InputBuffer[c] \in Seq(Byte) /\ Len(InputBuffer[c]) \in Nat
  BY TypesOf
<1>2. InputBuffer[c] # <<>>
  BY <1>1, EmptySeq
<1>3. Head(InputBuffer[c]) = InputBuffer[c][1] /\ Head(InputBuffer[c]) \in Byte
  BY <1>1, <1>2, HeadTailProperties, ElementOfSeq
<1>4. \A b \in Byte : b[1] \in Nat
  BY DEF Byte
<1> QED
  BY <1>2, <1>3, <1>4

(* A header that is read is that of a message, also where the bytes were   *)
(* written as something else.                                              *)
LEMMA HeadersAreFrames ==
  ASSUME NEW c \in Conns, NEW f \in HeaderAt(c)
  PROVE  /\ f \in Messages /\ f \in Frame /\ f.size \in Nat
         /\ f.kind = "pair" => f.size > 0
<1>1. f \in Messages
  BY DEF HeaderAt
<1>2. f \in Frame
  BY <1>1 DEF Frame
<1> QED
  BY <1>1, <1>2, MessageFacts

(* What stays as it is moves by nothing. *)
LEMMA StayingMoves ==
  ASSUME TypeInv, NEW c \in Conns
  PROVE  /\ UNCHANGED InputBuffer => \E n \in 0..Len(InputBuffer[c]) : Retrieve(c, n)
         /\ UNCHANGED state_ => \E x \in Outcomes(c) : state_' = [state_ EXCEPT ![c] = x]
         /\ UNCHANGED refused => \E x \in SUBSET Nat : refused' = [refused EXCEPT ![c] = @ \cup x]
         /\ UNCHANGED context => \E x \in Context : context' = [context EXCEPT ![c] = x]
<1>1. UNCHANGED InputBuffer => \E n \in 0..Len(InputBuffer[c]) : Retrieve(c, n)
  <2> SUFFICES ASSUME UNCHANGED InputBuffer PROVE 0 \in 0..Len(InputBuffer[c]) /\ Retrieve(c, 0)
    OBVIOUS
  <2>1. 0 \in 0..Len(InputBuffer[c]) /\ InputBuffer[c] \in Seq(Byte)
    BY TypesOf
  <2>2. Drop(InputBuffer[c], 0) = InputBuffer[c]
    BY <2>1, DropFacts
  <2> QED
    BY <2>1, <2>2, TypesOf DEF Retrieve
<1>2. UNCHANGED state_ => \E x \in Outcomes(c) : state_' = [state_ EXCEPT ![c] = x]
  <2>1. state_ = [state_ EXCEPT ![c] = state_[c]] /\ state_[c] \in Outcomes(c)
    BY TypesOf DEF Outcomes
  <2> QED
    BY <2>1
<1>3. UNCHANGED refused => \E x \in SUBSET Nat : refused' = [refused EXCEPT ![c] = @ \cup x]
  <2>1. refused = [refused EXCEPT ![c] = @ \cup {}]
    BY TypesOf
  <2> QED
    BY <2>1
<1>4. UNCHANGED context => \E x \in Context : context' = [context EXCEPT ![c] = x]
  <2>1. context = [context EXCEPT ![c] = context[c]] /\ context[c] \in Context
    BY TypesOf
  <2> QED
    BY <2>1
<1> QED
  BY <1>1, <1>2, <1>3, <1>4

(* The parts of the handlers' loops. *)
LEMMA ReturnMoves ==
  ASSUME TypeInv, NEW c \in Conns, Return \/ CloseAndReturn(c)
  PROVE  Moves(c)
<1>1. /\ UNCHANGED <<InputBuffer, handled, refused>>
      /\ serving' = NoConn
      /\ UNCHANGED state_ \/ state_' = [state_ EXCEPT ![c] = "kDisconnected"]
  BY DEF Return, CloseAndReturn
<1>2. \E x \in Outcomes(c) : state_' = [state_ EXCEPT ![c] = x]
  BY <1>1, StayingMoves DEF Outcomes, States
<1> QED
  BY <1>1, <1>2, StayingMoves DEF Moves

(* Skip keeps to its connection. *)
LEMMA SkipMoves ==
  ASSUME TypeInv, NEW c \in Conns, NEW n \in 0..Len(InputBuffer[c]), Skip(c, n)
  PROVE  Moves(c)
<1>1. Retrieve(c, n) /\ UNCHANGED <<serving, state_, handled, refused>>
  BY DEF Skip
<1> QED
  BY <1>1, StayingMoves DEF Moves

(* Serve keeps to its connection; a payload is a sequence of bytes. *)
LEMMA ServeMoves ==
  ASSUME TypeInv, NEW c \in Conns, NEW n \in 0..Len(InputBuffer[c]),
         NEW f, f.size \in Nat, f.size <= n, f.kind = "pair" => f.size > 0, Serve(c, f, n)
  PROVE  Moves(c)
<1> DEFINE z == IF f.kind = "pair" THEN f.size - 1 ELSE f.size
           x == SubSeq(InputBuffer[c], n - f.size + 1,
                       IF f.kind = "pair" THEN n - 1 ELSE n)
<1>1. /\ Retrieve(c, n) /\ UNCHANGED <<serving, refused>>
      /\ handled' = [handled EXCEPT ![c] = Append(@, x)]
      /\ UNCHANGED state_ \/ state_' = [state_ EXCEPT ![c] = "kDisconnected"]
  BY DEF Serve
<1>2. x \in Seq(Byte)
  <2> DEFINE l == Len(InputBuffer[c])
             m == n - f.size
  <2>1. InputBuffer[c] \in Seq(Byte) /\ l \in Nat /\ n \in 0..l
    BY TypesOf
  <2>2. z \in Nat /\ z <= f.size /\ m + z = IF f.kind = "pair" THEN n - 1 ELSE n
    BY <2>1
  <2>3. m \in Nat /\ m + z <= l
    BY <2>1, <2>2
  <2> HIDE DEF z, l, m
  <2>4. SubSeq(InputBuffer[c], m + 1, m + z) \in Seq(Byte)
    BY <2>1, <2>2, <2>3, PartFacts DEF l
  <2> QED
    BY <2>2, <2>4 DEF m
<1>3. \E y \in Outcomes(c) : state_' = [state_ EXCEPT ![c] = y]
  BY <1>1, StayingMoves DEF Outcomes, States
<1> HIDE DEF x
<1> QED
  BY <1>1, <1>2, <1>3, StayingMoves DEF Moves

(* Dispatch keeps to its connection. *)
LEMMA DispatchMoves ==
  ASSUME TypeInv, NEW c \in Conns, NEW n \in 0..Len(InputBuffer[c]), NEW f,
         f.size \in Nat, f.size <= n, f.kind = "pair" => f.size > 0, Dispatch(c, f, n)
  PROVE  Moves(c)
<1>1. Serve(c, f, n) \/ Skip(c, n)
  BY DEF Dispatch
<1> QED
  BY <1>1, ServeMoves, SkipMoves

(* Refuse keeps to its connection. *)
LEMMA RefuseMoves ==
  ASSUME TypeInv, NEW c \in Conns, NEW n \in 0..Len(InputBuffer[c]),
         Len(InputBuffer[c]) > 0, Refuse(c, n)
  PROVE  Moves(c)
<1>1. /\ Retrieve(c, n) /\ UNCHANGED <<serving, state_, handled>>
      /\ refused' = [refused EXCEPT ![c] = @ \cup {Head(InputBuffer[c])[1]}]
  BY DEF Refuse
<1>2. {Head(InputBuffer[c])[1]} \in SUBSET Nat
  BY FirstOf
<1> QED
  BY <1>1, <1>2, StayingMoves DEF Moves

(* End keeps to its connection. *)
LEMMA EndMoves ==
  ASSUME TypeInv, NEW c \in Conns, NEW n \in 0..Len(InputBuffer[c]),
         NEW dropped \in SUBSET Nat, End(c, n, dropped)
  PROVE  Moves(c)
<1>1. /\ Retrieve(c, n) /\ UNCHANGED handled /\ serving' = NoConn
      /\ refused' = [refused EXCEPT ![c] = @ \cup dropped]
      /\ state_' = [state_ EXCEPT ![c] = "kDisconnected"]
  BY DEF End
<1>2. "kDisconnected" \in Outcomes(c)
  BY DEF Outcomes, States
<1> QED
  BY <1>1, <1>2 DEF Moves

(* A handler without a parser of its own keeps what parsers need. *)
LEMMA ParserKeeps ==
  ASSUME TypeInv, NEW c \in Conns, UNCHANGED parserVars
  PROVE  Keeps(c)
<1>1. UNCHANGED <<context, parser_, is_upgraded_>>
  BY DEF parserVars
<1> QED
  BY <1>1, TypesOf, StayingMoves DEF Keeps

(* The bytes that a handler finds in its buffer. *)
LEMMA EnoughBytes ==
  ASSUME TypeInv, NEW c \in Conns, NEW n \in Nat, ~Short(c, n)
  PROVE  n \in 0..Len(InputBuffer[c])
  BY TypesOf DEF Short

(* Only a huge length wraps, to a byte less than the prefix. *)
LEMMA FrameEnds ==
  ASSUME NEW f \in Messages
  PROVE  /\ f.kind = "huge" => FrameEnd(f) = HeaderBytes - 1
         /\ f.kind # "huge" => FrameEnd(f) = HeaderBytes + f.size
         /\ FrameEnd(f) \in Nat
         /\ f.kind # "huge" => f.size <= FrameEnd(f)
<1>1. HeaderBytes \in Nat \ {0} /\ Wrap \in Nat /\ Sizes \subseteq Nat
  BY ConstantsAssumption
<1>2. f.size \in Nat /\ HeaderBytes + f.size < Wrap
  <2>1. f.size \in Sizes \cup {1, 2} /\ f.size \in Nat
    BY MessageFacts
  <2> QED
    BY <2>1, ConstantsAssumption
<1>3. CASE f.kind = "huge"
  <2>1. HeaderBytes + Claimed(f) = (HeaderBytes - 1) + Wrap
    BY <1>1, <1>3 DEF Claimed
  <2>2. FrameEnd(f) = HeaderBytes - 1
    BY <1>1, <1>2, <2>1 DEF FrameEnd
  <2> QED
    BY <1>1, <1>3, <2>2
<1>4. CASE f.kind # "huge"
  <2>1. Claimed(f) = f.size
    BY <1>4 DEF Claimed
  <2>2. FrameEnd(f) = HeaderBytes + f.size
    BY <1>1, <1>2, <2>1 DEF FrameEnd
  <2> QED
    BY <1>1, <1>2, <1>4, <2>2
<1> QED
  BY <1>3, <1>4

(* TcpHandler::OnMessage keeps to its connection. *)
LEMMA TcpMoves ==
  ASSUME TypeInv, NEW c \in Conns, TcpOnMessage(c)
  PROVE  Moves(c) /\ Keeps(c)
<1>1. Keeps(c)
  BY ParserKeeps DEF TcpOnMessage
<1>2. CASE Return \/ CloseAndReturn(c)
  BY <1>1, <1>2, ReturnMoves
<1>3. ASSUME NEW f \in HeaderAt(c), ~Short(c, HeaderBytes), ~Short(c, HeaderBytes + f.size),
             Dispatch(c, f, HeaderBytes + f.size) \/ Refuse(c, HeaderBytes + f.size)
      PROVE  Moves(c)
  <2>1. /\ f.size \in Nat /\ HeaderBytes \in Nat /\ HeaderBytes > 0
        /\ f.kind = "pair" => f.size > 0
    BY HeadersAreFrames, TypesOf
  <2>2. HeaderBytes + f.size \in 0..Len(InputBuffer[c]) /\ f.size <= HeaderBytes + f.size
    BY <1>3, <2>1, EnoughBytes
  <2>3. Len(InputBuffer[c]) > 0
    BY <2>1, <2>2, TypesOf
  <2>4. CASE Dispatch(c, f, HeaderBytes + f.size)
    BY <2>1, <2>2, <2>4, DispatchMoves
  <2>5. CASE Refuse(c, HeaderBytes + f.size)
    BY <2>2, <2>3, <2>5, RefuseMoves
  <2> QED
    BY <1>3, <2>4, <2>5
<1>4. \/ Return \/ CloseAndReturn(c)
      \/ /\ ~Short(c, HeaderBytes)
         /\ \E f \in HeaderAt(c) :
              /\ ~Short(c, HeaderBytes + f.size)
              /\ Dispatch(c, f, HeaderBytes + f.size) \/ Refuse(c, HeaderBytes + f.size)
  BY DEF TcpOnMessage
<1> QED
  BY <1>1, <1>2, <1>3, <1>4

(* RpcHandler::OnMessage keeps to its connection, also where the length    *)
(* wraps.                                                                  *)
LEMMA RpcMoves ==
  ASSUME TypeInv, NEW c \in Conns, RpcOnMessage(c)
  PROVE  Moves(c) /\ Keeps(c)
<1>1. Keeps(c)
  BY ParserKeeps DEF RpcOnMessage
<1>2. CASE Return
  BY <1>1, <1>2, ReturnMoves
<1>3. ASSUME NEW f \in HeaderAt(c), ~Short(c, FrameEnd(f)), Dispatch(c, f, FrameEnd(f))
      PROVE  Moves(c)
  <2>1. f.size \in Nat /\ f \in Messages /\ (f.kind = "pair" => f.size > 0)
    BY HeadersAreFrames
  <2>2. FrameEnd(f) \in 0..Len(InputBuffer[c]) /\ (f.kind # "huge" => f.size <= FrameEnd(f))
    BY <1>3, <2>1, EnoughBytes, FrameEnds
  <2>3. CASE f.kind # "huge"
    BY <1>3, <2>1, <2>2, <2>3, DispatchMoves
  <2>4. CASE f.kind = "huge"
    <3>1. Skip(c, FrameEnd(f))
      BY <1>3, <2>4 DEF Dispatch
    <3> QED
      BY <2>2, <3>1, SkipMoves
  <2> QED
    BY <2>3, <2>4
<1>4. Return \/ \E f \in HeaderAt(c) : ~Short(c, FrameEnd(f)) /\ Dispatch(c, f, FrameEnd(f))
  BY DEF RpcOnMessage
<1> QED
  BY <1>1, <1>2, <1>3, <1>4

(* The TCP and RPC clients keep to their connection. *)
LEMMA PrefixClientMoves ==
  ASSUME TypeInv, NEW c \in Conns, TcpOnDataReceived(c) \/ RpcOnDataReceived(c)
  PROVE  Moves(c) /\ Keeps(c)
<1>1. Keeps(c)
  BY ParserKeeps DEF TcpOnDataReceived, RpcOnDataReceived
<1>2. CASE Return \/ CloseAndReturn(c)
  BY <1>1, <1>2, ReturnMoves
<1>3. ASSUME NEW f \in HeaderAt(c), ~Short(c, HeaderBytes + f.size),
             Dispatch(c, f, HeaderBytes + f.size)
      PROVE  Moves(c)
  <2>1. f.size \in Nat /\ HeaderBytes \in Nat /\ (f.kind = "pair" => f.size > 0)
    BY HeadersAreFrames, TypesOf
  <2>2. HeaderBytes + f.size \in 0..Len(InputBuffer[c]) /\ f.size <= HeaderBytes + f.size
    BY <1>3, <2>1, EnoughBytes
  <2> QED
    BY <1>3, <2>1, <2>2, DispatchMoves
<1>4. ASSUME Retrieve(c, Len(InputBuffer[c])), serving' = NoConn,
             UNCHANGED <<state_, handled, refused>>
      PROVE  Moves(c)
  <2>1. Len(InputBuffer[c]) \in 0..Len(InputBuffer[c])
    BY TypesOf
  <2> QED
    BY <1>4, <2>1, StayingMoves DEF Moves
<1>5. \/ Return \/ CloseAndReturn(c)
      \/ \E f \in HeaderAt(c) :
           ~Short(c, HeaderBytes + f.size) /\ Dispatch(c, f, HeaderBytes + f.size)
      \/ /\ Retrieve(c, Len(InputBuffer[c])) /\ serving' = NoConn
         /\ UNCHANGED <<state_, handled, refused>>
  BY DEF TcpOnDataReceived, RpcOnDataReceived
<1> QED
  BY <1>1, <1>2, <1>3, <1>4, <1>5

(* Every byte that has not been retrieved belongs to a frame. *)
LEMMA StreamFacts ==
  ASSUME TypeInv, NEW c \in Conns
  PROVE  /\ MaxFrames[c] \in Nat
         /\ frames[c] \in [1..MaxFrames[c] -> Frame]
         /\ Len(frames[c]) = MaxFrames[c]
         /\ Left(c) \in Seq(Byte)
         /\ Len(Left(c)) = Len(InputBuffer[c]) + Len(wire[c])
         /\ Whole(Left(c), frames[c], MaxFrames[c])
<1>1. MaxFrames[c] \in Nat
  BY ConstantsAssumption
<1>2. frames[c] \in Streams(MaxFrames[c]) /\ Whole(Left(c), frames[c], MaxFrames[c])
  BY DEF TypeInv, Streaming
<1>3. frames[c] \in [1..MaxFrames[c] -> Frame]
  BY <1>2 DEF Streams
<1>4. Len(frames[c]) = MaxFrames[c]
  BY <1>1, <1>3, FunctionIsSeq
<1>5. Left(c) \in Seq(Byte) /\ Len(Left(c)) = Len(InputBuffer[c]) + Len(wire[c])
  BY TypesOf, ConcatProperties DEF Left
<1> QED
  BY <1>1, <1>2, <1>3, <1>4, <1>5

(* The buffer comes before the bytes that have not arrived. *)
LEMMA BufferFirst ==
  ASSUME TypeInv, NEW c \in Conns, NEW i \in 1..Len(InputBuffer[c])
  PROVE  i \in 1..Len(Left(c)) /\ Left(c)[i] = InputBuffer[c][i]
<1>1. /\ InputBuffer[c] \in Seq(Byte) /\ Len(InputBuffer[c]) \in Nat
      /\ wire[c] \in Seq(Byte) /\ Len(wire[c]) \in Nat
  BY TypesOf
<1>2. /\ Len(Left(c)) = Len(InputBuffer[c]) + Len(wire[c])
      /\ \A j \in 1..(Len(InputBuffer[c]) + Len(wire[c])) :
           Left(c)[j] = IF j <= Len(InputBuffer[c]) THEN InputBuffer[c][j]
                        ELSE wire[c][j - Len(InputBuffer[c])]
  BY <1>1, ConcatProperties DEF Left
<1>3. i \in 1..(Len(InputBuffer[c]) + Len(wire[c])) /\ i <= Len(InputBuffer[c])
  <2> DEFINE a == Len(InputBuffer[c])
             b == Len(wire[c])
  <2>1. a \in Nat /\ b \in Nat /\ i \in 1..a
    BY <1>1
  <2> HIDE DEF a, b
  <2>2. i \in 1..(a + b) /\ i <= a
    BY <2>1
  <2> QED
    BY <2>2 DEF a, b
<1>4. Left(c)[i] = InputBuffer[c][i]
  BY <1>2, <1>3
<1> QED
  BY <1>2, <1>3, <1>4

(* Each byte that is left names a frame of the stream and a place in it. *)
LEMMA BytesOfFrames ==
  ASSUME TypeInv, NEW c \in Conns, NEW i \in 1..Len(Left(c))
  PROVE  /\ Left(c)[i] \in Byte
         /\ Left(c)[i][1] \in 1..MaxFrames[c]
         /\ frames[c][Left(c)[i][1]] \in Frame
         /\ Left(c)[i][2] \in 1..FrameLen(frames[c][Left(c)[i][1]])
<1>1. Follows(Left(c), frames[c], MaxFrames[c], i)
  BY StreamFacts DEF Whole
<1>2. /\ Left(c)[i][1] \in 1..MaxFrames[c]
      /\ Left(c)[i][2] \in 1..FrameLen(frames[c][Left(c)[i][1]])
  BY <1>1 DEF Follows
<1>3. Left(c)[i] \in Byte
  BY StreamFacts, ElementOfSeq
<1> QED
  BY <1>2, <1>3, StreamFacts

(* The HTTP/2 session keeps to its connection. *)
LEMMA GrpcMoves ==
  ASSUME TypeInv, NEW c \in Conns, GrpcOnMessage(c)
  PROVE  Moves(c) /\ Keeps(c)
<1>1. parser_' \in Parser /\ is_upgraded_' \in BOOLEAN
  BY TypesOf DEF GrpcOnMessage
<1>2. HeaderBytes \in Nat /\ context[c] \in Context
  BY TypesOf
<1>3. ASSUME NEW state \in ContextStates, NEW f \in Frame \cup {NoHeader}, Goes(c, state, f)
      PROVE  \E x \in Context : context' = [context EXCEPT ![c] = x]
  <2> DEFINE x == [context[c] EXCEPT !.state = state, !.header = f]
  <2>1. x \in Context
    BY <1>2 DEF Context
  <2>2. context' = [context EXCEPT ![c] = x]
    BY <1>3, TypesOf DEF Goes
  <2> QED
    BY <2>1, <2>2
<1>4. NoHeader \in Frame \cup {NoHeader}
  OBVIOUS
<1>5. UNCHANGED context => \E x \in Context : context' = [context EXCEPT ![c] = x]
  BY StayingMoves
<1>6. CASE OnPreface(c)
  <2>1. Moves(c)
    BY <1>2, <1>6, EnoughBytes, ReturnMoves, SkipMoves DEF OnPreface
  <2>2. \E x \in Context : context' = [context EXCEPT ![c] = x]
    <3>1. UNCHANGED context \/ Goes(c, "kReadingHeader", NoHeader)
      BY <1>6 DEF OnPreface
    <3> QED
      BY <1>3, <1>4, <1>5, <3>1 DEF ContextStates
  <2> QED
    BY <1>1, <2>1, <2>2 DEF Keeps
<1>7. CASE ParseHeader(c)
  <2>1. Moves(c)
    BY <1>2, <1>7, EnoughBytes, ReturnMoves, SkipMoves DEF ParseHeader
  <2>2. \E x \in Context : context' = [context EXCEPT ![c] = x]
    <3>1. UNCHANGED context \/ \E f \in HeaderAt(c) : Goes(c, "kReadingPayload", f)
      BY <1>7 DEF ParseHeader
    <3> QED
      BY <1>3, <1>5, <3>1, HeadersAreFrames DEF ContextStates
  <2> QED
    BY <1>1, <2>1, <2>2 DEF Keeps
<1>8. CASE ParsePayload(c)
  <2> DEFINE f == context[c].header
  <2>1. f.size \in Nat /\ (f.kind = "pair" => f.size > 0)
    <3>1. f \in Frame \cup {NoHeader}
      BY <1>2 DEF Context
    <3>2. CASE f \in Openings
      <4>1. f.kind \in FirstKinds(protocol) /\ f.size = 0
        BY <3>2 DEF Openings
      <4> QED
        BY <4>1 DEF FirstKinds
    <3>3. CASE f \in Messages
      BY <3>3, MessageFacts
    <3>4. CASE f = NoHeader
      BY <3>4 DEF NoHeader
    <3> QED
      BY <3>1, <3>2, <3>3, <3>4 DEF Frame
  <2>2. Moves(c)
    <3>1. \/ Return
          \/ ~Short(c, f.size) /\ Dispatch(c, f, f.size)
      BY <1>8 DEF ParsePayload
    <3> HIDE DEF f
    <3>2. ~Short(c, f.size) => f.size \in 0..Len(InputBuffer[c]) /\ f.size <= f.size
      BY <2>1, EnoughBytes
    <3> QED
      BY <2>1, <3>1, <3>2, DispatchMoves, ReturnMoves
  <2>3. \E x \in Context : context' = [context EXCEPT ![c] = x]
    <3>1. UNCHANGED context \/ Goes(c, "kReadingHeader", NoHeader)
      BY <1>8 DEF ParsePayload
    <3> QED
      BY <1>3, <1>4, <1>5, <3>1 DEF ContextStates
  <2> QED
    BY <1>1, <2>2, <2>3 DEF Keeps
<1> QED
  BY <1>6, <1>7, <1>8 DEF GrpcOnMessage

(* HttpHandler::OnMessage keeps to its connection, and its context has its *)
(* type.                                                                   *)
LEMMA HttpMoves ==
  ASSUME TypeInv, NEW c \in Conns, HttpOnMessage(c)
  PROVE  Moves(c) /\ Keeps(c)
<1>1. parser_' \in Parser /\ is_upgraded_' \in BOOLEAN
  BY TypesOf DEF HttpOnMessage
<1>2. /\ context \in [Conns -> Context] /\ context[c] \in Context
      /\ context[c].state \in ContextStates /\ context[c].header \in Frame \cup {NoHeader}
      /\ context[c].body \in Seq(Byte)
  BY TypesOf DEF Context
<1>3. UNCHANGED context => \E x \in Context : context' = [context EXCEPT ![c] = x]
  BY StayingMoves
<1>4. CASE HttpParseLine(c)
  <2> DEFINE byte == Head(InputBuffer[c])
             f == frames[c][byte[1]]
  <2>1. CASE Return /\ UNCHANGED context
    BY <1>1, <1>3, <2>1, ReturnMoves DEF Keeps
  <2>2. CASE InputBuffer[c] # <<>> /\ Skip(c, 1)
    <3>1. InputBuffer[c] \in Seq(Byte) /\ Len(InputBuffer[c]) \in Nat /\ Len(InputBuffer[c]) > 0
      BY <2>2, TypesOf, EmptySeq
    <3>2. f \in Frame
      <4>1. 1 \in 1..Len(InputBuffer[c])
        BY <3>1
      <4>2. byte = Left(c)[1] /\ 1 \in 1..Len(Left(c))
        BY <3>1, <4>1, FirstOf, BufferFirst
      <4> QED
        BY <4>2, BytesOfFrames
    <3>3. Moves(c)
      <4>1. 1 \in 0..Len(InputBuffer[c])
        BY <3>1
      <4> QED
        BY <2>2, <4>1, SkipMoves
    <3> HIDE DEF f
    <3>4. PICK x : /\ context' = [context EXCEPT ![c] = x]
                   /\ \/ x = [context[c] EXCEPT !.state = "kExpectHeaders"]
                      \/ x = [context[c] EXCEPT !.header = f]
                      \/ x = [context[c] EXCEPT !.state = "kExpectBody"]
                      \/ x = [context[c] EXCEPT !.state = "kDone"]
      <4>1. ~(InputBuffer[c] = <<>>)
        BY <2>2
      <4> DEFINE x == CASE context[c].state = "kExpectRequestLine" ->
                             [context[c] EXCEPT !.state = "kExpectHeaders"]
                        [] context[c].state = "kExpectHeaders" /\ byte[2] < HeaderLen(f) ->
                             [context[c] EXCEPT !.header = f]
                        [] OTHER ->
                             [context[c] EXCEPT !.state = IF context[c].header # NoHeader
                                                          THEN "kExpectBody" ELSE "kDone"]
      <4>2. context' = [context EXCEPT ![c] = x]
        BY <1>2, <1>4, <4>1 DEF HttpParseLine, f
      <4>3. \/ x = [context[c] EXCEPT !.state = "kExpectHeaders"]
            \/ x = [context[c] EXCEPT !.header = f]
            \/ x = [context[c] EXCEPT !.state = "kExpectBody"]
            \/ x = [context[c] EXCEPT !.state = "kDone"]
        BY <1>2, <1>4, <4>1 DEF HttpParseLine
      <4> HIDE DEF x
      <4> QED
        BY <4>2, <4>3
    <3>5. x \in Context
      <4>1. {"kExpectHeaders", "kExpectBody", "kDone"} \subseteq ContextStates
        BY DEF ContextStates
      <4> QED
        BY <1>2, <3>2, <3>4, <4>1 DEF Context
    <3> QED
      BY <1>1, <3>3, <3>4, <3>5 DEF Keeps
  <2>3. (Return /\ UNCHANGED context) \/ (InputBuffer[c] # <<>> /\ Skip(c, 1))
    BY <1>4 DEF HttpParseLine
  <2> QED
    BY <2>1, <2>2, <2>3
<1>5. CASE HttpParseBody(c)
  <2> DEFINE size == context[c].header.size
             body == SubSeq(InputBuffer[c], 1, size)
             x == [context[c] EXCEPT !.state = "kDone", !.body = body]
  <2>1. size \in Nat
    BY <1>2, FrameSizes DEF NoHeader
  <2>2. CASE Return /\ UNCHANGED context
    BY <1>1, <1>3, <2>2, ReturnMoves DEF Keeps
  <2>3. CASE ~Short(c, size) /\ Skip(c, size) /\ context' = [context EXCEPT ![c] = x]
    <3> HIDE DEF size
    <3>1. size \in 0..Len(InputBuffer[c])
      BY <2>1, <2>3, EnoughBytes
    <3>2. body \in Seq(Byte)
      <4>1. InputBuffer[c] \in Seq(Byte) /\ 0 + size <= Len(InputBuffer[c]) /\ 0 \in Nat
        BY <2>1, <3>1, TypesOf
      <4>2. SubSeq(InputBuffer[c], 0 + 1, 0 + size) \in Seq(Byte)
        BY <2>1, <4>1, PartFacts
      <4> QED
        BY <2>1, <4>2
    <3> HIDE DEF body
    <3>3. x \in Context
      BY <1>2, <3>2 DEF Context, ContextStates
    <3> QED
      BY <1>1, <2>3, <3>1, <3>3, SkipMoves DEF Keeps
  <2>4. \/ Return /\ UNCHANGED context
        \/ ~Short(c, size) /\ Skip(c, size) /\ context' = [context EXCEPT ![c] = x]
    <3>1. context' = [context EXCEPT ![c].state = "kDone", ![c].body = body] =>
            context' = [context EXCEPT ![c] = x]
      BY <1>2
    <3> QED
      BY <1>5, <3>1 DEF HttpParseBody
  <2> QED
    BY <2>2, <2>3, <2>4
<1>6. CASE HttpServe(c)
  <2>1. /\ serving' = NoConn /\ UNCHANGED <<InputBuffer, context>>
        /\ handled' = handled \/ handled' = [handled EXCEPT ![c] = Append(@, context[c].body)]
        /\ UNCHANGED refused \/ refused' = [refused EXCEPT ![c] = @ \cup {1}]
        /\ \E x \in {"kConnected", "kDisconnecting"} : state_' = [state_ EXCEPT ![c] = x]
    BY <1>6 DEF HttpServe
  <2>2. \E x \in SUBSET Nat : refused' = [refused EXCEPT ![c] = @ \cup x]
    <3>1. {1} \in SUBSET Nat
      OBVIOUS
    <3> QED
      BY <2>1, <3>1, StayingMoves
  <2>3. \E x \in Outcomes(c) : state_' = [state_ EXCEPT ![c] = x]
    BY <2>1 DEF Outcomes, States
  <2>4. \E n \in 0..Len(InputBuffer[c]) : Retrieve(c, n)
    BY <2>1, StayingMoves
  <2> QED
    BY <1>1, <1>2, <1>3, <2>1, <2>2, <2>3, <2>4 DEF Moves, Keeps
<1> QED
  BY <1>4, <1>5, <1>6 DEF HttpOnMessage

(* The HTTP client keeps to its connection. *)
LEMMA HttpClientMoves ==
  ASSUME TypeInv, NEW c \in Conns, HttpOnDataReceived(c)
  PROVE  Moves(c) /\ Keeps(c)
<1> DEFINE buf == InputBuffer[c]
<1>1. Keeps(c)
  BY ParserKeeps DEF HttpOnDataReceived
<1>2. CASE Return \/ CloseAndReturn(c)
  BY <1>1, <1>2, ReturnMoves
<1>3. ASSUME NEW i \in DOMAIN buf, handled' = [handled EXCEPT ![c] = Append(@, Drop(buf, i))],
             Retrieve(c, Len(buf)), serving' = NoConn, UNCHANGED <<state_, refused>>
      PROVE  Moves(c)
  <2>1. buf \in Seq(Byte) /\ Len(buf) \in Nat /\ DOMAIN buf = 1..Len(buf)
    BY TypesOf, LenProperties
  <2> HIDE DEF buf
  <2>2. i \in 0..Len(buf) /\ Len(buf) \in 0..Len(buf)
    BY <2>1
  <2>3. Drop(buf, i) \in Seq(Byte)
    BY <2>1, <2>2, DropFacts
  <2>4. \E n \in 0..Len(InputBuffer[c]) : Retrieve(c, n)
    BY <1>3, <2>2 DEF buf
  <2> QED
    BY <1>3, <2>3, <2>4, StayingMoves DEF Moves
<1>4. \/ Return \/ CloseAndReturn(c)
      \/ \E i \in DOMAIN buf :
           /\ handled' = [handled EXCEPT ![c] = Append(@, Drop(buf, i))]
           /\ Retrieve(c, Len(buf)) /\ serving' = NoConn /\ UNCHANGED <<state_, refused>>
  BY DEF HttpOnDataReceived
<1> QED
  BY <1>1, <1>2, <1>3, <1>4

(* The WebSocket parser. *)
LEMMA HeadersParsed ==
  ASSUME TypeInv, NEW c \in Conns, NEW f \in ParsedHeaders(c)
  PROVE  /\ f \in [kind : {h.kind : h \in Frame \cup {NoHeader}}, size : Nat]
         /\ f.size \in Nat
<1> DEFINE Kinds == {h.kind : h \in Frame \cup {NoHeader}}
<1>1. parser_.state \in 1..4 /\ parser_.header \in [kind : Kinds, size : Nat]
  BY TypesOf DEF Parser
<1>2. ASSUME f \in HeaderAt(c) PROVE f \in [kind : Kinds, size : Nat]
  <2>1. f \in Messages /\ f \in Frame /\ f.size \in Nat
    BY <1>2, HeadersAreFrames
  <2>3. f = [kind |-> f.kind, size |-> f.size]
    BY <2>1, MessageFacts
  <2>4. f.kind \in Kinds
    BY <2>1
  <2> QED
    BY <2>1, <2>3, <2>4
<1>3. ASSUME f \in [kind : {parser_.header.kind}, size : Sizes]
      PROVE  f \in [kind : Kinds, size : Nat]
  <2>1. parser_.header.kind \in Kinds /\ Sizes \subseteq Nat
    BY <1>1, ConstantsAssumption
  <2> HIDE DEF Kinds
  <2> QED
    BY <1>3, <2>1
<1>4. \/ f \in HeaderAt(c)
      \/ f \in [kind : {parser_.header.kind}, size : Sizes]
      \/ f = parser_.header
  BY DEF ParsedHeaders
<1>5. f \in [kind : Kinds, size : Nat]
  BY <1>1, <1>2, <1>3, <1>4
<1> HIDE DEF Kinds
<1>6. f.size \in Nat
  BY <1>5
<1> QED
  BY <1>5, <1>6 DEF Kinds

(* The bytes that the parser uses for a frame include its payload. *)
LEMMA FieldsUsed ==
  ASSUME TypeInv, NEW f, f.size \in Nat, NEW last \in 1..4
  PROVE  /\ Through(last, f) \in Nat
         /\ f.size <= Through(4, f)
<1>1. parser_.state \in 1..4
  BY DEF TypeInv, TypeOK
<1>2. Field(1, f) = 1 /\ Field(2, f) \in {0, 1} /\ Field(3, f) = 1 /\ Field(4, f) = f.size
  BY DEF Field
<1> DEFINE used(l, state) == IF state \in parser_.state..l THEN Field(state, f) ELSE 0
<1>3. \A l \in 1..4, state \in 1..4 : used(l, state) \in Nat
  BY <1>1, <1>2
<1>4. used(4, 4) = f.size
  BY <1>1, <1>2
<1>5. \A l \in 1..4 : Through(l, f) = used(l, 1) + used(l, 2) + used(l, 3) + used(l, 4)
  BY DEF Through
<1> HIDE DEF used
<1> QED
  BY <1>3, <1>4, <1>5

(* A frame that is parsed, or not, keeps to its connection. *)
LEMMA FrameMoves ==
  ASSUME TypeInv, NEW c \in Conns, NEW f \in ParsedHeaders(c), WebSocketFrame(c, f),
         InputBuffer[c] # <<>>
  PROVE  Moves(c) /\ parser_' \in Parser
<1> DEFINE consumed == Through(4, f)
           number == Head(InputBuffer[c])[1]
<1>1. /\ f \in [kind : {h.kind : h \in Frame \cup {NoHeader}}, size : Nat]
      /\ f.size \in Nat
  BY HeadersParsed
<1>2. parser_.state \in 1..4
  BY TypesOf DEF Parser
<1>3. CASE Stops(c, f) # {}
  <2>1. Stops(c, f) \in SUBSET Nat /\ Stops(c, f) \subseteq 1..4
    BY <1>2 DEF Stops
  <2>2. \E s \in Stops(c, f) : \A t \in Stops(c, f) : s <= t
    BY <1>3, <2>1, LeastOf
  <2> DEFINE stop == CHOOSE s \in Stops(c, f) : \A t \in Stops(c, f) : s <= t
  <2>3. stop \in Stops(c, f)
    BY <2>2
  <2>4. parser_' = [state |-> stop, header |-> f] /\ Return
    BY <1>3, Zenon DEF WebSocketFrame
  <2> HIDE DEF stop
  <2>5. parser_' \in Parser
    BY <1>1, <2>1, <2>3, <2>4 DEF Parser
  <2> QED
    BY <2>4, <2>5, ReturnMoves
<1>4. CASE Stops(c, f) = {}
  <2>1. /\ parser_' = [state |-> 1, header |-> NoHeader]
        /\ \/ Skip(c, consumed)
           \/ f.kind = "message" /\ Serve(c, f, consumed)
           \/ End(c, consumed, {number})
           \/ End(c, consumed, {})
    BY <1>4 DEF WebSocketFrame
  <2>2. parser_' \in Parser
    <3>1. NoHeader.kind \in {h.kind : h \in Frame \cup {NoHeader}} /\ NoHeader.size \in Nat
      BY DEF NoHeader
    <3>2. NoHeader \in [kind : {h.kind : h \in Frame \cup {NoHeader}}, size : Nat]
      BY <3>1 DEF NoHeader
    <3> QED
      BY <2>1, <3>2 DEF Parser
  <2>3. consumed \in Nat /\ f.size <= consumed
    BY <1>1, FieldsUsed
  <2>4. ~Short(c, consumed)
    <3>1. 4 \in parser_.state..4
      BY <1>2
    <3> QED
      BY <1>4, <3>1 DEF Stops
  <2> HIDE DEF consumed
  <2>5. consumed \in 0..Len(InputBuffer[c])
    BY <2>3, <2>4, EnoughBytes
  <2>6. {number} \in SUBSET Nat /\ {} \in SUBSET Nat
    <3>1. Len(InputBuffer[c]) > 0
      BY TypesOf, EmptySeq
    <3> QED
      BY <3>1, FirstOf
  <2>7. CASE f.kind = "message" /\ Serve(c, f, consumed)
    BY <1>1, <2>2, <2>3, <2>5, <2>7, ServeMoves
  <2>8. CASE End(c, consumed, {number}) \/ End(c, consumed, {})
    <3> HIDE DEF number
    <3> QED
      BY <2>2, <2>5, <2>6, <2>8, EndMoves
  <2> QED
    BY <2>1, <2>2, <2>5, <2>7, <2>8, SkipMoves
<1> QED
  BY <1>3, <1>4

(* The handshake keeps to its connection. *)
LEMMA UpgradeMoves ==
  ASSUME TypeInv, NEW c \in Conns, Upgrade(c)
  PROVE  Moves(c) /\ Keeps(c)
<1> DEFINE Answer(n) == /\ is_upgraded_' = TRUE
                        /\ Retrieve(c, n)
                        /\ serving' = NoConn
                        /\ UNCHANGED <<state_, handled, refused>>
<1>1. Keeps(c)
  <2>1. UNCHANGED <<context, parser_>> /\ (is_upgraded_' = TRUE \/ UNCHANGED is_upgraded_)
    BY DEF Upgrade
  <2> QED
    BY <2>1, TypesOf, StayingMoves DEF Keeps
<1>2. ASSUME NEW n \in 0..Len(InputBuffer[c]), Answer(n) \/ End(c, n, {})
      PROVE  Moves(c)
  <2>1. CASE Answer(n)
    BY <2>1, StayingMoves DEF Moves
  <2>2. CASE End(c, n, {})
    BY <2>2, EndMoves
  <2> QED
    BY <1>2, <2>1, <2>2
<1>3. \/ Return
      \/ ~Short(c, HeaderBytes) /\ (Answer(HeaderBytes) \/ End(c, HeaderBytes, {}))
      \/ Answer(Len(InputBuffer[c])) \/ End(c, Len(InputBuffer[c]), {})
  BY DEF Upgrade
<1>4. /\ Len(InputBuffer[c]) \in 0..Len(InputBuffer[c])
      /\ ~Short(c, HeaderBytes) => HeaderBytes \in 0..Len(InputBuffer[c])
  BY TypesOf, EnoughBytes
<1> HIDE DEF Answer
<1> QED
  BY <1>1, <1>2, <1>3, <1>4, ReturnMoves

(* WebSocketHandler::OnMessage keeps to its connection. *)
LEMMA WebSocketMoves ==
  ASSUME TypeInv, NEW c \in Conns, WebSocketOnMessage(c)
  PROVE  Moves(c) /\ Keeps(c)
<1>1. CASE Upgrade(c)
  BY <1>1, UpgradeMoves
<1>2. CASE ~Upgrade(c)
  <2>1. UNCHANGED <<context, is_upgraded_>>
    BY <1>2 DEF WebSocketOnMessage
  <2>2. \/ Return /\ UNCHANGED parser_
        \/ InputBuffer[c] # <<>> /\ \E f \in ParsedHeaders(c) : WebSocketFrame(c, f)
    BY <1>2 DEF WebSocketOnMessage
  <2>3. Moves(c) /\ parser_' \in Parser
    BY <2>2, ReturnMoves, FrameMoves, TypesOf
  <2> QED
    BY <2>1, <2>3, TypesOf, StayingMoves DEF Keeps
<1> QED
  BY <1>1, <1>2

(* The WebSocket client keeps to its connection. *)
LEMMA WebSocketClientMoves ==
  ASSUME TypeInv, NEW c \in Conns, WebSocketOnDataReceived(c)
  PROVE  Moves(c) /\ Keeps(c)
<1>1. /\ UNCHANGED <<context, parser_, refused, state_>> /\ serving' = NoConn
      /\ UNCHANGED is_upgraded_ \/ is_upgraded_' \in BOOLEAN
  BY DEF WebSocketOnDataReceived
<1>2. Keeps(c)
  BY <1>1, TypesOf, StayingMoves DEF Keeps
<1>3. /\ \E n \in 0..Len(InputBuffer[c]) : Retrieve(c, n)
      /\ handled' = handled \/ \E x \in Seq(Byte) : handled' = [handled EXCEPT ![c] = Append(@, x)]
  <2>1. 0 \in 0..Len(InputBuffer[c]) /\ Len(InputBuffer[c]) \in 0..Len(InputBuffer[c])
    BY TypesOf
  <2>2. CASE UNCHANGED <<InputBuffer, handled>>
    BY <2>2, StayingMoves
  <2>3. CASE (Retrieve(c, Len(InputBuffer[c])) \/ Retrieve(c, 0)) /\ UNCHANGED handled
    BY <2>1, <2>3
  <2>4. ASSUME NEW g \in Messages, ~Short(c, 1 + g.size), Retrieve(c, 1 + g.size),
               handled' = [handled EXCEPT ![c] = Append(@, SubSeq(InputBuffer[c], 2, 1 + g.size))]
        PROVE  <1>3!:
    <3>1. g.size \in Nat
      BY FrameSizes DEF Frame
    <3>2. 1 + g.size \in 0..Len(InputBuffer[c])
      BY <2>4, <3>1, EnoughBytes
    <3>3. SubSeq(InputBuffer[c], 2, 1 + g.size) \in Seq(Byte)
      <4>1. InputBuffer[c] \in Seq(Byte) /\ 1 + g.size <= Len(InputBuffer[c]) /\ 1 \in Nat
        BY <3>2, TypesOf
      <4>2. SubSeq(InputBuffer[c], 1 + 1, 1 + g.size) \in Seq(Byte)
        BY <3>1, <4>1, PartFacts
      <4> QED
        BY <4>2
    <3> QED
      BY <2>4, <3>2, <3>3
  <2>5. \/ UNCHANGED <<InputBuffer, handled>>
        \/ (Retrieve(c, Len(InputBuffer[c])) \/ Retrieve(c, 0)) /\ UNCHANGED handled
        \/ \E g \in Messages :
             /\ ~Short(c, 1 + g.size) /\ Retrieve(c, 1 + g.size)
             /\ handled' = [handled EXCEPT ![c] = Append(@, SubSeq(InputBuffer[c], 2, 1 + g.size))]
    BY DEF WebSocketOnDataReceived
  <2> QED
    BY <2>2, <2>3, <2>4, <2>5
<1> QED
  BY <1>1, <1>2, <1>3, StayingMoves DEF Moves

(* A handler keeps the types of what it works on. *)
LEMMA HandlersMove ==
  ASSUME TypeInv, NEW c \in Conns, OnMessage(c)
  PROVE  Moves(c) /\ Keeps(c)
  BY TcpMoves, RpcMoves, PrefixClientMoves, GrpcMoves, HttpMoves, HttpClientMoves, WebSocketMoves,
     WebSocketClientMoves DEF OnMessage, GrpcOnDataReceived

(* What is left after n bytes have been retrieved. *)
LEMMA LeftDrops ==
  ASSUME TypeInv, NEW c \in Conns, NEW n \in 0..Len(InputBuffer[c]), Retrieve(c, n), wire' = wire
  PROVE  /\ InputBuffer'[c] = Drop(InputBuffer[c], n)
         /\ Left(c)' = Drop(Left(c), n)
         /\ n \in 0..Len(Left(c))
         /\ \A d \in Conns \ {c} : InputBuffer'[d] = InputBuffer[d] /\ Left(d)' = Left(d)
<1> DEFINE a == InputBuffer[c]
           b == wire[c]
           l == Left(c)
           r == Drop(a, n) \o b
           e == Drop(l, n)
<1>1. InputBuffer' = [InputBuffer EXCEPT ![c] = Drop(@, n)] /\ InputBuffer \in [Conns -> Seq(Byte)]
  BY TypesOf DEF Retrieve
<1>2. InputBuffer'[c] = Drop(a, n)
  BY <1>1
<1>3. \A d \in Conns \ {c} : InputBuffer'[d] = InputBuffer[d] /\ Left(d)' = Left(d)
  BY <1>1 DEF Left
<1>4. Left(c)' = r
  BY <1>2 DEF Left
<1>5. a \in Seq(Byte) /\ b \in Seq(Byte) /\ Len(a) \in Nat /\ Len(b) \in Nat /\ l = a \o b
  BY TypesOf DEF Left
<1>6. n \in 0..Len(a) /\ n \in Nat
  BY <1>5
<1> HIDE DEF a, b, l
<1>7. /\ l \in Seq(Byte) /\ Len(l) = Len(a) + Len(b)
      /\ \A i \in 1..(Len(a) + Len(b)) : l[i] = IF i <= Len(a) THEN a[i] ELSE b[i - Len(a)]
  BY <1>5, ConcatProperties
<1>8. n \in 0..Len(l)
  BY <1>5, <1>6, <1>7
<1>9. /\ Drop(a, n) \in Seq(Byte) /\ Len(Drop(a, n)) = Len(a) - n
      /\ \A i \in 1..(Len(a) - n) : Drop(a, n)[i] = a[n + i]
  BY <1>5, <1>6, DropFacts
<1>10. /\ e \in Seq(Byte) /\ Len(e) = Len(l) - n
       /\ \A i \in 1..(Len(l) - n) : e[i] = l[n + i]
  <2>1. l \in Seq(Byte)
    BY <1>7
  <2> QED
    BY <1>8, <2>1, DropFacts
<1>11. /\ r \in Seq(Byte) /\ Len(r) = (Len(a) - n) + Len(b)
       /\ \A i \in 1..((Len(a) - n) + Len(b)) :
            r[i] = IF i <= Len(a) - n THEN Drop(a, n)[i] ELSE b[i - (Len(a) - n)]
  <2> DEFINE x == Drop(a, n)
  <2>1. x \in Seq(Byte) /\ b \in Seq(Byte) /\ Len(x) = Len(a) - n /\ r = x \o b
    BY <1>5, <1>9
  <2> HIDE DEF x, r
  <2>2. /\ x \o b \in Seq(Byte) /\ Len(x \o b) = Len(x) + Len(b)
        /\ \A i \in 1..(Len(x) + Len(b)) : (x \o b)[i] = IF i <= Len(x) THEN x[i] ELSE b[i - Len(x)]
    BY <2>1, ConcatProperties
  <2> QED
    BY <2>1, <2>2 DEF x
<1> HIDE DEF r, e
<1>12. ASSUME NEW i \in 1..Len(e) PROVE e[i] = r[i]
  <2>1. /\ i \in 1..(Len(l) - n) /\ i \in 1..((Len(a) - n) + Len(b))
        /\ n + i \in 1..(Len(a) + Len(b))
        /\ n + i <= Len(a) <=> i <= Len(a) - n
        /\ i - (Len(a) - n) = (n + i) - Len(a)
    BY <1>5, <1>6, <1>7, <1>10
  <2>2. e[i] = IF n + i <= Len(a) THEN a[n + i] ELSE b[(n + i) - Len(a)]
    BY <1>7, <1>10, <2>1
  <2>3. CASE n + i <= Len(a)
    <3>1. i \in 1..(Len(a) - n)
      BY <1>5, <1>6, <2>1, <2>3
    <3>2. r[i] = a[n + i]
      BY <1>9, <1>11, <2>1, <2>3, <3>1
    <3> QED
      BY <2>2, <2>3, <3>2
  <2>4. CASE ~(n + i <= Len(a))
    <3>1. r[i] = b[i - (Len(a) - n)]
      BY <1>11, <2>1, <2>4
    <3> QED
      BY <2>1, <2>2, <2>4, <3>1
  <2> QED
    BY <2>3, <2>4
<1>13. Len(e) = Len(r)
  BY <1>5, <1>6, <1>7, <1>10, <1>11
<1>14. e = r
  BY <1>10, <1>11, <1>12, <1>13, SeqEqual
<1> QED
  BY <1>2, <1>3, <1>4, <1>8, <1>14 DEF a, l, e

(* The protocol does not change, and with it what frames look like. *)
LEMMA SameFrames ==
  ASSUME protocol' = protocol
  PROVE  /\ Frame' = Frame /\ Messages' = Messages
         /\ \A n : Streams(n)' = Streams(n)
         /\ \A f : HeaderLen(f)' = HeaderLen(f) /\ FrameLen(f)' = FrameLen(f)
         /\ \A s, fr, m : Whole(s, fr, m)' <=> Whole(s, fr, m)
         /\ \A k, f : Payload(k, f)' = Payload(k, f)
<1>1. Frame' = Frame /\ Openings' = Openings /\ Messages' = Messages
  BY DEF Frame, Openings, Messages, FirstKinds, OtherKinds
<1>2. \A n : Streams(n)' = Streams(n)
  BY <1>1, Zenon DEF Streams
<1>3. \A f : HeaderLen(f)' = HeaderLen(f)
  BY <1>1, Zenon DEF HeaderLen
<1>4. \A f : FrameLen(f)' = FrameLen(f)
  BY <1>3, Zenon DEF FrameLen
<1>5. \A s, fr, m : Whole(s, fr, m)' <=> Whole(s, fr, m)
  <2>1. \A s, fr, m, i : Follows(s, fr, m, i)' <=> Follows(s, fr, m, i)
    <3> SUFFICES ASSUME NEW s, NEW fr, NEW m, NEW i
                 PROVE  Follows(s, fr, m, i)' <=> Follows(s, fr, m, i)
      OBVIOUS
    <3>1. FrameLen(fr[s[i][1]])' = FrameLen(fr[s[i][1]])
      BY <1>4
    <3> QED
      BY <3>1, Zenon DEF Follows
  <2> QED
    BY <2>1, Zenon DEF Whole
<1>6. \A k, f : Payload(k, f)' = Payload(k, f)
  <2> SUFFICES ASSUME NEW k, NEW f PROVE Payload(k, f)' = Payload(k, f)
    OBVIOUS
  <2>1. HeaderLen(f)' = HeaderLen(f)
    BY <1>3
  <2> QED
    BY <2>1, Zenon DEF Payload
<1> QED
  BY <1>1, <1>2, <1>3, <1>4, <1>5, <1>6

(* The bucket never holds more than its capacity. *)
LEMMA ConsumeTypes ==
  ASSUME tokens_ \in 0..Capacity, now \in Nat, last_refill_ \in 0..now, admitted \in Nat,
         burst \in Nat, NEW passes \in BOOLEAN, Consume(passes), now' = now
  PROVE  /\ tokens_' \in 0..Capacity /\ last_refill_' \in 0..now'
         /\ admitted' \in Nat /\ burst' \in Nat
<1>1. Capacity \in Nat /\ Rate \in Nat
  BY ConstantsAssumption
<1>2. NewTokens \in Nat
  BY <1>1 DEF NewTokens
<1>3. Refill \in 0..Capacity
  BY <1>1, <1>2 DEF Refill
<1>4. last_refill_' \in 0..now'
  BY DEF Consume
<1>5. CASE passes
  <2>1. /\ Refill >= 1 /\ tokens_' = Refill - 1
        /\ admitted' = admitted + 1 /\ burst' = burst + 1
    BY <1>5 DEF Consume
  <2> QED
    BY <1>1, <1>3, <1>4, <2>1
<1>6. CASE ~passes
  <2>1. tokens_' = Refill - 0 /\ admitted' = admitted + 0 /\ burst' = burst + 0
    BY <1>6 DEF Consume
  <2> QED
    BY <1>1, <1>3, <1>4, <2>1
<1> QED
  BY <1>5, <1>6

(* The types hold at first: what is left of a stream is all of it. *)
LEMMA InitTypes == Init => TypeInv
<1> SUFFICES ASSUME Init PROVE TypeInv
  OBVIOUS
<1>1. ASSUME NEW c \in Conns
      PROVE  /\ MaxFrames[c] \in Nat
             /\ frames[c] \in Streams(MaxFrames[c])
             /\ frames[c] \in [1..MaxFrames[c] -> Frame]
             /\ frames[c] \in Seq(Frame)
             /\ wire[c] = AllBytes(frames[c]) /\ wire[c] \in Seq(Byte)
             /\ InputBuffer[c] = <<>>
             /\ Left(c) = AllBytes(frames[c])
  <2>1. MaxFrames[c] \in Nat
    BY ConstantsAssumption
  <2>2. frames[c] \in Streams(MaxFrames[c])
    BY DEF Init
  <2>3. frames[c] \in [1..MaxFrames[c] -> Frame]
    BY <2>2 DEF Streams
  <2>4. frames[c] \in Seq(Frame)
    BY <2>1, <2>3, FunctionIsSeq
  <2>5. AllBytes(frames[c]) \in Seq(Byte)
    BY <2>1, <2>3, StreamIsWhole
  <2>6. wire[c] = AllBytes(frames[c]) /\ InputBuffer[c] = <<>>
    BY DEF Init
  <2>7. <<>> \o AllBytes(frames[c]) = AllBytes(frames[c])
    BY <2>5, ConcatEmptySeq
  <2> QED
    BY <2>1, <2>2, <2>3, <2>4, <2>5, <2>6, <2>7 DEF Left
<1>2. InitialContext \in Context
  <2>1. <<>> \in Seq(Byte)
    BY EmptySeq
  <2> QED
    BY <2>1 DEF InitialContext, Context, ContextStates
<1>3. context \in [Conns -> Context] /\ \A c \in Conns : context[c] = InitialContext
  BY <1>2 DEF Init
<1>4. Streaming
  BY <1>1, StreamIsWhole DEF Streaming
<1>5. frames \in [Conns -> Seq(Frame)] /\ wire \in [Conns -> Seq(Byte)]
      /\ InputBuffer \in [Conns -> Seq(Byte)] /\ handled \in [Conns -> Seq(Seq(Byte))]
  <2>1. wire = [c \in Conns |-> wire[c]] /\ frames = [c \in Conns |-> frames[c]]
    BY DEF Init
  <2>2. <<>> \in Seq(Byte) /\ <<>> \in Seq(Seq(Byte))
    BY EmptySeq
  <2>3. InputBuffer \in [Conns -> Seq(Byte)] /\ handled \in [Conns -> Seq(Seq(Byte))]
    BY <2>2 DEF Init
  <2>4. wire \in [Conns -> Seq(Byte)]
    BY <1>1, <2>1
  <2>5. frames \in [Conns -> Seq(Frame)]
    BY <1>1, <2>1
  <2> QED
    BY <2>3, <2>4, <2>5
<1>6. parser_ \in [state : 1..4, header : [kind : {h.kind : h \in Frame \cup {NoHeader}}, size : Nat]]
  <2>1. NoHeader.kind \in {h.kind : h \in Frame \cup {NoHeader}}
    OBVIOUS
  <2>2. NoHeader \in [kind : {h.kind : h \in Frame \cup {NoHeader}}, size : Nat]
    BY <2>1 DEF NoHeader
  <2> QED
    BY <2>2 DEF Init
<1>7. \A c \in Conns :
        /\ context[c].state \in {"none", "preface", "kReadingHeader", "kReadingPayload",
                                 "kExpectRequestLine", "kExpectHeaders", "kExpectBody", "kDone"}
        /\ context[c].header \in Frame \cup {NoHeader}
        /\ context[c].body \in Seq(Byte)
  BY <1>2, <1>3 DEF Context, ContextStates
<1>8. /\ tokens_ \in 0..Capacity /\ now \in 0..MaxTicks /\ last_refill_ \in 0..now
      /\ disorder \in 0..MaxDisorder /\ admitted \in Nat /\ burst \in Nat
  BY ConstantsAssumption DEF Init
<1>9. /\ protocol \in Protocols /\ limited \in BOOLEAN /\ is_upgraded_ \in BOOLEAN
      /\ serving \in Conns \cup {NoConn} /\ refused \in [Conns -> SUBSET Nat]
      /\ state_ \in [Conns -> {"none", "kConnected", "kDisconnecting", "kDisconnected"}]
  BY DEF Init
<1>10. TypeOK
  BY <1>5, <1>6, <1>7, <1>8, <1>9 DEF TypeOK
<1> QED
  BY <1>3, <1>4, <1>10 DEF TypeInv

(* The types hold after a step that leaves the streams as they are. *)
LEMMA TypesAfter ==
  ASSUME TypeInv, UNCHANGED <<protocol, limited, frames>>,
         state_' \in [Conns -> States], wire' \in [Conns -> Seq(Byte)],
         InputBuffer' \in [Conns -> Seq(Byte)], serving' \in Conns \cup {NoConn},
         context' \in [Conns -> Context], parser_' \in Parser, is_upgraded_' \in BOOLEAN,
         tokens_' \in 0..Capacity, now' \in 0..MaxTicks, last_refill_' \in 0..now',
         handled' \in [Conns -> Seq(Seq(Byte))], refused' \in [Conns -> SUBSET Nat],
         admitted' \in Nat, burst' \in Nat, disorder' \in 0..MaxDisorder,
         \A c \in Conns : Whole(Left(c)', frames[c], MaxFrames[c])
  PROVE  TypeInv'
<1>1. Frame' = Frame /\ (\A n : Streams(n)' = Streams(n))
  BY SameFrames
<1>2. Context' = Context /\ Parser' = Parser
  BY <1>1 DEF Context, Parser
<1>3. Streaming'
  <2> SUFFICES ASSUME NEW c \in Conns
               PROVE  /\ (frames[c] \in Streams(MaxFrames[c]))'
                      /\ Whole(Left(c), frames[c], MaxFrames[c])'
    BY DEF Streaming
  <2>1. (frames[c] \in Streams(MaxFrames[c]))'
    BY <1>1 DEF TypeInv, Streaming
  <2>2. Whole(Left(c), frames[c], MaxFrames[c])'
    BY SameFrames
  <2> QED
    BY <2>1, <2>2
<1>4. context' \in [Conns -> Context']
  BY <1>2
<1>5. ASSUME NEW c \in Conns
      PROVE  /\ context'[c].state \in {"none", "preface", "kReadingHeader", "kReadingPayload",
                                       "kExpectRequestLine", "kExpectHeaders", "kExpectBody", "kDone"}
             /\ context'[c].header \in Frame' \cup {NoHeader}
             /\ context'[c].body \in Seq(Byte)
  <2>1. context'[c] \in Context
    OBVIOUS
  <2> QED
    BY <1>1, <2>1 DEF Context, ContextStates
<1>6. parser_' \in [state : 1..4,
                    header : [kind : {h.kind : h \in Frame' \cup {NoHeader}}, size : Nat]]
  BY <1>1 DEF Parser
<1>7. /\ protocol' \in Protocols /\ limited' \in BOOLEAN
      /\ frames' \in [Conns -> Seq(Frame')]
      /\ state_' \in [Conns -> {"none", "kConnected", "kDisconnecting", "kDisconnected"}]
  BY <1>1 DEF TypeInv, TypeOK, States
<1>8. TypeOK'
  BY <1>5, <1>6, <1>7 DEF TypeOK
<1> QED
  BY <1>3, <1>4, <1>8 DEF TypeInv

(* A handler's step. *)
LEMMA HandlerTypes ==
  ASSUME TypeInv, NEW c \in Conns, OnMessage(c)
  PROVE  TypeInv'
<1>1. Moves(c) /\ Keeps(c)
  BY HandlersMove
<1>2. UNCHANGED <<protocol, limited, frames, wire, now, disorder>> /\ serving = c
  BY DEF OnMessage, streamVars
<1>3. PICK n \in 0..Len(InputBuffer[c]) : Retrieve(c, n)
  BY <1>1 DEF Moves
<1>4. InputBuffer' \in [Conns -> Seq(Byte)]
  <2>1. Drop(InputBuffer[c], n) \in Seq(Byte)
    BY TypesOf, DropFacts
  <2> QED
    BY <1>3, <2>1, TypesOf DEF Retrieve
<1>5. ASSUME NEW d \in Conns PROVE Whole(Left(d)', frames[d], MaxFrames[d])
  <2>1. CASE d = c
    <3>1. Left(c)' = Drop(Left(c), n) /\ n \in 0..Len(Left(c))
      BY <1>2, <1>3, LeftDrops
    <3> QED
      BY <2>1, <3>1, StreamFacts, WholeDrops
  <2>2. CASE d # c
    <3>1. Left(d)' = Left(d)
      BY <1>2, <1>3, <2>2, LeftDrops
    <3> QED
      BY <3>1, StreamFacts
  <2> QED
    BY <2>1, <2>2
<1>6. state_' \in [Conns -> States]
  <2>1. PICK x \in Outcomes(c) : state_' = [state_ EXCEPT ![c] = x]
    BY <1>1 DEF Moves
  <2>2. x \in States
    BY TypesOf DEF Outcomes
  <2> QED
    BY <2>1, <2>2, TypesOf
<1>7. handled' \in [Conns -> Seq(Seq(Byte))]
  <2>1. \A x \in Seq(Byte) : Append(handled[c], x) \in Seq(Seq(Byte))
    BY TypesOf, AppendProperties
  <2>2. handled \in [Conns -> Seq(Seq(Byte))]
    BY TypesOf
  <2>3. ASSUME NEW x \in Seq(Byte), handled' = [handled EXCEPT ![c] = Append(@, x)]
        PROVE  handled' \in [Conns -> Seq(Seq(Byte))]
    BY <2>1, <2>2, <2>3
  <2> QED
    BY <1>1, <2>2, <2>3 DEF Moves
<1>8. refused' \in [Conns -> SUBSET Nat]
  <2>1. PICK x \in SUBSET Nat : refused' = [refused EXCEPT ![c] = @ \cup x]
    BY <1>1 DEF Moves
  <2>2. refused \in [Conns -> SUBSET Nat] /\ refused[c] \cup x \in SUBSET Nat
    BY TypesOf
  <2> QED
    BY <2>1, <2>2
<1>9. serving' \in Conns \cup {NoConn}
  BY <1>1, <1>2 DEF Moves
<1>10. context' \in [Conns -> Context] /\ parser_' \in Parser /\ is_upgraded_' \in BOOLEAN
  BY <1>1, TypesOf DEF Keeps
<1>11. /\ tokens_ \in 0..Capacity /\ now \in 0..MaxTicks /\ last_refill_ \in 0..now
       /\ admitted \in Nat /\ burst \in Nat /\ disorder \in 0..MaxDisorder
  BY DEF TypeInv, TypeOK
<1>12. /\ tokens_' \in 0..Capacity /\ last_refill_' \in 0..now' /\ admitted' \in Nat
       /\ burst' \in Nat
  <2>1. UNCHANGED limiterVars \/ \E passes \in BOOLEAN : Consume(passes)
    BY HandlersConsume
  <2>2. CASE UNCHANGED limiterVars
    BY <1>2, <1>11, <2>2 DEF limiterVars
  <2>3. ASSUME NEW passes \in BOOLEAN, Consume(passes) PROVE <1>12!:
    <3>1. now \in Nat
      BY <1>11, ConstantsAssumption
    <3> QED
      BY <1>2, <1>11, <2>3, <3>1, ConsumeTypes
  <2> QED
    BY <2>1, <2>2, <2>3
<1>13. wire' \in [Conns -> Seq(Byte)] /\ now' \in 0..MaxTicks /\ disorder' \in 0..MaxDisorder
  BY <1>2, <1>11, TypesOf
<1> QED
  BY <1>2, <1>4, <1>5, <1>6, <1>7, <1>8, <1>9, <1>10, <1>12, <1>13, TypesAfter

(* Bytes that arrive leave the stream as it is. *)
LEMMA ArrivalKeepsLeft ==
  ASSUME TypeInv, NEW c \in Conns, NEW n \in 1..Len(wire[c]),
         InputBuffer' = [InputBuffer EXCEPT ![c] = @ \o SubSeq(wire[c], 1, n)],
         wire' = [wire EXCEPT ![c] = Drop(@, n)]
  PROVE  /\ InputBuffer' \in [Conns -> Seq(Byte)] /\ wire' \in [Conns -> Seq(Byte)]
         /\ InputBuffer'[c] = InputBuffer[c] \o SubSeq(wire[c], 1, n)
         /\ Len(InputBuffer'[c]) = Len(InputBuffer[c]) + n
         /\ \A d \in Conns : Left(d)' = Left(d)
         /\ \A d \in Conns \ {c} : InputBuffer'[d] = InputBuffer[d]
<1> DEFINE a == InputBuffer[c]
           b == wire[c]
           x == SubSeq(b, 1, n)
           y == Drop(b, n)
<1>1. /\ a \in Seq(Byte) /\ b \in Seq(Byte) /\ Len(a) \in Nat /\ Len(b) \in Nat
      /\ InputBuffer \in [Conns -> Seq(Byte)] /\ wire \in [Conns -> Seq(Byte)]
  BY TypesOf
<1>2. n \in Nat /\ 0 \in Nat /\ 0 + n <= Len(b) /\ n \in 0..Len(b) /\ 0 + 1 = 1 /\ 0 + n = n
  BY <1>1
<1>3. InputBuffer'[c] = a \o x /\ wire'[c] = y
  BY <1>1
<1>4. \A d \in Conns \ {c} : InputBuffer'[d] = InputBuffer[d] /\ wire'[d] = wire[d]
  BY <1>1
<1> HIDE DEF a, b
<1>5. x \in Seq(Byte) /\ Len(x) = n /\ \A i \in 1..n : x[i] = b[0 + i]
  BY <1>1, <1>2, PartFacts
<1>6. y \in Seq(Byte) /\ Len(y) = Len(b) - n /\ \A i \in 1..(Len(b) - n) : y[i] = b[n + i]
  BY <1>1, <1>2, DropFacts
<1> HIDE DEF x, y
<1>7. a \o x \in Seq(Byte) /\ Len(a \o x) = Len(a) + n
  BY <1>1, <1>5, ConcatProperties
<1>8. x \o y = b
  <2>1. /\ x \o y \in Seq(Byte) /\ Len(x \o y) = Len(x) + Len(y)
        /\ \A i \in 1..(Len(x) + Len(y)) : (x \o y)[i] = IF i <= Len(x) THEN x[i] ELSE y[i - Len(x)]
    BY <1>5, <1>6, ConcatProperties
  <2> DEFINE z == x \o y
  <2> HIDE DEF z
  <2>2. /\ z \in Seq(Byte) /\ Len(z) = Len(b)
        /\ \A i \in 1..Len(b) : z[i] = IF i <= n THEN x[i] ELSE y[i - n]
    <3>1. Len(x) + Len(y) = Len(b) /\ Len(x) = n
      BY <1>1, <1>2, <1>5, <1>6
    <3> QED
      BY <2>1, <3>1 DEF z
  <2>3. ASSUME NEW i \in 1..Len(b) PROVE z[i] = b[i]
    <3>1. CASE i <= n
      <4>1. i \in 1..n /\ 0 + i = i
        BY <1>1, <1>2, <3>1
      <4> QED
        BY <1>5, <2>2, <3>1, <4>1
    <3>2. CASE ~(i <= n)
      <4>1. i - n \in 1..(Len(b) - n) /\ n + (i - n) = i
        BY <1>1, <1>2, <3>2
      <4> QED
        BY <1>6, <2>2, <3>2, <4>1
    <3> QED
      BY <3>1, <3>2
  <2>4. z = b
    BY <1>1, <2>2, <2>3, SeqEqual
  <2> QED
    BY <2>4 DEF z
<1>9. (a \o x) \o y = a \o b
  <2>1. a \in Seq(Byte) /\ x \in Seq(Byte) /\ y \in Seq(Byte)
    BY <1>1, <1>5, <1>6
  <2>2. (a \o x) \o y = a \o (x \o y)
    <3>1. ASSUME NEW s \in Seq(Byte), NEW t \in Seq(Byte), NEW u \in Seq(Byte)
          PROVE  (s \o t) \o u = s \o (t \o u)
      BY ConcatAssociative
    <3> QED
      BY <2>1, <3>1
  <2> QED
    BY <1>8, <2>2
<1>10. \A d \in Conns : Left(d)' = Left(d)
  <2>1. Left(c)' = Left(c)
    BY <1>3, <1>9 DEF Left, a, b
  <2>2. \A d \in Conns \ {c} : Left(d)' = Left(d)
    BY <1>4 DEF Left
  <2> QED
    BY <2>1, <2>2
<1>11. InputBuffer' \in [Conns -> Seq(Byte)] /\ wire' \in [Conns -> Seq(Byte)]
  <2>1. InputBuffer[c] \o SubSeq(wire[c], 1, n) \in Seq(Byte) /\ Drop(wire[c], n) \in Seq(Byte)
    BY <1>6, <1>7 DEF a, b, x, y
  <2> QED
    BY <1>1, <2>1
<1> QED
  BY <1>3, <1>4, <1>7, <1>10, <1>11 DEF a, x, b

(* Every step keeps the types. *)
LEMMA TypesKept == TypeInv /\ [Next]_vars => TypeInv'
<1> SUFFICES ASSUME TypeInv, [Next]_vars PROVE TypeInv'
  OBVIOUS
<1>1. /\ state_ \in [Conns -> States] /\ serving \in Conns \cup {NoConn}
      /\ wire \in [Conns -> Seq(Byte)] /\ InputBuffer \in [Conns -> Seq(Byte)]
      /\ context \in [Conns -> Context] /\ parser_ \in Parser /\ is_upgraded_ \in BOOLEAN
      /\ tokens_ \in 0..Capacity /\ now \in 0..MaxTicks /\ last_refill_ \in 0..now
      /\ handled \in [Conns -> Seq(Seq(Byte))] /\ refused \in [Conns -> SUBSET Nat]
      /\ admitted \in Nat /\ burst \in Nat /\ disorder \in 0..MaxDisorder
  BY DEF TypeInv, TypeOK, States, Parser
<1>2. ASSUME NEW fits, Notes(fits) PROVE disorder' \in 0..MaxDisorder
  BY <1>1, <1>2, ConstantsAssumption DEF Notes
<1>3. ASSUME \A c \in Conns : Left(c)' = Left(c)
      PROVE  \A c \in Conns : Whole(Left(c)', frames[c], MaxFrames[c])
  BY <1>3, StreamFacts
<1>4. ASSUME UNCHANGED <<InputBuffer, wire>>
      PROVE  \A c \in Conns : Left(c)' = Left(c)
  BY <1>4 DEF Left
<1>5. ASSUME NEW c \in Conns, OnConnection(c) PROVE TypeInv'
  <2>1. /\ state_' = [state_ EXCEPT ![c] = "kConnected"] /\ is_upgraded_' = FALSE
        /\ disorder' \in 0..MaxDisorder
        /\ UNCHANGED <<protocol, limited, frames, wire, InputBuffer, serving, context, parser_,
                       tokens_, last_refill_, admitted, burst, now, handled, refused>>
    BY <1>2, <1>5 DEF OnConnection, streamVars, limiterVars
  <2>2. state_' \in [Conns -> States]
    BY <1>1, <2>1 DEF States
  <2> QED
    BY <1>1, <1>3, <1>4, <2>1, <2>2, TypesAfter
<1>6. ASSUME NEW c \in Conns, HandleRead(c) PROVE TypeInv'
  <2>1. /\ serving' = c
        /\ disorder' \in 0..MaxDisorder
        /\ UNCHANGED <<protocol, limited, frames, state_, context, parser_, is_upgraded_,
                       tokens_, last_refill_, admitted, burst, now, handled, refused>>
    BY <1>2, <1>6 DEF HandleRead, parserVars, limiterVars
  <2>2. \E n \in 1..Len(wire[c]) :
          /\ InputBuffer' = [InputBuffer EXCEPT ![c] = @ \o SubSeq(wire[c], 1, n)]
          /\ wire' = [wire EXCEPT ![c] = Drop(@, n)]
    BY <1>6 DEF HandleRead
  <2>3. /\ InputBuffer' \in [Conns -> Seq(Byte)] /\ wire' \in [Conns -> Seq(Byte)]
        /\ \A d \in Conns : Left(d)' = Left(d)
    BY <2>2, ArrivalKeepsLeft
  <2> QED
    BY <1>1, <1>3, <2>1, <2>3, TypesAfter
<1>7. CASE Tick
  <2>1. /\ now' = now + 1 /\ now < MaxTicks /\ burst' = 0
        /\ UNCHANGED <<protocol, limited, frames, wire, state_, InputBuffer, serving, context,
                       parser_, is_upgraded_, tokens_, last_refill_, admitted, handled, refused,
                       disorder>>
    BY <1>7 DEF Tick, streamVars, parserVars
  <2>2. now' \in 0..MaxTicks /\ last_refill_' \in 0..now'
    BY <1>1, <2>1, ConstantsAssumption
  <2> QED
    BY <1>1, <1>3, <1>4, <2>1, <2>2, TypesAfter
<1>8. CASE UNCHANGED vars
  <2>1. UNCHANGED <<protocol, limited, frames, wire, state_, InputBuffer, serving, context,
                    parser_, is_upgraded_, tokens_, last_refill_, now, admitted, burst, handled,
                    refused, disorder>>
    BY <1>8 DEF vars, streamVars, parserVars, limiterVars
  <2> QED
    BY <1>1, <1>3, <1>4, <2>1, TypesAfter
<1> QED
  BY <1>5, <1>6, <1>7, <1>8, HandlerTypes DEF Next

(* Every variable keeps its type, whatever the protocol and however the    *)
(* bytes arrive: in particular each byte that a handler reads belongs to a *)
(* frame of its connection, and the bucket holds at most its capacity.     *)
THEOREM TypeCorrect == Spec => []TypeOK
<1>1. TypeInv => TypeOK
  BY DEF TypeInv
<1> QED
  BY <1>1, InitTypes, TypesKept, PTL DEF Spec

----------------------------------------------------------------------------
(* Delivery. *)

(* Where the first byte that is not retrieved belongs: the frame and the   *)
(* place in it; behind the last frame, if there is none.                   *)
Place(c) == IF Left(c) = <<>> THEN <<MaxFrames[c] + 1, 1>> ELSE Left(c)[1]

Arrived(c) == {frames[c][InputBuffer[c][i][1]] : i \in 1..Len(InputBuffer[c])}

(* What is in the buffer ends with a frame; it is one frame. *)
WholeFrames(c) ==
  InputBuffer[c] # <<>> =>
    LET b == InputBuffer[c][Len(InputBuffer[c])] IN b[2] = FrameLen(frames[c][b[1]])
OneFrame(c) ==
  /\ InputBuffer[c] # <<>>
  /\ Len(InputBuffer[c]) = FrameLen(frames[c][Place(c)[1]])

(* Where each parser stands, as long as the order is kept. *)
Prefixed == {"tcp", "rpc", "tcp_client", "rpc_client", "grpc_client"}

PrefixedInv(c) ==
  /\ Place(c)[2] = 1
  /\ protocol = "tcp_client" => \A f \in Arrived(c) : f.size <= MaxLength

EmptyPayload(c) == context[c].state = "kReadingPayload" /\ context[c].header.size = 0

GrpcInv(c) ==
  \/ context[c].state = "preface" /\ Place(c) = <<1, 1>>
  \/ context[c].state = "kReadingHeader" /\ Place(c)[2] = 1 /\ Place(c)[1] > 1
  \/ /\ context[c].state = "kReadingPayload" /\ ~EmptyPayload(c)
     /\ Place(c)[1] \in 2..MaxFrames[c] /\ Place(c)[2] = HeaderBytes + 1
     /\ context[c].header = frames[c][Place(c)[1]]
  \/ /\ EmptyPayload(c) /\ serving = c
     /\ Place(c)[1] > 2 /\ Place(c)[2] = 1
     /\ context[c].header = frames[c][Place(c)[1] - 1]

HttpInv(c) ==
  LET f == frames[c][1]
      state == context[c].state
      header == context[c].header
  IN /\ \A i \in 1..Len(InputBuffer[c]) : InputBuffer[c][i][1] = 1
     /\ \/ state = "kExpectRequestLine" /\ Place(c) = <<1, 1>> /\ header = NoHeader
        \/ state = "kExpectHeaders" /\ Place(c) = <<1, 2>> /\ header = NoHeader
        \/ state = "kExpectHeaders" /\ Place(c) = <<1, 3>> /\ header = f /\ f.size > 0
        \/ state = "kExpectBody" /\ Place(c) = <<1, 4>> /\ header = f /\ f.size > 0
        \/ /\ state = "kDone" /\ Place(c) = <<2, 1>> /\ MaxFrames[c] > 0
           /\ context[c].body = Payload(1, f)
     /\ state # "kDone" => context[c].body = <<>>

WebSocketInv(c) ==
  /\ Place(c)[2] = 1
  /\ WholeFrames(c)
  /\ \A f \in Arrived(c) : f.size <= MaxLength
  /\ serving # c /\ state_[c] = "kConnected" => InputBuffer[c] = <<>>
  /\ (serving = c \/ state_[c] = "kConnected") /\ Place(c)[1] # 1 => is_upgraded_
  /\ serving = c /\ Place(c)[1] = 1 => ~is_upgraded_ /\ OneFrame(c)
  /\ parser_ = [state |-> 1, header |-> NoHeader]

HttpClientInv(c) ==
  /\ Place(c)[2] = 1
  /\ serving # c => InputBuffer[c] = <<>>
  /\ serving = c => OneFrame(c)

WebSocketClientInv(c) ==
  /\ Place(c)[2] = 1
  /\ serving # c => InputBuffer[c] = <<>>
  /\ serving = c => OneFrame(c) /\ frames[c][Place(c)[1]].size < LongSize
  /\ state_[c] # "none" => (is_upgraded_ <=> Place(c)[1] # 1)
  /\ \A d \in Conns : state_[c] # "none" /\ state_[d] # "none" => c = d

(* No frame has arrived that handlers do not cope with. *)
Plain(c) ==
  /\ \A f \in Arrived(c) : f.kind \notin Awkward
  /\ protocol = "grpc" /\ context[c].state = "kReadingPayload" =>
       context[c].header.kind \notin Awkward

Parsing(c) ==
  /\ protocol \in Prefixed => PrefixedInv(c)
  /\ protocol = "grpc" => GrpcInv(c)
  /\ protocol = "http" => HttpInv(c)
  /\ protocol = "websocket" => WebSocketInv(c)
  /\ protocol = "http_client" => HttpClientInv(c)
  /\ protocol = "websocket_client" => WebSocketClientInv(c)

(* The frames that have been served: one whose payload is empty is not     *)
(* when its header has been retrieved, and HTTP serves when all has been.  *)
Passed(c) ==
  CASE protocol = "grpc" /\ EmptyPayload(c) -> Place(c)[1] - 2
    [] protocol = "http" /\ serving = c -> 0
    [] OTHER -> Place(c)[1] - 1

(* The messages among the first n frames that are not refused, and that    *)
(* their payloads are s.                                                   *)
Sent(fr, ref, n) == {k \in 1..n : fr[k].kind = "message" /\ k \notin ref}

Got(fr, s, set) ==
  /\ Len(s) = Cardinality(set)
  /\ \A k \in set : s[Cardinality({j \in set : j <= k})] = Payload(k, fr[k])

Served(fr, s, ref, n) == Got(fr, s, Sent(fr, ref, n)) /\ ref \subseteq 1..n

Intact(c) == Served(frames[c], handled[c], refused[c], Passed(c))

(* Between calls a buffer lacks at least a byte of its frame. *)
Waits(c) ==
  serving # c /\ state_[c] = "kConnected" /\ InputBuffer[c] # <<>> =>
    Len(InputBuffer[c]) <= FrameLen(frames[c][Place(c)[1]]) - Place(c)[2]

(* Nothing happens to a connection before it is accepted. *)
Fresh(c) ==
  state_[c] = "none" => serving # c /\ InputBuffer[c] = <<>> /\ Place(c) = <<1, 1>>

OrderOf(c) == Parsing(c) /\ Plain(c) /\ Intact(c) /\ Waits(c) /\ Fresh(c)

OrderInv == disorder = 0 => \A c \in Conns : OrderOf(c)

(* A sequence that is not empty has a first element. *)
LEMMA Nonempty ==
  ASSUME NEW S, NEW s \in Seq(S)
  PROVE  /\ Len(s) \in Nat /\ (Len(s) > 0 <=> s # <<>>)
         /\ s # <<>> => Head(s) = s[1] /\ 1 \in 1..Len(s)
<1>1. Len(s) \in Nat /\ (Len(s) = 0 <=> s = <<>>)
  BY LenProperties, EmptySeq
<1>2. s # <<>> => Head(s) = s[1]
  BY HeadTailProperties
<1> QED
  BY <1>1, <1>2

(* The place is a byte of the stream, or behind the last; FirstLeft is its *)
(* frame.                                                                  *)
LEMMA PlaceFacts ==
  ASSUME TypeInv, NEW c \in Conns
  PROVE  /\ Place(c) = <<Place(c)[1], Place(c)[2]>>
         /\ Place(c)[1] \in 1..(MaxFrames[c] + 1)
         /\ Place(c)[2] \in Nat \ {0}
         /\ FirstLeft(c) = Place(c)[1]
         /\ Left(c) = <<>> => Place(c) = <<MaxFrames[c] + 1, 1>>
         /\ Left(c) # <<>> => /\ Place(c) = Left(c)[1] /\ 1 \in 1..Len(Left(c))
                              /\ Place(c)[1] \in 1..MaxFrames[c]
                              /\ frames[c][Place(c)[1]] \in Frame
                              /\ Place(c)[2] \in 1..FrameLen(frames[c][Place(c)[1]])
<1>1. MaxFrames[c] \in Nat /\ Left(c) \in Seq(Byte) /\ Len(frames[c]) = MaxFrames[c]
  BY StreamFacts
<1>2. CASE Left(c) = <<>>
  <2>1. Place(c) = <<MaxFrames[c] + 1, 1>> /\ FirstLeft(c) = MaxFrames[c] + 1
    BY <1>1, <1>2 DEF Place, FirstLeft, Left
  <2> QED
    BY <1>1, <1>2, <2>1
<1>3. CASE Left(c) # <<>>
  <2>1. 1 \in 1..Len(Left(c))
    BY <1>1, <1>3, LenProperties, EmptySeq
  <2>2. Place(c) = Left(c)[1] /\ FirstLeft(c) = Left(c)[1][1]
    <3>1. Head(Left(c)) = Left(c)[1]
      BY <1>1, <1>3, Nonempty
    <3>2. FirstLeft(c) = IF Left(c) = <<>> THEN Len(frames[c]) + 1 ELSE Head(Left(c))[1]
      BY DEF FirstLeft, Left
    <3> QED
      BY <1>3, <3>1, <3>2 DEF Place
  <2>3. /\ Left(c)[1] \in Byte
        /\ Left(c)[1][1] \in 1..MaxFrames[c]
        /\ frames[c][Left(c)[1][1]] \in Frame
        /\ Left(c)[1][2] \in 1..FrameLen(frames[c][Left(c)[1][1]])
    BY <2>1, BytesOfFrames
  <2>4. FrameLen(frames[c][Left(c)[1][1]]) \in Nat
    BY <2>3, FrameSizes
  <2>5. \A b \in Byte : b = <<b[1], b[2]>>
    BY DEF Byte
  <2>6. Place(c)[1] \in 1..(MaxFrames[c] + 1) /\ Place(c)[2] \in Nat \ {0}
    BY <1>1, <2>2, <2>3, <2>4
  <2> QED
    BY <1>3, <2>1, <2>2, <2>3, <2>5, <2>6
<1> QED
  BY <1>2, <1>3

(* What a handler finds at the head of its buffer. *)
LEMMA BufferFacts ==
  ASSUME TypeInv, NEW c \in Conns, InputBuffer[c] # <<>>
  PROVE  /\ Left(c) # <<>> /\ Len(InputBuffer[c]) > 0
         /\ Place(c) = Left(c)[1] /\ Place(c) = InputBuffer[c][1] /\ Place(c) = Head(InputBuffer[c])
         /\ Place(c)[1] \in 1..MaxFrames[c]
         /\ frames[c][Place(c)[1]] \in Frame
         /\ FrameLen(frames[c][Place(c)[1]]) \in Nat \ {0}
         /\ Place(c)[2] \in 1..FrameLen(frames[c][Place(c)[1]])
         /\ \A i \in 1..Len(InputBuffer[c]) :
              Place(c)[2] + (i - 1) <= FrameLen(frames[c][Place(c)[1]]) =>
                InputBuffer[c][i] = <<Place(c)[1], Place(c)[2] + (i - 1)>>
<1>1. /\ InputBuffer[c] \in Seq(Byte) /\ Len(InputBuffer[c]) \in Nat /\ Len(wire[c]) \in Nat
      /\ Left(c) \in Seq(Byte) /\ Len(Left(c)) = Len(InputBuffer[c]) + Len(wire[c])
      /\ Len(InputBuffer[c]) > 0
  <2>1. InputBuffer[c] \in Seq(Byte) /\ Len(InputBuffer[c]) \in Nat /\ Len(wire[c]) \in Nat
    BY TypesOf
  <2>2. Len(InputBuffer[c]) > 0
    BY <2>1, Nonempty
  <2> QED
    BY <2>1, <2>2, StreamFacts
<1>2. Left(c) # <<>>
  <2>1. Len(Left(c)) > 0
    <3> DEFINE a == Len(InputBuffer[c])
               b == Len(wire[c])
               e == Len(Left(c))
    <3>1. a \in Nat /\ b \in Nat /\ a > 0 /\ e = a + b
      BY <1>1
    <3> HIDE DEF a, b, e
    <3>2. e > 0
      BY <3>1
    <3> QED
      BY <3>2 DEF e
  <2> QED
    BY <1>1, <2>1, Nonempty
<1>3. 1 \in 1..Len(InputBuffer[c])
  BY <1>1
<1>4. Left(c)[1] = InputBuffer[c][1] /\ Head(InputBuffer[c]) = InputBuffer[c][1]
  BY <1>1, <1>3, BufferFirst, FirstOf
<1> DEFINE k == Place(c)[1]
           p == Place(c)[2]
           L == FrameLen(frames[c][k])
<1>5. /\ Place(c) = Left(c)[1] /\ k \in 1..MaxFrames[c] /\ frames[c][k] \in Frame /\ p \in 1..L
      /\ L \in Nat \ {0}
  BY <1>2, PlaceFacts, FrameSizes
<1>6. ASSUME NEW i \in 1..Len(InputBuffer[c]), p + (i - 1) <= L
      PROVE  InputBuffer[c][i] = <<k, p + (i - 1)>>
  <2>1. Follows(Left(c), frames[c], MaxFrames[c], 1)
    BY <1>2, PlaceFacts, StreamFacts DEF Whole
  <2>2. \A q \in p..L : Left(c)[1 + (q - p)] = <<k, q>>
    BY <1>5, <2>1 DEF Follows
  <2> HIDE DEF k, p, L
  <2>3. p + (i - 1) \in p..L /\ 1 + ((p + (i - 1)) - p) = i
    BY <1>1, <1>5, <1>6
  <2>4. Left(c)[i] = <<k, p + (i - 1)>>
    BY <2>2, <2>3
  <2> QED
    BY <2>4, BufferFirst
<1> QED
  BY <1>1, <1>2, <1>4, <1>5, <1>6

(* The place after n bytes have been retrieved. *)
LEMMA PlaceStays ==
  ASSUME TypeInv, NEW c \in Conns, Left(c)' = Left(c)
  PROVE  Place(c)' = Place(c)
  BY DEF Place

(* Bytes are retrieved, and not all of the frame. *)
LEMMA PlaceMoves ==
  ASSUME TypeInv, NEW c \in Conns, NEW n \in 0..Len(InputBuffer[c]), Retrieve(c, n), wire' = wire,
         InputBuffer[c] # <<>>, n <= FrameLen(frames[c][Place(c)[1]]) - Place(c)[2]
  PROVE  Place(c)' = <<Place(c)[1], Place(c)[2] + n>>
<1> DEFINE k == Place(c)[1]
           p == Place(c)[2]
           L == FrameLen(frames[c][k])
           l == Left(c)
<1>1. l # <<>> /\ k \in 1..MaxFrames[c] /\ L \in Nat \ {0} /\ p \in 1..L /\ Place(c) = l[1]
  BY BufferFacts
<1>2. Follows(l, frames[c], MaxFrames[c], 1)
  BY <1>1, PlaceFacts, StreamFacts DEF Whole
<1>3. 1 + (L - p) <= Len(l) /\ \A q \in p..L : l[1 + (q - p)] = <<k, q>>
  BY <1>1, <1>2 DEF Follows
<1>4. Left(c)' = Drop(l, n) /\ n \in 0..Len(l) /\ l \in Seq(Byte) /\ Len(l) \in Nat /\ n \in Nat
  <2>1. l \in Seq(Byte)
    BY StreamFacts
  <2>2. Left(c)' = Drop(l, n) /\ n \in 0..Len(l)
    BY LeftDrops
  <2> HIDE DEF l
  <2> QED
    BY <2>1, <2>2, LenProperties
<1>5. n <= L - p
  OBVIOUS
<1> HIDE DEF k, p, L, l
<1>6. /\ Drop(l, n) \in Seq(Byte) /\ Len(Drop(l, n)) = Len(l) - n
      /\ \A i \in 1..(Len(l) - n) : Drop(l, n)[i] = l[n + i]
  BY <1>4, DropFacts
<1>7. 1 \in 1..(Len(l) - n) /\ p + n \in p..L /\ 1 + ((p + n) - p) = n + 1
  BY <1>1, <1>3, <1>4, <1>5
<1>8. Drop(l, n)[1] = <<k, p + n>> /\ Len(Drop(l, n)) # 0
  BY <1>3, <1>6, <1>7
<1>9. Drop(l, n) # <<>>
  BY <1>8, EmptySeq
<1>10. Place(c)' = Drop(l, n)[1]
  BY <1>4, <1>9 DEF Place
<1> QED
  BY <1>8, <1>10 DEF k, p

(* The rest of the frame is retrieved: the next frame begins. *)
LEMMA PlaceNext ==
  ASSUME TypeInv, NEW c \in Conns, NEW n \in 0..Len(InputBuffer[c]), Retrieve(c, n), wire' = wire,
         InputBuffer[c] # <<>>, n = (FrameLen(frames[c][Place(c)[1]]) - Place(c)[2]) + 1
  PROVE  Place(c)' = <<Place(c)[1] + 1, 1>>
<1> DEFINE k == Place(c)[1]
           p == Place(c)[2]
           L == FrameLen(frames[c][k])
           l == Left(c)
<1>1. l # <<>> /\ k \in 1..MaxFrames[c] /\ L \in Nat \ {0} /\ p \in 1..L /\ Place(c) = l[1]
  BY BufferFacts
<1>2. Follows(l, frames[c], MaxFrames[c], 1)
  BY <1>1, PlaceFacts, StreamFacts DEF Whole
<1>3. /\ 1 + (L - p) <= Len(l)
      /\ 1 + (L - p) = Len(l) => k = MaxFrames[c]
      /\ 1 + (L - p) # Len(l) => l[1 + (L - p) + 1] = <<k + 1, 1>>
  BY <1>1, <1>2 DEF Follows
<1>4. Left(c)' = Drop(l, n) /\ n \in 0..Len(l) /\ l \in Seq(Byte) /\ Len(l) \in Nat /\ n \in Nat
  <2>1. l \in Seq(Byte)
    BY StreamFacts
  <2>2. Left(c)' = Drop(l, n) /\ n \in 0..Len(l)
    BY LeftDrops
  <2> HIDE DEF l
  <2> QED
    BY <2>1, <2>2, LenProperties
<1>5. n = (L - p) + 1
  OBVIOUS
<1> HIDE DEF k, p, L, l
<1>6. /\ Drop(l, n) \in Seq(Byte) /\ Len(Drop(l, n)) = Len(l) - n
      /\ \A i \in 1..(Len(l) - n) : Drop(l, n)[i] = l[n + i]
  BY <1>4, DropFacts
<1>7. CASE n = Len(l)
  <2>1. k = MaxFrames[c]
    <3>1. 1 + (L - p) = n
      BY <1>1, <1>5
    <3> QED
      BY <1>3, <1>7, <3>1
  <2>2. Drop(l, n) = <<>>
    BY <1>4, <1>7, DropFacts
  <2> QED
    BY <1>4, <2>1, <2>2 DEF Place, k
<1>8. CASE n # Len(l)
  <2>1. 1 \in 1..(Len(l) - n) /\ n + 1 = 1 + (L - p) + 1 /\ 1 + (L - p) # Len(l)
    BY <1>1, <1>3, <1>4, <1>5, <1>8
  <2>2. Drop(l, n)[1] = <<k + 1, 1>> /\ Len(Drop(l, n)) # 0
    BY <1>3, <1>4, <1>6, <2>1
  <2>3. Drop(l, n) # <<>>
    BY <2>2, EmptySeq
  <2>4. Place(c)' = Drop(l, n)[1]
    BY <1>4, <2>3 DEF Place
  <2> QED
    BY <2>2, <2>4 DEF k
<1> QED
  BY <1>7, <1>8

(* The payload of a frame is the last of its bytes. *)
LEMMA PayloadFacts ==
  ASSUME NEW f \in Frame, NEW k \in Nat
  PROVE  /\ Payload(k, f) \in Seq(Byte) /\ Len(Payload(k, f)) = f.size
         /\ \A i \in 1..f.size : Payload(k, f)[i] = <<k, HeaderLen(f) + i>>
<1> DEFINE x == Payload(k, f)
<1>1. f.size \in Nat /\ HeaderLen(f) \in Nat
  BY FrameSizes
<1>2. x = [i \in 1..f.size |-> <<k, HeaderLen(f) + i>>]
  BY DEF Payload
<1>3. \A i \in 1..f.size : <<k, HeaderLen(f) + i>> \in Byte
  BY <1>1 DEF Byte
<1>4. x \in [1..f.size -> Byte]
  BY <1>2, <1>3
<1>5. \A i \in 1..f.size : x[i] = <<k, HeaderLen(f) + i>>
  BY <1>2
<1> HIDE DEF x
<1>6. x \in Seq(Byte) /\ Len(x) = f.size
  BY <1>1, <1>4, FunctionIsSeq
<1> QED
  BY <1>5, <1>6 DEF x

(* The last bytes of a frame in the buffer are its payload. *)
LEMMA PayloadRead ==
  ASSUME TypeInv, NEW c \in Conns, InputBuffer[c] # <<>>,
         NEW f, f = frames[c][Place(c)[1]], Place(c)[2] <= HeaderLen(f) + 1,
         NEW n \in 0..Len(InputBuffer[c]), n = (FrameLen(f) - Place(c)[2]) + 1
  PROVE  f.size <= n /\ SubSeq(InputBuffer[c], n - f.size + 1, n) = Payload(Place(c)[1], f)
<1> DEFINE k == Place(c)[1]
           p == Place(c)[2]
           buf == InputBuffer[c]
           H == HeaderLen(f)
           z == f.size
           m == n - z
           x == SubSeq(buf, m + 1, m + z)
           y == Payload(k, f)
<1>1. /\ k \in Nat /\ f \in Frame /\ p \in Nat /\ p >= 1
      /\ \A i \in 1..Len(buf) : p + (i - 1) <= FrameLen(f) => buf[i] = <<k, p + (i - 1)>>
  <2>1. k \in 1..MaxFrames[c] /\ MaxFrames[c] \in Nat /\ p \in 1..FrameLen(f) /\ f \in Frame
    BY BufferFacts, StreamFacts
  <2>2. \A i \in 1..Len(buf) : p + (i - 1) <= FrameLen(f) => buf[i] = <<k, p + (i - 1)>>
    BY BufferFacts
  <2>3. FrameLen(f) \in Nat
    BY <2>1, FrameSizes
  <2> HIDE DEF k, p, buf
  <2> QED
    BY <2>1, <2>2, <2>3
<1>2. z \in Nat /\ H \in Nat /\ FrameLen(f) = H + z
  BY <1>1, FrameSizes
<1>3. buf \in Seq(Byte) /\ Len(buf) \in Nat /\ n \in 0..Len(buf) /\ n = (FrameLen(f) - p) + 1
      /\ p <= H + 1
  BY TypesOf
<1>4. y \in Seq(Byte) /\ Len(y) = z /\ \A i \in 1..z : y[i] = <<k, H + i>>
  BY <1>1, PayloadFacts
<1> HIDE DEF k, p, buf, H, z, y
<1>5. m \in Nat /\ m + z = n /\ m + z <= Len(buf) /\ z <= n /\ p + m = H + 1
  <2> DEFINE w == Len(buf)
             F == FrameLen(f)
  <2>1. /\ p \in Nat /\ p >= 1 /\ z \in Nat /\ H \in Nat /\ F = H + z /\ w \in Nat
        /\ n \in 0..w /\ n = (F - p) + 1 /\ p <= H + 1
    BY <1>1, <1>2, <1>3
  <2> HIDE DEF w, F
  <2>2. m \in Nat /\ m + z = n /\ m + z <= w /\ z <= n /\ p + m = H + 1
    BY <2>1
  <2> QED
    BY <2>2 DEF w
<1>6. x \in Seq(Byte) /\ Len(x) = z /\ \A i \in 1..z : x[i] = buf[m + i]
  <2> HIDE DEF m
  <2> QED
    BY <1>2, <1>3, <1>5, PartFacts
<1> HIDE DEF x, m
<1>7. ASSUME NEW i \in 1..z PROVE x[i] = y[i]
  <2>1. /\ m + i \in 1..Len(buf) /\ p + ((m + i) - 1) = H + i
        /\ p + ((m + i) - 1) <= FrameLen(f)
    BY <1>1, <1>2, <1>3, <1>5
  <2>2. buf[m + i] = <<k, p + ((m + i) - 1)>>
    BY <1>1, <2>1
  <2> QED
    BY <1>4, <1>6, <2>1, <2>2
<1>8. x = y
  BY <1>4, <1>6, <1>7, SeqEqual
<1>9. x = SubSeq(buf, n - z + 1, n)
  BY <1>5 DEF x, m
<1> QED
  BY <1>5, <1>8, <1>9 DEF k, buf, z, y

(* Frames follow one another in their order. *)
LEMMA NumbersGrow ==
  ASSUME TypeInv, NEW c \in Conns, NEW i \in 1..Len(Left(c)), NEW j \in i..Len(Left(c))
  PROVE  Left(c)[i][1] <= Left(c)[j][1]
<1> DEFINE l == Left(c)
           T == {d \in Nat : i + d <= Len(l) => l[i][1] <= l[i + d][1]}
<1>1. Len(l) \in Nat /\ i \in Nat /\ i \in 1..Len(l) /\ j \in Nat /\ i <= j /\ j <= Len(l)
  BY StreamFacts, LenProperties
<1>2. \A e \in 1..Len(l) : l[e][1] \in Nat
  BY BytesOfFrames DEF Byte
<1>3. ASSUME NEW e \in 1..Len(l), e + 1 <= Len(l)
      PROVE  l[e][1] <= l[e + 1][1]
  <2> DEFINE k == l[e][1]
             p == l[e][2]
             L == FrameLen(frames[c][k])
  <2>1. /\ p \in 1..L
        /\ \A q \in p..L : l[e + (q - p)] = <<k, q>>
        /\ IF e + (L - p) = Len(l) THEN k = MaxFrames[c] ELSE l[e + (L - p) + 1] = <<k + 1, 1>>
    BY StreamFacts DEF Whole, Follows
  <2>2. L \in Nat /\ k \in Nat
    BY <1>2, BytesOfFrames, FrameSizes
  <2> HIDE DEF l, k, p, L
  <2>3. CASE p = L
    <3>1. e + (L - p) # Len(l) /\ e + (L - p) + 1 = e + 1
      BY <1>1, <1>3, <2>1, <2>2, <2>3
    <3>2. l[e + 1] = <<k + 1, 1>>
      BY <2>1, <3>1
    <3> QED
      BY <2>2, <3>2 DEF k
  <2>4. CASE p < L
    <3>1. p + 1 \in p..L /\ e + ((p + 1) - p) = e + 1
      BY <1>1, <2>1, <2>2, <2>4
    <3>2. l[e + 1] = <<k, p + 1>>
      BY <2>1, <3>1
    <3> QED
      BY <2>2, <3>2 DEF k
  <2> QED
    BY <2>1, <2>2, <2>3, <2>4
<1> HIDE DEF l
<1>4. 0 \in T
  BY <1>1, <1>2
<1>5. ASSUME NEW d \in Nat, d \in T PROVE d + 1 \in T
  <2> SUFFICES ASSUME i + (d + 1) <= Len(l) PROVE l[i][1] <= l[i + (d + 1)][1]
    OBVIOUS
  <2>1. /\ i + d \in 1..Len(l) /\ (i + d) + 1 <= Len(l) /\ (i + d) + 1 = i + (d + 1)
        /\ i + (d + 1) \in 1..Len(l)
    BY <1>1
  <2>2. l[i][1] <= l[i + d][1]
    BY <1>5, <2>1
  <2>3. l[i + d][1] <= l[(i + d) + 1][1]
    BY <1>3, <2>1
  <2>4. l[i][1] \in Nat /\ l[i + d][1] \in Nat /\ l[(i + d) + 1][1] \in Nat
    BY <1>1, <1>2, <2>1
  <2>5. l[i][1] <= l[(i + d) + 1][1]
    BY <2>2, <2>3, <2>4
  <2> QED
    BY <2>1, <2>5
<1>6. \A d \in Nat : d \in T
  <2> HIDE DEF T
  <2> QED
    BY <1>4, <1>5, InductionOn
<1>7. j - i \in Nat /\ i + (j - i) = j
  BY <1>1
<1>8. l[i][1] <= l[i + (j - i)][1]
  BY <1>1, <1>6, <1>7
<1> QED
  BY <1>7, <1>8 DEF l

(* One frame more: it is no message, it is refused, or its payload comes   *)
(* behind those of the others.                                             *)
LEMMA SentFacts ==
  ASSUME NEW fr, NEW ref, NEW n \in Nat
  PROVE  /\ Sent(fr, ref, n) \subseteq 1..n
         /\ IsFiniteSet(Sent(fr, ref, n)) /\ Cardinality(Sent(fr, ref, n)) \in Nat
<1>1. Sent(fr, ref, n) \subseteq 1..n /\ IsFiniteSet(1..n)
  BY FS_Interval DEF Sent
<1> QED
  BY <1>1, FS_Subset, FS_CardinalityType

(* A frame is passed that is no message or is refused: nothing more is     *)
(* expected.                                                               *)
LEMMA ServedWithout ==
  ASSUME NEW fr, NEW s, NEW ref, NEW n \in Nat, Served(fr, s, ref, n), NEW x \in SUBSET {n + 1},
         fr[n + 1].kind # "message" \/ x = {n + 1}
  PROVE  Served(fr, s, ref \cup x, n + 1)
<1>1. ref \cup x \subseteq 1..(n + 1)
  BY DEF Served
<1>2. Sent(fr, ref \cup x, n + 1) = Sent(fr, ref, n)
  <2>1. ASSUME NEW k \in 1..n PROVE k \in ref \cup x <=> k \in ref
    OBVIOUS
  <2>2. n + 1 \notin Sent(fr, ref \cup x, n + 1)
    BY DEF Sent
  <2>3. 1..(n + 1) = (1..n) \cup {n + 1}
    OBVIOUS
  <2> QED
    BY <2>1, <2>2, <2>3 DEF Sent
<1> QED
  BY <1>1, <1>2 DEF Served

(* A message is passed, and its payload is the next that the handler gets. *)
LEMMA ServedWith ==
  ASSUME NEW fr, NEW s \in Seq(Seq(Byte)), NEW ref, NEW n \in Nat, Served(fr, s, ref, n),
         fr[n + 1].kind = "message", NEW x \in Seq(Byte), x = Payload(n + 1, fr[n + 1])
  PROVE  Served(fr, Append(s, x), ref, n + 1)
<1> DEFINE A == Sent(fr, ref, n)
           B == Sent(fr, ref, n + 1)
           Rank(set, k) == {j \in set : j <= k}
<1>1. /\ A \subseteq 1..n /\ IsFiniteSet(A) /\ Cardinality(A) \in Nat
      /\ B \subseteq 1..(n + 1) /\ IsFiniteSet(B)
  <2>1. n + 1 \in Nat
    OBVIOUS
  <2> QED
    BY <2>1, SentFacts
<1>2. ref \subseteq 1..n /\ Got(fr, s, A)
  BY DEF Served
<1>3. B = A \cup {n + 1} /\ n + 1 \notin A
  <2>1. 1..(n + 1) = (1..n) \cup {n + 1} /\ n + 1 \notin 1..n
    OBVIOUS
  <2>2. n + 1 \notin ref
    BY <1>2, <2>1
  <2> QED
    BY <2>1, <2>2 DEF Sent
<1> HIDE DEF A, B
<1>4. Cardinality(B) = Cardinality(A) + 1
  BY <1>1, <1>3, FS_AddElement
<1>5. /\ Len(s) = Cardinality(A)
      /\ Append(s, x) \in Seq(Seq(Byte)) /\ Len(Append(s, x)) = Len(s) + 1
      /\ \A i \in 1..Len(s) : Append(s, x)[i] = s[i]
      /\ Append(s, x)[Len(s) + 1] = x
  BY <1>2, AppendProperties DEF Got
<1>6. ASSUME NEW k \in A
      PROVE  Append(s, x)[Cardinality(Rank(B, k))] = Payload(k, fr[k])
  <2>1. k \in 1..n
    BY <1>1
  <2>2. Rank(B, k) = Rank(A, k)
    BY <1>3, <2>1
  <2>3. Rank(A, k) \subseteq A /\ k \in Rank(A, k)
    BY <2>1
  <2>4. IsFiniteSet(Rank(A, k)) /\ Cardinality(Rank(A, k)) <= Cardinality(A)
    BY <1>1, <2>3, FS_Subset
  <2>5. Cardinality(Rank(A, k)) \in Nat /\ Cardinality(Rank(A, k)) # 0
    BY <2>3, <2>4, FS_CardinalityType, FS_EmptySet
  <2>6. s[Cardinality(Rank(A, k))] = Payload(k, fr[k])
    BY <1>2 DEF Got
  <2> DEFINE r == Cardinality(Rank(A, k))
  <2>7. r \in Nat /\ r # 0 /\ r <= Len(s) /\ s[r] = Payload(k, fr[k])
    BY <1>5, <2>4, <2>5, <2>6
  <2>8. Cardinality(Rank(B, k)) = r
    BY <2>2
  <2> HIDE DEF r, Rank
  <2>9. r \in 1..Len(s)
    BY <1>1, <1>5, <2>7
  <2> QED
    BY <1>5, <2>7, <2>8, <2>9
<1>7. Append(s, x)[Cardinality(Rank(B, n + 1))] = Payload(n + 1, fr[n + 1])
  <2>1. Rank(B, n + 1) = B
    <3>1. \A k \in B : k <= n + 1
      BY <1>1
    <3> QED
      BY <3>1
  <2> HIDE DEF Rank
  <2> QED
    BY <1>4, <1>5, <2>1
<1>8. Got(fr, Append(s, x), B)
  <2>1. Len(Append(s, x)) = Cardinality(B)
    BY <1>4, <1>5
  <2>2. \A k \in B : Append(s, x)[Cardinality(Rank(B, k))] = Payload(k, fr[k])
    <3> HIDE DEF Rank
    <3> QED
      BY <1>3, <1>6, <1>7
  <2> QED
    BY <2>1, <2>2 DEF Got
<1>9. ref \subseteq 1..(n + 1)
  <2>1. 1..n \subseteq 1..(n + 1)
    OBVIOUS
  <2> QED
    BY <1>2, <2>1
<1> QED
  BY <1>8, <1>9 DEF Served, B

(* A step serves nothing of a connection, or its next frame. *)
Stays(c) ==
  /\ Passed(c)' = Passed(c)
  /\ handled'[c] = handled[c] /\ refused'[c] = refused[c]

Serves(c, k) ==
  \/ /\ frames[c][k].kind # "message"
     /\ handled'[c] = handled[c] /\ refused'[c] = refused[c]
  \/ /\ frames[c][k].kind = "message"
     /\ handled'[c] = Append(handled[c], Payload(k, frames[c][k])) /\ refused'[c] = refused[c]
  \/ handled'[c] = handled[c] /\ refused'[c] = refused[c] \cup {k}

Passes(c, k) ==
  /\ k \in 1..MaxFrames[c]
  /\ Passed(c) = k - 1 /\ Passed(c)' = k
  /\ Serves(c, k)

(* What has been served does not depend on the state but for the protocol. *)
LEMMA SameServed ==
  ASSUME protocol' = protocol
  PROVE  \A fr, s, ref, n : Served(fr, s, ref, n)' <=> Served(fr, s, ref, n)
<1>1. \A k, f : Payload(k, f)' = Payload(k, f)
  BY SameFrames
<1>2. \A fr, s, set : Got(fr, s, set)' <=> Got(fr, s, set)
  BY <1>1, Zenon DEF Got
<1>3. \A fr, ref, n : Sent(fr, ref, n)' = Sent(fr, ref, n)
  BY Zenon DEF Sent
<1> QED
  BY <1>2, <1>3, Zenon DEF Served

(* Payloads stay those of the messages passed when a step serves the next  *)
(* frame, or nothing.                                                      *)
LEMMA IntactKept ==
  ASSUME TypeInv, NEW c \in Conns, UNCHANGED <<protocol, frames>>, Intact(c),
         Stays(c) \/ \E k : Passes(c, k)
  PROVE  Intact(c)'
<1>1. SUFFICES Served(frames[c], handled'[c], refused'[c], Passed(c)')
  <2>1. Served(frames[c], handled[c], refused[c], Passed(c))' <=>
          Served(frames[c], handled'[c], refused'[c], Passed(c)')
    BY SameServed
  <2> QED
    BY <2>1 DEF Intact
<1>2. CASE Stays(c)
  BY <1>2 DEF Stays, Intact
<1>3. ASSUME NEW k, Passes(c, k) PROVE Served(frames[c], handled'[c], refused'[c], Passed(c)')
  <2> DEFINE n == k - 1
             fr == frames[c]
             s == handled[c]
             ref == refused[c]
  <2>1. k \in Nat /\ n \in Nat /\ n + 1 = k /\ fr[k] \in Frame
    <3>1. k \in 1..MaxFrames[c]
      BY <1>3 DEF Passes
    <3>2. MaxFrames[c] \in Nat /\ fr \in [1..MaxFrames[c] -> Frame]
      BY StreamFacts
    <3>3. fr[k] \in Frame
      BY <3>1, <3>2
    <3>4. k \in Nat /\ k >= 1
      BY <3>1, <3>2
    <3> QED
      BY <3>3, <3>4
  <2>2. Served(fr, s, ref, n) /\ Passed(c)' = n + 1
    BY <1>3, <2>1 DEF Passes, Intact
  <2>3. CASE fr[k].kind # "message" /\ handled'[c] = s /\ refused'[c] = ref
    <3>1. Served(fr, s, ref \cup {}, n + 1)
      <4> HIDE DEF n, fr, s, ref
      <4> QED
        BY <2>1, <2>2, <2>3, ServedWithout
    <3> QED
      BY <2>2, <2>3, <3>1
  <2>4. CASE /\ fr[k].kind = "message"
             /\ handled'[c] = Append(s, Payload(k, fr[k])) /\ refused'[c] = ref
    <3>1. s \in Seq(Seq(Byte)) /\ Payload(k, fr[k]) \in Seq(Byte)
      BY <2>1, TypesOf, PayloadFacts
    <3>2. Served(fr, Append(s, Payload(k, fr[k])), ref, n + 1)
      <4> HIDE DEF n, fr, s, ref
      <4> QED
        BY <2>1, <2>2, <2>4, <3>1, ServedWith
    <3> QED
      BY <2>2, <2>4, <3>2
  <2>5. CASE handled'[c] = s /\ refused'[c] = ref \cup {k}
    <3>1. Served(fr, s, ref \cup {k}, n + 1)
      <4> HIDE DEF n, fr, s, ref
      <4>1. {k} \in SUBSET {n + 1} /\ {k} = {n + 1}
        BY <2>1
      <4> QED
        BY <2>1, <2>2, <4>1, ServedWithout
    <3> QED
      BY <2>2, <2>5, <3>1
  <2> QED
    BY <1>3, <2>3, <2>4, <2>5 DEF Passes, Serves
<1> QED
  BY <1>2, <1>3

(* Dispatch of the frame at the head of the buffer serves it. *)
LEMMA DispatchServes ==
  ASSUME TypeInv, NEW c \in Conns, InputBuffer[c] # <<>>, wire' = wire,
         NEW f, f = frames[c][Place(c)[1]], Place(c)[2] <= HeaderLen(f) + 1, f.kind \notin Awkward,
         NEW n \in 0..Len(InputBuffer[c]), n = (FrameLen(f) - Place(c)[2]) + 1,
         Dispatch(c, f, n)
  PROVE  /\ Place(c)' = <<Place(c)[1] + 1, 1>> /\ Retrieve(c, n)
         /\ Serves(c, Place(c)[1]) /\ serving' = serving
<1>1. Retrieve(c, n) /\ serving' = serving /\ refused' = refused
  BY DEF Dispatch, Serve, Skip
<1>2. Place(c)' = <<Place(c)[1] + 1, 1>>
  BY <1>1, PlaceNext
<1>3. CASE f.kind = "message"
  <2>1. SubSeq(InputBuffer[c], n - f.size + 1, n) = Payload(Place(c)[1], f)
    BY PayloadRead
  <2>2. handled' = [handled EXCEPT ![c] = Append(@, SubSeq(InputBuffer[c], n - f.size + 1, n))]
    BY <1>3 DEF Dispatch, Serve
  <2>3. handled'[c] = Append(handled[c], SubSeq(InputBuffer[c], n - f.size + 1, n))
    BY <2>2, TypesOf
  <2> QED
    BY <1>1, <1>2, <1>3, <2>1, <2>3 DEF Serves
<1>4. CASE f.kind # "message"
  <2>1. handled' = handled
    BY <1>4 DEF Dispatch, Skip, Awkward
  <2> QED
    BY <1>1, <1>2, <1>4, <2>1 DEF Serves
<1> QED
  BY <1>3, <1>4

(* To drop a frame with its number in refused accounts for it. *)
LEMMA RefuseServes ==
  ASSUME TypeInv, NEW c \in Conns, InputBuffer[c] # <<>>, wire' = wire,
         NEW n \in 0..Len(InputBuffer[c]),
         n = (FrameLen(frames[c][Place(c)[1]]) - Place(c)[2]) + 1,
         Retrieve(c, n), handled' = handled,
         refused' = [refused EXCEPT ![c] = @ \cup {Head(InputBuffer[c])[1]}]
  PROVE  Place(c)' = <<Place(c)[1] + 1, 1>> /\ Serves(c, Place(c)[1])
<1>1. Place(c)' = <<Place(c)[1] + 1, 1>>
  BY PlaceNext
<1>2. refused'[c] = refused[c] \cup {Place(c)[1]}
  BY BufferFacts, TypesOf
<1> QED
  BY <1>1, <1>2 DEF Serves

(* Openings come first, and only where the protocol has any. *)
LEMMA KindFacts ==
  ASSUME TypeInv, NEW c \in Conns
  PROVE  /\ protocol \in {"grpc", "websocket", "websocket_client"} =>
              \A k \in 1..MaxFrames[c] : frames[c][k] \in IF k = 1 THEN Openings ELSE Messages
         /\ protocol \notin {"grpc", "websocket", "websocket_client"} =>
              \A k \in 1..MaxFrames[c] : frames[c][k] \in Messages
<1>1. \A k \in 1..MaxFrames[c] :
        frames[c][k] \in IF k = 1 /\ Openings # {} THEN Openings ELSE Messages
  BY DEF TypeInv, Streaming, Streams
<1>2. ASSUME protocol \in {"grpc", "websocket", "websocket_client"} PROVE Openings # {}
  <2>1. PICK kind : kind \in FirstKinds(protocol)
    BY <1>2 DEF FirstKinds
  <2>2. [kind |-> kind, size |-> 0] \in Openings
    BY <2>1 DEF Openings
  <2> QED
    BY <2>2
<1>3. ASSUME protocol \notin {"grpc", "websocket", "websocket_client"} PROVE Openings = {}
  <2>1. FirstKinds(protocol) = {}
    BY <1>3 DEF FirstKinds
  <2> QED
    BY <2>1 DEF Openings
<1> QED
  BY <1>1, <1>2, <1>3

(* At the first byte of a message the header that is read is its own. *)
LEMMA HeaderIs ==
  ASSUME TypeInv, NEW c \in Conns, InputBuffer[c] # <<>>, Place(c)[2] = 1,
         frames[c][Place(c)[1]] \in Messages, NEW f \in HeaderAt(c)
  PROVE  f = frames[c][Place(c)[1]]
<1>1. Head(InputBuffer[c]) = Place(c)
  BY BufferFacts
<1> QED
  BY <1>1 DEF HeaderAt

(* The header lengths of each protocol. *)
LEMMA LengthFacts ==
  ASSUME NEW f
  PROVE  /\ protocol \in Prefixed \cup {"grpc", "http_client"} => HeaderLen(f) = HeaderBytes
         /\ protocol = "http" => HeaderLen(f) = IF f.size > 0 THEN 3 ELSE 2
         /\ f \in Openings /\ protocol # "http" => HeaderLen(f) = HeaderBytes /\ f.size = 0
         /\ protocol = "websocket" /\ f \in Messages =>
              HeaderLen(f) = IF f.size >= LongSize THEN 3 ELSE 2
         /\ protocol = "websocket_client" /\ f \in Messages => HeaderLen(f) = 1
<1>1. protocol \in Prefixed \cup {"grpc", "http_client"} => HeaderLen(f) = HeaderBytes
  BY DEF HeaderLen, Prefixed
<1>2. protocol = "http" => HeaderLen(f) = IF f.size > 0 THEN 3 ELSE 2
  BY DEF HeaderLen
<1>3. ASSUME f \in Openings, protocol # "http" PROVE HeaderLen(f) = HeaderBytes /\ f.size = 0
  <2>1. f.kind \in FirstKinds(protocol) /\ f.size = 0
    BY <1>3 DEF Openings
  <2>2. f \in Messages => f.kind \in {"message"} \cup OtherKinds(protocol)
    BY MessageFacts
  <2>3. protocol = "websocket" => f.kind \in {"upgrade", "junk"} /\ f.kind # "message"
                                  /\ OtherKinds(protocol) = {"control", "close"}
    BY <2>1 DEF FirstKinds, OtherKinds
  <2>4. protocol = "websocket_client" => f.kind = "upgrade" /\ OtherKinds(protocol) = {}
    BY <2>1 DEF FirstKinds, OtherKinds
  <2>5. protocol \in {"websocket", "websocket_client"} => f \notin Messages
    BY <2>2, <2>3, <2>4
  <2> QED
    BY <1>3, <2>1, <2>5 DEF HeaderLen
<1>4. /\ protocol = "websocket" /\ f \in Messages =>
           HeaderLen(f) = IF f.size >= LongSize THEN 3 ELSE 2
      /\ protocol = "websocket_client" /\ f \in Messages => HeaderLen(f) = 1
  BY DEF HeaderLen
<1> QED
  BY <1>1, <1>2, <1>3, <1>4

(* Retrieving bytes brings no frames. *)
LEMMA ArrivedShrinks ==
  ASSUME TypeInv, NEW c \in Conns, NEW n \in 0..Len(InputBuffer[c]), Retrieve(c, n),
         frames' = frames, wire' = wire
  PROVE  Arrived(c)' \subseteq Arrived(c)
<1> DEFINE a == InputBuffer[c]
           b == Drop(a, n)
<1>1. a \in Seq(Byte) /\ Len(a) \in Nat /\ n \in 0..Len(a) /\ InputBuffer'[c] = b
  BY TypesOf, LeftDrops
<1> HIDE DEF a
<1>2. Len(b) = Len(a) - n /\ \A i \in 1..(Len(a) - n) : b[i] = a[n + i]
  BY <1>1, DropFacts
<1> HIDE DEF b
<1>3. Arrived(c)' = {frames[c][b[i][1]] : i \in 1..Len(b)}
  BY <1>1 DEF Arrived
<1>4. ASSUME NEW i \in 1..Len(b) PROVE frames[c][b[i][1]] \in {frames[c][a[j][1]] : j \in 1..Len(a)}
  <2>1. n + i \in 1..Len(a) /\ b[i] = a[n + i]
    BY <1>1, <1>2
  <2> QED
    BY <2>1
<1>5. Arrived(c) = {frames[c][a[j][1]] : j \in 1..Len(a)}
  BY DEF Arrived, a
<1> QED
  BY <1>3, <1>4, <1>5

(* The frame at the head of the buffer has arrived. *)
LEMMA FirstArrived ==
  ASSUME TypeInv, NEW c \in Conns, InputBuffer[c] # <<>>
  PROVE  frames[c][Place(c)[1]] \in Arrived(c)
<1>1. Place(c) = InputBuffer[c][1] /\ 1 \in 1..Len(InputBuffer[c])
  BY BufferFacts, TypesOf
<1> QED
  BY <1>1 DEF Arrived

(* For most protocols the frames before the place have been served. *)
LEMMA PassedPlain ==
  ASSUME protocol \notin {"grpc", "http"}, NEW c
  PROVE  /\ Passed(c) = Place(c)[1] - 1
         /\ protocol' = protocol => Passed(c)' = Place(c)'[1] - 1
  BY DEF Passed

(* Between calls, when nothing has been retrieved. *)
LEMMA ReturnWaits ==
  ASSUME TypeInv, NEW c \in Conns, UNCHANGED <<InputBuffer, wire, protocol, frames>>,
         InputBuffer[c] # <<>> =>
           Len(InputBuffer[c]) <= FrameLen(frames[c][Place(c)[1]]) - Place(c)[2]
  PROVE  Waits(c)'
<1>1. Place(c)' = Place(c)
  BY DEF Place, Left
<1>2. FrameLen(frames[c][Place(c)[1]])' = FrameLen(frames[c][Place(c)[1]])
  BY <1>1, SameFrames
<1> QED
  BY <1>1, <1>2 DEF Waits

----------------------------------------------------------------------------
(* Length-prefixed envelopes: a turn of the loop returns with less than a  *)
(* frame, closes, or takes the frame at the head of the buffer.            *)
PrefixedTurn(c) ==
  LET f == frames[c][Place(c)[1]]
  IN \/ Return /\ (InputBuffer[c] # <<>> => Short(c, FrameLen(f)))
     \/ CloseAndReturn(c)
     \/ /\ InputBuffer[c] # <<>> /\ ~Short(c, FrameLen(f))
        /\ Dispatch(c, f, FrameLen(f)) \/ Refuse(c, FrameLen(f))

(* What a handler of length-prefixed envelopes finds. *)
LEMMA PrefixFacts ==
  ASSUME TypeInv, NEW c \in Conns, protocol \in Prefixed, PrefixedInv(c)
  PROVE  /\ HeaderBytes \in Nat \ {0} /\ Len(InputBuffer[c]) \in Nat
         /\ ~Short(c, HeaderBytes) => InputBuffer[c] # <<>>
         /\ InputBuffer[c] # <<>> =>
              /\ frames[c][Place(c)[1]].size \in Nat
              /\ FrameLen(frames[c][Place(c)[1]]) = HeaderBytes + frames[c][Place(c)[1]].size
              /\ frames[c][Place(c)[1]] \in Messages
              /\ \A f \in HeaderAt(c) : f = frames[c][Place(c)[1]]
         /\ InputBuffer[c] # <<>> /\ Short(c, HeaderBytes) =>
              Short(c, FrameLen(frames[c][Place(c)[1]]))
<1> DEFINE f == frames[c][Place(c)[1]]
<1>1. HeaderBytes \in Nat \ {0} /\ Len(InputBuffer[c]) \in Nat /\ InputBuffer[c] \in Seq(Byte)
  BY TypesOf, ConstantsAssumption
<1>2. ~Short(c, HeaderBytes) => InputBuffer[c] # <<>>
  <2>1. ~Short(c, HeaderBytes) => Len(InputBuffer[c]) > 0
    BY <1>1 DEF Short
  <2> QED
    BY <1>1, <2>1, Nonempty
<1>3. ASSUME InputBuffer[c] # <<>>
      PROVE  /\ f.size \in Nat /\ FrameLen(f) = HeaderBytes + f.size /\ f \in Messages
             /\ \A g \in HeaderAt(c) : g = f
             /\ Short(c, HeaderBytes) => Short(c, FrameLen(f))
  <2>1. Place(c)[1] \in 1..MaxFrames[c] /\ f \in Frame
    BY <1>3, BufferFacts
  <2>2. protocol \notin {"grpc", "websocket", "websocket_client"}
    BY DEF Prefixed
  <2>3. f \in Messages
    BY <2>1, <2>2, KindFacts
  <2>4. f.size \in Nat /\ FrameLen(f) = HeaderBytes + f.size
    <3>1. HeaderLen(f) = HeaderBytes
      BY LengthFacts
    <3> QED
      BY <2>1, <3>1, FrameSizes
  <2>5. Place(c)[2] = 1
    BY DEF PrefixedInv
  <2>6. \A g \in HeaderAt(c) : g = f
    BY <1>3, <2>3, <2>5, HeaderIs
  <2> HIDE DEF f
  <2>7. Short(c, HeaderBytes) => Short(c, FrameLen(f))
    BY <1>1, <2>4 DEF Short
  <2> QED
    BY <2>3, <2>4, <2>6, <2>7
<1> QED
  BY <1>1, <1>2, <1>3

(* The five handlers and clients of length-prefixed envelopes turn alike. *)
LEMMA PrefixedTurns ==
  ASSUME TypeInv, NEW c \in Conns, protocol \in Prefixed, PrefixedInv(c), Plain(c), OnMessage(c)
  PROVE  PrefixedTurn(c)
<1> DEFINE f == frames[c][Place(c)[1]]
<1>1. /\ ~Short(c, HeaderBytes) => InputBuffer[c] # <<>>
      /\ InputBuffer[c] # <<>> => /\ FrameLen(f) = HeaderBytes + f.size
                                  /\ f \in Messages
                                  /\ \A g \in HeaderAt(c) : g = f
      /\ InputBuffer[c] # <<>> /\ Short(c, HeaderBytes) => Short(c, FrameLen(f))
  BY PrefixFacts
<1>2. CASE Short(c, HeaderBytes)
  <2>1. Return
    BY <1>2 DEF OnMessage, Prefixed, TcpOnMessage, RpcOnMessage, TcpOnDataReceived,
                RpcOnDataReceived, GrpcOnDataReceived
  <2> QED
    BY <1>1, <1>2, <2>1 DEF PrefixedTurn
<1>3. CASE ~Short(c, HeaderBytes)
  <2> HIDE DEF f
  <2>1. InputBuffer[c] # <<>> /\ FrameLen(f) = HeaderBytes + f.size /\ \A g \in HeaderAt(c) : g = f
    BY <1>1, <1>3
  <2>2. CASE protocol = "tcp"
    <3>1. \/ CloseAndReturn(c)
          \/ Short(c, HeaderBytes + f.size) /\ Return
          \/ /\ ~Short(c, HeaderBytes + f.size)
             /\ Dispatch(c, f, HeaderBytes + f.size) \/ Refuse(c, HeaderBytes + f.size)
      BY <1>3, <2>1, <2>2 DEF OnMessage, TcpOnMessage
    <3> QED
      BY <2>1, <3>1 DEF PrefixedTurn, f
  <2>3. CASE protocol \in {"rpc", "grpc_client"}
    <3>1. f.kind # "huge"
      BY <2>1, FirstArrived DEF Plain, Awkward, f
    <3>2. FrameEnd(f) = FrameLen(f)
      BY <1>1, <2>1, <3>1, FrameEnds
    <3>3. RpcOnMessage(c)
      BY <2>3 DEF OnMessage, GrpcOnDataReceived
    <3>4. \/ Short(c, FrameLen(f)) /\ Return
          \/ ~Short(c, FrameLen(f)) /\ Dispatch(c, f, FrameLen(f))
      BY <1>3, <2>1, <3>2, <3>3 DEF RpcOnMessage
    <3> QED
      BY <2>1, <3>4 DEF PrefixedTurn, f
  <2>4. CASE protocol = "tcp_client"
    <3>1. f.size <= MaxLength
      BY <2>1, <2>4, FirstArrived DEF PrefixedInv, f
    <3>2. f.size \in Nat /\ MaxLength \in Nat
      BY <2>1, PrefixFacts, ConstantsAssumption DEF f
    <3>3. ~(f.size > MaxLength)
      BY <3>1, <3>2
    <3>4. \/ Short(c, HeaderBytes + f.size) /\ Return
          \/ ~Short(c, HeaderBytes + f.size) /\ Dispatch(c, f, HeaderBytes + f.size)
      BY <1>3, <2>1, <2>4, <3>3 DEF OnMessage, TcpOnDataReceived
    <3> QED
      BY <2>1, <3>4 DEF PrefixedTurn, f
  <2>5. CASE protocol = "rpc_client"
    <3>1. \/ CloseAndReturn(c)
          \/ Short(c, HeaderBytes + f.size) /\ Return
          \/ ~Short(c, HeaderBytes + f.size) /\ Dispatch(c, f, HeaderBytes + f.size)
      BY <1>3, <2>1, <2>5 DEF OnMessage, RpcOnDataReceived
    <3> QED
      BY <2>1, <3>1 DEF PrefixedTurn, f
  <2> QED
    BY <2>2, <2>3, <2>4, <2>5 DEF Prefixed
<1> QED
  BY <1>2, <1>3

(* What the turn of a handler has to keep for its connection. *)
Turns(c) ==
  /\ Parsing(c)'
  /\ Stays(c) \/ \E k : Passes(c, k)
  /\ Waits(c)'

(* A turn over length-prefixed envelopes serves the next frame or waits    *)
(* for it.                                                                 *)
LEMMA PrefixedKeeps ==
  ASSUME TypeInv, NEW c \in Conns, protocol \in Prefixed, Parsing(c), Plain(c), OnMessage(c)
  PROVE  Turns(c)
<1> DEFINE f == frames[c][Place(c)[1]]
<1>1. UNCHANGED <<protocol, frames, wire>> /\ serving = c
  BY DEF OnMessage, streamVars
<1>2. PrefixedInv(c) /\ PrefixedTurn(c)
  BY PrefixedTurns DEF Parsing
<1>3. protocol \notin {"grpc", "http", "websocket", "http_client", "websocket_client"}
  BY DEF Prefixed
<1>4. ASSUME Place(c)'[2] = 1, Arrived(c)' \subseteq Arrived(c) PROVE Parsing(c)'
  <2>1. PrefixedInv(c)'
    BY <1>1, <1>2, <1>4 DEF PrefixedInv
  <2> QED
    BY <1>1, <1>3, <2>1 DEF Parsing
<1>5. CASE \/ Return /\ (InputBuffer[c] # <<>> => Short(c, FrameLen(f)))
           \/ CloseAndReturn(c)
  <2>1. UNCHANGED <<InputBuffer, handled, refused>>
    BY <1>5 DEF Return, CloseAndReturn
  <2>2. Place(c)' = Place(c) /\ Arrived(c)' = Arrived(c) /\ Place(c)[2] = 1
    BY <1>1, <1>2, <2>1 DEF Place, Left, Arrived, PrefixedInv
  <2>3. Stays(c)
    BY <1>1, <1>3, <2>1, <2>2, PassedPlain DEF Stays
  <2>4. Waits(c)'
    <3>1. CASE InputBuffer[c] # <<>> => Short(c, FrameLen(f))
      <4>1. ASSUME InputBuffer[c] # <<>> PROVE Len(InputBuffer[c]) <= FrameLen(f) - Place(c)[2]
        <5>1. FrameLen(f) \in Nat /\ Len(InputBuffer[c]) \in Nat
          BY <4>1, BufferFacts, TypesOf
        <5>2. Len(InputBuffer[c]) < FrameLen(f)
          BY <3>1, <4>1 DEF Short
        <5> QED
          BY <2>2, <5>1, <5>2
      <4> QED
        BY <1>1, <2>1, <4>1, ReturnWaits
    <3>2. CASE CloseAndReturn(c)
      <4>1. state_'[c] = "kDisconnected"
        BY <3>2, TypesOf DEF CloseAndReturn
      <4> QED
        BY <4>1 DEF Waits
    <3> QED
      BY <1>5, <3>1, <3>2
  <2> QED
    BY <1>4, <2>2, <2>3, <2>4 DEF Turns
<1>6. CASE /\ InputBuffer[c] # <<>> /\ ~Short(c, FrameLen(f))
           /\ Dispatch(c, f, FrameLen(f)) \/ Refuse(c, FrameLen(f))
  <2> DEFINE n == FrameLen(f)
  <2>1. Place(c)[2] = 1 /\ n \in Nat
    BY <1>2, <1>6, BufferFacts DEF PrefixedInv
  <2>2. n \in 0..Len(InputBuffer[c]) /\ n = (FrameLen(f) - Place(c)[2]) + 1
    BY <1>6, <2>1, EnoughBytes
  <2>3. HeaderLen(f) \in Nat /\ Place(c)[2] <= HeaderLen(f) + 1
    BY <1>6, <2>1, BufferFacts, FrameSizes
  <2>4. /\ Place(c)' = <<Place(c)[1] + 1, 1>> /\ Serves(c, Place(c)[1]) /\ serving' = serving
        /\ Retrieve(c, n)
    <3>1. CASE Dispatch(c, f, n)
      <4>1. f.kind \notin Awkward
        BY <1>6, FirstArrived DEF Plain
      <4> HIDE DEF n
      <4> QED
        BY <1>1, <1>6, <2>2, <2>3, <3>1, <4>1, DispatchServes
    <3>2. CASE Refuse(c, n)
      <4> HIDE DEF n
      <4>1. /\ Retrieve(c, n) /\ handled' = handled /\ serving' = serving
            /\ refused' = [refused EXCEPT ![c] = @ \cup {Head(InputBuffer[c])[1]}]
        BY <3>2 DEF Refuse
      <4> QED
        BY <1>1, <1>6, <2>2, <4>1, RefuseServes
    <3> QED
      BY <1>6, <3>1, <3>2
  <2>5. Arrived(c)' \subseteq Arrived(c)
    BY <1>1, <2>2, <2>4, ArrivedShrinks
  <2>6. Passes(c, Place(c)[1])
    <3>1. Place(c)[1] \in 1..MaxFrames[c] /\ Place(c)[1] \in Nat
      BY <1>6, BufferFacts, PlaceFacts, StreamFacts
    <3>2. Passed(c) = Place(c)[1] - 1 /\ Passed(c)' = (Place(c)[1] + 1) - 1
      BY <1>1, <1>3, <2>4, PassedPlain
    <3> QED
      BY <2>4, <3>1, <3>2 DEF Passes
  <2>7. Waits(c)'
    BY <1>1, <2>4 DEF Waits
  <2>8. Place(c)'[2] = 1
    BY <2>4
  <2> QED
    BY <1>4, <2>5, <2>6, <2>7, <2>8 DEF Turns
<1> QED
  BY <1>2, <1>5, <1>6 DEF PrefixedTurn

----------------------------------------------------------------------------
(* HTTP/2. *)

(* What Goes puts into the context. *)
LEMMA GoesTo ==
  ASSUME TypeInv, NEW c \in Conns, NEW state, NEW f, Goes(c, state, f)
  PROVE  context'[c].state = state /\ context'[c].header = f
<1>1. context \in [Conns -> Context] /\ context[c] \in Context
  BY TypesOf
<1>2. context'[c] = [context[c] EXCEPT !.state = state, !.header = f]
  BY <1>1 DEF Goes
<1> QED
  BY <1>1, <1>2 DEF Context

(* A frame of HTTP/2 with an empty payload is served after its place has   *)
(* been left.                                                              *)
LEMMA PassedGrpc ==
  ASSUME protocol = "grpc", NEW c
  PROVE  /\ EmptyPayload(c) => Passed(c) = Place(c)[1] - 2
         /\ ~EmptyPayload(c) => Passed(c) = Place(c)[1] - 1
         /\ protocol' = protocol /\ EmptyPayload(c)' => Passed(c)' = Place(c)'[1] - 2
         /\ protocol' = protocol /\ ~EmptyPayload(c)' => Passed(c)' = Place(c)'[1] - 1
  BY DEF Passed

(* Nothing is retrieved and the call returns. *)
LEMMA GrpcReturns ==
  ASSUME TypeInv, NEW c \in Conns, protocol = "grpc", GrpcInv(c), ~EmptyPayload(c),
         UNCHANGED <<protocol, frames, wire, InputBuffer, context, handled, refused>>,
         \/ InputBuffer[c] # <<>> =>
              Len(InputBuffer[c]) <= FrameLen(frames[c][Place(c)[1]]) - Place(c)[2]
         \/ state_'[c] = "kDisconnected"
  PROVE  Turns(c)
<1>1. Place(c)' = Place(c) /\ (EmptyPayload(c)' <=> EmptyPayload(c))
  BY DEF Place, Left, EmptyPayload
<1>2. Stays(c)
  BY <1>1, PassedGrpc DEF Stays
<1>3. GrpcInv(c)'
  BY <1>1 DEF GrpcInv
<1>4. Parsing(c)'
  BY <1>3 DEF Parsing, Prefixed
<1>5. Waits(c)'
  <2>1. CASE state_'[c] = "kDisconnected"
    BY <2>1 DEF Waits
  <2>2. CASE state_'[c] # "kDisconnected"
    BY <2>2, ReturnWaits
  <2> QED
    BY <2>1, <2>2
<1> QED
  BY <1>2, <1>4, <1>5 DEF Turns

(* The preface is no message; the session waits for it, takes it, or       *)
(* closes.                                                                 *)
LEMMA PrefaceKeeps ==
  ASSUME TypeInv, NEW c \in Conns, protocol = "grpc", GrpcInv(c), serving = c,
         context[c].state = "preface", OnPreface(c), UNCHANGED <<protocol, frames, wire>>
  PROVE  Turns(c)
<1> DEFINE f == frames[c][Place(c)[1]]
<1>1. Place(c) = <<1, 1>> /\ ~EmptyPayload(c)
  BY DEF GrpcInv, EmptyPayload
<1>2. HeaderBytes \in Nat \ {0} /\ Len(InputBuffer[c]) \in Nat /\ InputBuffer[c] \in Seq(Byte)
  BY TypesOf, ConstantsAssumption
<1>3. ASSUME InputBuffer[c] # <<>>
      PROVE  FrameLen(f) = HeaderBytes /\ f = frames[c][1] /\ f \in Openings /\ f \in Frame
  <2>1. Place(c)[1] \in 1..MaxFrames[c] /\ f \in Frame /\ f = frames[c][1]
    BY <1>1, <1>3, BufferFacts
  <2>2. f \in Openings
    BY <1>1, <2>1, KindFacts
  <2>3. HeaderLen(f) = HeaderBytes /\ f.size = 0
    BY <2>2, LengthFacts
  <2> QED
    BY <1>2, <2>1, <2>2, <2>3 DEF FrameLen
<1>4. CASE Short(c, HeaderBytes) /\ Return /\ UNCHANGED context
  <2>1. InputBuffer[c] # <<>> => Len(InputBuffer[c]) <= FrameLen(f) - Place(c)[2]
    BY <1>1, <1>2, <1>3, <1>4 DEF Short
  <2>2. UNCHANGED <<InputBuffer, handled, refused>>
    BY <1>4 DEF Return
  <2> QED
    BY <1>1, <1>4, <2>1, <2>2, GrpcReturns
<1>5. CASE CloseAndReturn(c) /\ UNCHANGED context
  <2>1. UNCHANGED <<InputBuffer, handled, refused>> /\ state_'[c] = "kDisconnected"
    BY <1>5, TypesOf DEF CloseAndReturn
  <2> QED
    BY <1>1, <1>5, <2>1, GrpcReturns
<1>6. CASE /\ ~Short(c, HeaderBytes) /\ frames[c][1].kind = "preface"
           /\ Skip(c, HeaderBytes) /\ Goes(c, "kReadingHeader", NoHeader)
  <2>1. HeaderBytes \in 0..Len(InputBuffer[c]) /\ InputBuffer[c] # <<>>
    <3>1. Len(InputBuffer[c]) > 0
      BY <1>2, <1>6 DEF Short
    <3> QED
      BY <1>2, <1>6, <3>1, EnoughBytes, Nonempty
  <2>2. Retrieve(c, HeaderBytes) /\ UNCHANGED <<serving, state_, handled, refused>>
    BY <1>6 DEF Skip
  <2>3. HeaderBytes = (FrameLen(f) - Place(c)[2]) + 1
    BY <1>1, <1>2, <1>3, <2>1
  <2>4. Place(c)' = <<Place(c)[1] + 1, 1>>
    BY <2>1, <2>2, <2>3, PlaceNext
  <2>5. Place(c)' = <<2, 1>>
    BY <1>1, <2>4
  <2>6. context'[c].state = "kReadingHeader" /\ ~EmptyPayload(c)'
    BY <1>6, GoesTo DEF EmptyPayload
  <2>7. GrpcInv(c)'
    BY <2>5, <2>6 DEF GrpcInv
  <2>8. Passes(c, 1)
    <3>1. 1 \in 1..MaxFrames[c]
      BY <1>1, <2>1, BufferFacts
    <3>2. Passed(c) = 1 - 1 /\ Passed(c)' = 1
      BY <1>1, <2>5, <2>6, PassedGrpc
    <3>3. Serves(c, 1)
      BY <1>6, <2>2 DEF Serves
    <3> QED
      BY <3>1, <3>2, <3>3 DEF Passes
  <2>9. Waits(c)'
    BY <2>2 DEF Waits
  <2> QED
    BY <2>7, <2>8, <2>9 DEF Turns, Parsing, Prefixed
<1> QED
  BY <1>4, <1>5, <1>6 DEF OnPreface

(* A header is taken for the frame it begins, or waited for. *)
LEMMA HeaderKeeps ==
  ASSUME TypeInv, NEW c \in Conns, protocol = "grpc", GrpcInv(c), serving = c,
         context[c].state = "kReadingHeader", ParseHeader(c), UNCHANGED <<protocol, frames, wire>>
  PROVE  Turns(c)
<1> DEFINE k == Place(c)[1]
           f == frames[c][k]
<1>1. Place(c)[2] = 1 /\ k > 1 /\ ~EmptyPayload(c)
  BY DEF GrpcInv, EmptyPayload
<1>2. /\ HeaderBytes \in Nat \ {0} /\ Len(InputBuffer[c]) \in Nat /\ InputBuffer[c] \in Seq(Byte)
      /\ k \in Nat
  BY TypesOf, PlaceFacts, StreamFacts, ConstantsAssumption
<1>3. ASSUME InputBuffer[c] # <<>>
      PROVE  /\ f.size \in Nat /\ FrameLen(f) = HeaderBytes + f.size /\ f \in Messages
             /\ k \in 2..MaxFrames[c] /\ MaxFrames[c] \in Nat
  <2>1. k \in 1..MaxFrames[c] /\ f \in Frame /\ MaxFrames[c] \in Nat
    BY <1>3, BufferFacts, StreamFacts
  <2>2. f \in Messages
    BY <1>1, <1>2, <2>1, KindFacts
  <2>3. HeaderLen(f) = HeaderBytes
    BY LengthFacts
  <2>4. f.size \in Nat /\ FrameLen(f) = HeaderBytes + f.size
    BY <2>1, <2>3, FrameSizes
  <2>5. k \in 2..MaxFrames[c]
    BY <1>1, <1>2, <2>1
  <2> QED
    BY <2>1, <2>2, <2>4, <2>5
<1>4. CASE Short(c, HeaderBytes) /\ Return /\ UNCHANGED context
  <2>1. InputBuffer[c] # <<>> => Len(InputBuffer[c]) <= FrameLen(f) - Place(c)[2]
    <3> HIDE DEF f
    <3> QED
      BY <1>1, <1>2, <1>3, <1>4 DEF Short
  <2>2. UNCHANGED <<InputBuffer, handled, refused>>
    BY <1>4 DEF Return
  <2> QED
    BY <1>1, <1>4, <2>1, <2>2, GrpcReturns
<1>5. CASE /\ ~Short(c, HeaderBytes)
           /\ \E g \in HeaderAt(c) : Goes(c, "kReadingPayload", g)
           /\ Skip(c, HeaderBytes)
  <2>1. HeaderBytes \in 0..Len(InputBuffer[c]) /\ InputBuffer[c] # <<>>
    <3>1. Len(InputBuffer[c]) > 0
      BY <1>2, <1>5 DEF Short
    <3> QED
      BY <1>2, <1>5, <3>1, EnoughBytes, Nonempty
  <2>2. Retrieve(c, HeaderBytes) /\ UNCHANGED <<serving, state_, handled, refused>>
    BY <1>5 DEF Skip
  <2>3. f.size \in Nat /\ FrameLen(f) = HeaderBytes + f.size /\ f \in Messages /\ k \in 2..MaxFrames[c]
    BY <1>3, <2>1
  <2>4. context'[c].state = "kReadingPayload" /\ context'[c].header = f
    BY <1>1, <1>5, <2>1, <2>3, HeaderIs, GoesTo
  <2>5. CASE f.size = 0
    <3>1. HeaderBytes = (FrameLen(f) - Place(c)[2]) + 1
      BY <1>1, <1>2, <2>3, <2>5
    <3>2. Place(c)' = <<k + 1, 1>>
      BY <2>1, <2>2, <3>1, PlaceNext
    <3>3. EmptyPayload(c)'
      BY <2>4, <2>5 DEF EmptyPayload
    <3>4. Place(c)'[1] = k + 1 /\ Place(c)'[2] = 1 /\ k + 1 > 2 /\ (k + 1) - 1 = k
      BY <1>1, <1>2, <3>2
    <3>5. GrpcInv(c)'
      <4>1. serving' = c /\ context'[c].header = frames'[c][Place(c)'[1] - 1] /\ Place(c)'[1] > 2
        BY <2>2, <2>4, <3>4
      <4> QED
        BY <3>3, <3>4, <4>1 DEF GrpcInv
    <3>6. Stays(c)
      <4>1. Passed(c) = k - 1 /\ Passed(c)' = (k + 1) - 2
        BY <1>1, <3>3, <3>4, PassedGrpc
      <4> HIDE DEF k
      <4>2. Passed(c)' = Passed(c)
        BY <1>2, <4>1
      <4> QED
        BY <2>2, <4>2 DEF Stays
    <3> QED
      BY <2>2, <3>5, <3>6 DEF Turns, Parsing, Prefixed, Waits
  <2>6. CASE f.size # 0
    <3>1. HeaderBytes <= FrameLen(f) - Place(c)[2]
      BY <1>1, <1>2, <2>3, <2>6
    <3>2. Place(c)' = <<k, Place(c)[2] + HeaderBytes>>
      BY <2>1, <2>2, <3>1, PlaceMoves
    <3>3. Place(c)'[1] = k /\ Place(c)'[2] = HeaderBytes + 1
      BY <1>1, <1>2, <3>2
    <3>4. ~EmptyPayload(c)'
      BY <2>4, <2>6 DEF EmptyPayload
    <3>5. GrpcInv(c)'
      BY <2>3, <2>4, <3>3, <3>4 DEF GrpcInv
    <3>6. Stays(c)
      BY <1>1, <2>2, <3>3, <3>4, PassedGrpc DEF Stays
    <3> QED
      BY <2>2, <3>5, <3>6 DEF Turns, Parsing, Prefixed, Waits
  <2> QED
    BY <2>5, <2>6
<1> QED
  BY <1>4, <1>5 DEF ParseHeader

(* A payload is served with the header that was taken, or waited for. *)
LEMMA PayloadKeeps ==
  ASSUME TypeInv, NEW c \in Conns, protocol = "grpc", GrpcInv(c), Plain(c), serving = c,
         context[c].state = "kReadingPayload", ParsePayload(c), UNCHANGED <<protocol, frames, wire>>
  PROVE  Turns(c)
<1> DEFINE k == Place(c)[1]
           f == context[c].header
<1>1. /\ HeaderBytes \in Nat \ {0} /\ Len(InputBuffer[c]) \in Nat /\ InputBuffer[c] \in Seq(Byte)
      /\ k \in Nat /\ MaxFrames[c] \in Nat
  BY TypesOf, PlaceFacts, StreamFacts, ConstantsAssumption
<1>2. \/ Short(c, f.size) /\ Return /\ UNCHANGED context
      \/ ~Short(c, f.size) /\ Dispatch(c, f, f.size) /\ Goes(c, "kReadingHeader", NoHeader)
  BY DEF ParsePayload
<1> f.kind \notin Awkward
  BY DEF Plain
<1>3. ASSUME Goes(c, "kReadingHeader", NoHeader)
      PROVE  context'[c].state = "kReadingHeader" /\ ~EmptyPayload(c)'
  BY <1>3, GoesTo DEF EmptyPayload
<1>4. CASE EmptyPayload(c)
  <2>1. f.size = 0 /\ k > 2 /\ Place(c)[2] = 1 /\ f = frames[c][k - 1]
    BY <1>4 DEF GrpcInv, EmptyPayload
  <2>2. Dispatch(c, f, 0) /\ Goes(c, "kReadingHeader", NoHeader)
    BY <1>1, <1>2, <2>1 DEF Short
  <2>3. Retrieve(c, 0) /\ serving' = serving /\ refused' = refused
    BY <2>2 DEF Dispatch, Serve, Skip
  <2>4. k - 1 \in 1..MaxFrames[c] /\ k - 1 \in Nat
    <3>1. k \in 1..(MaxFrames[c] + 1)
      BY PlaceFacts
    <3> HIDE DEF k
    <3> QED
      BY <1>1, <2>1, <3>1
  <2>5. Place(c)' = Place(c)
    <3>1. 0 \in 0..Len(InputBuffer[c])
      BY <1>1
    <3>2. Left(c)' = Drop(Left(c), 0) /\ 0 \in 0..Len(Left(c))
      BY <2>3, <3>1, LeftDrops
    <3>3. Drop(Left(c), 0) = Left(c)
      BY <3>2, StreamFacts, DropFacts
    <3> QED
      BY <3>2, <3>3, PlaceStays
  <2>6. GrpcInv(c)'
    <3>1. Place(c)'[1] > 1 /\ Place(c)'[2] = 1
      BY <1>1, <2>1, <2>5
    <3> QED
      BY <1>3, <2>2, <3>1 DEF GrpcInv
  <2>7. Serves(c, k - 1)
    <3>1. CASE f.kind = "message"
      <4>1. handled' = [handled EXCEPT ![c] = Append(@, SubSeq(InputBuffer[c], 0 - f.size + 1, 0))]
        BY <2>2, <3>1 DEF Dispatch, Serve
      <4>2. handled'[c] = Append(handled[c], SubSeq(InputBuffer[c], 1, 0))
        BY <2>1, <4>1, TypesOf
      <4>3. SubSeq(InputBuffer[c], 1, 0) = Payload(k - 1, f)
        <5>1. f \in Frame
          BY <2>1, <2>4, StreamFacts
        <5>2. Payload(k - 1, f) \in Seq(Byte) /\ Len(Payload(k - 1, f)) = 0
          BY <2>1, <2>4, <5>1, PayloadFacts
        <5>3. SubSeq(InputBuffer[c], 0 + 1, 0 + 0) \in Seq(Byte)
              /\ Len(SubSeq(InputBuffer[c], 0 + 1, 0 + 0)) = 0
          <6>1. 0 + 0 <= Len(InputBuffer[c]) /\ 0 \in Nat
            BY <1>1
          <6> QED
            BY <1>1, <6>1, PartFacts
        <5>4. SubSeq(InputBuffer[c], 1, 0) \in Seq(Byte) /\ Len(SubSeq(InputBuffer[c], 1, 0)) = 0
          BY <5>3
        <5>5. SubSeq(InputBuffer[c], 1, 0) = <<>> /\ Payload(k - 1, f) = <<>>
          BY <5>2, <5>4, EmptySeq
        <5> QED
          BY <5>5
      <4> QED
        BY <2>1, <2>3, <3>1, <4>2, <4>3 DEF Serves
    <3>2. CASE f.kind # "message"
      <4>1. handled' = handled
        BY <2>2, <3>2 DEF Dispatch, Skip, Awkward
      <4> QED
        BY <2>1, <2>3, <3>2, <4>1 DEF Serves
    <3> QED
      BY <3>1, <3>2
  <2>8. Passes(c, k - 1)
    <3>1. Passed(c) = k - 2 /\ Passed(c)' = k - 1
      BY <1>3, <1>4, <2>2, <2>5, PassedGrpc
    <3> HIDE DEF k
    <3>2. Passed(c) = (k - 1) - 1
      BY <1>1, <3>1
    <3> QED
      BY <2>4, <2>7, <3>1, <3>2 DEF Passes
  <2> QED
    BY <2>3, <2>6, <2>8 DEF Turns, Parsing, Prefixed, Waits
<1>5. CASE ~EmptyPayload(c)
  <2>1. /\ k \in 2..MaxFrames[c] /\ Place(c)[2] = HeaderBytes + 1
        /\ f = frames[c][k] /\ f.size # 0
    BY <1>5 DEF GrpcInv, EmptyPayload
  <2>2. f \in Frame /\ f.size \in Nat /\ FrameLen(f) = HeaderBytes + f.size
        /\ HeaderLen(f) = HeaderBytes
    <3>1. k \in 1..MaxFrames[c]
      BY <1>1, <2>1
    <3>2. f \in Frame
      BY <2>1, <3>1, StreamFacts
    <3>3. HeaderLen(f) = HeaderBytes
      BY LengthFacts
    <3> QED
      BY <3>2, <3>3, FrameSizes
  <2>3. f.size = (FrameLen(f) - Place(c)[2]) + 1
    <3> DEFINE z == f.size
               F == FrameLen(f)
               p == Place(c)[2]
    <3>1. z \in Nat /\ HeaderBytes \in Nat /\ F = HeaderBytes + z /\ p = HeaderBytes + 1
      BY <2>1, <2>2, TypesOf
    <3> HIDE DEF z, F, p
    <3>2. z = (F - p) + 1
      BY <3>1
    <3> QED
      BY <3>2 DEF z, F, p
  <2>4. CASE Short(c, f.size) /\ Return /\ UNCHANGED context
    <3>1. Len(InputBuffer[c]) <= FrameLen(frames[c][k]) - Place(c)[2]
      <4>1. Len(InputBuffer[c]) <= FrameLen(f) - Place(c)[2]
        BY <1>1, <2>1, <2>2, <2>4 DEF Short
      <4> QED
        BY <2>1, <4>1
    <3>2. UNCHANGED <<InputBuffer, handled, refused>>
      BY <2>4 DEF Return
    <3> QED
      BY <1>5, <2>4, <3>1, <3>2, GrpcReturns
  <2>5. CASE ~Short(c, f.size) /\ Dispatch(c, f, f.size) /\ Goes(c, "kReadingHeader", NoHeader)
    <3>1. f.size \in 0..Len(InputBuffer[c])
      BY <2>2, <2>5, EnoughBytes
    <3>2. InputBuffer[c] # <<>>
      <4>1. Len(InputBuffer[c]) > 0
        BY <1>1, <2>1, <2>2, <3>1
      <4> QED
        BY <1>1, <4>1, Nonempty
    <3>3. Place(c)[2] <= HeaderLen(f) + 1
      BY <1>1, <2>1, <2>2
    <3>4. /\ Place(c)' = <<k + 1, 1>> /\ Serves(c, k) /\ serving' = serving
      BY <2>1, <2>3, <2>5, <3>1, <3>2, <3>3, DispatchServes
    <3>5. Place(c)'[1] = k + 1 /\ Place(c)'[2] = 1 /\ k + 1 > 1 /\ (k + 1) - 1 = k
      <4>1. k \in Nat /\ k > 0
        BY <1>1, <2>1
      <4>2. Place(c)'[1] = k + 1 /\ Place(c)'[2] = 1
        BY <3>4
      <4> HIDE DEF k
      <4> QED
        BY <4>1, <4>2
    <3>6. GrpcInv(c)'
      <4>1. Place(c)'[1] > 1
        BY <3>5
      <4> QED
        BY <1>3, <2>5, <3>5, <4>1 DEF GrpcInv
    <3>7. Passes(c, k)
      <4>1. Passed(c) = k - 1 /\ Passed(c)' = (k + 1) - 1
        BY <1>3, <1>5, <2>5, <3>5, PassedGrpc
      <4>2. k \in 1..MaxFrames[c]
        BY <1>1, <2>1
      <4> QED
        BY <3>4, <3>5, <4>1, <4>2 DEF Passes
    <3> QED
      BY <3>4, <3>6, <3>7 DEF Turns, Parsing, Prefixed, Waits
  <2> QED
    BY <1>2, <2>4, <2>5
<1> QED
  BY <1>4, <1>5

(* A turn of the HTTP/2 session serves the next frame or waits for it. *)
LEMMA GrpcKeeps ==
  ASSUME TypeInv, NEW c \in Conns, protocol = "grpc", Parsing(c), Plain(c), OnMessage(c)
  PROVE  Turns(c)
<1>1. UNCHANGED <<protocol, frames, wire>> /\ serving = c /\ GrpcInv(c)
  BY DEF OnMessage, streamVars, Parsing
<1>2. \/ context[c].state = "preface" /\ OnPreface(c)
      \/ context[c].state = "kReadingHeader" /\ ParseHeader(c)
      \/ context[c].state = "kReadingPayload" /\ ParsePayload(c)
  BY DEF OnMessage, GrpcOnMessage
<1> QED
  BY <1>1, <1>2, PrefaceKeeps, HeaderKeeps, PayloadKeeps

----------------------------------------------------------------------------
(* HTTP. *)

(* HTTP serves its request when a call ends. *)
LEMMA PassedHttp ==
  ASSUME protocol = "http", NEW c, protocol' = protocol
  PROVE  /\ serving = c => Passed(c) = 0
         /\ serving # c => Passed(c) = Place(c)[1] - 1
         /\ serving' = c => Passed(c)' = 0
         /\ serving' # c => Passed(c)' = Place(c)'[1] - 1
  BY DEF Passed

(* A request, of which the first three bytes stand for lines. *)
LEMMA RequestFacts ==
  ASSUME TypeInv, NEW c \in Conns, protocol = "http", MaxFrames[c] > 0
  PROVE  /\ frames[c][1] \in Frame /\ frames[c][1] \in Messages /\ frames[c][1].kind = "message"
         /\ frames[c][1].size \in Nat /\ frames[c][1] # NoHeader
         /\ frames[c][1].size > 0 => /\ HeaderLen(frames[c][1]) = 3
                                     /\ FrameLen(frames[c][1]) = 3 + frames[c][1].size
         /\ frames[c][1].size = 0 => HeaderLen(frames[c][1]) = 2 /\ FrameLen(frames[c][1]) = 2
<1> DEFINE f == frames[c][1]
<1>1. 1 \in 1..MaxFrames[c]
  <2>1. MaxFrames[c] \in Nat
    BY StreamFacts
  <2> QED
    BY <2>1
<1>2. f \in Frame /\ f \in Messages
  BY <1>1, StreamFacts, KindFacts
<1>3. f.kind = "message"
  <2>1. OtherKinds(protocol) = {}
    BY DEF OtherKinds
  <2>2. f.kind \in {"message"} \cup OtherKinds(protocol)
    BY <1>2, MessageFacts
  <2> QED
    BY <2>1, <2>2
<1>4. f # NoHeader
  BY <1>3 DEF NoHeader
<1>5. f.size \in Nat /\ HeaderLen(f) + f.size = FrameLen(f)
  BY <1>2, FrameSizes
<1>6. HeaderLen(f) = IF f.size > 0 THEN 3 ELSE 2
  BY LengthFacts
<1> QED
  BY <1>2, <1>3, <1>4, <1>5, <1>6

(* HttpInv after a step, with its parts given by name. *)
LEMMA HttpInvAfter ==
  ASSUME TypeInv, NEW c \in Conns, UNCHANGED <<protocol, frames>>, protocol = "http",
         \A i \in 1..Len(InputBuffer'[c]) : InputBuffer'[c][i][1] = 1,
         \/ /\ context'[c].state = "kExpectRequestLine" /\ Place(c)' = <<1, 1>>
            /\ context'[c].header = NoHeader
         \/ /\ context'[c].state = "kExpectHeaders" /\ Place(c)' = <<1, 2>>
            /\ context'[c].header = NoHeader
         \/ /\ context'[c].state = "kExpectHeaders" /\ Place(c)' = <<1, 3>>
            /\ context'[c].header = frames[c][1] /\ frames[c][1].size > 0
         \/ /\ context'[c].state = "kExpectBody" /\ Place(c)' = <<1, 4>>
            /\ context'[c].header = frames[c][1] /\ frames[c][1].size > 0
         \/ /\ context'[c].state = "kDone" /\ Place(c)' = <<2, 1>> /\ MaxFrames[c] > 0
            /\ context'[c].body = Payload(1, frames[c][1]),
         context'[c].state # "kDone" => context'[c].body = <<>>
  PROVE  Parsing(c)'
<1>1. Payload(1, frames[c][1])' = Payload(1, frames[c][1])
  BY SameFrames
<1>2. HttpInv(c)'
  BY <1>1 DEF HttpInv
<1> QED
  BY <1>2 DEF Parsing, Prefixed

(* What is left of the request is of the request. *)
LEMMA HttpDrops ==
  ASSUME TypeInv, NEW c \in Conns, NEW n \in 0..Len(InputBuffer[c]), Retrieve(c, n), wire' = wire,
         \A i \in 1..Len(InputBuffer[c]) : InputBuffer[c][i][1] = 1
  PROVE  \A i \in 1..Len(InputBuffer'[c]) : InputBuffer'[c][i][1] = 1
<1> DEFINE a == InputBuffer[c]
           b == Drop(a, n)
<1>1. a \in Seq(Byte) /\ Len(a) \in Nat /\ n \in 0..Len(a) /\ InputBuffer'[c] = b
      /\ \A i \in 1..Len(a) : a[i][1] = 1
  BY TypesOf, LeftDrops
<1> HIDE DEF a
<1>2. Len(b) = Len(a) - n /\ \A i \in 1..(Len(a) - n) : b[i] = a[n + i]
  <2>1. a \in Seq(Byte) /\ n \in 0..Len(a)
    BY <1>1
  <2> QED
    BY <2>1, DropFacts
<1> HIDE DEF b
<1>3. ASSUME NEW i \in 1..Len(b) PROVE b[i][1] = 1
  <2>1. n + i \in 1..Len(a) /\ b[i] = a[n + i]
    BY <1>1, <1>2
  <2> QED
    BY <1>1, <2>1
<1> QED
  BY <1>1, <1>3

(* A line is taken as the line that it is, or waited for. *)
LEMMA LineKeeps ==
  ASSUME TypeInv, NEW c \in Conns, protocol = "http", HttpInv(c), serving = c,
         HttpParseLine(c), UNCHANGED <<protocol, frames, wire>>
  PROVE  Turns(c)
<1> DEFINE f == frames[c][1]
           ctx == context[c]
<1>1. context \in [Conns -> Context] /\ ctx \in Context /\ ctx.state \in {"kExpectRequestLine", "kExpectHeaders"}
  BY TypesOf DEF HttpParseLine
<1>2. /\ \A i \in 1..Len(InputBuffer[c]) : InputBuffer[c][i][1] = 1
      /\ ctx.body = <<>>
      /\ \/ ctx.state = "kExpectRequestLine" /\ Place(c) = <<1, 1>> /\ ctx.header = NoHeader
         \/ ctx.state = "kExpectHeaders" /\ Place(c) = <<1, 2>> /\ ctx.header = NoHeader
         \/ ctx.state = "kExpectHeaders" /\ Place(c) = <<1, 3>> /\ ctx.header = f /\ f.size > 0
  BY <1>1 DEF HttpInv
<1>3. CASE InputBuffer[c] = <<>> /\ Return /\ UNCHANGED context
  <2>1. UNCHANGED <<InputBuffer, handled, refused>> /\ serving' = NoConn /\ serving' # c
    BY <1>3, ConstantsAssumption DEF Return
  <2>2. Place(c)' = Place(c)
    BY <2>1 DEF Place, Left
  <2>3. Parsing(c)'
    BY <1>2, <1>3, <2>1, <2>2, HttpInvAfter
  <2>4. Place(c)'[1] = 1
    BY <1>2, <2>2
  <2>5. Stays(c)
    BY <2>1, <2>4, PassedHttp DEF Stays
  <2>6. Waits(c)'
    BY <1>3, <2>1, ReturnWaits
  <2> QED
    BY <2>3, <2>5, <2>6 DEF Turns
<1>4. CASE InputBuffer[c] # <<>>
  <2>1. /\ Head(InputBuffer[c]) = Place(c) /\ Place(c)[1] = 1 /\ Len(InputBuffer[c]) > 0
        /\ Place(c)[1] \in 1..MaxFrames[c]
    BY <1>2, <1>4, BufferFacts
  <2>2. /\ f.size \in Nat /\ f # NoHeader
        /\ f.size > 0 => HeaderLen(f) = 3 /\ FrameLen(f) = 3 + f.size
        /\ f.size = 0 => HeaderLen(f) = 2 /\ FrameLen(f) = 2
        /\ f \in Frame /\ MaxFrames[c] > 0
    <3>1. MaxFrames[c] > 0
      <4>1. MaxFrames[c] \in Nat
        BY StreamFacts
      <4> QED
        BY <2>1, <4>1
    <3> QED
      BY <3>1, RequestFacts
  <2>3. Skip(c, 1) /\ 1 \in 0..Len(InputBuffer[c])
    BY <1>4, <2>1, TypesOf DEF HttpParseLine
  <2>4. Retrieve(c, 1) /\ UNCHANGED <<serving, state_, handled, refused>>
    BY <2>3 DEF Skip
  <2>5. Stays(c) /\ Waits(c)'
    BY <2>4, PassedHttp DEF Stays, Waits
  <2>6. \A i \in 1..Len(InputBuffer'[c]) : InputBuffer'[c][i][1] = 1
    BY <1>2, <2>3, <2>4, HttpDrops
  <2>7. context'[c] = CASE ctx.state = "kExpectRequestLine" -> [ctx EXCEPT !.state = "kExpectHeaders"]
                        [] ctx.state = "kExpectHeaders" /\ Place(c)[2] < HeaderLen(f) ->
                             [ctx EXCEPT !.header = f]
                        [] OTHER -> [ctx EXCEPT !.state = IF ctx.header # NoHeader
                                                          THEN "kExpectBody" ELSE "kDone"]
    BY <1>1, <1>4, <2>1 DEF HttpParseLine
  <2>8. frames[c][Place(c)[1]] = f
    BY <2>1
  <2>9. CASE ctx.state = "kExpectRequestLine"
    <3>1. Place(c) = <<1, 1>> /\ ctx.header = NoHeader
      BY <1>2, <2>9
    <3>2. context'[c].state = "kExpectHeaders" /\ context'[c].header = NoHeader
      BY <1>1, <2>7, <2>9, <3>1 DEF Context
    <3>3. 1 <= FrameLen(f) - Place(c)[2]
      BY <2>2, <3>1
    <3>4. Place(c)' = <<1, 2>>
      <4>1. Place(c)' = <<Place(c)[1], Place(c)[2] + 1>>
        BY <1>4, <2>3, <2>4, <2>8, <3>3, PlaceMoves
      <4> QED
        BY <3>1, <4>1
    <3>5. context'[c].body = <<>>
      BY <1>1, <1>2, <2>7, <2>9 DEF Context
    <3>6. Parsing(c)'
      BY <2>6, <3>2, <3>4, <3>5, HttpInvAfter
    <3> QED
      BY <2>5, <3>6 DEF Turns
  <2>10. CASE Place(c) = <<1, 2>> /\ ctx.state = "kExpectHeaders" /\ ctx.header = NoHeader
    <3>1. CASE f.size > 0
      <4>1. context'[c] = [ctx EXCEPT !.header = f]
        BY <2>2, <2>7, <2>10, <3>1
      <4>2. context'[c].state = "kExpectHeaders" /\ context'[c].header = f /\ context'[c].body = <<>>
        BY <1>1, <1>2, <2>10, <4>1 DEF Context
      <4>3. 1 <= FrameLen(f) - Place(c)[2]
        BY <2>2, <2>10, <3>1
      <4>4. Place(c)' = <<1, 3>>
        <5>1. Place(c)' = <<Place(c)[1], Place(c)[2] + 1>>
          BY <1>4, <2>3, <2>4, <2>8, <4>3, PlaceMoves
        <5> QED
          BY <2>10, <5>1
      <4>5. Parsing(c)'
        BY <2>6, <3>1, <4>2, <4>4, HttpInvAfter
      <4> QED
        BY <2>5, <4>5 DEF Turns
    <3>2. CASE f.size = 0
      <4>1. context'[c] = [ctx EXCEPT !.state = "kDone"]
        BY <2>2, <2>7, <2>10, <3>2
      <4>2. context'[c].state = "kDone" /\ context'[c].body = <<>>
        BY <1>1, <1>2, <4>1 DEF Context
      <4>3. 1 = (FrameLen(f) - Place(c)[2]) + 1
        BY <2>2, <2>10, <3>2
      <4>4. Place(c)' = <<2, 1>>
        <5>1. Place(c)' = <<Place(c)[1] + 1, 1>>
          BY <1>4, <2>3, <2>4, <2>8, <4>3, PlaceNext
        <5> QED
          BY <2>10, <5>1
      <4>5. Payload(1, f) = <<>>
        <5>1. Payload(1, f) \in Seq(Byte) /\ Len(Payload(1, f)) = 0
          BY <2>2, <3>2, PayloadFacts
        <5> QED
          BY <5>1, EmptySeq
      <4>6. Parsing(c)'
        BY <2>2, <2>6, <4>2, <4>4, <4>5, HttpInvAfter
      <4> QED
        BY <2>5, <4>6 DEF Turns
    <3> QED
      BY <2>2, <3>1, <3>2
  <2>11. CASE Place(c) = <<1, 3>> /\ ctx.state = "kExpectHeaders" /\ ctx.header = f /\ f.size > 0
    <3>1. context'[c] = [ctx EXCEPT !.state = "kExpectBody"]
      BY <2>2, <2>7, <2>11
    <3>2. context'[c].state = "kExpectBody" /\ context'[c].header = f /\ context'[c].body = <<>>
      BY <1>1, <1>2, <2>11, <3>1 DEF Context
    <3>3. 1 <= FrameLen(f) - Place(c)[2]
      BY <2>2, <2>11
    <3>4. Place(c)' = <<1, 4>>
      <4>1. Place(c)' = <<Place(c)[1], Place(c)[2] + 1>>
        BY <1>4, <2>3, <2>4, <2>8, <3>3, PlaceMoves
      <4> QED
        BY <2>11, <4>1
    <3>5. Parsing(c)'
      BY <2>6, <2>11, <3>2, <3>4, HttpInvAfter
    <3> QED
      BY <2>5, <3>5 DEF Turns
  <2> QED
    BY <1>2, <2>9, <2>10, <2>11
<1> QED
  BY <1>3, <1>4 DEF HttpParseLine

(* A body is taken when all of it has arrived. *)
LEMMA BodyKeeps ==
  ASSUME TypeInv, NEW c \in Conns, protocol = "http", HttpInv(c), serving = c,
         HttpParseBody(c), UNCHANGED <<protocol, frames, wire>>
  PROVE  Turns(c)
<1> DEFINE f == frames[c][1]
           ctx == context[c]
<1>1. context \in [Conns -> Context] /\ ctx \in Context /\ ctx.state = "kExpectBody"
  BY TypesOf DEF HttpParseBody
<1>2. /\ \A i \in 1..Len(InputBuffer[c]) : InputBuffer[c][i][1] = 1
      /\ ctx.body = <<>>
      /\ Place(c) = <<1, 4>> /\ ctx.header = f /\ f.size > 0
  BY <1>1 DEF HttpInv
<1>3. MaxFrames[c] > 0
  <2>1. Place(c) # <<MaxFrames[c] + 1, 1>>
    BY <1>2
  <2>2. Left(c) # <<>>
    BY <2>1, PlaceFacts
  <2>3. Place(c)[1] \in 1..MaxFrames[c] /\ Place(c)[1] = 1
    BY <1>2, <2>2, PlaceFacts
  <2>4. MaxFrames[c] \in Nat
    BY StreamFacts
  <2> QED
    BY <2>3, <2>4
<1>4. f \in Frame /\ f.size \in Nat /\ HeaderLen(f) = 3 /\ FrameLen(f) = 3 + f.size
  BY <1>2, <1>3, RequestFacts
<1>5. frames[c][Place(c)[1]] = f /\ Len(InputBuffer[c]) \in Nat /\ InputBuffer[c] \in Seq(Byte)
  BY <1>2, TypesOf
<1>6. CASE Short(c, f.size) /\ Return /\ UNCHANGED context
  <2>1. UNCHANGED <<InputBuffer, handled, refused>> /\ serving' = NoConn /\ serving' # c
    BY <1>6, ConstantsAssumption DEF Return
  <2>2. Place(c)' = Place(c)
    BY <2>1 DEF Place, Left
  <2>3. Parsing(c)'
    BY <1>1, <1>2, <1>6, <2>1, <2>2, HttpInvAfter
  <2>4. Place(c)'[1] = 1
    BY <1>2, <2>2
  <2>5. Stays(c)
    BY <2>1, <2>4, PassedHttp DEF Stays
  <2>6. Len(InputBuffer[c]) <= FrameLen(f) - Place(c)[2]
    BY <1>2, <1>4, <1>5, <1>6 DEF Short
  <2>7. Waits(c)'
    BY <1>5, <2>1, <2>6, ReturnWaits
  <2> QED
    BY <2>3, <2>5, <2>7 DEF Turns
<1>7. CASE /\ ~Short(c, f.size) /\ Skip(c, f.size)
           /\ context' = [context EXCEPT ![c].state = "kDone",
                                         ![c].body = SubSeq(InputBuffer[c], 1, f.size)]
  <2> DEFINE n == f.size
  <2>1. n \in 0..Len(InputBuffer[c]) /\ n \in Nat /\ n > 0
    BY <1>2, <1>4, <1>7, EnoughBytes
  <2>2. InputBuffer[c] # <<>>
    <3>1. Len(InputBuffer[c]) > 0
      BY <1>5, <2>1
    <3> QED
      BY <1>5, <3>1, Nonempty
  <2>3. Retrieve(c, n) /\ UNCHANGED <<serving, state_, handled, refused>>
    BY <1>7 DEF Skip
  <2>4. n = (FrameLen(f) - Place(c)[2]) + 1 /\ Place(c)[2] <= HeaderLen(f) + 1
    BY <1>2, <1>4
  <2>5. SubSeq(InputBuffer[c], 1, n) = Payload(1, f)
    <3>1. SubSeq(InputBuffer[c], n - f.size + 1, n) = Payload(Place(c)[1], f)
      BY <1>5, <2>1, <2>2, <2>4, PayloadRead
    <3>2. n - f.size + 1 = 1 /\ Place(c)[1] = 1
      BY <1>2, <1>4
    <3> QED
      BY <3>1, <3>2
  <2>6. context'[c].state = "kDone" /\ context'[c].body = SubSeq(InputBuffer[c], 1, n)
    BY <1>1, <1>7 DEF Context
  <2>7. Place(c)' = <<2, 1>>
    <3>1. Place(c)' = <<Place(c)[1] + 1, 1>>
      BY <1>5, <2>1, <2>2, <2>3, <2>4, PlaceNext
    <3> QED
      BY <1>2, <3>1
  <2>8. \A i \in 1..Len(InputBuffer'[c]) : InputBuffer'[c][i][1] = 1
    BY <1>2, <2>1, <2>3, HttpDrops
  <2>9. Parsing(c)'
    BY <1>3, <2>5, <2>6, <2>7, <2>8, HttpInvAfter
  <2>10. Stays(c) /\ Waits(c)'
    BY <2>3, PassedHttp DEF Stays, Waits
  <2> QED
    BY <2>9, <2>10 DEF Turns
<1> QED
  BY <1>2, <1>6, <1>7 DEF HttpParseBody

(* A request that is done is handed on with its own body, or refused. *)
LEMMA RequestKeeps ==
  ASSUME TypeInv, NEW c \in Conns, protocol = "http", HttpInv(c), serving = c,
         HttpServe(c), UNCHANGED <<protocol, frames, wire>>
  PROVE  Turns(c)
<1> DEFINE f == frames[c][1]
<1>1. /\ context[c].state = "kDone" /\ serving' = NoConn /\ serving' # c
      /\ UNCHANGED <<InputBuffer, context>>
  BY ConstantsAssumption DEF HttpServe
<1>2. /\ \A i \in 1..Len(InputBuffer[c]) : InputBuffer[c][i][1] = 1
      /\ Place(c) = <<2, 1>> /\ MaxFrames[c] > 0 /\ context[c].body = Payload(1, f)
  BY <1>1 DEF HttpInv
<1>3. Place(c)' = Place(c)
  BY <1>1 DEF Place, Left
<1>4. Parsing(c)'
  BY <1>1, <1>2, <1>3, HttpInvAfter
<1>5. InputBuffer[c] = <<>>
  <2>1. SUFFICES ASSUME InputBuffer[c] # <<>> PROVE FALSE
    OBVIOUS
  <2>2. Place(c) = InputBuffer[c][1] /\ 1 \in 1..Len(InputBuffer[c])
    BY <2>1, BufferFacts, TypesOf
  <2>3. Place(c)[1] = 1
    BY <1>2, <2>2
  <2> QED
    BY <1>2, <2>3
<1>6. Waits(c)'
  BY <1>1, <1>5, ReturnWaits
<1>7. Passes(c, 1)
  <2>1. 1 \in 1..MaxFrames[c]
    <3>1. MaxFrames[c] \in Nat
      BY StreamFacts
    <3> QED
      BY <1>2, <3>1
  <2>2. Passed(c) = 1 - 1 /\ Passed(c)' = 1
    BY <1>1, <1>2, <1>3, PassedHttp
  <2>3. Serves(c, 1)
    <3>1. f.kind = "message"
      BY <1>2, RequestFacts
    <3>2. CASE handled' = handled /\ refused' = [refused EXCEPT ![c] = @ \cup {1}]
      <4>1. refused'[c] = refused[c] \cup {1}
        BY <3>2, TypesOf
      <4> QED
        BY <3>2, <4>1 DEF Serves
    <3>3. CASE refused' = refused /\ handled' = [handled EXCEPT ![c] = Append(@, context[c].body)]
      <4>1. handled'[c] = Append(handled[c], Payload(1, f))
        BY <1>2, <3>3, TypesOf
      <4> QED
        BY <3>1, <3>3, <4>1 DEF Serves
    <3> QED
      BY <3>2, <3>3 DEF HttpServe
  <2> QED
    BY <2>1, <2>2, <2>3 DEF Passes
<1> QED
  BY <1>4, <1>6, <1>7 DEF Turns

(* A turn of the HTTP handler goes on with the request, serves it, or      *)
(* waits.                                                                  *)
LEMMA HttpKeeps ==
  ASSUME TypeInv, NEW c \in Conns, protocol = "http", Parsing(c), OnMessage(c)
  PROVE  Turns(c)
<1>1. UNCHANGED <<protocol, frames, wire>> /\ serving = c /\ HttpInv(c)
  BY DEF OnMessage, streamVars, Parsing
<1>2. HttpParseLine(c) \/ HttpParseBody(c) \/ HttpServe(c)
  BY DEF OnMessage, HttpOnMessage
<1> QED
  BY <1>1, <1>2, LineKeeps, BodyKeeps, RequestKeeps

----------------------------------------------------------------------------
(* The HTTP and WebSocket clients: the buffer is one frame. *)

(* The bytes of a buffer that holds one frame. *)
LEMMA OneFrameFacts ==
  ASSUME TypeInv, NEW c \in Conns, OneFrame(c), Place(c)[2] = 1
  PROVE  /\ Place(c)[1] \in 1..MaxFrames[c] /\ Place(c)[1] \in Nat
         /\ frames[c][Place(c)[1]] \in Frame
         /\ Len(InputBuffer[c]) = FrameLen(frames[c][Place(c)[1]])
         /\ \A i \in 1..Len(InputBuffer[c]) : InputBuffer[c][i] = <<Place(c)[1], i>>
         /\ Len(InputBuffer[c]) \in 0..Len(InputBuffer[c])
         /\ Len(InputBuffer[c]) = (FrameLen(frames[c][Place(c)[1]]) - Place(c)[2]) + 1
<1> DEFINE k == Place(c)[1]
           L == FrameLen(frames[c][k])
           n == Len(InputBuffer[c])
<1>1. InputBuffer[c] # <<>> /\ n = L
  BY DEF OneFrame
<1>2. /\ k \in 1..MaxFrames[c] /\ frames[c][k] \in Frame /\ L \in Nat \ {0}
      /\ \A i \in 1..n : 1 + (i - 1) <= L => InputBuffer[c][i] = <<k, 1 + (i - 1)>>
  BY <1>1, BufferFacts
<1>3. k \in Nat
  BY PlaceFacts, StreamFacts
<1> HIDE DEF k, L, n
<1>4. \A i \in 1..n : InputBuffer[c][i] = <<k, i>>
  <2> SUFFICES ASSUME NEW i \in 1..n PROVE InputBuffer[c][i] = <<k, i>>
    OBVIOUS
  <2>1. 1 + (i - 1) = i /\ i <= L
    BY <1>1, <1>2
  <2> QED
    BY <1>2, <2>1
<1>5. n \in 0..n /\ n = (L - 1) + 1
  BY <1>1, <1>2
<1> QED
  BY <1>1, <1>2, <1>3, <1>4, <1>5 DEF k, L, n

(* All that has arrived is retrieved. *)
LEMMA AllRetrieved ==
  ASSUME TypeInv, NEW c \in Conns, OneFrame(c), Place(c)[2] = 1, wire' = wire,
         Retrieve(c, Len(InputBuffer[c]))
  PROVE  InputBuffer'[c] = <<>> /\ Place(c)' = <<Place(c)[1] + 1, 1>>
<1>1. /\ Len(InputBuffer[c]) \in 0..Len(InputBuffer[c])
      /\ Len(InputBuffer[c]) = (FrameLen(frames[c][Place(c)[1]]) - Place(c)[2]) + 1
  BY OneFrameFacts
<1>2. InputBuffer[c] # <<>>
  BY DEF OneFrame
<1>3. Place(c)' = <<Place(c)[1] + 1, 1>>
  BY <1>1, <1>2, PlaceNext
<1>4. InputBuffer'[c] = Drop(InputBuffer[c], Len(InputBuffer[c]))
  BY <1>1, LeftDrops
<1>5. Drop(InputBuffer[c], Len(InputBuffer[c])) = <<>>
  BY <1>1, TypesOf, DropFacts
<1> QED
  BY <1>3, <1>4, <1>5

(* The client protocols have no other frames than messages. *)
LEMMA OnlyMessages ==
  ASSUME TypeInv, NEW f \in Messages, protocol \in {"http_client", "websocket_client"}
  PROVE  f.kind = "message"
<1>1. OtherKinds(protocol) = {}
  BY DEF OtherKinds
<1>2. f.kind \in {"message"} \cup OtherKinds(protocol)
  BY MessageFacts
<1> QED
  BY <1>1, <1>2

(* An empty buffer strands nothing. *)
LEMMA EmptyWaits ==
  ASSUME NEW c, InputBuffer'[c] = <<>>
  PROVE  Waits(c)'
  BY DEF Waits

(* The rest of the frame behind its header. *)
LEMMA RestIsPayload ==
  ASSUME TypeInv, NEW c \in Conns, OneFrame(c), Place(c)[2] = 1,
         NEW f, f = frames[c][Place(c)[1]]
  PROVE  /\ f \in Frame /\ HeaderLen(f) \in 1..Len(InputBuffer[c])
         /\ Len(InputBuffer[c]) = HeaderLen(f) + f.size
         /\ SubSeq(InputBuffer[c], HeaderLen(f) + 1, Len(InputBuffer[c])) = Payload(Place(c)[1], f)
<1> DEFINE n == Len(InputBuffer[c])
<1>1. /\ f \in Frame /\ n = FrameLen(f) /\ n \in 0..n
      /\ n = (FrameLen(f) - Place(c)[2]) + 1 /\ InputBuffer[c] # <<>>
  BY OneFrameFacts DEF OneFrame
<1>2. f.size \in Nat /\ HeaderLen(f) \in Nat \ {0} /\ HeaderLen(f) + f.size = FrameLen(f)
  BY <1>1, FrameSizes
<1>3. SubSeq(InputBuffer[c], n - f.size + 1, n) = Payload(Place(c)[1], f)
  <2>1. Place(c)[2] <= HeaderLen(f) + 1
    BY <1>2
  <2> QED
    BY <1>1, <2>1, PayloadRead
<1> HIDE DEF n
<1>4. n - f.size + 1 = HeaderLen(f) + 1 /\ HeaderLen(f) \in 1..n /\ n = HeaderLen(f) + f.size
  BY <1>1, <1>2
<1>5. SubSeq(InputBuffer[c], HeaderLen(f) + 1, n) = Payload(Place(c)[1], f)
  BY <1>3, <1>4
<1> QED
  BY <1>1, <1>4, <1>5 DEF n

(* The HTTP client hands on the body of the response in its buffer. *)
LEMMA HttpClientKeeps ==
  ASSUME TypeInv, NEW c \in Conns, protocol = "http_client", Parsing(c), OnMessage(c)
  PROVE  Turns(c)
<1> DEFINE buf == InputBuffer[c]
           k == Place(c)[1]
           f == frames[c][k]
           empty == {i \in DOMAIN buf : buf[i][2] = HeaderLen(frames[c][buf[i][1]])}
<1>1. UNCHANGED <<protocol, frames, wire>> /\ serving = c
  BY DEF OnMessage, streamVars
<1>2. OneFrame(c) /\ Place(c)[2] = 1
  BY <1>1 DEF Parsing, HttpClientInv
<1>3. /\ k \in 1..MaxFrames[c] /\ k \in Nat /\ \A i \in 1..Len(buf) : buf[i] = <<k, i>>
  BY <1>2, OneFrameFacts
<1>4. /\ HeaderLen(f) \in 1..Len(buf)
      /\ SubSeq(buf, HeaderLen(f) + 1, Len(buf)) = Payload(k, f)
  BY <1>2, RestIsPayload
<1>5. DOMAIN buf = 1..Len(buf)
  BY TypesOf, LenProperties
<1>6. empty = {HeaderLen(f)}
  <2>1. ASSUME NEW i \in 1..Len(buf) PROVE buf[i][2] = i /\ frames[c][buf[i][1]] = f
    BY <1>3
  <2> HIDE DEF f
  <2> QED
    BY <1>4, <1>5, <2>1
<1>7. /\ \E i \in empty : handled' = [handled EXCEPT ![c] = Append(@, Drop(buf, i))]
      /\ Retrieve(c, Len(buf)) /\ serving' = NoConn /\ UNCHANGED refused
  <2>1. empty # {}
    BY <1>6
  <2> QED
    BY <2>1 DEF OnMessage, HttpOnDataReceived
<1>8. handled'[c] = Append(handled[c], Payload(k, f))
  <2>1. handled' = [handled EXCEPT ![c] = Append(@, Drop(buf, HeaderLen(f)))]
    BY <1>6, <1>7
  <2>2. Drop(buf, HeaderLen(f)) = Payload(k, f)
    BY <1>4 DEF Drop
  <2> QED
    BY <2>1, <2>2, TypesOf
<1>9. InputBuffer'[c] = <<>> /\ Place(c)' = <<k + 1, 1>>
  BY <1>1, <1>2, <1>7, AllRetrieved
<1>10. f.kind = "message"
  <2>1. f \in Messages
    BY <1>3, KindFacts
  <2> QED
    BY <2>1, OnlyMessages
<1>11. Passes(c, k)
  <2>1. Serves(c, k)
    BY <1>7, <1>8, <1>10 DEF Serves
  <2>2. Passed(c) = k - 1 /\ Passed(c)' = (k + 1) - 1
    BY <1>1, <1>9, PassedPlain
  <2> HIDE DEF k
  <2>3. Passed(c)' = k
    BY <1>3, <2>2
  <2> QED
    BY <1>3, <2>1, <2>2, <2>3 DEF Passes
<1>12. HttpClientInv(c)'
  <2>1. serving' # c
    BY <1>7, ConstantsAssumption
  <2> QED
    BY <1>9, <2>1 DEF HttpClientInv
<1>13. Parsing(c)'
  BY <1>1, <1>12 DEF Parsing, Prefixed
<1>14. Waits(c)'
  BY <1>9, EmptyWaits
<1> QED
  BY <1>11, <1>13, <1>14 DEF Turns

(* The WebSocket client takes the handshake first, then a frame per call. *)
LEMMA WebSocketClientKeeps ==
  ASSUME TypeInv, NEW c \in Conns, protocol = "websocket_client", Parsing(c), Fresh(c), OnMessage(c)
  PROVE  Turns(c)
<1> DEFINE buf == InputBuffer[c]
           k == Place(c)[1]
           f == frames[c][k]
<1>1. /\ UNCHANGED <<protocol, frames, wire, state_, refused>> /\ serving = c /\ serving' = NoConn
      /\ serving' # c
  BY ConstantsAssumption DEF OnMessage, streamVars, WebSocketOnDataReceived
<1>2. /\ OneFrame(c) /\ Place(c)[2] = 1 /\ f.size < LongSize /\ state_[c] # "none"
      /\ is_upgraded_ <=> k # 1
      /\ \A d \in Conns : state_[c] # "none" /\ state_[d] # "none" => c = d
  BY <1>1 DEF Parsing, WebSocketClientInv, Fresh
<1>3. /\ k \in 1..MaxFrames[c] /\ k \in Nat /\ f \in Frame /\ buf # <<>>
      /\ Place(c) = Head(buf) /\ Place(c) = <<k, 1>>
  BY <1>2, OneFrameFacts, BufferFacts, PlaceFacts DEF OneFrame
<1>4. ASSUME Retrieve(c, Len(buf)), is_upgraded_' = TRUE, Serves(c, k)
      PROVE  Turns(c)
  <2>1. InputBuffer'[c] = <<>> /\ Place(c)' = <<k + 1, 1>>
    BY <1>1, <1>2, <1>4, AllRetrieved
  <2>2. Place(c)'[1] = k + 1 /\ Place(c)'[1] # 1 /\ Place(c)'[2] = 1 /\ (k + 1) - 1 = k
    BY <1>3, <2>1
  <2>3. WebSocketClientInv(c)'
    BY <1>1, <1>2, <1>4, <2>1, <2>2 DEF WebSocketClientInv
  <2>4. Parsing(c)'
    BY <1>1, <2>3 DEF Parsing, Prefixed
  <2>5. Passes(c, k)
    <3>1. Passed(c) = k - 1 /\ Passed(c)' = (k + 1) - 1
      BY <1>1, <2>2, PassedPlain
    <3> QED
      BY <1>3, <1>4, <2>2, <3>1 DEF Passes
  <2>6. Waits(c)'
    BY <2>1, EmptyWaits
  <2> QED
    BY <2>4, <2>5, <2>6 DEF Turns
<1>5. CASE is_upgraded_
  <2>1. f \in Messages
    BY <1>2, <1>3, <1>5, KindFacts
  <2>2. HeaderLen(f) = 1 /\ f.kind = "message"
    BY <2>1, LengthFacts, OnlyMessages
  <2>3. Len(buf) = 1 + f.size /\ SubSeq(buf, 1 + 1, Len(buf)) = Payload(k, f)
    BY <1>2, <2>2, RestIsPayload
  <2>4. f.size \in Nat /\ LongSize \in Nat /\ ~(f.size >= LongSize)
    <3>1. f.size \in Nat /\ LongSize \in Nat
      BY <1>3, FrameSizes, ConstantsAssumption
    <3> QED
      BY <1>2, <3>1
  <2>5. \A g \in HeaderAt(c) : g = f
    BY <1>2, <1>3, <2>1, HeaderIs
  <2>6. ~Short(c, 1 + f.size)
    BY <2>3, <2>4 DEF Short
  <2> HIDE DEF f, buf
  <2>7. /\ Retrieve(c, 1 + f.size) /\ UNCHANGED is_upgraded_
        /\ handled' = [handled EXCEPT ![c] = Append(@, SubSeq(InputBuffer[c], 2, 1 + f.size))]
    BY <1>1, <1>5, <2>4, <2>5, <2>6 DEF OnMessage, WebSocketOnDataReceived
  <2>8. handled'[c] = Append(handled[c], Payload(k, f))
    <3>1. handled'[c] = Append(handled[c], SubSeq(buf, 2, Len(buf)))
      BY <2>3, <2>7, TypesOf DEF buf
    <3>2. SubSeq(buf, 2, Len(buf)) = Payload(k, f)
      <4>1. 1 + 1 = 2
        OBVIOUS
      <4> QED
        BY <2>3, <4>1
    <3> QED
      BY <3>1, <3>2
  <2>9. Serves(c, k)
    BY <1>1, <2>2, <2>8 DEF Serves, f
  <2>10. Retrieve(c, Len(buf)) /\ is_upgraded_' = TRUE
    BY <1>5, <2>3, <2>7
  <2> QED
    BY <1>4, <2>9, <2>10
<1>6. CASE ~is_upgraded_
  <2>1. k = 1 /\ Head(buf) = <<1, 1>>
    BY <1>2, <1>3, <1>6
  <2>2. f \in Openings
    BY <1>3, <2>1, KindFacts
  <2>3. f.kind # "message"
    <3>1. FirstKinds(protocol) = {"upgrade"}
      BY DEF FirstKinds
    <3>2. f.kind \in FirstKinds(protocol)
      BY <2>2 DEF Openings
    <3> QED
      BY <3>1, <3>2
  <2>4. is_upgraded_' = TRUE /\ Retrieve(c, Len(buf)) /\ handled' = handled
    BY <1>6, <2>1 DEF OnMessage, WebSocketOnDataReceived
  <2>5. Serves(c, k)
    BY <1>1, <2>3, <2>4 DEF Serves
  <2> QED
    BY <1>4, <2>4, <2>5
<1> QED
  BY <1>5, <1>6, TypesOf

----------------------------------------------------------------------------
(* WebSocket. *)

(* A buffer that begins and ends with a frame holds its first frame. *)
LEMMA FirstFrameWhole ==
  ASSUME TypeInv, NEW c \in Conns, InputBuffer[c] # <<>>, Place(c)[2] = 1, WholeFrames(c)
  PROVE  FrameLen(frames[c][Place(c)[1]]) \in 1..Len(InputBuffer[c])
<1> DEFINE k == Place(c)[1]
           L == FrameLen(frames[c][k])
           n == Len(InputBuffer[c])
<1>1. /\ L \in Nat \ {0} /\ n > 0
      /\ \A i \in 1..n : 1 + (i - 1) <= L => InputBuffer[c][i] = <<k, 1 + (i - 1)>>
  BY BufferFacts
<1>2. n \in Nat /\ InputBuffer[c][n][2] = FrameLen(frames[c][InputBuffer[c][n][1]])
  BY TypesOf DEF WholeFrames
<1>3. SUFFICES ASSUME n < L PROVE FALSE
  <2> HIDE DEF n, L
  <2>1. ~(n < L) => L \in 1..n
    BY <1>1, <1>2
  <2> QED
    BY <2>1 DEF n, L
<1>4. n \in 1..n /\ 1 + (n - 1) <= L /\ 1 + (n - 1) = n
  <2> HIDE DEF n, L
  <2> QED
    BY <1>1, <1>2, <1>3
<1>5. InputBuffer[c][n] = <<k, n>>
  BY <1>1, <1>4
<1>6. n = L
  BY <1>2, <1>5
<1> QED
  BY <1>1, <1>2, <1>3, <1>6

(* What is left of a buffer that ends with a frame does too. *)
LEMMA WholeFramesLeft ==
  ASSUME TypeInv, NEW c \in Conns, WholeFrames(c), NEW n \in 0..Len(InputBuffer[c]),
         Retrieve(c, n), UNCHANGED <<protocol, frames, wire>>
  PROVE  WholeFrames(c)'
<1> DEFINE a == InputBuffer[c]
           b == Drop(a, n)
<1>1. a \in Seq(Byte) /\ Len(a) \in Nat /\ n \in 0..Len(a) /\ InputBuffer'[c] = b
  BY TypesOf, LeftDrops
<1>2. a # <<>> => a[Len(a)][2] = FrameLen(frames[c][a[Len(a)][1]])
  BY DEF WholeFrames
<1> HIDE DEF a
<1>3. b \in Seq(Byte) /\ Len(b) = Len(a) - n /\ \A i \in 1..(Len(a) - n) : b[i] = a[n + i]
  <2>1. a \in Seq(Byte) /\ n \in 0..Len(a)
    BY <1>1
  <2> QED
    BY <2>1, DropFacts
<1> HIDE DEF b
<1>4. ASSUME b # <<>> PROVE b[Len(b)][2] = FrameLen(frames[c][b[Len(b)][1]])
  <2>1. Len(b) > 0 /\ Len(b) \in Nat
    BY <1>3, <1>4, Nonempty
  <2>2. /\ Len(b) \in 1..(Len(a) - n) /\ n + Len(b) = Len(a) /\ Len(a) > 0
    BY <1>1, <1>3, <2>1
  <2>3. b[Len(b)] = a[Len(a)]
    BY <1>3, <2>2
  <2>4. a # <<>>
    BY <1>1, <2>2, Nonempty
  <2> QED
    BY <1>2, <2>3, <2>4
<1>5. FrameLen(frames[c][InputBuffer[c][Len(InputBuffer[c])][1]])'
        = FrameLen(frames'[c][InputBuffer'[c][Len(InputBuffer'[c])][1]])
  BY SameFrames
<1>6. FrameLen(frames[c][InputBuffer[c][Len(InputBuffer[c])][1]])'
        = FrameLen(frames[c][b[Len(b)][1]])
  BY <1>1, <1>5
<1> QED
  BY <1>1, <1>4, <1>6 DEF WholeFrames

(* The bytes of a frame that begins where the parser does. *)
LEMMA ThroughFacts ==
  ASSUME NEW f \in Messages, f \in Frame, protocol = "websocket", parser_.state = 1
  PROVE  Through(4, f) = FrameLen(f) /\ \A s \in 1..4 : Through(s, f) <= FrameLen(f)
<1> DEFINE e == IF f.size >= LongSize THEN 1 ELSE 0
<1>1. f.size \in Nat
  BY FrameSizes
<1>2. Field(1, f) = 1 /\ Field(2, f) = e /\ Field(3, f) = 1 /\ Field(4, f) = f.size
  BY DEF Field, Extended
<1>3. HeaderLen(f) = 2 + e
  <2>1. HeaderLen(f) = IF f.size >= LongSize THEN 3 ELSE 2
    BY LengthFacts
  <2> QED
    BY <2>1
<1>4. e \in {0, 1}
  OBVIOUS
<1> HIDE DEF e
<1>5. /\ Through(1, f) = 1 /\ Through(2, f) = 1 + e /\ Through(3, f) = 2 + e
      /\ Through(4, f) = 2 + e + f.size
  BY <1>1, <1>2, <1>4 DEF Through
<1>6. FrameLen(f) = 2 + e + f.size
  BY <1>1, <1>3, <1>4 DEF FrameLen
<1>7. \A s \in 1..4 : s = 1 \/ s = 2 \/ s = 3 \/ s = 4
  OBVIOUS
<1> QED
  BY <1>1, <1>4, <1>5, <1>6, <1>7

(* A frame is served, and the next one is where the parser stands. *)
LEMMA WebSocketTurns ==
  ASSUME TypeInv, NEW c \in Conns, protocol = "websocket", WebSocketInv(c),
         UNCHANGED <<protocol, frames, wire, parser_>>, InputBuffer[c] # <<>>,
         NEW n \in 0..Len(InputBuffer[c]), Retrieve(c, n),
         Place(c)' = <<Place(c)[1] + 1, 1>>, Serves(c, Place(c)[1]),
         \/ serving' = c /\ is_upgraded_' = TRUE
         \/ /\ serving' # c
            /\ state_'[c] = "kConnected" => InputBuffer'[c] = <<>> /\ is_upgraded_' = TRUE
  PROVE  Turns(c)
<1> DEFINE k == Place(c)[1]
<1>1. k \in 1..MaxFrames[c] /\ k \in Nat \ {0}
  BY BufferFacts, PlaceFacts, StreamFacts
<1>2. Place(c)'[1] = k + 1 /\ k + 1 # 1 /\ Place(c)'[2] = 1 /\ (k + 1) - 1 = k
  BY <1>1
<1>3. Passes(c, k)
  <2>1. Passed(c) = k - 1 /\ Passed(c)' = (k + 1) - 1
    BY <1>2, PassedPlain
  <2> QED
    BY <1>1, <1>2, <2>1 DEF Passes
<1>4. WholeFrames(c)'
  BY WholeFramesLeft DEF WebSocketInv
<1>5. \A f \in Arrived(c)' : f.size <= MaxLength
  BY ArrivedShrinks DEF WebSocketInv
<1>6. WebSocketInv(c)'
  BY <1>2, <1>4, <1>5 DEF WebSocketInv
<1>7. Parsing(c)'
  BY <1>6 DEF Parsing, Prefixed
<1>8. Waits(c)'
  BY DEF Waits
<1> QED
  BY <1>3, <1>7, <1>8 DEF Turns

(* The handshake is answered or rejected, and all that has arrived is it. *)
LEMMA UpgradeKeeps ==
  ASSUME TypeInv, NEW c \in Conns, protocol = "websocket", WebSocketInv(c), serving = c,
         Upgrade(c), UNCHANGED <<protocol, frames, wire>>
  PROVE  Turns(c) /\ UNCHANGED parser_ /\ ~is_upgraded_
<1> DEFINE k == Place(c)[1]
           f == frames[c][1]
<1>1. UNCHANGED parser_ /\ ~is_upgraded_
  BY DEF Upgrade
<1>2. k = 1 /\ OneFrame(c) /\ Place(c)[2] = 1
  BY <1>1 DEF WebSocketInv
<1>3. InputBuffer[c] # <<>> /\ Head(InputBuffer[c]) = <<1, 1>> /\ 1 \in 1..MaxFrames[c]
  <2>1. InputBuffer[c] # <<>>
    BY <1>2 DEF OneFrame
  <2> QED
    BY <1>2, <2>1, BufferFacts, PlaceFacts
<1>4. f \in Openings
  BY <1>3, KindFacts
<1>5. HeaderLen(f) = HeaderBytes /\ f.size = 0 /\ f.kind # "message"
  <2>1. f.kind \in FirstKinds(protocol)
    BY <1>4 DEF Openings
  <2>2. FirstKinds(protocol) = {"upgrade", "junk"}
    BY DEF FirstKinds
  <2>3. HeaderLen(f) = HeaderBytes /\ f.size = 0
    BY <1>4, LengthFacts
  <2> QED
    BY <2>1, <2>2, <2>3
<1>6. Len(InputBuffer[c]) = HeaderBytes /\ HeaderBytes \in Nat /\ ~Short(c, HeaderBytes)
  <2>1. HeaderBytes \in Nat
    BY TypesOf
  <2>2. Len(InputBuffer[c]) = HeaderBytes
    BY <1>2, <1>5, <2>1 DEF OneFrame, FrameLen
  <2> QED
    BY <2>1, <2>2 DEF Short
<1>7. /\ Retrieve(c, Len(InputBuffer[c])) /\ serving' = NoConn
      /\ handled' = handled
      /\ refused' = refused \/ refused' = [refused EXCEPT ![c] = @ \cup {}]
      /\ is_upgraded_' = TRUE \/ state_' = [state_ EXCEPT ![c] = "kDisconnected"]
  BY <1>3, <1>6 DEF Upgrade, End
<1>8. InputBuffer'[c] = <<>> /\ Place(c)' = <<k + 1, 1>>
  BY <1>2, <1>7, AllRetrieved
<1>9. /\ refused'[c] = refused[c]
      /\ is_upgraded_' = TRUE \/ state_'[c] = "kDisconnected"
  BY <1>7, TypesOf
<1>10. Serves(c, k)
  BY <1>2, <1>5, <1>7, <1>9 DEF Serves
<1>11. serving' # c /\ Len(InputBuffer[c]) \in 0..Len(InputBuffer[c])
  BY <1>6, <1>7, ConstantsAssumption
<1> QED
  BY <1>1, <1>3, <1>7, <1>8, <1>9, <1>10, <1>11, WebSocketTurns

(* The frame at the head of the buffer is parsed to its end and served. *)
LEMMA FrameKeeps ==
  ASSUME TypeInv, NEW c \in Conns, protocol = "websocket", WebSocketInv(c), serving = c,
         Plain(c), is_upgraded_, InputBuffer[c] # <<>>, NEW g \in ParsedHeaders(c), WebSocketFrame(c, g),
         UNCHANGED <<protocol, frames, wire, is_upgraded_>>
  PROVE  Turns(c) /\ UNCHANGED parser_
<1> DEFINE k == Place(c)[1]
           f == frames[c][k]
           n == FrameLen(f)
<1>1. /\ k # 1 /\ Place(c)[2] = 1 /\ WholeFrames(c) /\ \A h \in Arrived(c) : h.size <= MaxLength
      /\ parser_ = [state |-> 1, header |-> NoHeader] /\ parser_.state = 1
  BY DEF WebSocketInv
<1>2. k \in 1..MaxFrames[c] /\ f \in Frame /\ Head(InputBuffer[c])[1] = k
  BY BufferFacts
<1>3. f \in Messages
  BY <1>1, <1>2, KindFacts
<1>4. g = f
  <2>1. g \in HeaderAt(c)
    BY <1>1 DEF ParsedHeaders
  <2> QED
    BY <1>1, <1>3, <2>1, HeaderIs
<1>5. n \in 1..Len(InputBuffer[c]) /\ Len(InputBuffer[c]) \in Nat
  BY <1>1, FirstFrameWhole, TypesOf
<1>6. Through(4, f) = n /\ \A s \in 1..4 : Through(s, f) <= n
  BY <1>1, <1>2, <1>3, ThroughFacts
<1>7. f.size \in Nat /\ HeaderLen(f) \in Nat /\ f.size <= MaxLength /\ MaxLength \in Nat
  BY <1>1, <1>2, FrameSizes, FirstArrived, ConstantsAssumption
<1> HIDE DEF n, f
<1>8. Stops(c, f) = {}
  <2>1. \A s \in 1..4 : Through(s, f) \in Nat
    BY <1>7, FieldsUsed
  <2>2. \A s \in 1..4 : ~Short(c, Through(s, f))
    <3> SUFFICES ASSUME NEW s \in 1..4 PROVE ~Short(c, Through(s, f))
      OBVIOUS
    <3>1. Through(s, f) <= n /\ Through(s, f) \in Nat
      BY <1>6, <2>1
    <3> QED
      BY <1>5, <3>1 DEF Short
  <2>3. ~(f.size > MaxLength)
    BY <1>7
  <2> QED
    BY <1>1, <2>2, <2>3 DEF Stops
<1>9. /\ parser_' = [state |-> 1, header |-> NoHeader]
      /\ \/ f.kind = "control" /\ Skip(c, n)
         \/ f.kind = "message" /\ Serve(c, f, n)
         \/ f.kind = "message" /\ End(c, n, {k})
         \/ f.kind = "close" /\ End(c, n, {})
  BY <1>2, <1>4, <1>6, <1>8 DEF WebSocketFrame
<1>10. UNCHANGED parser_
  BY <1>1, <1>9
<1>11. n \in 0..Len(InputBuffer[c]) /\ n = (n - Place(c)[2]) + 1 /\ Place(c)[2] <= HeaderLen(f) + 1
  BY <1>1, <1>5, <1>7
<1>12. CASE Dispatch(c, f, n)
  <2>1. /\ Place(c)' = <<k + 1, 1>> /\ Retrieve(c, n) /\ Serves(c, k) /\ serving' = c
    BY <1>11, <1>12, FirstArrived, DispatchServes DEF n, f, Plain
  <2>2. is_upgraded_' = TRUE
    OBVIOUS
  <2> QED
    BY <1>10, <1>11, <2>1, <2>2, WebSocketTurns
<1>13. CASE \/ f.kind = "message" /\ End(c, n, {k})
            \/ f.kind = "close" /\ End(c, n, {})
  <2>1. /\ Retrieve(c, n) /\ handled' = handled /\ serving' = NoConn
        /\ state_' = [state_ EXCEPT ![c] = "kDisconnected"]
    BY <1>13 DEF End
  <2>2. state_'[c] = "kDisconnected"
    BY <2>1, TypesOf
  <2>3. refused'[c] = refused[c] \cup {k} \/ (refused'[c] = refused[c] /\ f.kind # "message")
    <3>1. CASE End(c, n, {k})
      BY <3>1, TypesOf DEF End
    <3>2. CASE f.kind = "close" /\ End(c, n, {})
      BY <3>2, TypesOf DEF End
    <3> QED
      BY <1>13, <3>1, <3>2
  <2>4. Place(c)' = <<k + 1, 1>>
    BY <1>11, <2>1, PlaceNext DEF n, f
  <2>5. Serves(c, k)
    BY <2>1, <2>3 DEF Serves, f
  <2>6. serving' # c
    BY <2>1, ConstantsAssumption
  <2> QED
    BY <1>10, <1>11, <2>1, <2>2, <2>4, <2>5, <2>6, WebSocketTurns
<1>14. f.kind = "message" /\ Serve(c, f, n) => Dispatch(c, f, n)
  BY DEF Dispatch
<1>15. f.kind = "control" /\ Skip(c, n) => Dispatch(c, f, n)
  BY DEF Dispatch
<1> QED
  BY <1>9, <1>10, <1>12, <1>13, <1>14, <1>15

(* A handler's turn keeps what OrderOf says of its connection; the parser  *)
(* that all share stays where it begins.                                   *)
LEMMA WebSocketKeeps ==
  ASSUME TypeInv, NEW c \in Conns, protocol = "websocket", Parsing(c), Plain(c), OnMessage(c)
  PROVE  Turns(c) /\ UNCHANGED parser_ /\ (is_upgraded_ => is_upgraded_')
<1>1. /\ UNCHANGED <<protocol, frames, wire>> /\ serving = c /\ WebSocketInv(c)
      /\ WebSocketOnMessage(c)
  BY DEF OnMessage, streamVars, Parsing
<1>2. CASE Upgrade(c)
  BY <1>1, <1>2, UpgradeKeeps
<1>3. CASE InputBuffer[c] # <<>> /\ is_upgraded_ /\ UNCHANGED is_upgraded_
             /\ \E f \in ParsedHeaders(c) : WebSocketFrame(c, f)
  BY <1>1, <1>3, FrameKeeps
<1>4. CASE /\ InputBuffer[c] = <<>> /\ Return /\ is_upgraded_ /\ UNCHANGED <<is_upgraded_, parser_>>
  <2>1. UNCHANGED <<InputBuffer, handled, refused, state_>> /\ serving' # c
    BY <1>4, ConstantsAssumption DEF Return
  <2>2. Place(c)' = Place(c) /\ Arrived(c)' = Arrived(c) /\ WholeFrames(c)'
    BY <1>1, <1>4, <2>1 DEF Place, Left, Arrived, WholeFrames
  <2>3. Stays(c)
    BY <1>1, <2>1, <2>2, PassedPlain DEF Stays
  <2>4. WebSocketInv(c)'
    BY <1>1, <1>4, <2>1, <2>2 DEF WebSocketInv
  <2>5. Parsing(c)'
    BY <1>1, <2>4 DEF Parsing, Prefixed
  <2>6. Waits(c)'
    BY <1>4, <2>1, EmptyWaits
  <2> QED
    BY <1>4, <2>3, <2>5, <2>6 DEF Turns
<1> QED
  BY <1>1, <1>2, <1>3, <1>4 DEF WebSocketOnMessage

----------------------------------------------------------------------------
(* The steps. *)

(* A step of another connection, or its own acceptance, leaves what is     *)
(* known of a connection as it is.                                         *)
LEMMA OthersKept ==
  ASSUME TypeInv, NEW d \in Conns, OrderOf(d), UNCHANGED <<protocol, frames>>,
         serving' = d <=> serving = d,
         InputBuffer'[d] = InputBuffer[d], Left(d)' = Left(d), context'[d] = context[d],
         handled'[d] = handled[d], refused'[d] = refused[d],
         \/ state_'[d] = state_[d]
         \/ state_[d] = "none" /\ state_'[d] # "none",
         protocol = "websocket" =>
           /\ UNCHANGED parser_
           /\ serving = d => UNCHANGED is_upgraded_
           /\ state_[d] = "kConnected" /\ is_upgraded_ => is_upgraded_',
         protocol = "websocket_client" => WebSocketClientInv(d)'
  PROVE  OrderOf(d)'
<1>1. Place(d)' = Place(d)
  BY PlaceStays
<1>2. Arrived(d)' = Arrived(d)
  BY DEF Arrived
<1>3. FrameLen(frames[d][Place(d)[1]])' = FrameLen(frames[d][Place(d)[1]])
  <2>1. FrameLen(frames[d][Place(d)[1]])' = FrameLen(frames'[d][Place(d)'[1]])
    BY SameFrames
  <2> QED
    BY <1>1, <2>1
<1>4. WholeFrames(d) => WholeFrames(d)'
  <2>1. FrameLen(frames[d][InputBuffer[d][Len(InputBuffer[d])][1]])'
          = FrameLen(frames'[d][InputBuffer'[d][Len(InputBuffer'[d])][1]])
    BY SameFrames
  <2> QED
    BY <2>1 DEF WholeFrames
<1>5. OneFrame(d) => OneFrame(d)'
  BY <1>3 DEF OneFrame
<1>6. EmptyPayload(d)' <=> EmptyPayload(d)
  BY DEF EmptyPayload
<1>7. Parsing(d) /\ Plain(d) /\ Intact(d) /\ Waits(d) /\ Fresh(d)
  BY DEF OrderOf
<1>13. Plain(d)'
  BY <1>2, <1>7 DEF Plain
<1>8. Passed(d)' = Passed(d)
  <2>1. CASE protocol = "grpc"
    BY <1>1, <1>6, <2>1, PassedGrpc
  <2>2. CASE protocol = "http"
    BY <1>1, <2>2, PassedHttp
  <2>3. CASE protocol \notin {"grpc", "http"}
    BY <1>1, <2>3, PassedPlain
  <2> QED
    BY <2>1, <2>2, <2>3
<1>9. Intact(d)'
  <2>1. Stays(d)
    BY <1>8 DEF Stays
  <2> QED
    BY <1>7, <2>1, IntactKept
<1>10. Waits(d)'
  BY <1>1, <1>3, <1>7 DEF Waits, Fresh
<1>11. Fresh(d)'
  BY <1>1, <1>7 DEF Fresh
<1>12. Parsing(d)'
  <2>1. CASE protocol \in Prefixed
    <3>1. PrefixedInv(d)'
      BY <1>1, <1>2, <1>7, <2>1 DEF PrefixedInv, Parsing
    <3> QED
      BY <2>1, <3>1 DEF Parsing, Prefixed
  <2>2. CASE protocol = "grpc"
    <3>1. GrpcInv(d)
      BY <1>7, <2>2 DEF Parsing
    <3>2. GrpcInv(d)'
      BY <1>1, <1>6, <3>1 DEF GrpcInv
    <3> QED
      BY <2>2, <3>2 DEF Parsing, Prefixed
  <2>3. CASE protocol = "http"
    <3>1. HttpInv(d)
      BY <1>7, <2>3 DEF Parsing
    <3> QED
      BY <1>1, <2>3, <3>1, HttpInvAfter DEF HttpInv
  <2>4. CASE protocol = "websocket"
    <3>1. WebSocketInv(d)
      BY <1>7, <2>4 DEF Parsing
    <3>2. WebSocketInv(d)'
      BY <1>1, <1>2, <1>4, <1>5, <1>7, <2>4, <3>1 DEF WebSocketInv, Fresh
    <3> QED
      BY <2>4, <3>2 DEF Parsing, Prefixed
  <2>5. CASE protocol = "http_client"
    <3>1. HttpClientInv(d)'
      BY <1>1, <1>5, <1>7, <2>5 DEF HttpClientInv, Parsing
    <3> QED
      BY <2>5, <3>1 DEF Parsing, Prefixed
  <2>6. CASE protocol = "websocket_client"
    BY <2>6 DEF Parsing, Prefixed
  <2> QED
    BY <2>1, <2>2, <2>3, <2>4, <2>5, <2>6 DEF Parsing
<1> QED
  BY <1>9, <1>10, <1>11, <1>12, <1>13 DEF OrderOf

(* Whatever the protocol, a turn serves the next frame or waits for it. *)
LEMMA HandlersTurn ==
  ASSUME TypeInv, NEW c \in Conns, OrderOf(c), OnMessage(c)
  PROVE  /\ Turns(c)
         /\ protocol = "websocket" => UNCHANGED parser_ /\ (is_upgraded_ => is_upgraded_')
<1>1. Parsing(c) /\ Plain(c) /\ Fresh(c)
  BY DEF OrderOf
<1>2. protocol \in Prefixed \cup {"grpc", "http", "websocket", "http_client", "websocket_client"}
  BY DEF OnMessage, Prefixed
<1>3. CASE protocol \in Prefixed
  BY <1>1, <1>3, PrefixedKeeps DEF Prefixed
<1>4. CASE protocol = "grpc"
  BY <1>1, <1>4, GrpcKeeps
<1>5. CASE protocol = "http"
  BY <1>1, <1>5, HttpKeeps
<1>6. CASE protocol = "websocket"
  BY <1>1, <1>6, WebSocketKeeps
<1>7. CASE protocol = "http_client"
  BY <1>1, <1>7, HttpClientKeeps
<1>8. CASE protocol = "websocket_client"
  BY <1>1, <1>8, WebSocketClientKeeps
<1> QED
  BY <1>2, <1>3, <1>4, <1>5, <1>6, <1>7, <1>8

(* A turn brings no frames, and takes no header but of one that is there. *)
LEMMA PlainStays ==
  ASSUME TypeInv, NEW c \in Conns, OrderOf(c), OnMessage(c)
  PROVE  Plain(c)'
<1>1. /\ UNCHANGED <<protocol, frames, wire>> /\ Plain(c) /\ Parsing(c)
  BY DEF OnMessage, streamVars, OrderOf
<1>2. PICK n \in 0..Len(InputBuffer[c]) : Retrieve(c, n)
  BY HandlersMove DEF Moves
<1>3. Arrived(c)' \subseteq Arrived(c)
  BY <1>1, <1>2, ArrivedShrinks
<1>4. ASSUME protocol = "grpc", context'[c].state = "kReadingPayload"
      PROVE  context'[c].header.kind \notin Awkward
  <2>1. \/ context[c].state = "preface" /\ OnPreface(c)
        \/ context[c].state = "kReadingHeader" /\ ParseHeader(c)
        \/ context[c].state = "kReadingPayload" /\ ParsePayload(c)
    BY <1>4 DEF OnMessage, GrpcOnMessage
  <2>2. CASE UNCHANGED context
    BY <1>1, <1>4, <2>2 DEF Plain
  <2>3. CASE Goes(c, "kReadingHeader", NoHeader)
    BY <1>4, <2>3, GoesTo
  <2>4. ASSUME context[c].state = "kReadingHeader", ~Short(c, HeaderBytes),
               NEW f \in HeaderAt(c), Goes(c, "kReadingPayload", f)
        PROVE  context'[c].header.kind \notin Awkward
    <3>1. Place(c)[2] = 1 /\ Place(c)[1] > 1
      BY <1>1, <1>4, <2>4 DEF Parsing, GrpcInv, EmptyPayload
    <3>2. InputBuffer[c] # <<>>
      <4>1. Len(InputBuffer[c]) > 0 /\ InputBuffer[c] \in Seq(Byte)
        BY <2>4, TypesOf, ConstantsAssumption DEF Short
      <4> QED
        BY <4>1, Nonempty
    <3>3. Place(c)[1] \in 1..MaxFrames[c] /\ Place(c)[1] # 1
      BY <3>1, <3>2, BufferFacts, StreamFacts
    <3>4. frames[c][Place(c)[1]] \in Messages
      BY <1>4, <3>3, KindFacts
    <3>5. f = frames[c][Place(c)[1]]
      BY <2>4, <3>1, <3>2, <3>4, HeaderIs
    <3>6. f.kind \notin Awkward
      BY <1>1, <3>2, <3>5, FirstArrived DEF Plain
    <3> QED
      BY <2>4, <3>6, GoesTo
  <2> QED
    BY <2>1, <2>2, <2>3, <2>4 DEF OnPreface, ParseHeader, ParsePayload
<1> QED
  BY <1>1, <1>3, <1>4 DEF Plain

(* A handler's turn keeps what is known of all connections. *)
LEMMA OrderHandled ==
  ASSUME TypeInv, OrderInv, NEW c \in Conns, OnMessage(c)
  PROVE  OrderInv'
<1> SUFFICES ASSUME disorder = 0, NEW d \in Conns PROVE OrderOf(d)'
  BY DEF OrderInv, OnMessage
<1>1. /\ UNCHANGED <<protocol, frames, wire>> /\ serving = c /\ serving # NoConn
  BY ConstantsAssumption DEF OnMessage, streamVars
<1>2. OrderOf(c) /\ OrderOf(d)
  BY DEF OrderInv
<1>3. state_[c] # "none"
  BY <1>1, <1>2 DEF OrderOf, Fresh
<1>4. Moves(c) /\ Keeps(c)
  BY HandlersMove
<1>5. PICK n \in 0..Len(InputBuffer[c]) : Retrieve(c, n)
  BY <1>4 DEF Moves
<1>6. PICK x \in Outcomes(c) : state_' = [state_ EXCEPT ![c] = x]
  BY <1>4 DEF Moves
<1>7. state_'[c] # "none"
  BY <1>3, <1>6, TypesOf DEF Outcomes
<1>8. /\ Turns(c)
      /\ protocol = "websocket" => UNCHANGED parser_ /\ (is_upgraded_ => is_upgraded_')
  BY <1>2, HandlersTurn
<1>9. CASE d = c
  <2>1. Intact(c)'
    BY <1>1, <1>2, <1>8, IntactKept DEF Turns, OrderOf
  <2>2. Fresh(c)'
    BY <1>7 DEF Fresh
  <2> QED
    BY <1>2, <1>8, <1>9, <2>1, <2>2, PlainStays DEF Turns, OrderOf
<1>10. CASE d # c
  <2>1. InputBuffer'[d] = InputBuffer[d] /\ Left(d)' = Left(d)
    BY <1>1, <1>5, <1>10, LeftDrops
  <2>2. /\ context'[d] = context[d] /\ state_'[d] = state_[d] /\ handled'[d] = handled[d]
        /\ refused'[d] = refused[d]
    <3>1. context'[d] = context[d]
      BY <1>4, <1>10, TypesOf DEF Keeps
    <3>2. state_'[d] = state_[d]
      BY <1>6, <1>10, TypesOf
    <3>3. handled'[d] = handled[d]
      BY <1>4, <1>10, TypesOf DEF Moves
    <3>4. refused'[d] = refused[d]
      BY <1>4, <1>10, TypesOf DEF Moves
    <3> QED
      BY <3>1, <3>2, <3>3, <3>4
  <2>3. serving # d /\ serving' # d
    BY <1>1, <1>4, <1>10, ConstantsAssumption DEF Moves
  <2>4. ASSUME protocol = "websocket_client" PROVE WebSocketClientInv(d)'
    <3>1. WebSocketClientInv(d)
      BY <1>2, <2>4 DEF OrderOf, Parsing
    <3>2. state_[d] = "none"
      BY <1>3, <1>10, <3>1 DEF WebSocketClientInv
    <3>3. Place(d)' = Place(d)
      BY <2>1, PlaceStays
    <3> QED
      BY <2>1, <2>2, <2>3, <3>1, <3>2, <3>3 DEF WebSocketClientInv
  <2> QED
    BY <1>1, <1>2, <1>8, <2>1, <2>2, <2>3, <2>4, OthersKept
<1> QED
  BY <1>9, <1>10

(* Order is kept only by an event that fits. *)
LEMMA NotesFits ==
  ASSUME TypeInv, NEW fits \in BOOLEAN, Notes(fits), disorder' = 0
  PROVE  disorder = 0 /\ fits
<1>1. disorder \in Nat
  BY ConstantsAssumption DEF TypeInv, TypeOK
<1> QED
  BY <1>1 DEF Notes

(* A connection that is accepted keeps what is known of all. *)
LEMMA OrderAccepted ==
  ASSUME TypeInv, OrderInv, NEW c \in Conns, OnConnection(c)
  PROVE  OrderInv'
<1> SUFFICES ASSUME disorder' = 0, NEW d \in Conns PROVE OrderOf(d)'
  BY DEF OrderInv
<1>1. /\ UNCHANGED <<protocol, frames, wire, InputBuffer, serving, context, parser_, handled, refused>>
      /\ serving = NoConn /\ state_[c] = "none" /\ is_upgraded_' = FALSE
      /\ state_' = [state_ EXCEPT ![c] = "kConnected"]
      /\ protocol \in Clients => \A e \in Conns : state_[e] = "none"
  BY DEF OnConnection, streamVars
<1>2. disorder = 0 /\ ~(is_upgraded_ /\ \E e \in Conns : state_[e] = "kConnected")
  <2> DEFINE fits == ~(is_upgraded_ /\ \E e \in Conns : state_[e] = "kConnected")
  <2>1. Notes(fits) /\ fits \in BOOLEAN
    BY DEF OnConnection
  <2> HIDE DEF fits
  <2>2. disorder = 0 /\ fits
    BY <2>1, NotesFits
  <2> QED
    BY <2>2 DEF fits
<1>3. OrderOf(d)
  BY <1>2 DEF OrderInv
<1>4. serving # d /\ serving' # d
  BY <1>1, ConstantsAssumption
<1>5. \A e \in Conns : state_'[e] = IF e = c THEN "kConnected" ELSE state_[e]
  BY <1>1, TypesOf
<1>6. Left(d)' = Left(d) /\ InputBuffer'[d] = InputBuffer[d]
  BY <1>1 DEF Left
<1>7. ASSUME protocol = "websocket_client" PROVE WebSocketClientInv(d)'
  <2>1. WebSocketClientInv(d) /\ Fresh(d)
    BY <1>3, <1>7 DEF OrderOf, Parsing
  <2>2. \A e \in Conns : state_[e] = "none"
    BY <1>1, <1>7 DEF Clients
  <2>3. InputBuffer'[d] = <<>> /\ Place(d)' = <<1, 1>>
    BY <1>6, <2>1, <2>2, PlaceStays DEF Fresh
  <2>4. \A e \in Conns : state_'[d] # "none" /\ state_'[e] # "none" => d = e
    BY <1>5, <2>2
  <2> QED
    BY <1>1, <1>4, <2>3, <2>4 DEF WebSocketClientInv
<1>8. state_'[d] = state_[d] \/ (state_[d] = "none" /\ state_'[d] # "none")
  BY <1>1, <1>5
<1> QED
  BY <1>1, <1>2, <1>3, <1>4, <1>6, <1>7, <1>8, OthersKept

(* The clock keeps what is known of all connections. *)
LEMMA OrderUnchanged ==
  ASSUME TypeInv, OrderInv,
         UNCHANGED <<protocol, frames, wire, InputBuffer, serving, context, parser_, is_upgraded_,
                     state_, handled, refused, disorder>>
  PROVE  OrderInv'
<1> SUFFICES ASSUME disorder = 0, NEW d \in Conns PROVE OrderOf(d)'
  BY DEF OrderInv
<1>1. OrderOf(d)
  BY DEF OrderInv
<1>2. Left(d)' = Left(d)
  BY DEF Left
<1>3. ASSUME protocol = "websocket_client" PROVE WebSocketClientInv(d)'
  <2>1. WebSocketClientInv(d)
    BY <1>1, <1>3 DEF OrderOf, Parsing
  <2>2. Place(d)' = Place(d)
    BY <1>2, PlaceStays
  <2>3. FrameLen(frames[d][Place(d)[1]])' = FrameLen(frames[d][Place(d)[1]])
    <3>1. FrameLen(frames[d][Place(d)[1]])' = FrameLen(frames'[d][Place(d)'[1]])
      BY SameFrames
    <3> QED
      BY <2>2, <3>1
  <2>4. OneFrame(d) => OneFrame(d)'
    BY <2>3 DEF OneFrame
  <2> QED
    BY <2>1, <2>2, <2>4 DEF WebSocketClientInv
<1> QED
  BY <1>1, <1>2, <1>3, OthersKept

(* The n bytes after the m in the buffer are the next ones of the stream. *)
Continues(c, n, m) ==
  /\ m \in Nat /\ n \in Nat \ {0} /\ m + n \in 1..Len(Left(c)) /\ Len(Left(c)) \in Nat
  /\ Len(InputBuffer'[c]) = m + n
  /\ \A i \in 1..n : /\ m + i \in 1..(m + n) /\ m + i \in 1..Len(Left(c))
                     /\ SubSeq(wire[c], 1, n)[i] = Left(c)[m + i]
  /\ \A i \in 1..(m + n) : /\ i \in 1..Len(Left(c)) /\ InputBuffer'[c][i] = Left(c)[i]
                           /\ i \in 1..m \/ (i - m \in 1..n /\ m + (i - m) = i)

(* What arrives continues the stream. *)
LEMMA ArrivalBytes ==
  ASSUME TypeInv, NEW c \in Conns, NEW n \in 1..Len(wire[c]),
         InputBuffer' = [InputBuffer EXCEPT ![c] = @ \o SubSeq(wire[c], 1, n)],
         wire' = [wire EXCEPT ![c] = Drop(@, n)]
  PROVE  Continues(c, n, Len(InputBuffer[c]))
<1> DEFINE m == Len(InputBuffer[c])
           a == InputBuffer[c]
           b == wire[c]
           x == SubSeq(b, 1, n)
           l == Left(c)
           w == Len(b)
           e == Len(l)
<1>1. a \in Seq(Byte) /\ b \in Seq(Byte) /\ m \in Nat /\ w \in Nat
  BY TypesOf
<1>2. n \in Nat \ {0} /\ 0 \in Nat /\ 0 + n <= Len(b) /\ 0 + 1 = 1 /\ 0 + n = n
  BY <1>1
<1>3. InputBuffer'[c] = a \o x /\ Len(InputBuffer'[c]) = m + n
  BY ArrivalKeepsLeft
<1>4. x \in Seq(Byte) /\ Len(x) = n /\ \A i \in 1..n : x[i] = b[0 + i]
  BY <1>1, <1>2, PartFacts
<1>5. /\ e = m + w
      /\ \A i \in 1..(m + w) : l[i] = IF i <= m THEN a[i] ELSE b[i - m]
  BY <1>1, ConcatProperties DEF Left
<1>6. \A i \in 1..(m + n) : (a \o x)[i] = IF i <= m THEN a[i] ELSE x[i - m]
  <2> HIDE DEF x, a
  <2> QED
    BY <1>1, <1>4, ConcatProperties DEF a
<1>7. n \in 1..w
  OBVIOUS
<1> HIDE DEF m, a, b, x, l, w, e
<1>8. e \in Nat /\ m + n \in 1..e
  BY <1>1, <1>2, <1>5, <1>7
<1>9. ASSUME NEW i \in 1..n
      PROVE  m + i \in 1..(m + n) /\ m + i \in 1..e /\ x[i] = l[m + i]
  <2>1. m + i \in 1..(m + n) /\ m + i \in 1..(m + w) /\ ~(m + i <= m) /\ (m + i) - m = i /\ 0 + i = i
    BY <1>1, <1>2, <1>7
  <2>2. l[m + i] = b[i]
    BY <1>5, <2>1
  <2> QED
    BY <1>4, <1>5, <2>1, <2>2
<1>10. ASSUME NEW i \in 1..(m + n)
       PROVE  /\ i \in 1..e /\ (a \o x)[i] = l[i]
              /\ i \in 1..m \/ (i - m \in 1..n /\ m + (i - m) = i)
  <2>1. i \in 1..(m + w) /\ i \in Nat
    BY <1>1, <1>2, <1>7
  <2>2. CASE i <= m
    <3>1. i \in 1..m
      BY <1>1, <2>1, <2>2
    <3>2. (a \o x)[i] = a[i]
      BY <1>6, <2>2
    <3>3. l[i] = a[i]
      BY <1>5, <2>1, <2>2
    <3> QED
      BY <1>5, <2>1, <3>1, <3>2, <3>3
  <2>3. CASE ~(i <= m)
    <3>1. i - m \in 1..n /\ 0 + (i - m) = i - m /\ m + (i - m) = i
      BY <1>1, <1>2, <2>1, <2>3
    <3>2. (a \o x)[i] = x[i - m]
      BY <1>6, <2>3
    <3>3. l[i] = b[i - m]
      BY <1>5, <2>1, <2>3
    <3>4. x[i - m] = b[i - m]
      BY <1>4, <3>1
    <3> QED
      BY <1>5, <2>1, <3>1, <3>2, <3>3, <3>4
  <2> QED
    BY <2>2, <2>3
<1> QED
  BY <1>1, <1>2, <1>3, <1>8, <1>9, <1>10 DEF Continues, m, a, b, x, l, e

(* Bytes from the first to the last of the same frame are all of it. *)
LEMMA AloneIsOne ==
  ASSUME TypeInv, NEW c \in Conns, NEW n \in 1..Len(Left(c)), Place(c)[2] = 1,
         Left(c)[n][1] = Left(c)[1][1], Left(c)[n][2] = FrameLen(frames[c][Left(c)[n][1]])
  PROVE  n = FrameLen(frames[c][Place(c)[1]])
<1> DEFINE l == Left(c)
           k == Place(c)[1]
           L == FrameLen(frames[c][k])
           e == Len(l)
<1>1. e \in Nat /\ n \in 1..e
  <2>1. l \in Seq(Byte)
    BY StreamFacts
  <2> QED
    BY <2>1, LenProperties
<1>2. l # <<>>
  <2>1. l \in Seq(Byte)
    BY StreamFacts
  <2>2. e > 0
    <3> HIDE DEF e
    <3> QED
      BY <1>1
  <2> QED
    BY <2>1, <2>2, Nonempty
<1>3. Place(c) = l[1] /\ k \in 1..MaxFrames[c] /\ L \in Nat \ {0} /\ 1 \in 1..e /\ k \in Nat
  <2>1. Place(c) = l[1] /\ k \in 1..MaxFrames[c] /\ frames[c][k] \in Frame /\ 1 \in 1..e
    BY <1>2, PlaceFacts
  <2>2. MaxFrames[c] \in Nat
    BY StreamFacts
  <2> QED
    BY <2>1, <2>2, FrameSizes
<1>4. Follows(l, frames[c], MaxFrames[c], 1)
  BY <1>3, StreamFacts DEF Whole
<1>5. /\ \A q \in 1..L : l[1 + (q - 1)] = <<k, q>>
      /\ 1 + (L - 1) = e \/ l[1 + (L - 1) + 1] = <<k + 1, 1>>
  BY <1>3, <1>4 DEF Follows
<1>6. l[n][1] = k /\ l[n][2] = L
  BY <1>3
<1>7. \A i \in 1..n : i \in 1..e /\ n \in i..e
  BY <1>1
<1> HIDE DEF l, k, L, e
<1>8. CASE n < L
  <2>1. n \in 1..L /\ 1 + (n - 1) = n
    BY <1>1, <1>3, <1>8
  <2>2. l[n] = <<k, n>>
    BY <1>5, <2>1
  <2> QED
    BY <1>1, <1>3, <1>6, <1>8, <2>2
<1>9. CASE n > L
  <2>1. L + 1 \in 1..n /\ 1 + (L - 1) # e /\ 1 + (L - 1) + 1 = L + 1
    BY <1>1, <1>3, <1>9
  <2>2. l[L + 1] = <<k + 1, 1>>
    BY <1>5, <2>1
  <2>3. l[L + 1][1] <= l[n][1]
    BY <1>7, <2>1, NumbersGrow DEF l, e
  <2> QED
    BY <1>3, <1>6, <2>2, <2>3
<1> QED
  BY <1>1, <1>3, <1>8, <1>9 DEF L, k

(* HandleRead, of n bytes. *)
Arrives(c, n) ==
  /\ InputBuffer' = [InputBuffer EXCEPT ![c] = @ \o SubSeq(wire[c], 1, n)]
  /\ wire' = [wire EXCEPT ![c] = Drop(@, n)]
  /\ serving = NoConn /\ serving' = c /\ state_[c] = "kConnected"
  /\ UNCHANGED <<protocol, frames, state_, parserVars, handled, refused>>

(* What has arrived is what had, and frames that arrive now. *)
LEMMA ArrivedGrows ==
  ASSUME TypeInv, NEW c \in Conns, NEW n \in 1..Len(wire[c]), Arrives(c, n), NEW f \in Arrived(c)'
  PROVE  /\ f \in Arrived(c) \/ \E i \in 1..n : f = frames[c][SubSeq(wire[c], 1, n)[i][1]]
         /\ f \in Frame
<1> DEFINE m == Len(InputBuffer[c])
           new == SubSeq(wire[c], 1, n)
<1>0. Continues(c, n, m) /\ m = Len(InputBuffer[c])
  BY ArrivalBytes DEF Arrives
<1> HIDE DEF m
<1>1. /\ Len(InputBuffer'[c]) = m + n
      /\ \A i \in 1..n : m + i \in 1..(m + n) /\ new[i] = Left(c)[m + i]
      /\ \A i \in 1..(m + n) : /\ InputBuffer'[c][i] = Left(c)[i]
                               /\ i \in 1..m \/ (i - m \in 1..n /\ m + (i - m) = i)
  BY <1>0 DEF Continues
<1>2. PICK i \in 1..(m + n) : f = frames[c][InputBuffer'[c][i][1]]
  BY <1>1 DEF Arrived, Arrives
<1>3. f = frames[c][Left(c)[i][1]]
  BY <1>1, <1>2
<1>6. f \in Frame
  <2>1. i \in 1..Len(Left(c))
    BY <1>0 DEF Continues
  <2>2. Left(c)[i][1] \in 1..MaxFrames[c]
    BY <2>1, BytesOfFrames
  <2> QED
    BY <1>3, <2>2, StreamFacts
<1>4. CASE i \in 1..m
  <2>1. Left(c)[i] = InputBuffer[c][i]
    BY <1>0, <1>4, BufferFirst
  <2> QED
    BY <1>0, <1>3, <1>4, <2>1, <1>6 DEF Arrived
<1>5. CASE i - m \in 1..n /\ m + (i - m) = i
  <2>1. new[i - m] = Left(c)[i]
    BY <1>1, <1>5
  <2> QED
    BY <1>3, <1>5, <2>1, <1>6
<1> QED
  BY <1>1, <1>4, <1>5

(* Whole frames arrive in an empty buffer. *)
LEMMA WholeArrival ==
  ASSUME TypeInv, NEW c \in Conns, NEW n \in 1..Len(wire[c]), Arrives(c, n), NEW new,
         new = SubSeq(wire[c], 1, n), InputBuffer[c] = <<>>,
         new[n][2] = HeaderLen(frames[c][new[n][1]]) + frames[c][new[n][1]].size
  PROVE  /\ WholeFrames(c)' /\ Place(c)' = Place(c) /\ Place(c) = new[1]
         /\ Place(c)[2] = 1 /\ new[1][1] = new[n][1] => OneFrame(c)'
<1> DEFINE F == FrameLen(frames[c][Place(c)[1]])
<1>1. Continues(c, n, 0)
  <2>1. Len(InputBuffer[c]) = 0
    OBVIOUS
  <2>2. Continues(c, n, Len(InputBuffer[c]))
    BY ArrivalBytes DEF Arrives
  <2> QED
    BY <2>1, <2>2
<1>2. /\ n \in Nat \ {0} /\ Len(InputBuffer'[c]) = 0 + n
      /\ \A i \in 1..n : 0 + i \in 1..Len(Left(c)) /\ new[i] = Left(c)[0 + i]
      /\ \A i \in 1..(0 + n) : InputBuffer'[c][i] = Left(c)[i]
  BY <1>1 DEF Continues
<1>3. \A i \in 1..n : i \in 1..Len(Left(c)) /\ new[i] = Left(c)[i] /\ InputBuffer'[c][i] = Left(c)[i]
  <2> SUFFICES ASSUME NEW i \in 1..n
               PROVE  i \in 1..Len(Left(c)) /\ new[i] = Left(c)[i] /\ InputBuffer'[c][i] = Left(c)[i]
    OBVIOUS
  <2>1. 0 + i = i /\ i \in 1..(0 + n)
    BY <1>2
  <2> QED
    BY <1>2, <2>1
<1>4. Len(InputBuffer'[c]) = n /\ 1 \in 1..n /\ n \in 1..n
  BY <1>2
<1>5. new[n][2] = FrameLen(frames[c][new[n][1]])
  BY DEF FrameLen
<1>6. WholeFrames(c)'
  <2>1. FrameLen(frames[c][InputBuffer[c][Len(InputBuffer[c])][1]])'
          = FrameLen(frames'[c][InputBuffer'[c][Len(InputBuffer'[c])][1]])
    BY SameFrames DEF Arrives
  <2>2. InputBuffer'[c][n] = new[n]
    BY <1>3, <1>4
  <2>3. frames' = frames
    BY DEF Arrives
  <2> QED
    BY <1>4, <1>5, <2>1, <2>2, <2>3 DEF WholeFrames
<1>7. Place(c)' = Place(c)
  BY ArrivalKeepsLeft, PlaceStays DEF Arrives
<1>8. Place(c) = new[1]
  <2>1. Left(c) \in Seq(Byte)
    BY StreamFacts
  <2>2. Left(c) # <<>>
    <3>1. 1 \in 1..Len(Left(c)) /\ Len(Left(c)) \in Nat
      BY <1>3, <1>4, <2>1, LenProperties
    <3>2. Len(Left(c)) > 0
      BY <3>1
    <3> QED
      BY <2>1, <3>2, Nonempty
  <2> QED
    BY <1>3, <1>4, <2>2, PlaceFacts
<1>9. ASSUME Place(c)[2] = 1, new[1][1] = new[n][1] PROVE OneFrame(c)'
  <2>1. n \in 1..Len(Left(c)) /\ new[n] = Left(c)[n] /\ new[1] = Left(c)[1]
    BY <1>3, <1>4
  <2>2. n = F
    BY <1>5, <1>9, <2>1, AloneIsOne
  <2>3. FrameLen(frames[c][Place(c)[1]])' = F
    <3>1. FrameLen(frames[c][Place(c)[1]])' = FrameLen(frames'[c][Place(c)'[1]])
      BY SameFrames DEF Arrives
    <3> QED
      BY <1>7, <3>1 DEF Arrives
  <2>4. InputBuffer'[c] # <<>>
    <3>1. InputBuffer'[c] \in Seq(Byte)
      BY ArrivalKeepsLeft DEF Arrives
    <3>2. Len(InputBuffer'[c]) > 0
      BY <1>2, <1>4
    <3> QED
      BY <3>1, <3>2, Nonempty
  <2> QED
    BY <1>4, <2>2, <2>3, <2>4 DEF OneFrame
<1> QED
  BY <1>6, <1>7, <1>8, <1>9

(* The bytes that it appends. *)
New(c, n) == SubSeq(wire[c], 1, n)

(* What FittingArrival promises, protocol by protocol. *)
LEMMA ArrivalFits ==
  ASSUME NEW c \in Conns, NEW n, FittingArrival(c, n)
  PROVE  /\ protocol = "tcp_client" => \A i \in 1..n : frames[c][New(c, n)[i][1]].size <= MaxLength
         /\ protocol \in {"rpc", "grpc", "grpc_client"} =>
              \A i \in 1..n : frames[c][New(c, n)[i][1]].kind \notin Awkward
         /\ protocol = "http" => New(c, n)[n][1] = 1
         /\ protocol \in {"websocket", "http_client", "websocket_client"} =>
              /\ InputBuffer[c] = <<>> /\ New(c, n)[1][2] = 1
              /\ New(c, n)[n][2] = HeaderLen(frames[c][New(c, n)[n][1]]) + frames[c][New(c, n)[n][1]].size
         /\ protocol = "websocket" =>
              /\ New(c, n)[1][1] = 1 => New(c, n)[1][1] = New(c, n)[n][1] /\ ~is_upgraded_
              /\ \A i \in 1..n : frames[c][New(c, n)[i][1]].size <= MaxLength
         /\ protocol \in {"http_client", "websocket_client"} => New(c, n)[1][1] = New(c, n)[n][1]
         /\ protocol = "websocket_client" => frames[c][New(c, n)[1][1]].size < LongSize
<1>1. CASE protocol = "tcp_client"
  BY <1>1 DEF FittingArrival, New
<1>2. CASE protocol \in {"rpc", "grpc", "grpc_client"}
  BY <1>2 DEF FittingArrival, New
<1>3. CASE protocol = "http"
  BY <1>3 DEF FittingArrival, New
<1>4. CASE protocol = "websocket"
  BY <1>4 DEF FittingArrival, New
<1>5. CASE protocol = "http_client"
  BY <1>5 DEF FittingArrival, New
<1>6. CASE protocol = "websocket_client"
  BY <1>6 DEF FittingArrival, New
<1> QED
  BY <1>1, <1>2, <1>3, <1>4, <1>5, <1>6

(* One request is all that arrives. *)
LEMMA RequestArrives ==
  ASSUME TypeInv, NEW c \in Conns, NEW n \in 1..Len(wire[c]), Arrives(c, n),
         SubSeq(wire[c], 1, n)[n][1] = 1
  PROVE  /\ Place(c)[1] = 1
         /\ \A i \in 1..Len(InputBuffer'[c]) : InputBuffer'[c][i][1] = 1
<1> DEFINE m == Len(InputBuffer[c])
           l == Left(c)
<1>1. Continues(c, n, m)
  BY ArrivalBytes DEF Arrives
<1> HIDE DEF m
<1>2. /\ m \in Nat /\ n \in Nat \ {0} /\ Len(l) \in Nat /\ Len(InputBuffer'[c]) = m + n
      /\ n \in 1..n /\ 1 \in 1..(m + n) /\ m + n \in 1..Len(l)
  BY <1>1 DEF Continues
<1>3. l[m + n][1] = 1
  BY <1>1, <1>2 DEF Continues
<1>4. ASSUME NEW i \in 1..(m + n) PROVE l[i][1] = 1 /\ InputBuffer'[c][i] = l[i]
  <2>1. i \in 1..Len(l) /\ m + n \in i..Len(l)
    BY <1>2
  <2>2. l[i][1] <= l[m + n][1]
    BY <2>1, NumbersGrow
  <2>3. l[i][1] \in 1..MaxFrames[c]
    BY <2>1, BytesOfFrames
  <2>4. MaxFrames[c] \in Nat
    BY StreamFacts
  <2>5. l[i][1] = 1
    BY <1>3, <2>2, <2>3, <2>4
  <2> QED
    BY <1>1, <2>5 DEF Continues
<1>5. Place(c) = l[1]
  <2>1. l \in Seq(Byte)
    BY StreamFacts
  <2>2. Len(l) > 0
    <3> HIDE DEF l
    <3> QED
      BY <1>2
  <2>3. l # <<>>
    BY <2>1, <2>2, Nonempty
  <2> QED
    BY <2>3, PlaceFacts
<1> QED
  BY <1>2, <1>4, <1>5

(* Only gRPC and the RPC handler meet frames that they do not cope with. *)
LEMMA FewAwkward ==
  ASSUME NEW f \in Frame, protocol \in Protocols, f.kind \in Awkward
  PROVE  protocol \in {"rpc", "grpc", "grpc_client"}
<1>1. f.kind \in FirstKinds(protocol) \cup {"message"} \cup OtherKinds(protocol)
  <2>1. f \in Openings \/ f \in Messages
    BY DEF Frame
  <2>2. f \in Openings => f.kind \in FirstKinds(protocol)
    BY DEF Openings
  <2> QED
    BY <2>1, <2>2, MessageFacts
<1> QED
  BY <1>1 DEF FirstKinds, OtherKinds, Awkward

(* What arrives as it should is plain. *)
LEMMA PlainArrives ==
  ASSUME TypeInv, NEW c \in Conns, Plain(c), NEW n \in 1..Len(wire[c]), Arrives(c, n),
         FittingArrival(c, n)
  PROVE  Plain(c)'
<1> DEFINE new == New(c, n)
<1>1. UNCHANGED <<protocol, frames, context>>
  BY DEF Arrives, parserVars
<1>2. \A f \in Arrived(c)' : f \in Arrived(c) \/ \E i \in 1..n : f = frames[c][new[i][1]]
  BY ArrivedGrows DEF New
<1>3. ASSUME NEW f \in Arrived(c)' PROVE f.kind \notin Awkward
  <2>1. CASE protocol \in {"rpc", "grpc", "grpc_client"}
    <3>1. \A i \in 1..n : frames[c][new[i][1]].kind \notin Awkward
      BY <2>1, ArrivalFits
    <3> HIDE DEF new
    <3> QED
      BY <1>2, <1>3, <3>1 DEF Plain
  <2>2. CASE protocol \notin {"rpc", "grpc", "grpc_client"}
    <3>1. f \in Frame
      BY <1>3, ArrivedGrows
    <3> QED
      BY <2>2, <3>1, FewAwkward DEF TypeInv, TypeOK
  <2> QED
    BY <2>1, <2>2
<1> QED
  BY <1>1, <1>3 DEF Plain

(* Each protocol copes with what arrives. *)
LEMMA ArrivalParses ==
  ASSUME TypeInv, NEW c \in Conns, OrderOf(c), NEW n \in 1..Len(wire[c]), Arrives(c, n),
         FittingArrival(c, n)
  PROVE  Parsing(c)' /\ Passed(c)' = Passed(c)
<1> DEFINE new == New(c, n)
<1>1. /\ UNCHANGED <<protocol, frames, state_, context, parser_, is_upgraded_>>
      /\ serving # c /\ serving' = c /\ state_[c] = "kConnected"
  BY ConstantsAssumption DEF Arrives, parserVars
<1>2. Place(c)' = Place(c)
  BY ArrivalKeepsLeft, PlaceStays DEF Arrives
<1>3. Parsing(c)
  BY DEF OrderOf
<1>4. \A f \in Arrived(c)' : f \in Arrived(c) \/ \E i \in 1..n : f = frames[c][new[i][1]]
  BY ArrivedGrows DEF New
<1>5. protocol \notin {"grpc", "http"} => Passed(c)' = Passed(c)
  BY <1>1, <1>2, PassedPlain
<1>6. CASE protocol \in Prefixed
  <2>1. PrefixedInv(c)
    BY <1>3, <1>6 DEF Parsing
  <2>2. protocol = "tcp_client" => \A f \in Arrived(c)' : f.size <= MaxLength
    <3>1. protocol = "tcp_client" => \A i \in 1..n : frames[c][new[i][1]].size <= MaxLength
      BY ArrivalFits
    <3> HIDE DEF new
    <3> QED
      BY <1>4, <2>1, <3>1 DEF PrefixedInv
  <2>3. PrefixedInv(c)'
    BY <1>1, <1>2, <2>1, <2>2 DEF PrefixedInv
  <2> QED
    BY <1>1, <1>5, <1>6, <2>3 DEF Parsing, Prefixed
<1>7. CASE protocol = "grpc"
  <2>1. GrpcInv(c)
    BY <1>3, <1>7 DEF Parsing
  <2>2. ~EmptyPayload(c) /\ ~EmptyPayload(c)'
    BY <1>1, <2>1 DEF GrpcInv, EmptyPayload
  <2>3. GrpcInv(c)'
    BY <1>1, <1>2, <2>1, <2>2 DEF GrpcInv
  <2>4. Passed(c)' = Passed(c)
    BY <1>1, <1>2, <1>7, <2>2, PassedGrpc
  <2> QED
    BY <1>1, <1>7, <2>3, <2>4 DEF Parsing, Prefixed
<1>8. CASE protocol = "http"
  <2>1. HttpInv(c)
    BY <1>3, <1>8 DEF Parsing
  <2>2. Place(c)[1] = 1 /\ \A i \in 1..Len(InputBuffer'[c]) : InputBuffer'[c][i][1] = 1
    <3>1. new[n][1] = 1
      BY <1>8, ArrivalFits
    <3> QED
      BY <3>1, RequestArrives DEF New
  <2>3. Parsing(c)'
    BY <1>1, <1>2, <1>8, <2>1, <2>2, HttpInvAfter DEF HttpInv
  <2>4. Passed(c)' = 0 /\ Passed(c) = Place(c)[1] - 1
    BY <1>1, <1>8, PassedHttp
  <2> QED
    BY <2>2, <2>3, <2>4
<1>9. ASSUME protocol \in {"websocket", "http_client", "websocket_client"}
      PROVE  /\ WholeFrames(c)' /\ Place(c) = new[1] /\ Place(c)[2] = 1
             /\ new[1][1] = new[n][1] => OneFrame(c)'
  <2>1. /\ InputBuffer[c] = <<>> /\ new[1][2] = 1
        /\ new[n][2] = HeaderLen(frames[c][new[n][1]]) + frames[c][new[n][1]].size
    BY <1>9, ArrivalFits
  <2> HIDE DEF new
  <2> QED
    BY <2>1, WholeArrival DEF new, New
<1>10. CASE protocol = "websocket"
  <2>1. WebSocketInv(c)
    BY <1>3, <1>10 DEF Parsing
  <2>2. /\ new[1][1] = 1 => new[1][1] = new[n][1] /\ ~is_upgraded_
        /\ \A i \in 1..n : frames[c][new[i][1]].size <= MaxLength
    BY <1>10, ArrivalFits
  <2> HIDE DEF new
  <2>3. \A f \in Arrived(c)' : f.size <= MaxLength
    BY <1>4, <2>1, <2>2 DEF WebSocketInv
  <2>4. Place(c)[1] = 1 => ~is_upgraded_ /\ OneFrame(c)'
    BY <1>9, <1>10, <2>2
  <2>5. WebSocketInv(c)'
    BY <1>1, <1>2, <1>9, <1>10, <2>1, <2>3, <2>4 DEF WebSocketInv
  <2> QED
    BY <1>1, <1>5, <1>10, <2>5 DEF Parsing, Prefixed
<1>11. CASE protocol = "http_client"
  <2>1. new[1][1] = new[n][1]
    BY <1>11, ArrivalFits
  <2>2. HttpClientInv(c)'
    BY <1>1, <1>2, <1>9, <1>11, <2>1 DEF HttpClientInv
  <2> QED
    BY <1>1, <1>5, <1>11, <2>2 DEF Parsing, Prefixed
<1>12. CASE protocol = "websocket_client"
  <2>1. new[1][1] = new[n][1] /\ frames[c][new[1][1]].size < LongSize
    BY <1>12, ArrivalFits
  <2>2. WebSocketClientInv(c)
    BY <1>3, <1>12 DEF Parsing
  <2> HIDE DEF new
  <2>3. WebSocketClientInv(c)'
    BY <1>1, <1>2, <1>9, <1>12, <2>1, <2>2 DEF WebSocketClientInv
  <2> QED
    BY <1>1, <1>5, <1>12, <2>3 DEF Parsing, Prefixed
<1>13. protocol \in Prefixed \cup {"grpc", "http", "websocket", "http_client", "websocket_client"}
  BY ConstantsAssumption DEF TypeInv, TypeOK, Prefixed
<1> QED
  BY <1>6, <1>7, <1>8, <1>10, <1>11, <1>12, <1>13

(* Bytes that arrive as they should keep what is known of all connections. *)
LEMMA OrderArrives ==
  ASSUME TypeInv, OrderInv, NEW c \in Conns, HandleRead(c)
  PROVE  OrderInv'
<1> SUFFICES ASSUME disorder' = 0, NEW d \in Conns PROVE OrderOf(d)'
  BY DEF OrderInv
<1>1. PICK n \in 1..Len(wire[c]) : Arrives(c, n) /\ Notes(FittingArrival(c, n))
  BY DEF HandleRead, Arrives
<1>2. disorder = 0 /\ FittingArrival(c, n)
  <2>1. disorder \in Nat
    BY ConstantsAssumption DEF TypeInv, TypeOK
  <2> QED
    BY <1>1, <2>1 DEF Notes
<1>3. OrderOf(c) /\ OrderOf(d)
  BY <1>2 DEF OrderInv
<1>4. /\ UNCHANGED <<protocol, frames, state_, context, parser_, is_upgraded_, handled, refused>>
      /\ serving = NoConn /\ serving # c /\ serving # d /\ serving' = c /\ state_[c] = "kConnected"
  BY <1>1, ConstantsAssumption DEF Arrives, parserVars
<1>5. CASE d = c
  <2>1. Parsing(c)' /\ Passed(c)' = Passed(c)
    BY <1>1, <1>2, <1>3, ArrivalParses
  <2>2. Intact(c)'
    <3>1. Stays(c)
      BY <1>4, <2>1 DEF Stays
    <3> QED
      BY <1>3, <1>4, <3>1, IntactKept DEF OrderOf
  <2>3. Waits(c)' /\ Fresh(c)'
    BY <1>4 DEF Waits, Fresh
  <2> QED
    BY <1>1, <1>2, <1>3, <1>5, <2>1, <2>2, <2>3, PlainArrives DEF OrderOf
<1>6. CASE d # c
  <2>1. InputBuffer'[d] = InputBuffer[d] /\ Left(d)' = Left(d)
    BY <1>1, <1>6, ArrivalKeepsLeft DEF Arrives
  <2>2. ASSUME protocol = "websocket_client" PROVE WebSocketClientInv(d)'
    <3>1. WebSocketClientInv(d)
      BY <1>3, <2>2 DEF OrderOf, Parsing
    <3>2. Place(d)' = Place(d)
      BY <2>1, PlaceStays
    <3> QED
      BY <1>4, <1>6, <2>1, <3>1, <3>2 DEF WebSocketClientInv
  <2> QED
    BY <1>3, <1>4, <1>6, <2>1, <2>2, OthersKept
<1> QED
  BY <1>5, <1>6

(* Every step keeps what is known of all connections. *)
LEMMA OrderKept == TypeInv /\ OrderInv /\ [Next]_vars => OrderInv'
<1> SUFFICES ASSUME TypeInv, OrderInv, [Next]_vars PROVE OrderInv'
  OBVIOUS
<1>1. CASE \E c \in Conns : OnConnection(c) \/ HandleRead(c) \/ OnMessage(c)
  BY <1>1, OrderAccepted, OrderArrives, OrderHandled
<1>2. CASE Tick
  BY <1>2, OrderUnchanged DEF Tick, streamVars, parserVars
<1>3. CASE UNCHANGED vars
  BY <1>3, OrderUnchanged DEF vars, streamVars, parserVars
<1> QED
  BY <1>1, <1>2, <1>3 DEF Next

(* It holds before anything has arrived. *)
LEMMA InitOrder == Init => OrderInv
<1> SUFFICES ASSUME Init, NEW c \in Conns PROVE OrderOf(c)
  BY DEF OrderInv
<1>1. TypeInv
  BY InitTypes
<1>2. /\ InputBuffer[c] = <<>> /\ wire[c] = AllBytes(frames[c]) /\ serving # c
      /\ \A d \in Conns : state_[d] = "none"
      /\ context[c] = InitialContext /\ parser_ = [state |-> 1, header |-> NoHeader]
      /\ handled[c] = <<>> /\ refused[c] = {}
  BY ConstantsAssumption DEF Init
<1>3. Place(c) = <<1, 1>>
  <2> DEFINE N == MaxFrames[c]
  <2>1. N \in Nat /\ frames[c] \in [1..N -> Frame]
    BY <1>1, StreamFacts
  <2>2. /\ AllBytes(frames[c]) \in Seq(Byte)
        /\ N = 0 <=> AllBytes(frames[c]) = <<>>
        /\ N > 0 => AllBytes(frames[c])[1] = <<1, 1>>
    BY <2>1, StreamIsWhole
  <2>3. Left(c) = AllBytes(frames[c])
    BY <1>2, <2>2, ConcatEmptySeq DEF Left
  <2>4. CASE N = 0
    BY <2>2, <2>3, <2>4 DEF Place
  <2>5. CASE N # 0
    BY <2>1, <2>2, <2>3, <2>5 DEF Place
  <2> QED
    BY <2>4, <2>5
<1>4. Arrived(c) = {}
  BY <1>2 DEF Arrived
<1>5. Place(c)[1] = 1 /\ Place(c)[2] = 1 /\ 1 - 1 = 0
  BY <1>3
<1>6. Waits(c) /\ Fresh(c)
  BY <1>2, <1>3 DEF Waits, Fresh
<1>9. Plain(c)
  BY <1>2, <1>4 DEF Plain, InitialContext
<1>7. Parsing(c) /\ Passed(c) = 0
  <2>1. CASE protocol \in Prefixed
    <3>1. PrefixedInv(c)
      BY <1>4, <1>5 DEF PrefixedInv
    <3>2. Passed(c) = 0
      BY <1>5, <2>1, PassedPlain DEF Prefixed
    <3> QED
      BY <2>1, <3>1, <3>2 DEF Parsing, Prefixed
  <2>2. CASE protocol = "grpc"
    <3>1. context[c].state = "preface"
      BY <1>2, <2>2 DEF InitialContext
    <3>2. GrpcInv(c) /\ ~EmptyPayload(c)
      BY <1>3, <3>1 DEF GrpcInv, EmptyPayload
    <3>3. Passed(c) = 0
      BY <1>5, <2>2, <3>2, PassedGrpc
    <3> QED
      BY <2>2, <3>2, <3>3 DEF Parsing, Prefixed
  <2>3. CASE protocol = "http"
    <3>1. context[c].state = "kExpectRequestLine" /\ context[c].header = NoHeader /\ context[c].body = <<>>
      BY <1>2, <2>3 DEF InitialContext
    <3>2. HttpInv(c)
      BY <1>2, <1>3, <3>1 DEF HttpInv
    <3>3. Passed(c) = 0
      BY <1>2, <1>5, <2>3 DEF Passed
    <3> QED
      BY <2>3, <3>2, <3>3 DEF Parsing, Prefixed
  <2>4. CASE protocol \in {"websocket", "http_client", "websocket_client"}
    <3>1. WebSocketInv(c)
      BY <1>2, <1>4, <1>5 DEF WebSocketInv, WholeFrames
    <3>2. HttpClientInv(c) /\ WebSocketClientInv(c)
      BY <1>2, <1>5 DEF HttpClientInv, WebSocketClientInv
    <3>3. Passed(c) = 0
      BY <1>5, <2>4, PassedPlain
    <3> QED
      BY <2>4, <3>1, <3>2, <3>3 DEF Parsing, Prefixed
  <2>5. protocol \in Prefixed \cup {"grpc", "http", "websocket", "http_client", "websocket_client"}
    BY ConstantsAssumption DEF Init, Prefixed
  <2> QED
    BY <2>1, <2>2, <2>3, <2>4, <2>5
<1>8. Intact(c)
  <2>1. Sent(frames[c], {}, 0) = {}
    BY DEF Sent
  <2>2. Cardinality({}) = 0 /\ Len(<<>>) = 0
    BY FS_EmptySet
  <2>3. Got(frames[c], <<>>, {})
    BY <2>2 DEF Got
  <2> QED
    BY <1>2, <1>7, <2>1, <2>3 DEF Intact, Served
<1> QED
  BY <1>6, <1>7, <1>8, <1>9 DEF OrderOf

(* The TCP handler and the RPC client cope with whatever happens. *)
AnyFits == protocol \in AnyArrival => disorder = 0 /\ ~is_upgraded_

LEMMA AnyFitsKept == TypeInv /\ AnyFits /\ [Next]_vars => AnyFits'
<1> SUFFICES ASSUME TypeInv, AnyFits, [Next]_vars, protocol' \in AnyArrival
             PROVE  disorder' = 0 /\ ~is_upgraded_'
  BY DEF AnyFits
<1>1. protocol' = protocol
  BY DEF Next, vars, streamVars, OnConnection, HandleRead, OnMessage, Tick
<1>2. disorder = 0 /\ ~is_upgraded_ /\ protocol \in AnyArrival
  BY <1>1 DEF AnyFits
<1>3. ASSUME NEW c \in Conns, OnConnection(c) PROVE disorder' = 0 /\ ~is_upgraded_'
  BY <1>2, <1>3 DEF OnConnection, Notes
<1>4. ASSUME NEW c \in Conns, HandleRead(c) PROVE disorder' = 0 /\ ~is_upgraded_'
  <2>1. PICK n \in 1..Len(wire[c]) : Notes(FittingArrival(c, n))
    BY <1>4 DEF HandleRead
  <2>2. FittingArrival(c, n)
    BY <1>2 DEF FittingArrival, AnyArrival
  <2> QED
    BY <1>2, <1>4, <2>1, <2>2 DEF Notes, HandleRead, parserVars
<1>5. ASSUME NEW c \in Conns, OnMessage(c) PROVE disorder' = 0 /\ ~is_upgraded_'
  <2>1. TcpOnMessage(c) \/ RpcOnDataReceived(c)
    BY <1>2, <1>5 DEF OnMessage, AnyArrival
  <2>2. UNCHANGED is_upgraded_ /\ UNCHANGED disorder
    BY <1>5, <2>1 DEF OnMessage, TcpOnMessage, RpcOnDataReceived, parserVars
  <2> QED
    BY <1>2, <2>2
<1>6. CASE Tick
  BY <1>2, <1>6 DEF Tick, parserVars
<1>7. CASE UNCHANGED vars
  BY <1>2, <1>7 DEF vars, parserVars
<1> QED
  BY <1>3, <1>4, <1>5, <1>6, <1>7 DEF Next

(* From it follows that messages are delivered. *)
LEMMA OrderDelivers ==
  ASSUME TypeInv, OrderInv, AnyFits
  PROVE  MessagesDelivered
<1>0. disorder = 0 \/ protocol \in AnyArrival => disorder = 0
  BY DEF AnyFits
<1>1. ASSUME disorder = 0, NEW c \in Conns, serving # c
      PROVE  Delivers(c, handled[c], Expected(c))
  <2>1. Parsing(c) /\ Intact(c)
    BY <1>1 DEF OrderInv, OrderOf
  <2>2. Passed(c) = FirstLeft(c) - 1
    <3>1. FirstLeft(c) = Place(c)[1]
      BY PlaceFacts
    <3>2. protocol = "grpc" => ~EmptyPayload(c)
      BY <1>1, <2>1 DEF Parsing, GrpcInv, EmptyPayload
    <3> QED
      BY <1>1, <3>1, <3>2 DEF Passed
  <2>3. Expected(c) = Sent(frames[c], refused[c], Passed(c))
    BY <2>2 DEF Expected, Sent
  <2>4. Got(frames[c], handled[c], Expected(c))
    BY <2>1, <2>3 DEF Intact, Served
  <2> QED
    BY <2>4 DEF Got, Delivers
<1>2. ASSUME disorder = 0, serving = NoConn, NEW c \in Conns, state_[c] = "kConnected",
             InputBuffer[c] # <<>>, NEW i \in 1..Len(InputBuffer[c])
      PROVE  LET k == Head(InputBuffer[c])[1]
             IN InputBuffer[c][i]
                  # Bytes(k, frames[c][k])[HeaderLen(frames[c][k]) + frames[c][k].size]
  <2> DEFINE k == Head(InputBuffer[c])[1]
             f == frames[c][k]
             p == Place(c)[2]
             L == FrameLen(f)
             n == Len(InputBuffer[c])
  <2>1. /\ Place(c)[1] = k /\ f \in Frame /\ L \in Nat \ {0} /\ p \in 1..L
        /\ p + (i - 1) <= L => InputBuffer[c][i] = <<k, p + (i - 1)>>
    BY <1>2, BufferFacts
  <2>2. HeaderLen(f) + f.size = L
    BY <2>1, FrameSizes
  <2>3. Bytes(k, f)[L] = <<k, L>>
    <3>1. Bytes(k, f) = [j \in 1..L |-> <<k, j>>]
      BY <2>2 DEF Bytes
    <3> HIDE DEF L, k, f
    <3> QED
      BY <2>1, <3>1
  <2>4. n <= L - p /\ n \in Nat /\ i \in 1..n
    <3>1. Waits(c) /\ serving # c
      BY <1>2, ConstantsAssumption DEF OrderInv, OrderOf
    <3> QED
      BY <1>2, <2>1, <3>1, TypesOf DEF Waits
  <2> HIDE DEF k, f, p, L, n
  <2>5. p + (i - 1) <= L /\ p + (i - 1) # L
    BY <2>1, <2>4
  <2>6. InputBuffer[c][i] # <<k, L>>
    BY <2>1, <2>5
  <2> QED
    BY <2>2, <2>3, <2>6 DEF k, f
<1>3. MessagesIntact
  BY <1>0, <1>1 DEF MessagesIntact
<1>4. NothingStranded
  BY <1>0, <1>2 DEF NothingStranded
<1> QED
  BY <1>3, <1>4 DEF MessagesDelivered

(* However the bytes of a stream are cut and the connections interleaved,  *)
(* each message of it reaches the user's handler whole, once, in order and *)
(* as soon as it has arrived: always with the TCP handler and the RPC      *)
(* client, with the gRPC handler and client if no DATA frame holds a part  *)
(* of a message or two, with the others if what arrives is as              *)
(* FittingArrival says.                                                    *)
THEOREM FittingMessagesDelivered == Spec => []MessagesDelivered
<1>1. Init => TypeInv /\ OrderInv /\ AnyFits
  BY InitTypes, InitOrder DEF Init, AnyFits
<1>2. TypeInv /\ OrderInv /\ AnyFits /\ [Next]_vars => (TypeInv /\ OrderInv /\ AnyFits)'
  BY TypesKept, OrderKept, AnyFitsKept
<1>3. TypeInv /\ OrderInv /\ AnyFits => MessagesDelivered
  BY OrderDelivers
<1> QED
  BY <1>1, <1>2, <1>3, PTL DEF Spec
=============================================================================
