-------------------------- MODULE ConnectionProofs --------------------------
(***************************************************************************)
(* The peer of a connection gets what was sent, in order and once, output  *)
(* never waits without EPOLLOUT, a connection is never left half closed,   *)
(* and closes once unless another thread closes it: for any number and size of  *)
(* messages, any socket buffer, any number of threads that close, with and *)
(* without TLS.                                                            *)
(***************************************************************************)
EXTENDS Connection, SequenceTheorems, TLAPS

(* A sequence cut in two is whole again. *)
LEMMA CutIsWhole ==
  ASSUME NEW S, NEW s \in Seq(S), NEW k \in 0..Len(s)
  PROVE  /\ SubSeq(s, 1, k) \in Seq(S)
         /\ Len(SubSeq(s, 1, k)) = k
         /\ SubSeq(s, k + 1, Len(s)) \in Seq(S)
         /\ Len(SubSeq(s, k + 1, Len(s))) = Len(s) - k
         /\ SubSeq(s, 1, k) \o SubSeq(s, k + 1, Len(s)) = s
<1>1. Len(s) \in Nat /\ k \in Nat /\ k <= Len(s)
  BY LenProperties
<1>2. \A j \in 1..Len(s) : s[j] \in S
  BY ElementOfSeq
<1>3. /\ SubSeq(s, 1, k) \in Seq(S)
      /\ Len(SubSeq(s, 1, k)) = IF 1 <= k THEN k - 1 + 1 ELSE 0
  <2>1. \A j \in 1..k : s[j] \in S
    BY <1>1, <1>2
  <2> QED
    BY <1>1, <2>1, SubSeqProperties
<1>4. /\ SubSeq(s, k + 1, Len(s)) \in Seq(S)
      /\ Len(SubSeq(s, k + 1, Len(s))) = IF k + 1 <= Len(s) THEN Len(s) - (k + 1) + 1 ELSE 0
  <2>1. \A j \in (k + 1)..Len(s) : s[j] \in S
    BY <1>1, <1>2
  <2>2. k + 1 \in Int /\ Len(s) \in Int
    BY <1>1
  <2> QED
    BY <2>1, <2>2, SubSeqProperties
<1>5. SubSeq(s, 1, k) \o SubSeq(s, k + 1, Len(s)) = SubSeq(s, 1, Len(s))
  <2>1. 1 \in 1..(Len(s) + 1) /\ k \in (1 - 1)..Len(s) /\ Len(s) \in k..Len(s)
    BY <1>1
  <2> QED
    BY <2>1, ConcatAdjacentSubSeq
<1>6. SubSeq(s, 1, Len(s)) = s
  BY SubSeqFull
<1>7. Len(SubSeq(s, 1, k)) = k
  BY <1>1, <1>3
<1>8. Len(SubSeq(s, k + 1, Len(s))) = Len(s) - k
  BY <1>1, <1>4
<1> QED
  BY <1>3, <1>4, <1>5, <1>6, <1>7, <1>8

(* What follows after k elements, when t is appended. *)
LEMMA SuffixOfConcat ==
  ASSUME NEW S, NEW s \in Seq(S), NEW t \in Seq(S), NEW k \in 0..Len(s)
  PROVE  SubSeq(s \o t, k + 1, Len(s \o t)) = SubSeq(s, k + 1, Len(s)) \o t
<1> DEFINE a == SubSeq(s, 1, k)
           b == SubSeq(s, k + 1, Len(s))
           c == SubSeq(s \o t, k + 1, Len(s \o t))
<1>1. Len(s) \in Nat /\ Len(t) \in Nat /\ k \in Nat /\ k <= Len(s)
  BY LenProperties
<1>2. a \in Seq(S) /\ b \in Seq(S) /\ a \o b = s
  BY CutIsWhole
<1>3. s \o t \in Seq(S) /\ Len(s \o t) = Len(s) + Len(t)
  BY ConcatProperties
<1>4. k \in 0..Len(s \o t)
  BY <1>1, <1>3
<1>5. c \in Seq(S) /\ SubSeq(s \o t, 1, k) \o c = s \o t
  BY <1>3, <1>4, CutIsWhole
<1>6. SubSeq(s \o t, 1, k) = a
  <2>1. CASE k = 0
    BY <2>1, SubSeqEmpty
  <2>2. CASE k > 0
    <3>1. 1 \in 1..Len(s) /\ k \in 1..Len(s)
      BY <1>1, <2>2
    <3> QED
      BY <3>1, SubSeqOfConcat1
  <2> QED
    BY <1>1, <2>1, <2>2
<1> HIDE DEF a, b, c
<1>7. a \o c = a \o (b \o t)
  <2>1. a \o (b \o t) = (a \o b) \o t
    <3>1. \A x, y, z \in Seq(S) : (x \o y) \o z = x \o (y \o z)
      BY ConcatAssociative
    <3>2. a \in Seq(S) /\ b \in Seq(S)
      BY <1>2
    <3> HIDE <1>2
    <3> QED
      BY <3>1, <3>2, Zenon
  <2> QED
    BY <1>2, <1>5, <1>6, <2>1
<1>8. b \o t \in Seq(S)
  BY <1>2, ConcatProperties
<1>9. c = b \o t
  BY <1>2, <1>5, <1>7, <1>8, ConcatSimplifications
<1> QED
  BY <1>9 DEF b, c

(* What follows after j of the elements that follow after k. *)
LEMMA SuffixOfSuffix ==
  ASSUME NEW S, NEW s \in Seq(S), NEW k \in 0..Len(s), NEW j \in 0..(Len(s) - k)
  PROVE  LET u == SubSeq(s, k + 1, Len(s))
         IN  SubSeq(u, j + 1, Len(u)) = SubSeq(s, k + j + 1, Len(s))
<1> DEFINE u == SubSeq(s, k + 1, Len(s))
           l == SubSeq(u, j + 1, Len(u))
           r == SubSeq(s, (k + j) + 1, Len(s))
<1>1. /\ Len(s) \in Nat /\ k \in Nat /\ j \in Nat /\ k + j <= Len(s)
      /\ k + j \in 0..Len(s)
  BY LenProperties
<1>2. u \in Seq(S) /\ Len(u) = Len(s) - k
  BY CutIsWhole
<1>3. l \in Seq(S) /\ Len(l) = Len(u) - j
  BY <1>1, <1>2, CutIsWhole
<1>4. r \in Seq(S) /\ Len(r) = Len(s) - (k + j)
  BY <1>1, CutIsWhole
<1>5. \A i \in 1..Len(u) : u[i] = s[k + i]
  BY <1>1, <1>2, ElementOfSeq, SubSeqProperties
<1>6. \A i \in 1..Len(l) : l[i] = u[j + i]
  BY <1>1, <1>2, <1>3, ElementOfSeq, SubSeqProperties
<1>7. \A i \in 1..Len(r) : r[i] = s[k + j + i]
  BY <1>1, <1>4, ElementOfSeq, SubSeqProperties
<1> HIDE DEF u, l, r
<1>8. Len(l) = Len(r)
  BY <1>1, <1>2, <1>3, <1>4
<1>9. \A i \in 1..Len(l) : l[i] = r[i]
  <2> TAKE i \in 1..Len(l)
  <2>1. /\ j + i \in 1..Len(u)
        /\ i \in 1..Len(r)
        /\ k + (j + i) = k + j + i
    BY <1>1, <1>2, <1>3, <1>8
  <2> QED
    BY <1>5, <1>6, <1>7, <2>1
<1>10. l = r
  BY <1>3, <1>4, <1>8, <1>9, SeqEqual
<1>11. (k + j) + 1 = k + j + 1
  OBVIOUS
<1> QED
  BY <1>10 DEF u, l, r

(* Concatenation of bytes associates. *)
LEMMA ByteConcat ==
  \A x, y, z \in Seq(Byte) : (x \o y) \o z = x \o (y \o z)
BY ConcatAssociative

(* Bytes behind bytes are bytes. *)
LEMMA ConcatBytes ==
  \A x, y \in Seq(Byte) : x \o y \in Seq(Byte)
BY ConcatProperties

(* If u with e after it is a with b after it, then a may move to the end   *)
(* of what comes before, and b and e be left.                              *)
LEMMA Regroup ==
  \A r, s, u, e, a, b \in Seq(Byte) :
    u \o e = a \o b => (r \o (s \o a)) \o b = ((r \o s) \o u) \o e
<1> SUFFICES ASSUME NEW r \in Seq(Byte), NEW s \in Seq(Byte), NEW u \in Seq(Byte),
                    NEW e \in Seq(Byte), NEW a \in Seq(Byte), NEW b \in Seq(Byte),
                    u \o e = a \o b
             PROVE  (r \o (s \o a)) \o b = ((r \o s) \o u) \o e
  OBVIOUS
<1> DEFINE x == r \o s
<1>1. x \in Seq(Byte)
  BY ConcatBytes
<1>2. r \o (s \o a) = x \o a
  <2>1. (r \o s) \o a = r \o (s \o a)
    BY ByteConcat, SMTT(30)
  <2> QED
    BY <2>1
<1> HIDE DEF x
<1>3. (x \o a) \o b = x \o (a \o b)
  BY <1>1, ByteConcat, Zenon
<1>4. (x \o u) \o e = x \o (u \o e)
  BY <1>1, ByteConcat
<1>5. (x \o a) \o b = (x \o u) \o e
  BY <1>3, <1>4
<1> QED
  BY <1>2, <1>5 DEF x

(* A byte that the peer reads moves from the socket to what it received.   *)
LEMMA ReadMovesOn ==
  ASSUME NEW r \in Seq(Byte), NEW s \in Seq(Byte), s # <<>>
  PROVE  /\ Append(r, Head(s)) \in Seq(Byte)
         /\ Tail(s) \in Seq(Byte)
         /\ Len(Tail(s)) <= Len(s)
         /\ Append(r, Head(s)) \o Tail(s) = r \o s
<1>1. /\ Head(s) \in Byte /\ Tail(s) \in Seq(Byte) /\ Len(Tail(s)) = Len(s) - 1
      /\ Len(s) \in Nat \ {0}
  BY HeadTailProperties, EmptySeq
<1>2. Append(r, Head(s)) \in Seq(Byte) /\ Append(r, Head(s)) = r \o <<Head(s)>>
  BY <1>1, AppendProperties, AppendIsConcat
<1>3. <<Head(s)>> \in Seq(Byte)
  BY <1>1
<1>4. <<Head(s)>> \o Tail(s) = s
  <2>1. 1 \in 1..Len(s) /\ Len(s) \in 1..Len(s)
    BY <1>1
  <2>2. SubSeq(s, 1, Len(s)) = <<s[1]>> \o SubSeq(s, 1 + 1, Len(s))
    BY <2>1, SubSeqRecursiveFirst
  <2>3. SubSeq(s, 1, Len(s)) = s /\ Tail(s) = SubSeq(s, 2, Len(s))
    BY SubSeqFull, TailIsSubSeq
  <2>4. Head(s) = s[1]
    OBVIOUS
  <2> QED
    BY <2>2, <2>3, <2>4
<1>5. (r \o <<Head(s)>>) \o Tail(s) = r \o (<<Head(s)>> \o Tail(s))
  BY <1>1, <1>3, ByteConcat
<1> QED
  BY <1>1, <1>2, <1>4, <1>5

(* A message of Send is as many bytes as its size says. *)
LEMMA BytesOfMessage ==
  ASSUME NEW m \in 1..MaxSends
  PROVE  Bytes(m) \in Seq(Byte) /\ Len(Bytes(m)) = MessageSize
<1>1. MessageSize \in Nat
  BY ConstantsAssumption
<1>2. \A k \in 1..MessageSize : <<m, k>> \in Byte
  BY DEF Byte
<1>3. Bytes(m) \in [1..MessageSize -> Byte]
  BY <1>2 DEF Bytes
<1> QED
  BY <1>1, <1>3

(* Of an unfinished SSL_write no more is under way than there is. *)
Within == progress <= Len(output_buffer_)

(* The parts of the stream, in bytes that the socket has room for. *)
Stream ==
  /\ output_buffer_ \in Seq(Byte)
  /\ retry \in {"none", "caller", "buffer"}
  /\ progress \in Nat
  /\ Within
  /\ socket \in Seq(Byte)
  /\ Len(socket) <= Capacity
  /\ received \in Seq(Byte)
  /\ sent \in Seq(Byte)
  /\ StreamIntact

(* What is taken from u bytes fits into the room that is left. *)
LEMMA RoomIsEnough ==
  ASSUME Stream, NEW u \in Nat
  PROVE  /\ Room \in Nat
         /\ Least(u, Room) \in 0..u
         /\ Len(socket) + Least(u, Room) <= Capacity
<1>1. Len(socket) \in Nat
  BY LenProperties DEF Stream
<1> QED
  BY <1>1, ConstantsAssumption DEF Stream, Room, Least

(* What was sent before the bytes that are left. *)
LEMMA UnsentFacts ==
  ASSUME Stream
  PROVE  /\ progress \in 0..Len(output_buffer_)
         /\ Len(output_buffer_) \in Nat
         /\ Unsent \in Seq(Byte)
         /\ Len(Unsent) = Len(output_buffer_) - progress
<1>1. Len(output_buffer_) \in Nat
  BY LenProperties DEF Stream
<1>2. progress \in 0..Len(output_buffer_)
  BY <1>1 DEF Stream, Within
<1>3. output_buffer_ \in Seq(Byte)
  BY DEF Stream
<1> QED
  BY <1>1, <1>2, <1>3, CutIsWhole DEF Unsent

(* A message that cannot be written at once joins what waits. *)
LEMMA WaitingKeeps ==
  ASSUME Stream, NEW d \in Seq(Byte),
         output_buffer_' = output_buffer_ \o d, progress' = progress, socket' = socket,
         received' = received, sent' = sent \o d, retry' \in {"none", "caller", "buffer"}
  PROVE  Stream'
<1>1. /\ progress \in 0..Len(output_buffer_) /\ Len(output_buffer_) \in Nat
      /\ Unsent \in Seq(Byte)
  BY UnsentFacts
<1>2. Len(d) \in Nat
  BY LenProperties
<1>3. output_buffer_' \in Seq(Byte) /\ Len(output_buffer_') = Len(output_buffer_) + Len(d)
  BY ConcatProperties DEF Stream
<1>4. Unsent' = Unsent \o d
  BY <1>1, SuffixOfConcat DEF Unsent, Stream
<1>5. sent' \in Seq(Byte)
  BY ConcatProperties DEF Stream
<1>6. received \o socket \in Seq(Byte)
  BY ConcatProperties DEF Stream
<1>7. StreamIntact'
  <2>2. (received \o socket) \o (Unsent \o d) = ((received \o socket) \o Unsent) \o d
    <3> DEFINE x == received \o socket
    <3>1. x \in Seq(Byte)
      BY <1>6
    <3> HIDE DEF x
    <3>2. (x \o Unsent) \o d = x \o (Unsent \o d)
      BY <1>1, <3>1, ByteConcat
    <3> QED
      BY <3>2 DEF x
  <2>3. (received \o socket) \o Unsent = sent
    BY DEF Stream, StreamIntact
  <2> QED
    BY <1>4, <2>2, <2>3 DEF StreamIntact
<1>8. progress' \in Nat /\ Within'
  BY <1>1, <1>2, <1>3 DEF Within, Stream
<1> QED
  BY <1>3, <1>5, <1>7, <1>8 DEF Stream

(* Bytes a that are written join the socket's, and b is what is left of    *)
(* them and of what waited.                                                *)
LEMMA WritingKeeps ==
  ASSUME Stream, NEW a \in Seq(Byte), NEW b \in Seq(Byte), NEW e \in Seq(Byte),
         Unsent \o e = a \o b, Len(socket) + Len(a) <= Capacity,
         socket' = socket \o a, received' = received, sent' = sent \o e,
         output_buffer_' \in Seq(Byte), progress' \in Nat, Within', Unsent' = b,
         retry' \in {"none", "caller", "buffer"}
  PROVE  Stream'
<1>1. Unsent \in Seq(Byte)
  BY UnsentFacts
<1>2. received \in Seq(Byte) /\ socket \in Seq(Byte) /\ sent \in Seq(Byte)
  BY DEF Stream
<1>3. socket' \in Seq(Byte) /\ Len(socket') = Len(socket) + Len(a) /\ sent' \in Seq(Byte)
  BY <1>2, ConcatProperties
<1>4. (received \o (socket \o a)) \o b = ((received \o socket) \o Unsent) \o e
  <2>1. Unsent \o e = a \o b
    OBVIOUS
  <2> DEFINE P(r, s, u, f, c, d) ==
        u \o f = c \o d => (r \o (s \o c)) \o d = ((r \o s) \o u) \o f
  <2>2. \A r, s, u, f, c, d \in Seq(Byte) : P(r, s, u, f, c, d)
    BY Regroup
  <2> HIDE DEF P
  <2>3. P(received, socket, Unsent, e, a, b)
    BY <1>1, <1>2, <2>2
  <2> QED
    BY <2>1, <2>3 DEF P
<1>5. (received \o socket) \o Unsent = sent
  BY DEF Stream, StreamIntact
<1>6. StreamIntact'
  BY <1>4, <1>5 DEF StreamIntact
<1> QED
  BY <1>2, <1>3, <1>6 DEF Stream

(* Send keeps the stream: it waits behind what is left to write, or is     *)
(* written as far as there is room.                                        *)
LEMMA SendKeeps ==
  ASSUME Stream, NEW m \in 1..MaxSends, Send(m), received' = received
  PROVE  Stream'
<1> DEFINE data   == Bytes(m)
           direct == state_ = "kConnected" /\ output_buffer_ = <<>> /\ peer # "reset"
           taken  == IF direct THEN Least(MessageSize, Room) ELSE 0
           held   == secure /\ taken < MessageSize
           a      == SubSeq(data, 1, taken)
           b      == SubSeq(data, taken + 1, MessageSize)
<1>1. data \in Seq(Byte) /\ Len(data) = MessageSize /\ MessageSize \in Nat
  BY BytesOfMessage, ConstantsAssumption
<1>2. /\ taken \in 0..MessageSize
      /\ Len(socket) + taken <= Capacity
  <2>1. Len(socket) \in Nat /\ Len(socket) <= Capacity
    BY LenProperties DEF Stream
  <2> QED
    BY <1>1, <2>1, RoomIsEnough, ConstantsAssumption
<1>3. /\ a \in Seq(Byte) /\ Len(a) = taken
      /\ b \in Seq(Byte) /\ Len(b) = MessageSize - taken
      /\ a \o b = data
  BY <1>1, <1>2, CutIsWhole
<1>4. /\ socket' = socket \o a
      /\ output_buffer_' = output_buffer_ \o IF held THEN data ELSE b
      /\ progress' = IF direct /\ held THEN taken ELSE progress
      /\ sent' = sent \o data
  BY DEF Send, AppendAndWrite
<1>5. retry' \in {"none", "caller", "buffer"}
  BY DEF Send, AppendAndWrite, Stream
<1>6. output_buffer_ \in Seq(Byte) /\ socket \in Seq(Byte) /\ progress \in Nat
  BY DEF Stream
<1>7. CASE ~direct
  <2>1. taken = 0
    BY <1>7
  <2>2. a = <<>> /\ b = data
    <3>1. a = <<>>
      BY <1>3, <2>1, EmptySeq
    <3> QED
      BY <1>3, <3>1, ConcatSimplifications
  <2>3. socket' = socket
    <3>1. socket \o <<>> = socket
      BY <1>6, ConcatSimplifications
    <3>2. socket' = socket \o <<>>
      BY <1>4, <2>2
    <3> QED
      BY <3>1, <3>2
  <2>4. output_buffer_' = output_buffer_ \o data /\ progress' = progress
    BY <1>4, <1>7, <2>2
  <2> HIDE DEF data
  <2> QED
    BY <1>1, <1>4, <1>5, <2>3, <2>4, WaitingKeeps
<1>8. CASE direct
  <2>1. output_buffer_ = <<>>
    BY <1>8
  <2>2. progress = 0 /\ Unsent = <<>>
    <3>1. Len(output_buffer_) = 0
      BY <2>1
    <3>2. progress = 0 /\ Unsent \in Seq(Byte) /\ Len(Unsent) = 0
      BY <3>1, UnsentFacts
    <3> QED
      BY <3>2, EmptySeq
  <2>3. Unsent \o data = a \o b
    <3>1. <<>> \o data = data
      BY <1>1, ConcatEmptySeq
    <3> QED
      BY <1>3, <2>2, <3>1
  <2>4. /\ output_buffer_' \in Seq(Byte)
        /\ progress' \in Nat
        /\ Within'
        /\ Unsent' = b
    <3>1. CASE held
      <4>1. output_buffer_' = data /\ progress' = taken
        BY <1>1, <1>4, <1>8, <2>1, <3>1, ConcatSimplifications
      <4> HIDE DEF data, taken
      <4> QED
        BY <1>1, <1>2, <4>1 DEF Within, Unsent
    <3>2. CASE ~held
      <4>1. output_buffer_' = b /\ progress' = 0
        <5>1. <<>> \o b = b
          BY <1>3, ConcatSimplifications
        <5>2. output_buffer_' = <<>> \o b /\ progress' = 0
          BY <1>4, <2>1, <2>2, <3>2
        <5> QED
          BY <5>1, <5>2
      <4>2. SubSeq(b, 1, Len(b)) = b
        BY <1>3, SubSeqFull
      <4>3. Len(b) \in Nat
        BY <1>3, LenProperties
      <4> HIDE DEF b
      <4> QED
        BY <1>3, <4>1, <4>2, <4>3 DEF Within, Unsent
    <3> QED
      BY <3>1, <3>2
  <2>5. Len(socket) + Len(a) <= Capacity
    BY <1>2, <1>3
  <2> HIDE DEF data, a, b
  <2> QED
    BY <1>1, <1>3, <1>4, <1>5, <2>3, <2>4, <2>5, WritingKeeps
<1> QED
  BY <1>7, <1>8

(* HandleWrite's write, of which SSL_write may be held up. *)
Flushes(taken, held) ==
  /\ taken = Least(Len(Unsent), Room)
  /\ held => progress + taken < Len(output_buffer_)
  /\ socket' = socket \o SubSeq(Unsent, 1, taken)
  /\ output_buffer_' = IF held THEN output_buffer_
                       ELSE SubSeq(output_buffer_, progress + taken + 1, Len(output_buffer_))
  /\ progress' = IF held THEN progress + taken ELSE 0
  /\ retry' = IF held THEN "buffer" ELSE "none"

(* A flush keeps the stream: what is taken of the bytes that wait joins    *)
(* the socket's, and output_buffer_ gives them up, or notes how far it is. *)
LEMMA FlushKeeps ==
  ASSUME Stream, NEW taken, NEW held \in BOOLEAN, Flushes(taken, held),
         received' = received, sent' = sent
  PROVE  Stream'
<1> DEFINE a == SubSeq(Unsent, 1, taken)
           b == SubSeq(Unsent, taken + 1, Len(Unsent))
           c == SubSeq(output_buffer_, progress + taken + 1, Len(output_buffer_))
<1>1. /\ progress \in 0..Len(output_buffer_)
      /\ Len(output_buffer_) \in Nat
      /\ Unsent \in Seq(Byte)
      /\ Len(Unsent) = Len(output_buffer_) - progress
  BY UnsentFacts
<1>2. Len(Unsent) \in Nat
  BY <1>1
<1>3. /\ taken \in 0..Len(Unsent)
      /\ Len(socket) + taken <= Capacity
  BY <1>2, RoomIsEnough DEF Flushes
<1>4. /\ a \in Seq(Byte) /\ Len(a) = taken
      /\ b \in Seq(Byte) /\ Len(b) = Len(Unsent) - taken
      /\ a \o b = Unsent
  BY <1>1, <1>3, CutIsWhole
<1>5. output_buffer_ \in Seq(Byte) /\ sent \in Seq(Byte)
  BY DEF Stream
<1>6. b = c
  <2>1. taken \in 0..(Len(output_buffer_) - progress)
    BY <1>1, <1>3
  <2> QED
    BY <1>1, <1>5, <2>1, SuffixOfSuffix DEF Unsent
<1>7. Unsent \o <<>> = a \o b /\ sent' = sent \o <<>> /\ <<>> \in Seq(Byte)
  <2>1. Unsent \o <<>> = Unsent
    BY <1>1, ConcatSimplifications
  <2>2. sent \o <<>> = sent
    BY <1>5, ConcatSimplifications
  <2>3. <<>> \in Seq(Byte)
    OBVIOUS
  <2>4. sent' = sent
    OBVIOUS
  <2> HIDE DEF a, b
  <2> QED
    BY <1>4, <2>1, <2>2, <2>3, <2>4
<1>8. Len(socket) + Len(a) <= Capacity
  BY <1>3, <1>4
<1>9. /\ output_buffer_' \in Seq(Byte)
      /\ progress' \in Nat
      /\ Within'
      /\ Unsent' = b
  <2>1. CASE held
    <3>1. output_buffer_' = output_buffer_ /\ progress' = progress + taken
      BY <2>1 DEF Flushes
    <3>2. Unsent' = c
      BY <3>1 DEF Unsent
    <3>3. progress + taken < Len(output_buffer_)
      BY <2>1 DEF Flushes
    <3>4. output_buffer_' \in Seq(Byte)
      BY <1>5, <3>1
    <3>5. progress' \in Nat
      BY <1>1, <1>2, <1>3, <3>1
    <3>6. Within'
      BY <1>1, <1>2, <1>3, <3>1, <3>3 DEF Within
    <3> HIDE DEF b, c
    <3> QED
      BY <1>6, <3>2, <3>4, <3>5, <3>6
  <2>2. CASE ~held
    <3>1. output_buffer_' = b /\ progress' = 0
      BY <1>6, <2>2 DEF Flushes
    <3>2. SubSeq(b, 1, Len(b)) = b
      BY <1>4, SubSeqFull
    <3>3. Len(b) \in Nat
      BY <1>4, LenProperties
    <3>4. Unsent' = SubSeq(output_buffer_', 0 + 1, Len(output_buffer_'))
      BY <3>1 DEF Unsent
    <3>5. b \in Seq(Byte)
      BY <1>4
    <3> HIDE DEF b
    <3>6. Unsent' = b
      BY <3>1, <3>2, <3>4
    <3>7. Within' /\ progress' \in Nat
      BY <3>1, <3>3 DEF Within
    <3> QED
      BY <3>1, <3>5, <3>6, <3>7
  <2> QED
    BY <2>1, <2>2
<1>10. retry' \in {"none", "caller", "buffer"}
  BY DEF Flushes
<1>11. socket' = socket \o a
  BY DEF Flushes
<1> HIDE DEF a, b, c
<1> QED
  BY <1>4, <1>7, <1>8, <1>9, <1>10, <1>11, WritingKeeps

streamVars == <<output_buffer_, retry, progress, socket, received, sent>>

(* A step that touches no byte leaves the account of the stream as it is. *)
LEMMA StreamLeftAlone ==
  ASSUME Stream, UNCHANGED streamVars
  PROVE  Stream'
BY DEF streamVars, Stream, StreamIntact, Within, Unsent

(* The types of what is not part of the stream. *)
Switches ==
  /\ secure \in BOOLEAN
  /\ registered \in BOOLEAN
  /\ epollout \in BOOLEAN
  /\ fin \in BOOLEAN
  /\ inbound \in BOOLEAN
  /\ known \in BOOLEAN
  /\ outsider \in BOOLEAN

ClosingPlaces == {"no", "begin", "socket", "report"}

Phases ==
  /\ state_ \in {"kHandshaking", "kConnected", "kDisconnecting", "kDisconnected"}
  /\ fd_ \in {"open", "closed"}
  /\ closing \in [Threads -> ClosingPlaces]
  /\ closes \in Nat
  /\ disconnects \in Nat
  /\ peer \in {"open", "fin", "reset"}
  /\ pc \in {"accept", "unregistered", "idle", "in", "handler", "shutdown", "out", "hup"}
  /\ flags \subseteq {"IN", "OUT", "HUP"}
  /\ posted \in Seq(1..MaxSends)
  /\ made \in 0..MaxSends

(* Before the accept has ended, nobody closes and nobody else knows of the *)
(* connection.                                                             *)
Fresh ==
  pc = "accept" => /\ state_ # "kDisconnected" /\ fd_ = "open"
                   /\ ~registered /\ ~known /\ output_buffer_ = <<>>
                   /\ closes = 0 /\ disconnects = 0
                   /\ \A t \in Threads : closing[t] = "no"

(* Thread t is between taking the descriptor out of the loop and forgetting *)
(* it.                                                                      *)
Removing(t) == closing[t] \in {"socket", "report"}

(* What a thread in HandleClose has done, and what has been done when the  *)
(* descriptor is forgotten.                                                *)
Accounted ==
  /\ \A t \in Threads : Removing(t) => ~registered
  /\ \A t \in Threads : closing[t] = "report" => closes > 0
  /\ fd_ = "closed" => ~registered /\ closes > 0 /\ (disconnects > 0 \/ pc = "unregistered")
  /\ state_ = "kDisconnected" \/ (~registered /\ pc # "accept")
        => fd_ = "closed" \/ \E t \in Threads : Removing(t)

(* The inductive invariant. *)
Inv ==
  /\ Stream
  /\ Switches
  /\ Phases
  /\ FlushArmed
  /\ Fresh
  /\ Accounted

(* The inductive invariant includes the types. *)
LEMMA InvIsTyped == Inv => TypeOK
BY DEF Inv, Stream, Switches, Phases, ClosingPlaces, TypeOK

(* A thread that is in HandleClose ends with the connection closed and     *)
(* reported; while none is, nothing is half closed.                        *)
LEMMA InvIsWhole == Inv => NeverHalfClosed
<1> SUFFICES ASSUME Inv, \A t \in Threads : closing[t] = "no",
                    state_ = "kDisconnected" \/ (~registered /\ pc # "accept")
             PROVE  /\ ~registered
                    /\ fd_ = "closed"
                    /\ closes > 0
                    /\ disconnects > 0 \/ pc = "unregistered"
  BY DEF NeverHalfClosed
<1>1. fd_ = "closed"
  BY DEF Inv, Accounted, Removing
<1> QED
  BY <1>1 DEF Inv, Accounted

(* The loop's thread is one of the threads. *)
LEMMA LoopIsThread == Loop \in Threads
BY DEF Threads

(* A thread that enters HandleClose passes its test or stays where it is.  *)
LEMMA EntersClose ==
  ASSUME Phases, NEW t \in Threads, closing[t] = "no", HandleClose(t) \/ UNCHANGED closing
  PROVE  /\ closing' \in [Threads -> ClosingPlaces]
         /\ \A u \in Threads : \/ closing'[u] = closing[u]
                               \/ closing'[u] = "begin" /\ closing[u] = "no"
<1>1. closing \in [Threads -> ClosingPlaces] /\ "begin" \in ClosingPlaces
  BY DEF Phases, ClosingPlaces
<1>2. closing' = [closing EXCEPT ![t] = "begin"] \/ closing' = closing
  BY DEF HandleClose
<1>3. CASE closing' = [closing EXCEPT ![t] = "begin"]
  BY <1>1, <1>3
<1>4. CASE closing' = closing
  BY <1>1, <1>4
<1> QED
  BY <1>2, <1>3, <1>4

(* A step that closes nothing, though a thread may enter HandleClose, keeps *)
(* the account.                                                             *)
LEMMA AccountKept ==
  ASSUME Inv, pc # "accept", pc' # "accept", pc = "unregistered" => pc' = "unregistered",
         UNCHANGED <<fd_, registered, closes, disconnects>>,
         state_' = "kDisconnected" => state_ = "kDisconnected",
         \A u \in Threads : \/ closing'[u] = closing[u]
                            \/ closing'[u] = "begin" /\ closing[u] = "no"
  PROVE  Fresh' /\ Accounted'
<1>1. \A u \in Threads : /\ Removing(u)' <=> Removing(u)
                        /\ closing'[u] = "report" => closing[u] = "report"
  BY DEF Removing
<1>2. Fresh'
  BY DEF Fresh
<1>3. \A t \in Threads : Removing(t)' => ~registered'
  <2>1. \A t \in Threads : Removing(t) => ~registered
    BY DEF Inv, Accounted
  <2> QED
    BY <1>1, <2>1 DEF Removing
<1>4. \A t \in Threads : closing'[t] = "report" => closes' > 0
  BY <1>1 DEF Inv, Accounted
<1>5. fd_' = "closed" => /\ ~registered' /\ closes' > 0
                         /\ disconnects' > 0 \/ pc' = "unregistered"
  BY DEF Inv, Accounted
<1>6. state_' = "kDisconnected" \/ (~registered' /\ pc' # "accept")
        => fd_' = "closed" \/ \E t \in Threads : Removing(t)'
  <2>1. state_ = "kDisconnected" \/ (~registered /\ pc # "accept")
          => fd_ = "closed" \/ \E t \in Threads : Removing(t)
    BY DEF Inv, Accounted
  <2> QED
    BY <1>1, <2>1 DEF Removing
<1> QED
  BY <1>2, <1>3, <1>4, <1>5, <1>6 DEF Accounted

(* A step that does not touch the connection's life keeps the account. *)
LEMMA AccountLeftAlone ==
  ASSUME Inv, UNCHANGED <<stateVars, pc, known>>,
         pc # "accept" \/ UNCHANGED output_buffer_
  PROVE  Fresh' /\ Accounted'
BY DEF Inv, Fresh, Accounted, Removing, stateVars, closeVars

(* Output stays armed when it, EPOLLOUT and the registration stay. *)
LEMMA ArmedLeftAlone ==
  ASSUME Inv, UNCHANGED <<output_buffer_, epollout, registered>>
  PROVE  FlushArmed'
BY DEF Inv, FlushArmed

(* Send in the loop keeps the invariant, whoever has made the message. *)
LEMMA SendKeepsInv ==
  ASSUME Inv, pc # "accept", NEW m \in 1..MaxSends, Send(m),
         UNCHANGED <<secure, stateVars, netVars, callVars, known, outsider>>,
         posted' \in Seq(1..MaxSends), made' \in 0..MaxSends
  PROVE  Inv'
<1>1. Stream'
  BY SendKeeps DEF Inv, netVars
<1>2. Switches'
  <2>1. epollout' \in BOOLEAN
    BY Zenon DEF Send, EnableWriting
  <2> QED
    BY <2>1, Zenon DEF Inv, Switches, netVars, stateVars, closeVars
<1>3. Phases'
  BY DEF Inv, Phases, stateVars, closeVars, netVars, callVars
<1>4. FlushArmed'
  BY DEF Send, EnableWriting, FlushArmed, stateVars, closeVars
<1>5. Fresh' /\ Accounted'
  BY AccountLeftAlone DEF callVars
<1> QED
  BY <1>1, <1>2, <1>3, <1>4, <1>5 DEF Inv

(* A connection that accept4 has just returned satisfies the inductive     *)
(* invariant.                                                              *)
LEMMA InvInit == Init => Inv
<1> SUFFICES ASSUME Init PROVE Inv
  OBVIOUS
<1>1. Stream
  <2>1. Unsent = <<>>
    BY SubSeqEmpty DEF Init, Unsent
  <2>2. (<<>> \o <<>>) \o <<>> = <<>>
    OBVIOUS
  <2>3. StreamIntact
    BY <2>1, <2>2 DEF Init, StreamIntact
  <2> QED
    BY <2>3, ConstantsAssumption DEF Init, Stream, Within
<1>2. Switches
  BY ConstantsAssumption, Zenon DEF Init, Switches
<1>3. Phases
  BY ConstantsAssumption DEF Init, Phases, ClosingPlaces
<1>4. FlushArmed
  BY DEF Init, FlushArmed
<1>5. Fresh /\ Accounted
  BY DEF Init, Fresh, Accounted, Removing
<1> QED
  BY <1>1, <1>2, <1>3, <1>4, <1>5 DEF Inv

(* Taking the descriptor out of the loop, closing it and forgetting it, on *)
(* whichever thread, keep the invariant.                                   *)
LEMMA CloseKeeps ==
  ASSUME Inv, NEW t \in Threads, CloseStep(t)
  PROVE  Inv'
<1>1. closing[t] # "no" /\ pc # "accept"
  BY DEF Inv, Fresh, CloseStep, CloseBegins, CloseSocket, CloseReports
<1>2. UNCHANGED <<secure, netVars, callVars, userVars, output_buffer_, retry, progress, socket>>
  BY DEF CloseStep, CloseBegins, CloseSocket, CloseReports, outputVars
<1>3. Stream'
  BY <1>2, StreamLeftAlone DEF Inv, streamVars, netVars, userVars
<1>4. pc' # "accept" /\ pc' = pc
  BY <1>1, <1>2 DEF callVars
<1>5. Fresh'
  BY <1>4 DEF Fresh
<1>6. closing \in [Threads -> ClosingPlaces]
  BY DEF Inv, Phases
<1>7. CASE CloseBegins(t)
  <2>1. /\ state_' = "kDisconnected" /\ ~registered' /\ ~epollout'
        /\ registered' \in BOOLEAN /\ epollout' \in BOOLEAN
        /\ closing' = [closing EXCEPT ![t] = "socket"]
        /\ UNCHANGED <<fd_, closes, disconnects>>
    BY <1>7, Zenon DEF CloseBegins
  <2>2. \A u \in Threads : closing'[u] = IF u = t THEN "socket" ELSE closing[u]
    BY <1>6, <2>1
  <2>3. Switches'
    BY <1>2, <2>1, Zenon DEF Inv, Switches, netVars, userVars
  <2>4. Phases'
    BY <1>2, <2>1 DEF Inv, Phases, ClosingPlaces, netVars, callVars, userVars
  <2>5. FlushArmed'
    BY <2>1 DEF FlushArmed
  <2>6. Accounted'
    BY <1>4, <2>1, <2>2 DEF Inv, Accounted, Removing
  <2> QED
    BY <1>3, <1>5, <2>3, <2>4, <2>5, <2>6 DEF Inv
<1>8. CASE CloseSocket(t)
  <2>1. /\ closing[t] = "socket"
        /\ closes' = IF fd_ = "open" THEN closes + 1 ELSE closes
        /\ closing' = [closing EXCEPT ![t] = "report"]
        /\ UNCHANGED <<state_, fd_, registered, disconnects, epollout>>
    BY <1>8 DEF CloseSocket, outputVars
  <2>2. \A u \in Threads : closing'[u] = IF u = t THEN "report" ELSE closing[u]
    BY <1>6, <2>1
  <2>3. Switches'
    BY <1>2, <2>1, Zenon DEF Inv, Switches, netVars, userVars
  <2>4. Phases'
    BY <1>2, <2>1 DEF Inv, Phases, ClosingPlaces, netVars, callVars, userVars
  <2>5. FlushArmed'
    BY <1>2, <2>1, ArmedLeftAlone
  <2>6. closes' > 0 /\ (closes > 0 => closes' > 0)
    BY <2>1 DEF Inv, Phases, Accounted
  <2>7. \A u \in Threads : Removing(u)' <=> Removing(u)
    BY <2>1, <2>2 DEF Removing
  <2>8. Accounted'
    BY <1>4, <2>1, <2>6, <2>7 DEF Inv, Accounted
  <2> QED
    BY <1>3, <1>5, <2>3, <2>4, <2>5, <2>8 DEF Inv
<1>9. CASE CloseReports(t)
  <2>1. /\ closing[t] = "report"
        /\ fd_' = "closed"
        /\ disconnects' = disconnects + 1
        /\ closing' = [closing EXCEPT ![t] = "no"]
        /\ UNCHANGED <<state_, registered, closes, epollout>>
    BY <1>9 DEF CloseReports, outputVars
  <2>2. \A u \in Threads : closing'[u] = IF u = t THEN "no" ELSE closing[u]
    BY <1>6, <2>1
  <2>3. Switches'
    BY <1>2, <2>1, Zenon DEF Inv, Switches, netVars, userVars
  <2>4. Phases'
    BY <1>2, <2>1 DEF Inv, Phases, ClosingPlaces, netVars, callVars, userVars
  <2>5. FlushArmed'
    BY <1>2, <2>1, ArmedLeftAlone
  <2>6. ~registered /\ closes > 0 /\ disconnects' > 0
    BY <2>1 DEF Inv, Phases, Accounted, Removing
  <2>7. Accounted'
    BY <2>1, <2>2, <2>6 DEF Inv, Accounted, Removing
  <2> QED
    BY <1>3, <1>5, <2>3, <2>4, <2>5, <2>7 DEF Inv
<1> QED
  BY <1>7, <1>8, <1>9 DEF CloseStep

(* A thread that enters HandleClose changes nothing but its own place: the *)
(* loop's, which goes on in its callback, or another's.                    *)
LEMMA EnteringKeeps ==
  ASSUME Inv, NEW t \in Threads, closing[t] = "no", HandleClose(t) \/ UNCHANGED closing,
         pc # "accept", pc # "unregistered" \/ pc' = pc, pc' # "accept", pc' \in
           {"unregistered", "idle", "in", "handler", "shutdown", "out", "hup"},
         flags' \subseteq {"IN", "OUT", "HUP"}, inbound' \in BOOLEAN, known' \in BOOLEAN,
         outsider' \in BOOLEAN,
         UNCHANGED <<secure, state_, fd_, registered, closes, disconnects, outputVars, received,
                     fin, peer, posted, made, sent>>
  PROVE  Inv'
<1>1. Stream'
  BY StreamLeftAlone DEF Inv, streamVars, outputVars
<1>2. Switches'
  BY Zenon DEF Inv, Switches, outputVars
<1>3. /\ closing' \in [Threads -> ClosingPlaces]
      /\ \A u \in Threads : \/ closing'[u] = closing[u]
                            \/ closing'[u] = "begin" /\ closing[u] = "no"
  BY EntersClose DEF Inv
<1>4. Phases'
  BY <1>3 DEF Inv, Phases
<1>5. FlushArmed'
  BY ArmedLeftAlone DEF outputVars
<1>6. Fresh' /\ Accounted'
  BY <1>3, AccountKept
<1> QED
  BY <1>1, <1>2, <1>4, <1>5, <1>6 DEF Inv

(* Every step keeps the invariant. *)
LEMMA InvNext == Inv /\ [Next]_vars => Inv'
<1> SUFFICES ASSUME Inv, [Next]_vars PROVE Inv'
  OBVIOUS
<1> USE LoopIsThread
<1>1. CASE PeerSends
  <2>1. Stream'
    BY <1>1, StreamLeftAlone
    DEF Inv, PeerSends, streamVars, stateVars, closeVars, outputVars, netVars, callVars, userVars
  <2>2. Switches'
    BY <1>1, Zenon DEF Inv, Switches, PeerSends, stateVars, closeVars, outputVars, netVars, callVars, userVars
  <2>3. Phases'
    BY <1>1 DEF Inv, Phases, PeerSends, stateVars, closeVars, outputVars, netVars, callVars, userVars
  <2>4. FlushArmed'
    BY <1>1, ArmedLeftAlone DEF PeerSends, stateVars, closeVars, outputVars, netVars, callVars, userVars
  <2>5. Fresh' /\ Accounted'
    BY <1>1, AccountLeftAlone DEF PeerSends, stateVars, closeVars, outputVars, netVars, callVars, userVars
  <2> QED
    BY <2>1, <2>2, <2>3, <2>4, <2>5 DEF Inv
<1>2. CASE PeerReads
  <2>1. Stream'
    <3>1. /\ received' = Append(received, Head(socket)) /\ socket' = Tail(socket)
          /\ socket # <<>>
          /\ UNCHANGED <<output_buffer_, retry, progress, sent>>
      BY <1>2 DEF PeerReads, userVars
    <3>2. received \in Seq(Byte) /\ socket \in Seq(Byte) /\ Len(socket) <= Capacity
      BY DEF Inv, Stream
    <3>3. /\ received' \in Seq(Byte) /\ socket' \in Seq(Byte)
          /\ Len(socket') <= Len(socket)
          /\ received' \o socket' = received \o socket
      BY <3>1, <3>2, ReadMovesOn
    <3>4. Len(socket') <= Capacity
      <4>1. Len(socket') \in Nat /\ Len(socket) \in Nat
        BY <3>2, <3>3, LenProperties
      <4> QED
        BY <3>2, <3>3, <4>1, ConstantsAssumption
    <3>5. StreamIntact'
      BY <3>1, <3>3 DEF Inv, Stream, StreamIntact, Unsent
    <3> QED
      BY <3>1, <3>3, <3>4, <3>5 DEF Inv, Stream, Within
  <2>2. Switches'
    BY <1>2, Zenon DEF Inv, Switches, PeerReads, stateVars, closeVars, outputVars, netVars, callVars, userVars
  <2>3. Phases'
    BY <1>2 DEF Inv, Phases, PeerReads, stateVars, closeVars, outputVars, netVars, callVars, userVars
  <2>4. FlushArmed'
    BY <1>2, ArmedLeftAlone DEF PeerReads, stateVars, closeVars, outputVars, netVars, callVars, userVars
  <2>5. Fresh' /\ Accounted'
    BY <1>2, AccountLeftAlone DEF PeerReads, stateVars, closeVars, outputVars, netVars, callVars, userVars
  <2> QED
    BY <2>1, <2>2, <2>3, <2>4, <2>5 DEF Inv
<1>3. CASE PeerCloses
  <2>1. Stream'
    BY <1>3, StreamLeftAlone
    DEF Inv, PeerCloses, streamVars, stateVars, closeVars, outputVars, netVars, callVars, userVars
  <2>2. Switches'
    BY <1>3, Zenon DEF Inv, Switches, PeerCloses, stateVars, closeVars, outputVars, netVars, callVars, userVars
  <2>3. Phases'
    BY <1>3 DEF Inv, Phases, PeerCloses, stateVars, closeVars, outputVars, netVars, callVars, userVars
  <2>4. FlushArmed'
    BY <1>3, ArmedLeftAlone DEF PeerCloses, stateVars, closeVars, outputVars, netVars, callVars, userVars
  <2>5. Fresh' /\ Accounted'
    BY <1>3, AccountLeftAlone DEF PeerCloses, stateVars, closeVars, outputVars, netVars, callVars, userVars
  <2> QED
    BY <2>1, <2>2, <2>3, <2>4, <2>5 DEF Inv
<1>4. CASE HandlerSends
  <2>1. made + 1 \in 1..MaxSends /\ made' = made + 1
    BY <1>4, ConstantsAssumption DEF HandlerSends, Inv, Phases
  <2>2. posted' \in Seq(1..MaxSends) /\ made' \in 0..MaxSends
    BY <1>4, <2>1, ConstantsAssumption DEF HandlerSends, Inv, Phases
  <2>3. /\ pc # "accept" /\ Send(made + 1)
        /\ UNCHANGED <<secure, stateVars, netVars, callVars, known, outsider>>
    BY <1>4 DEF HandlerSends, LoopAt
  <2> QED
    BY <2>1, <2>2, <2>3, SendKeepsInv
<1>5. CASE HandlerShutsDown
  <2>1. closing[Loop] = "no" /\ (HandleClose(Loop) \/ UNCHANGED closing)
    BY <1>5 DEF HandlerShutsDown, LoopAt, stateVars, closeVars, netVars, callVars, userVars
  <2>2. inbound' \in BOOLEAN /\ known' \in BOOLEAN /\ outsider' \in BOOLEAN
    BY <1>5, Zenon DEF Inv, Switches, HandlerShutsDown, LoopAt, stateVars, closeVars, netVars, callVars, userVars
  <2>3. /\ pc \notin {"accept", "unregistered"}
        /\ pc' \in {"idle", "in", "handler", "shutdown", "out", "hup"}
        /\ flags' \subseteq {"IN", "OUT", "HUP"}
        /\ UNCHANGED <<secure, state_, fd_, registered, closes, disconnects, outputVars,
                       received, fin, peer, posted, made, sent>>
    BY <1>5 DEF Inv, Phases, HandlerShutsDown, LoopAt, stateVars, closeVars, netVars, callVars, userVars
  <2> QED
    BY <2>1, <2>2, <2>3, EnteringKeeps
<1>6. CASE Shutdown
  <2>1. Stream'
    BY <1>6, StreamLeftAlone
    DEF Inv, Shutdown, streamVars, outputVars, userVars
  <2>2. fin' \in BOOLEAN
    BY <1>6, Zenon DEF Shutdown
  <2>3. Switches'
    BY <1>6, <2>2, Zenon DEF Inv, Switches, Shutdown, closeVars, outputVars, userVars
  <2>4. Phases'
    BY <1>6 DEF Inv, Phases, Shutdown, closeVars, userVars
  <2>5. FlushArmed'
    BY <1>6, ArmedLeftAlone DEF Shutdown, closeVars, outputVars
  <2>6. Fresh' /\ Accounted'
    <3>1. /\ pc = "shutdown" /\ pc' = "handler" /\ state_' = "kDisconnecting"
          /\ UNCHANGED <<fd_, registered, closing, closes, disconnects>>
      BY <1>6 DEF Shutdown, LoopAt, closeVars
    <3>2. \A u \in Threads : closing'[u] = closing[u]
      BY <3>1
    <3> QED
      BY <3>1, <3>2, AccountKept
  <2> QED
    BY <2>1, <2>3, <2>4, <2>5, <2>6 DEF Inv
<1>7. CASE HandlerForceCloses
  <2>1. closing[Loop] = "no" /\ (HandleClose(Loop) \/ UNCHANGED closing)
    BY <1>7 DEF HandlerForceCloses, LoopAt, stateVars, closeVars, netVars, callVars, userVars
  <2>2. inbound' \in BOOLEAN /\ known' \in BOOLEAN /\ outsider' \in BOOLEAN
    BY <1>7, Zenon DEF Inv, Switches, HandlerForceCloses, LoopAt, stateVars, closeVars, netVars, callVars, userVars
  <2>3. /\ pc \notin {"accept", "unregistered"}
        /\ pc' \in {"idle", "in", "handler", "shutdown", "out", "hup"}
        /\ flags' \subseteq {"IN", "OUT", "HUP"}
        /\ UNCHANGED <<secure, state_, fd_, registered, closes, disconnects, outputVars,
                       received, fin, peer, posted, made, sent>>
    BY <1>7 DEF Inv, Phases, HandlerForceCloses, LoopAt, stateVars, closeVars, netVars, callVars, userVars
  <2> QED
    BY <2>1, <2>2, <2>3, EnteringKeeps
<1>8. CASE HandlerReturns
  <2>1. closing[Loop] = "no" /\ (HandleClose(Loop) \/ UNCHANGED closing)
    BY <1>8 DEF HandlerReturns, LoopAt, stateVars, closeVars, netVars, callVars, userVars
  <2>2. inbound' \in BOOLEAN /\ known' \in BOOLEAN /\ outsider' \in BOOLEAN
    BY <1>8, Zenon DEF Inv, Switches, HandlerReturns, LoopAt, stateVars, closeVars, netVars, callVars, userVars
  <2>3. /\ pc \notin {"accept", "unregistered"}
        /\ pc' \in {"idle", "in", "handler", "shutdown", "out", "hup"}
        /\ flags' \subseteq {"IN", "OUT", "HUP"}
        /\ UNCHANGED <<secure, state_, fd_, registered, closes, disconnects, outputVars,
                       received, fin, peer, posted, made, sent>>
    BY <1>8 DEF Inv, Phases, HandlerReturns, LoopAt, stateVars, closeVars, netVars, callVars, userVars
  <2> QED
    BY <2>1, <2>2, <2>3, EnteringKeeps
<1>9. CASE PostSend
  <2>1. Stream'
    BY <1>9, StreamLeftAlone
    DEF Inv, PostSend, streamVars, stateVars, closeVars, outputVars, netVars, callVars, userVars
  <2>2. Switches'
    BY <1>9, Zenon DEF Inv, Switches, PostSend, stateVars, closeVars, outputVars, netVars, callVars, userVars
  <2>3. Phases'
    <3>1. posted \in Seq(1..MaxSends) /\ made + 1 \in 1..MaxSends
      BY <1>9, ConstantsAssumption DEF Inv, Phases, PostSend
    <3>2. Append(posted, made + 1) \in Seq(1..MaxSends)
      BY <3>1, AppendProperties
    <3>3. posted' \in Seq(1..MaxSends) /\ made' \in 0..MaxSends
      BY <1>9, <3>1, <3>2, ConstantsAssumption DEF PostSend
    <3> QED
      BY <1>9, <3>3 DEF Inv, Phases, PostSend, stateVars, closeVars, netVars, callVars
  <2>4. FlushArmed'
    BY <1>9, ArmedLeftAlone DEF PostSend, stateVars, closeVars, outputVars, netVars, callVars, userVars
  <2>5. Fresh' /\ Accounted'
    BY <1>9, AccountLeftAlone DEF PostSend, stateVars, closeVars, outputVars, netVars, callVars, userVars
  <2> QED
    BY <2>1, <2>2, <2>3, <2>4, <2>5 DEF Inv
<1>10. CASE RunPostedSend
  <2>1. Head(posted) \in 1..MaxSends /\ Tail(posted) \in Seq(1..MaxSends)
    <3>1. posted \in Seq(1..MaxSends) /\ posted # <<>>
      BY <1>10 DEF RunPostedSend, Inv, Phases
    <3> QED
      BY <3>1, HeadTailProperties
  <2>2. posted' \in Seq(1..MaxSends) /\ made' \in 0..MaxSends
    BY <1>10, <2>1 DEF RunPostedSend, Inv, Phases
  <2>3. /\ pc # "accept" /\ Send(Head(posted))
        /\ UNCHANGED <<secure, stateVars, netVars, callVars, known, outsider>>
    BY <1>10 DEF RunPostedSend, LoopAt
  <2> QED
    BY <2>1, <2>2, <2>3, SendKeepsInv
<1>11. CASE \E t \in Closers : ForceClose(t) \/ CloseStep(t)
  <2>1. PICK t \in Closers : ForceClose(t) \/ CloseStep(t)
    BY <1>11
  <2>2. t \in Threads
    BY DEF Threads
  <2>3. CASE CloseStep(t)
    BY <2>2, <2>3, CloseKeeps
  <2>4. CASE ForceClose(t)
    <3>1. closing[t] = "no" /\ HandleClose(t)
      BY <2>4 DEF ForceClose
    <3>2. inbound' \in BOOLEAN /\ known' \in BOOLEAN /\ outsider' \in BOOLEAN
      BY <2>4, Zenon DEF Inv, Switches, ForceClose, MayClose, netVars
    <3>3. pc # "accept"
      BY <2>4 DEF Inv, Fresh, ForceClose
    <3>4. /\ pc' = pc
          /\ pc' \in {"unregistered", "idle", "in", "handler", "shutdown", "out", "hup"}
          /\ flags' \subseteq {"IN", "OUT", "HUP"}
          /\ UNCHANGED <<secure, state_, fd_, registered, closes, disconnects, outputVars,
                         received, fin, peer, posted, made, sent>>
      BY <2>4, <3>3 DEF Inv, Phases, ForceClose, netVars, callVars
    <3> QED
      BY <2>2, <3>1, <3>2, <3>3, <3>4, EnteringKeeps
  <2> QED
    BY <2>1, <2>3, <2>4
<1>12. CASE Accept
  <2>1. /\ pc = "accept" /\ closing' = closing /\ disconnects' = disconnects
        /\ UNCHANGED <<secure, outputVars, received, fin, peer, flags, userVars>>
    BY <1>12 DEF Accept, LoopAt
  <2>2. /\ state_ # "kDisconnected" /\ fd_ = "open" /\ ~registered /\ closes = 0
        /\ \A t \in Threads : closing[t] = "no"
    BY <2>1 DEF Inv, Fresh
  <2>3. Stream'
    BY <2>1, StreamLeftAlone DEF Inv, streamVars, outputVars, userVars
  <2>4. CASE AcceptedOpen
    <3>1. inbound' \in BOOLEAN /\ registered' \in BOOLEAN
      BY <2>4, Zenon DEF Inv, Switches, AcceptedOpen
    <3>2. /\ registered' /\ pc' = "idle" /\ fd_' = fd_ /\ closes' = closes
          /\ state_' \in {"kHandshaking", "kConnected", "kDisconnecting"}
      BY <2>2, <2>4
      DEF Inv, Phases, AcceptedOpen, HandshakeWantsMore, HandshakeSucceeds
    <3>3. Switches'
      BY <2>1, <3>1, Zenon DEF Inv, Switches, outputVars, userVars
    <3>4. Phases'
      BY <2>1, <3>2 DEF Inv, Phases, userVars
    <3>5. FlushArmed'
      <4>1. output_buffer_ = <<>>
        BY <2>1 DEF Inv, Fresh
      <4> QED
        BY <2>1, <4>1 DEF FlushArmed, outputVars
    <3>6. Fresh' /\ Accounted'
      BY <2>1, <2>2, <3>2 DEF Fresh, Accounted, Removing
    <3> QED
      BY <2>3, <3>3, <3>4, <3>5, <3>6 DEF Inv
  <2>5. CASE AcceptedClosed
    <3>1. inbound' \in BOOLEAN /\ registered' \in BOOLEAN
      BY <2>5, Zenon DEF Inv, Switches, AcceptedClosed
    <3>2. /\ registered' = registered /\ pc' = "unregistered" /\ fd_' = "closed"
          /\ closes' = closes + 1 /\ state_' = "kDisconnected"
      BY <2>5 DEF AcceptedClosed
    <3>3. Switches'
      BY <2>1, <3>1, Zenon DEF Inv, Switches, outputVars, userVars
    <3>4. Phases'
      BY <2>1, <3>2 DEF Inv, Phases, userVars
    <3>5. FlushArmed'
      BY <2>1, <3>2, ArmedLeftAlone DEF outputVars
    <3>6. Fresh' /\ Accounted'
      BY <2>1, <2>2, <3>2 DEF Fresh, Accounted, Removing
    <3> QED
      BY <2>3, <3>3, <3>4, <3>5, <3>6 DEF Inv
  <2> QED
    BY <1>12, <2>4, <2>5 DEF Accept
<1>13. CASE EventArrives
  <2>1. closing[Loop] = "no" /\ (HandleClose(Loop) \/ UNCHANGED closing)
    BY <1>13 DEF EventArrives, Ready, LoopAt, stateVars, closeVars, netVars, callVars, userVars
  <2>2. inbound' \in BOOLEAN /\ known' \in BOOLEAN /\ outsider' \in BOOLEAN
    BY <1>13, Zenon DEF Inv, Switches, EventArrives, Ready, LoopAt, stateVars, closeVars, netVars, callVars, userVars
  <2>3. /\ pc \notin {"accept", "unregistered"}
        /\ pc' \in {"idle", "in", "handler", "shutdown", "out", "hup"}
        /\ flags' \subseteq {"IN", "OUT", "HUP"}
        /\ UNCHANGED <<secure, state_, fd_, registered, closes, disconnects, outputVars,
                       received, fin, peer, posted, made, sent>>
    BY <1>13 DEF Inv, Phases, EventArrives, Ready, LoopAt, stateVars, closeVars, netVars, callVars, userVars
  <2> QED
    BY <2>1, <2>2, <2>3, EnteringKeeps
<1>14. CASE SkipRead
  <2>1. closing[Loop] = "no" /\ (HandleClose(Loop) \/ UNCHANGED closing)
    BY <1>14 DEF SkipRead, LoopAt, stateVars, closeVars, netVars, callVars, userVars
  <2>2. inbound' \in BOOLEAN /\ known' \in BOOLEAN /\ outsider' \in BOOLEAN
    BY <1>14, Zenon DEF Inv, Switches, SkipRead, LoopAt, stateVars, closeVars, netVars, callVars, userVars
  <2>3. /\ pc \notin {"accept", "unregistered"}
        /\ pc' \in {"idle", "in", "handler", "shutdown", "out", "hup"}
        /\ flags' \subseteq {"IN", "OUT", "HUP"}
        /\ UNCHANGED <<secure, state_, fd_, registered, closes, disconnects, outputVars,
                       received, fin, peer, posted, made, sent>>
    BY <1>14 DEF Inv, Phases, SkipRead, LoopAt, stateVars, closeVars, netVars, callVars, userVars
  <2> QED
    BY <2>1, <2>2, <2>3, EnteringKeeps
<1>15. CASE HandleRead
  <2>1. closing[Loop] = "no" /\ (HandleClose(Loop) \/ UNCHANGED closing)
    BY <1>15 DEF HandleRead, LoopAt, stateVars, closeVars, netVars, callVars, userVars
  <2>2. inbound' \in BOOLEAN /\ known' \in BOOLEAN /\ outsider' \in BOOLEAN
    BY <1>15, Zenon DEF Inv, Switches, HandleRead, LoopAt, stateVars, closeVars, netVars, callVars, userVars
  <2>3. /\ pc \notin {"accept", "unregistered"}
        /\ pc' \in {"idle", "in", "handler", "shutdown", "out", "hup"}
        /\ flags' \subseteq {"IN", "OUT", "HUP"}
        /\ UNCHANGED <<secure, state_, fd_, registered, closes, disconnects, outputVars,
                       received, fin, peer, posted, made, sent>>
    BY <1>15 DEF Inv, Phases, HandleRead, LoopAt, stateVars, closeVars, netVars, callVars, userVars
  <2> QED
    BY <2>1, <2>2, <2>3, EnteringKeeps
<1>16. CASE HandleHandshake
  <2>1. /\ LoopAt("in") /\ state_ = "kHandshaking" /\ ~inbound'
        /\ UNCHANGED <<secure, fd_, registered, closes, disconnects, outputVars, received, fin,
                       peer, flags, posted, made, sent>>
    BY <1>16 DEF HandleHandshake
  <2>2. inbound' \in BOOLEAN /\ known' \in BOOLEAN /\ outsider' \in BOOLEAN
    BY <1>16, Zenon DEF Inv, Switches, HandleHandshake
  <2>3. CASE /\ state_' = state_ /\ pc' = "out"
             /\ HandleClose(Loop) \/ UNCHANGED closing
    BY <2>1, <2>2, <2>3, EnteringKeeps DEF LoopAt, Inv, Phases
  <2>4. CASE state_' = "kConnected" /\ pc' = "handler" /\ UNCHANGED closing
    <3>1. Stream'
      BY <2>1, StreamLeftAlone DEF Inv, streamVars, outputVars
    <3>2. Switches'
      BY <2>1, <2>2, Zenon DEF Inv, Switches, outputVars
    <3>3. Phases'
      BY <2>1, <2>4 DEF Inv, Phases
    <3>4. FlushArmed'
      BY <2>1, ArmedLeftAlone DEF outputVars
    <3>5. Fresh' /\ Accounted'
      <4>1. \A u \in Threads : closing'[u] = closing[u]
        BY <2>4
      <4>2. pc = "in" /\ state_' = "kConnected"
        BY <2>1, <2>4 DEF LoopAt
      <4> QED
        BY <2>1, <2>4, <4>1, <4>2, AccountKept
    <3> QED
      BY <3>1, <3>2, <3>3, <3>4, <3>5 DEF Inv
  <2> QED
    BY <1>16, <2>3, <2>4 DEF HandleHandshake, HandshakeWantsMore, HandshakeSucceeds
<1>17. CASE SkipWrite
  <2>1. closing[Loop] = "no" /\ (HandleClose(Loop) \/ UNCHANGED closing)
    BY <1>17 DEF SkipWrite, LoopAt, stateVars, closeVars, netVars, callVars, userVars
  <2>2. inbound' \in BOOLEAN /\ known' \in BOOLEAN /\ outsider' \in BOOLEAN
    BY <1>17, Zenon DEF Inv, Switches, SkipWrite, LoopAt, stateVars, closeVars, netVars, callVars, userVars
  <2>3. /\ pc \notin {"accept", "unregistered"}
        /\ pc' \in {"idle", "in", "handler", "shutdown", "out", "hup"}
        /\ flags' \subseteq {"IN", "OUT", "HUP"}
        /\ UNCHANGED <<secure, state_, fd_, registered, closes, disconnects, outputVars,
                       received, fin, peer, posted, made, sent>>
    BY <1>17 DEF Inv, Phases, SkipWrite, LoopAt, stateVars, closeVars, netVars, callVars, userVars
  <2> QED
    BY <2>1, <2>2, <2>3, EnteringKeeps
<1>18. CASE HandleWrite
  <2>1. /\ LoopAt("out") /\ pc' = "hup"
        /\ UNCHANGED <<secure, state_, fd_, registered, closes, disconnects, netVars, flags,
                       userVars>>
    BY <1>18 DEF HandleWrite
  <2>2. CASE HandleClose(Loop) /\ UNCHANGED outputVars
    <3>1. inbound' \in BOOLEAN /\ known' \in BOOLEAN /\ outsider' \in BOOLEAN
      BY <2>1, Zenon DEF Inv, Switches, netVars, userVars
    <3> QED
      BY <2>1, <2>2, <3>1, EnteringKeeps DEF LoopAt, Inv, Phases, netVars, userVars
  <2>3. ASSUME NEW taken, NEW held \in BOOLEAN, Flushes(taken, held),
               DisableWriting, UNCHANGED closing
        PROVE  Inv'
    <3>1. Stream'
      BY <2>1, <2>3, FlushKeeps DEF Inv, netVars, userVars
    <3>2. Switches'
      <4>1. epollout' \in BOOLEAN
        BY <2>3, Zenon DEF DisableWriting
      <4> QED
        BY <2>1, <4>1, Zenon DEF Inv, Switches, netVars, userVars
    <3>3. Phases'
      BY <2>1, <2>3 DEF Inv, Phases, netVars, userVars
    <3>4. Fresh' /\ Accounted'
      <4>1. \A u \in Threads : closing'[u] = closing[u]
        BY <2>3
      <4>2. pc = "out" /\ pc' = "hup"
        BY <2>1 DEF LoopAt
      <4> QED
        BY <2>1, <4>1, <4>2, AccountKept
    <3>5. FlushArmed'
      <4>1. output_buffer_' # <<>> => output_buffer_ # <<>>
        <5>1. SUFFICES ASSUME output_buffer_ = <<>> PROVE output_buffer_' = <<>>
          OBVIOUS
        <5>2. progress = 0 /\ Unsent \in Seq(Byte) /\ Len(Unsent) = 0
          BY <5>1, UnsentFacts DEF Inv
        <5>3. taken = 0
          BY <2>3, <5>2, RoomIsEnough DEF Flushes, Inv
        <5>4. ~held
          BY <2>3, <5>1, <5>2, <5>3 DEF Flushes
        <5>5. output_buffer_' = SubSeq(output_buffer_, progress + taken + 1, 0)
          BY <2>3, <5>1, <5>4 DEF Flushes
        <5> QED
          BY <5>1, <5>2, <5>3, <5>5, SubSeqEmpty
      <4> QED
        BY <2>1, <2>3, <4>1 DEF Inv, FlushArmed, DisableWriting
    <3> QED
      BY <3>1, <3>2, <3>3, <3>4, <3>5 DEF Inv
  <2>4. CASE ~(WriteFails /\ output_buffer_ # <<>>)
    <3> DEFINE taken == Least(Len(Unsent), Room)
               held  == secure /\ progress + taken < Len(output_buffer_)
    <3>1. held \in BOOLEAN
      BY Zenon DEF Inv, Switches
    <3>2. Flushes(taken, held) /\ DisableWriting /\ UNCHANGED closing
      BY <1>18, <2>4 DEF HandleWrite, Flushes
    <3> HIDE DEF taken, held
    <3> QED
      BY <2>3, <3>1, <3>2
  <2> QED
    BY <1>18, <2>2, <2>4 DEF HandleWrite
<1>19. CASE HandleHangUp
  <2>1. closing[Loop] = "no" /\ (HandleClose(Loop) \/ UNCHANGED closing)
    BY <1>19 DEF HandleHangUp, LoopAt, stateVars, closeVars, netVars, callVars, userVars
  <2>2. inbound' \in BOOLEAN /\ known' \in BOOLEAN /\ outsider' \in BOOLEAN
    BY <1>19, Zenon DEF Inv, Switches, HandleHangUp, LoopAt, stateVars, closeVars, netVars, callVars, userVars
  <2>3. /\ pc \notin {"accept", "unregistered"}
        /\ pc' \in {"idle", "in", "handler", "shutdown", "out", "hup"}
        /\ flags' \subseteq {"IN", "OUT", "HUP"}
        /\ UNCHANGED <<secure, state_, fd_, registered, closes, disconnects, outputVars,
                       received, fin, peer, posted, made, sent>>
    BY <1>19 DEF Inv, Phases, HandleHangUp, LoopAt, stateVars, closeVars, netVars, callVars, userVars
  <2> QED
    BY <2>1, <2>2, <2>3, EnteringKeeps
<1>20. CASE CloseStep(Loop)
  BY <1>20, CloseKeeps
<1>21. CASE UNCHANGED vars
  <2>1. Stream'
    BY <1>21, StreamLeftAlone
    DEF Inv, vars, streamVars, stateVars, closeVars, outputVars, netVars, callVars, userVars
  <2>2. Switches'
    BY <1>21, Zenon DEF Inv, Switches, vars, stateVars, closeVars, outputVars, netVars, callVars, userVars
  <2>3. Phases'
    BY <1>21 DEF Inv, Phases, vars, stateVars, closeVars, outputVars, netVars, callVars, userVars
  <2>4. FlushArmed'
    BY <1>21, ArmedLeftAlone DEF vars, stateVars, closeVars, outputVars, netVars, callVars, userVars
  <2>5. Fresh' /\ Accounted'
    BY <1>21, AccountLeftAlone DEF vars, stateVars, closeVars, outputVars, netVars, callVars, userVars
  <2> QED
    BY <2>1, <2>2, <2>3, <2>4, <2>5 DEF Inv
<1> QED
  BY <1>1, <1>2, <1>3, <1>4, <1>5, <1>6, <1>7, <1>8, <1>9, <1>10, <1>11, <1>12, <1>13,
     <1>14, <1>15, <1>16, <1>17, <1>18, <1>19, <1>20, <1>21 DEF Next, LoopStep

(* The inductive invariant holds in every reachable state. *)
THEOREM Invariance == Spec => []Inv
<1>1. Init => Inv
  BY InvInit
<1>2. Inv /\ [Next]_vars => Inv'
  BY InvNext
<1> QED
  BY <1>1, <1>2, PTL DEF Spec

(* Every variable has a value of its type. *)
THEOREM TypeCorrect == Spec => []TypeOK
BY Invariance, InvIsTyped, PTL

(* The peer gets what was sent, in order: none is lost, repeated or        *)
(* overtaken.                                                              *)
THEOREM PeerGetsWhatIsSent == Spec => []StreamIntact
<1>1. Inv => StreamIntact
  BY DEF Inv, Stream
<1> QED
  BY <1>1, Invariance, PTL

(* Output that is left never waits without EPOLLOUT. *)
THEOREM OutputIsArmed == Spec => []FlushArmed
<1>1. Inv => FlushArmed
  BY DEF Inv
<1> QED
  BY <1>1, Invariance, PTL

(* However many threads close a connection at once, one of them sees it    *)
(* through.                                                                *)
THEOREM NeverLeftHalfClosed == Spec => []NeverHalfClosed
BY Invariance, InvIsWhole, PTL

(* When the loop alone closes: how far it is in HandleClose, the state and *)
(* the descriptor say the same, and the close(2) and the callback are      *)
(* counted by them.                                                        *)
Alone ==
  /\ \A t \in Closers : closing[t] = "no"
  /\ closing[Loop] = "begin" => state_ # "kDisconnected" /\ fd_ = "open"
  /\ Removing(Loop) => state_ = "kDisconnected" /\ fd_ = "open"
  /\ state_ = "kDisconnected" /\ closing[Loop] = "no" => fd_ = "closed"
  /\ fd_ = "closed" => state_ = "kDisconnected"
  /\ closes = IF closing[Loop] = "report" \/ fd_ = "closed" THEN 1 ELSE 0
  /\ disconnects = 0 \/ (fd_ = "closed" /\ disconnects = 1)
  /\ pc = "shutdown" => state_ = "kConnected" /\ closing[Loop] = "no"

(* A step that closes nothing, though the loop may enter HandleClose. *)
LEMMA AloneKept ==
  ASSUME Inv, Alone, UNCHANGED <<state_, fd_, closes, disconnects>>,
         closing' = closing \/ (closing[Loop] = "no" /\ HandleClose(Loop)),
         pc' = "shutdown" => state_ = "kConnected" /\ closing'[Loop] = "no"
  PROVE  Alone'
<1>1. closing \in [Threads -> ClosingPlaces] /\ Loop \in Threads
  BY LoopIsThread DEF Inv, Phases
<1>2. \/ closing'[Loop] = closing[Loop]
      \/ closing'[Loop] = "begin" /\ closing[Loop] = "no" /\ state_ # "kDisconnected"
  BY <1>1 DEF HandleClose, MayClose
<1>3. \A t \in Closers : t \in Threads /\ t # Loop
  BY ConstantsAssumption DEF Threads
<1>4. \A t \in Closers : closing'[t] = "no"
  BY <1>1, <1>3 DEF HandleClose, Alone
<1> QED
  BY <1>2, <1>4, ConstantsAssumption DEF Alone, Removing, Inv, Phases

(* Once another thread has closed the connection, that is so for ever. *)
LEMMA OutsiderStays == [Next]_vars /\ outsider => outsider'
<1> SUFFICES ASSUME [Next]_vars, outsider PROVE outsider'
  OBVIOUS
<1>1. CASE PeerSends \/ PeerReads \/ PeerCloses \/ UNCHANGED vars
  BY <1>1 DEF PeerSends, PeerReads, PeerCloses, userVars, vars
<1>2. CASE HandlerSends \/ HandlerShutsDown \/ HandlerForceCloses \/ PostSend \/ RunPostedSend
  BY <1>2 DEF HandlerSends, HandlerShutsDown, HandlerForceCloses, PostSend, RunPostedSend, userVars
<1>3. CASE \E t \in Threads : CloseStep(t)
  BY <1>3 DEF CloseStep, CloseBegins, CloseSocket, CloseReports, userVars
<1>4. CASE \E t \in Closers : ForceClose(t)
  BY <1>4 DEF ForceClose
<1>5. CASE Accept \/ EventArrives \/ SkipRead \/ HandleRead \/ HandleHandshake
  BY <1>5 DEF Accept, EventArrives, SkipRead, HandleRead, HandleHandshake, userVars
<1>6. CASE Shutdown \/ HandlerReturns \/ SkipWrite \/ HandleWrite \/ HandleHangUp
  BY <1>6 DEF Shutdown, HandlerReturns, SkipWrite, HandleWrite, HandleHangUp, userVars
<1> QED
  BY <1>1, <1>2, <1>3, <1>4, <1>5, <1>6 DEF Next, LoopStep, Threads

(* Another thread that comes to close what is closed already leaves all as *)
(* it is.                                                                  *)
LEMMA LateCloser ==
  ASSUME Alone, NEW t \in Closers, ForceClose(t), ~outsider'
  PROVE  Alone'
<1>1. UNCHANGED <<state_, fd_, closing, closes, disconnects, pc>>
  BY DEF ForceClose, HandleClose, callVars
<1> QED
  BY <1>1 DEF Alone, Removing

(* As long as the loop alone closes, every step keeps what is said of it. *)
LEMMA AloneNext == Inv /\ (~outsider => Alone) /\ [Next]_vars => (~outsider' => Alone')
<1> SUFFICES ASSUME Inv, Alone, [Next]_vars, ~outsider' PROVE Alone'
  BY OutsiderStays
<1>0. closing \in [Threads -> ClosingPlaces] /\ Loop \in Threads
  BY LoopIsThread DEF Inv, Phases
<1>1. CASE PeerSends \/ PeerReads \/ PeerCloses \/ HandlerSends \/ PostSend \/ UNCHANGED vars
  BY <1>1, AloneKept
  DEF Alone, PeerSends, PeerReads, PeerCloses, HandlerSends, PostSend, LoopAt, vars, stateVars,
      closeVars, callVars
<1>2. CASE RunPostedSend
  BY <1>2, AloneKept DEF RunPostedSend, LoopAt, stateVars, closeVars, callVars
<1>3. CASE EventArrives \/ SkipRead \/ HandlerReturns \/ SkipWrite
  BY <1>3, AloneKept
  DEF EventArrives, SkipRead, HandlerReturns, SkipWrite, LoopAt, stateVars, closeVars
<1>4. CASE HandlerShutsDown
  BY <1>4, AloneKept DEF HandlerShutsDown, LoopAt, stateVars, closeVars
<1>5. CASE HandlerForceCloses
  BY <1>5, AloneKept DEF HandlerForceCloses, LoopAt, callVars
<1>6. CASE HandleRead
  <2>1. /\ closing[Loop] = "no" /\ pc' # "shutdown"
        /\ closing' = closing \/ HandleClose(Loop)
        /\ UNCHANGED <<state_, fd_, closes, disconnects>>
    BY <1>6 DEF HandleRead, LoopAt
  <2> QED
    BY <2>1, AloneKept
<1>7. CASE HandleHandshake
  <2>1. /\ closing[Loop] = "no" /\ pc' # "shutdown" /\ state_ = "kHandshaking"
        /\ UNCHANGED <<fd_, closes, disconnects>>
        /\ \/ UNCHANGED state_ /\ (closing' = closing \/ HandleClose(Loop))
           \/ UNCHANGED closing /\ state_' = "kConnected"
    BY <1>7
    DEF HandleHandshake, HandshakeWantsMore, HandshakeSucceeds, LoopAt
  <2>2. CASE UNCHANGED state_ /\ (closing' = closing \/ HandleClose(Loop))
    BY <2>1, <2>2, AloneKept
  <2>3. CASE UNCHANGED closing /\ state_' = "kConnected"
    BY <2>1, <2>3 DEF Alone, Removing
  <2> QED
    BY <2>1, <2>2, <2>3
<1>8. CASE HandleWrite
  <2>1. /\ closing[Loop] = "no" /\ pc' # "shutdown"
        /\ closing' = closing \/ HandleClose(Loop)
        /\ UNCHANGED <<state_, fd_, closes, disconnects>>
    BY <1>8 DEF HandleWrite, LoopAt
  <2> QED
    BY <2>1, AloneKept
<1>9. CASE HandleHangUp
  <2>1. /\ closing[Loop] = "no" /\ pc' # "shutdown"
        /\ closing' = closing \/ HandleClose(Loop)
        /\ UNCHANGED <<state_, fd_, closes, disconnects>>
    BY <1>9 DEF HandleHangUp, LoopAt
  <2> QED
    BY <2>1, AloneKept
<1>10. CASE Shutdown
  <2>1. /\ pc = "shutdown" /\ pc' = "handler" /\ state_' = "kDisconnecting"
        /\ UNCHANGED <<fd_, closing, closes, disconnects>>
    BY <1>10 DEF Shutdown, LoopAt, closeVars
  <2> QED
    BY <2>1 DEF Alone, Removing
<1>11. CASE Accept
  <2>1. /\ pc = "accept" /\ closing[Loop] = "no" /\ UNCHANGED <<closing, disconnects>>
        /\ state_ # "kDisconnected" /\ fd_ = "open" /\ closes = 0 /\ disconnects = 0
    BY <1>0, <1>11 DEF Accept, LoopAt, Inv, Fresh
  <2>2. \/ /\ pc' = "idle" /\ UNCHANGED <<fd_, closes>>
           /\ state_' \in {state_, "kConnected"}
        \/ /\ pc' = "unregistered" /\ state_' = "kDisconnected" /\ fd_' = "closed"
           /\ closes' = closes + 1
    BY <1>11
    DEF Accept, AcceptedOpen, AcceptedClosed, HandshakeWantsMore, HandshakeSucceeds
  <2> QED
    BY <2>1, <2>2 DEF Alone, Removing
<1>12. CASE CloseStep(Loop)
  <2>1. /\ pc' = pc /\ closing[Loop] # "no"
        /\ \A t \in Closers : closing'[t] = "no"
    <3>1. \A t \in Closers : t \in Threads /\ t # Loop
      BY ConstantsAssumption DEF Threads
    <3> QED
      BY <1>0, <1>12, <3>1
      DEF Alone, CloseStep, CloseBegins, CloseSocket, CloseReports, callVars
  <2>2. CASE CloseBegins(Loop)
    <3>1. /\ closing[Loop] = "begin" /\ closing'[Loop] = "socket" /\ state_' = "kDisconnected"
          /\ UNCHANGED <<fd_, closes, disconnects>>
      BY <1>0, <2>2 DEF CloseBegins
    <3> QED
      BY <2>1, <3>1 DEF Alone, Removing
  <2>3. CASE CloseSocket(Loop)
    <3>1. /\ closing[Loop] = "socket" /\ closing'[Loop] = "report"
          /\ closes' = IF fd_ = "open" THEN closes + 1 ELSE closes
          /\ UNCHANGED <<state_, fd_, disconnects>>
      BY <1>0, <2>3 DEF CloseSocket
    <3> QED
      BY <2>1, <3>1 DEF Alone, Removing
  <2>4. CASE CloseReports(Loop)
    <3>1. /\ closing[Loop] = "report" /\ closing'[Loop] = "no" /\ fd_' = "closed"
          /\ disconnects' = disconnects + 1 /\ UNCHANGED <<state_, closes>>
      BY <1>0, <2>4 DEF CloseReports
    <3> QED
      BY <2>1, <3>1 DEF Alone, Removing
  <2> QED
    BY <1>12, <2>2, <2>3, <2>4 DEF CloseStep
<1>13. CASE \E t \in Closers : ForceClose(t)
  BY <1>13, LateCloser
<1>14. ~\E t \in Closers : CloseStep(t)
  BY DEF Alone, CloseStep, CloseBegins, CloseSocket, CloseReports
<1> QED
  BY <1>1, <1>2, <1>3, <1>4, <1>5, <1>6, <1>7, <1>8, <1>9, <1>10, <1>11, <1>12, <1>13, <1>14
  DEF Next, LoopStep

(* As long as no thread but the loop's has closed it, a connection is      *)
(* closed at most once and reported at most once, also when the handshake  *)
(* that the accept begins fails at once.                                   *)
THEOREM ClosesOnce == Spec => []ClosedOnce
<1>1. Init => Alone
  BY LoopIsThread DEF Init, Alone, Removing, Threads
<1>2. Inv /\ (~outsider => Alone) /\ [Next]_vars => (~outsider => Alone)'
  BY AloneNext
<1>3. (~outsider => Alone) => ClosedOnce
  BY DEF Alone, ClosedOnce
<1>4. Spec => []Inv
  BY Invariance
<1> QED
  BY <1>1, <1>2, <1>3, <1>4, PTL DEF Spec

(* However many threads close a connection, the close is seen through, and *)
(* it is done once while only the loop's thread closes.                    *)
THEOREM ClosesWhole == Spec => []CloseIsWhole
BY NeverLeftHalfClosed, ClosesOnce, PTL DEF CloseIsWhole
=============================================================================
