---------------------------- MODULE BufferProofs ----------------------------
(***************************************************************************)
(* Buffers implement queues of bytes, for any number of buffers, initial   *)
(* sizes, lengths of appends and size of the pool, and grow no further     *)
(* than they have to.                                                      *)
(***************************************************************************)
EXTENDS Buffer, SequenceTheorems, TLAPS

(* What Peek returns, byte by byte. *)
LEMMA PeekBytes ==
  ASSUME NEW v \in Vector, Sound(v)
  PROVE  /\ Peek(v) \in Seq(Nat)
         /\ Len(Peek(v)) = ReadableBytes(v)
         /\ \A k \in 1..ReadableBytes(v) : Peek(v)[k] = v.buffer_[v.reader_index_ + k]
<1>1. /\ v.buffer_ \in Seq(Nat) /\ v.reader_index_ \in Nat /\ v.writer_index_ \in Nat
      /\ v.reader_index_ <= v.writer_index_ /\ v.writer_index_ <= Len(v.buffer_)
  BY DEF Vector, Sound
<1> DEFINE d == v.buffer_
           i == v.reader_index_ + 1
           j == v.writer_index_
<1>2. i \in Int /\ j \in Int /\ (\A k \in i..j : d[k] \in Nat)
  BY <1>1, ElementOfSeq
<1>3. Peek(v) = SubSeq(d, i, j)
  BY DEF Peek
<1>4. ReadableBytes(v) = j - i + 1
  BY <1>1 DEF ReadableBytes
<1>5. j - i + 1 = (IF i <= j THEN j - i + 1 ELSE 0)
  BY <1>1
<1> HIDE DEF d, i, j
<1>6. /\ SubSeq(d, i, j) \in Seq(Nat)
      /\ Len(SubSeq(d, i, j)) = IF i <= j THEN j - i + 1 ELSE 0
      /\ \A k \in 1..(j - i + 1) : SubSeq(d, i, j)[k] = d[i + k - 1]
  BY <1>2, SubSeqProperties
<1>7. \A k \in 1..(j - i + 1) : i + k - 1 = v.reader_index_ + k
  BY <1>1 DEF i
<1>8. \A k \in 1..(j - i + 1) : d[i + k - 1] = v.buffer_[v.reader_index_ + k]
  BY <1>7 DEF d
<1> QED
  BY <1>3, <1>4, <1>5, <1>6, <1>8

(* A vector that is written as a function of its places is a sequence. *)
LEMMA FunctionIsSeq ==
  ASSUME NEW n \in Nat, NEW f \in [1..n -> Nat]
  PROVE  f \in Seq(Nat) /\ Len(f) = n
<1>1. f \in Seq(Nat)
  BY SeqDef
<1> QED
  BY <1>1, LenProperties

(* resize keeps what is readable. *)
LEMMA ResizeKeeps ==
  ASSUME NEW v \in Vector, Sound(v), NEW n \in Nat, n >= Len(v.buffer_)
  PROVE  /\ Resize(v, n) \in Vector /\ Sound(Resize(v, n))
         /\ Len(Resize(v, n).buffer_) = n
         /\ Resize(v, n).reader_index_ = v.reader_index_
         /\ Resize(v, n).writer_index_ = v.writer_index_
         /\ Peek(Resize(v, n)) = Peek(v)
<1> DEFINE f == [k \in 1..n |-> IF k <= Len(v.buffer_) THEN v.buffer_[k] ELSE 0]
           r == Resize(v, n)
<1>1. /\ v.buffer_ \in Seq(Nat) /\ v.reader_index_ \in Nat /\ v.writer_index_ \in Nat
      /\ v.capacity \in Nat /\ Len(v.buffer_) \in Nat
      /\ v.reader_index_ <= v.writer_index_ /\ v.writer_index_ <= Len(v.buffer_)
      /\ Len(v.buffer_) <= v.capacity
  BY DEF Vector, Sound
<1>2. f \in [1..n -> Nat]
  BY <1>1, ElementOfSeq
<1>3. f \in Seq(Nat) /\ Len(f) = n
  BY <1>2, FunctionIsSeq
<1>4. /\ r.buffer_ = f /\ r.reader_index_ = v.reader_index_ /\ r.writer_index_ = v.writer_index_
      /\ r.capacity = (IF n <= v.capacity THEN v.capacity ELSE Larger(2 * Len(v.buffer_), n))
      /\ r = Object(f, r.capacity, v.reader_index_, v.writer_index_)
  BY DEF Resize, Object
<1>5. r.capacity \in Nat /\ n <= r.capacity
  BY <1>1, <1>4 DEF Larger
<1>6. r \in Vector
  BY <1>1, <1>3, <1>4, <1>5 DEF Vector, Object
<1>7. Sound(r)
  BY <1>1, <1>3, <1>4, <1>5 DEF Sound
<1>8. Peek(r) = Peek(v)
  <2> HIDE DEF f, r
  <2>1. ReadableBytes(r) = ReadableBytes(v) /\ ReadableBytes(v) \in Nat
    BY <1>1, <1>4 DEF ReadableBytes
  <2>2. /\ Peek(r) \in Seq(Nat) /\ Len(Peek(r)) = ReadableBytes(v)
        /\ \A k \in 1..ReadableBytes(v) : Peek(r)[k] = r.buffer_[r.reader_index_ + k]
    BY <1>6, <1>7, <2>1, PeekBytes
  <2>3. /\ Peek(v) \in Seq(Nat) /\ Len(Peek(v)) = ReadableBytes(v)
        /\ \A k \in 1..ReadableBytes(v) : Peek(v)[k] = v.buffer_[v.reader_index_ + k]
    BY PeekBytes
  <2>4. \A k \in 1..ReadableBytes(v) : f[v.reader_index_ + k] = v.buffer_[v.reader_index_ + k]
    <3>1. \A k \in 1..ReadableBytes(v) :
            v.reader_index_ + k \in 1..n /\ v.reader_index_ + k <= Len(v.buffer_)
      <4> DEFINE i == v.reader_index_
                 j == v.writer_index_
                 m == Len(v.buffer_)
      <4>1. i \in Nat /\ j \in Nat /\ m \in Nat /\ j <= m /\ m <= n /\ ReadableBytes(v) = j - i
        BY <1>1 DEF ReadableBytes
      <4> HIDE DEF i, j, m
      <4>2. \A k \in 1..(j - i) : i + k \in 1..n /\ i + k <= m
        BY <4>1
      <4> QED
        BY <4>1, <4>2 DEF i, m
    <3> QED
      BY <3>1 DEF f
  <2>5. \A k \in 1..Len(Peek(r)) : Peek(r)[k] = Peek(v)[k]
    BY <1>4, <2>2, <2>3, <2>4
  <2> QED
    BY <2>2, <2>3, <2>5, SeqEqual
<1> QED
  BY <1>3, <1>4, <1>6, <1>7, <1>8

(* Compacting moves what is readable to the front. *)
LEMMA CompactKeeps ==
  ASSUME NEW v \in Vector, Sound(v)
  PROVE  /\ Compact(v) \in Vector /\ Sound(Compact(v))
         /\ Len(Compact(v).buffer_) = Len(v.buffer_)
         /\ Compact(v).writer_index_ = ReadableBytes(v)
         /\ Peek(Compact(v)) = Peek(v)
<1> DEFINE f == [k \in 1..Len(v.buffer_) |->
                   IF k <= ReadableBytes(v) THEN v.buffer_[v.reader_index_ + k] ELSE v.buffer_[k]]
           r == Compact(v)
<1>1. /\ v.buffer_ \in Seq(Nat) /\ v.reader_index_ \in Nat /\ v.writer_index_ \in Nat
      /\ v.capacity \in Nat /\ Len(v.buffer_) \in Nat
      /\ v.reader_index_ <= v.writer_index_ /\ v.writer_index_ <= Len(v.buffer_)
      /\ Len(v.buffer_) <= v.capacity
      /\ ReadableBytes(v) \in Nat /\ ReadableBytes(v) = v.writer_index_ - v.reader_index_
  BY DEF Vector, Sound, ReadableBytes
<1>2. f \in [1..Len(v.buffer_) -> Nat]
  <2>1. ASSUME NEW k \in 1..Len(v.buffer_) PROVE f[k] \in Nat
    <3>1. CASE k <= ReadableBytes(v)
      <4>1. v.reader_index_ + k \in 1..Len(v.buffer_)
        <5> DEFINE i == v.reader_index_
                   j == v.writer_index_
                   m == Len(v.buffer_)
        <5>1. i \in Nat /\ j \in Nat /\ m \in Nat /\ j <= m /\ k \in 1..m /\ k <= j - i
          BY <1>1, <3>1
        <5> HIDE DEF i, j, m
        <5>2. i + k \in 1..m
          BY <5>1
        <5> QED
          BY <5>2 DEF i, m
      <4>2. v.buffer_[v.reader_index_ + k] \in Nat
        BY <1>1, <4>1, ElementOfSeq
      <4> QED
        BY <3>1, <4>2
    <3>2. CASE ~(k <= ReadableBytes(v))
      BY <1>1, <3>2, ElementOfSeq
    <3> QED
      BY <3>1, <3>2
  <2> QED
    BY <2>1
<1>3. f \in Seq(Nat) /\ Len(f) = Len(v.buffer_)
  BY <1>1, <1>2, FunctionIsSeq
<1>4. /\ r.buffer_ = f /\ r.reader_index_ = 0 /\ r.writer_index_ = ReadableBytes(v)
      /\ r.capacity = v.capacity
      /\ r = Object(f, v.capacity, 0, ReadableBytes(v))
  BY DEF Compact, Object
<1>5. r \in Vector
  BY <1>1, <1>3, <1>4 DEF Vector, Object
<1>6. Sound(r)
  BY <1>1, <1>3, <1>4 DEF Sound
<1>7. Peek(r) = Peek(v)
  <2> HIDE DEF f, r
  <2>1. ReadableBytes(r) = ReadableBytes(v)
    BY <1>1, <1>4 DEF ReadableBytes
  <2>2. /\ Peek(r) \in Seq(Nat) /\ Len(Peek(r)) = ReadableBytes(v)
        /\ \A k \in 1..ReadableBytes(v) : Peek(r)[k] = r.buffer_[r.reader_index_ + k]
    BY <1>5, <1>6, <2>1, PeekBytes
  <2>3. /\ Peek(v) \in Seq(Nat) /\ Len(Peek(v)) = ReadableBytes(v)
        /\ \A k \in 1..ReadableBytes(v) : Peek(v)[k] = v.buffer_[v.reader_index_ + k]
    BY PeekBytes
  <2>4. \A k \in 1..ReadableBytes(v) : f[k] = v.buffer_[v.reader_index_ + k]
    BY <1>1 DEF f
  <2>6. \A k \in 1..ReadableBytes(v) : Peek(r)[k] = f[0 + k] /\ 0 + k = k
    BY <1>4, <2>2
  <2>5. \A k \in 1..ReadableBytes(v) : Peek(r)[k] = Peek(v)[k]
    BY <2>3, <2>4, <2>6
  <2> QED
    BY <2>2, <2>3, <2>5, SeqEqual
<1> QED
  BY <1>3, <1>4, <1>5, <1>6, <1>7

(* There is room after EnsureWritableBytes, the readable bytes are the     *)
(* same, and the vector grew only if twice what it has to hold is more.    *)
LEMMA EnsureKeeps ==
  ASSUME NEW v \in Vector, Sound(v), NEW len \in Nat
  PROVE  LET r == EnsureWritableBytes(v, len)
         IN  /\ r \in Vector /\ Sound(r)
             /\ WritableBytes(r) >= len
             /\ Peek(r) = Peek(v)
             /\ \/ Len(r.buffer_) = Len(v.buffer_)
                \/ Len(r.buffer_) <= 2 * (ReadableBytes(v) + len)
<1>1. /\ v.reader_index_ \in Nat /\ v.writer_index_ \in Nat /\ Len(v.buffer_) \in Nat
      /\ v.reader_index_ <= v.writer_index_ /\ v.writer_index_ <= Len(v.buffer_)
      /\ WritableBytes(v) = Len(v.buffer_) - v.writer_index_
      /\ ReadableBytes(v) = v.writer_index_ - v.reader_index_
  BY DEF Vector, Sound, WritableBytes, ReadableBytes
<1>2. CASE WritableBytes(v) >= len
  BY <1>1, <1>2 DEF EnsureWritableBytes
<1>3. CASE WritableBytes(v) < len /\ WritableBytes(v) + v.reader_index_ < len
  <2> DEFINE n == v.writer_index_ + len
             r == Resize(v, n)
  <2>1. EnsureWritableBytes(v, len) = r
    BY <1>3 DEF EnsureWritableBytes, MakeSpace
  <2>2. n \in Nat /\ n >= Len(v.buffer_) /\ n <= 2 * (ReadableBytes(v) + len)
    BY <1>1, <1>3
  <2>3. /\ r \in Vector /\ Sound(r) /\ Len(r.buffer_) = n
        /\ r.writer_index_ = v.writer_index_ /\ Peek(r) = Peek(v)
    BY <2>2, ResizeKeeps
  <2>4. WritableBytes(r) >= len
    <3> HIDE DEF r
    <3> QED BY <1>1, <2>3 DEF WritableBytes
  <2> QED
    BY <2>1, <2>2, <2>3, <2>4
<1>4. CASE WritableBytes(v) < len /\ ~(WritableBytes(v) + v.reader_index_ < len)
  <2> DEFINE r == Compact(v)
  <2>1. EnsureWritableBytes(v, len) = r
    BY <1>4 DEF EnsureWritableBytes, MakeSpace
  <2>2. /\ r \in Vector /\ Sound(r) /\ Len(r.buffer_) = Len(v.buffer_)
        /\ r.writer_index_ = ReadableBytes(v) /\ Peek(r) = Peek(v)
    BY CompactKeeps
  <2>3. WritableBytes(r) >= len
    <3> HIDE DEF r
    <3> QED BY <1>1, <1>4, <2>2 DEF WritableBytes
  <2> QED
    BY <2>1, <2>2, <2>3
<1> QED
  BY <1>1, <1>2, <1>3, <1>4

(* What is copied behind the readable bytes becomes readable. *)
LEMMA CopyInAppends ==
  ASSUME NEW v \in Vector, Sound(v), NEW s \in Seq(Nat), WritableBytes(v) >= Len(s)
  PROVE  /\ CopyIn(v, s) \in Vector /\ Sound(CopyIn(v, s))
         /\ Len(CopyIn(v, s).buffer_) = Len(v.buffer_)
         /\ Peek(CopyIn(v, s)) = Peek(v) \o s
<1> DEFINE w == v.writer_index_
           f == [k \in 1..Len(v.buffer_) |->
                   IF k > w /\ k <= w + Len(s) THEN s[k - w] ELSE v.buffer_[k]]
           r == CopyIn(v, s)
<1>1. /\ v.buffer_ \in Seq(Nat) /\ v.reader_index_ \in Nat /\ w \in Nat
      /\ v.capacity \in Nat /\ Len(v.buffer_) \in Nat /\ Len(s) \in Nat
      /\ v.reader_index_ <= w /\ w + Len(s) <= Len(v.buffer_)
      /\ Len(v.buffer_) <= v.capacity
      /\ ReadableBytes(v) \in Nat /\ ReadableBytes(v) = w - v.reader_index_
  BY DEF Vector, Sound, ReadableBytes, WritableBytes
<1>2. f \in [1..Len(v.buffer_) -> Nat]
  <2>1. ASSUME NEW k \in 1..Len(v.buffer_) PROVE f[k] \in Nat
    <3>1. CASE k > w /\ k <= w + Len(s)
      <4>1. k - w \in 1..Len(s)
        <5> DEFINE m == Len(s)
        <5>1. w \in Nat /\ m \in Nat /\ k \in Nat /\ k > w /\ k <= w + m
          BY <1>1, <3>1
        <5> HIDE DEF w, m
        <5>2. k - w \in 1..m
          BY <5>1
        <5> QED
          BY <5>2 DEF m
      <4> QED
        BY <3>1, <4>1, ElementOfSeq
    <3>2. CASE ~(k > w /\ k <= w + Len(s))
      BY <1>1, <3>2, ElementOfSeq
    <3> QED
      BY <3>1, <3>2
  <2> QED
    BY <2>1
<1>3. f \in Seq(Nat) /\ Len(f) = Len(v.buffer_)
  BY <1>1, <1>2, FunctionIsSeq
<1>4. /\ r.buffer_ = f /\ r.reader_index_ = v.reader_index_ /\ r.writer_index_ = w + Len(s)
      /\ r.capacity = v.capacity
      /\ r = Object(f, v.capacity, v.reader_index_, w + Len(s))
  BY DEF CopyIn, Object
<1>5. r \in Vector
  <2>1. w + Len(s) \in Nat
    BY <1>1
  <2>2. r = Object(f, v.capacity, v.reader_index_, w + Len(s))
    BY <1>4
  <2> HIDE DEF f, r
  <2> QED
    BY <1>1, <1>3, <2>1, <2>2 DEF Vector, Object
<1>6. Sound(r)
  BY <1>1, <1>3, <1>4 DEF Sound
<1>7. Peek(r) = Peek(v) \o s
  <2> DEFINE n == ReadableBytes(v)
             i == v.reader_index_
             d == v.buffer_
  <2>0. /\ n \in Nat /\ i \in Nat /\ w \in Nat /\ Len(s) \in Nat /\ Len(d) \in Nat
        /\ w = i + n /\ w + Len(s) <= Len(d)
    BY <1>1
  <2>7. \A k \in 1..Len(d) : f[k] = IF k > w /\ k <= w + Len(s) THEN s[k - w] ELSE d[k]
    OBVIOUS
  <2>1. ReadableBytes(r) = n + Len(s)
    <3> HIDE DEF r
    <3> QED BY <1>1, <1>4 DEF ReadableBytes
  <2>2. /\ Peek(r) \in Seq(Nat) /\ Len(Peek(r)) = n + Len(s)
        /\ \A k \in 1..(n + Len(s)) : Peek(r)[k] = f[i + k]
    <3> HIDE DEF r, f
    <3> QED BY <1>4, <1>5, <1>6, <2>1, PeekBytes
  <2>3. /\ Peek(v) \in Seq(Nat) /\ Len(Peek(v)) = n
        /\ \A k \in 1..n : Peek(v)[k] = d[i + k]
    BY PeekBytes
  <2> HIDE DEF f, r, n, i, d, w
  <2>4. /\ Peek(v) \o s \in Seq(Nat) /\ Len(Peek(v) \o s) = n + Len(s)
        /\ \A k \in 1..(n + Len(s)) : (Peek(v) \o s)[k] =
             IF k <= n THEN Peek(v)[k] ELSE s[k - n]
    BY <2>3, ConcatProperties
  <2>5. ASSUME NEW k \in 1..(n + Len(s)) PROVE Peek(r)[k] = (Peek(v) \o s)[k]
    <3>0. k \in Nat /\ k >= 1 /\ k <= n + Len(s) /\ i + k \in 1..Len(d)
      BY <2>0
    <3>1. CASE k <= n
      <4>0. ~(i + k > w)
        BY <2>0, <3>0, <3>1
      <4>1. f[i + k] = d[i + k]
        BY <2>7, <3>0, <4>0
      <4>2. Peek(v)[k] = d[i + k]
        BY <2>0, <2>3, <3>0, <3>1
      <4> QED
        BY <2>2, <2>4, <3>1, <4>1, <4>2
    <3>2. CASE ~(k <= n)
      <4>1. i + k > w /\ i + k <= w + Len(s)
        BY <2>0, <3>0, <3>2
      <4>4. (i + k) - w = k - n
        BY <2>0, <3>0
      <4>2. f[i + k] = s[(i + k) - w]
        BY <2>7, <3>0, <4>1
      <4>3. f[i + k] = s[k - n]
        BY <4>2, <4>4
      <4> QED
        BY <2>2, <2>4, <3>2, <4>3
    <3> QED
      BY <3>1, <3>2
  <2>6. \A k \in 1..Len(Peek(r)) : Peek(r)[k] = (Peek(v) \o s)[k]
    BY <2>2, <2>5
  <2> QED
    BY <2>2, <2>4, <2>6, SeqEqual
<1> QED
  BY <1>3, <1>4, <1>5, <1>6, <1>7

(* Append as a whole. *)
LEMMA AppendKeeps ==
  ASSUME NEW v \in Vector, Sound(v), NEW s \in Seq(Nat)
  PROVE  LET r == Appended(v, s)
         IN  /\ r \in Vector /\ Sound(r)
             /\ Peek(r) = Peek(v) \o s
             /\ \/ Len(r.buffer_) = Len(v.buffer_)
                \/ Len(r.buffer_) <= 2 * (ReadableBytes(v) + Len(s))
<1> DEFINE e == EnsureWritableBytes(v, Len(s))
<1>1. /\ e \in Vector /\ Sound(e) /\ WritableBytes(e) >= Len(s) /\ Peek(e) = Peek(v)
      /\ \/ Len(e.buffer_) = Len(v.buffer_)
         \/ Len(e.buffer_) <= 2 * (ReadableBytes(v) + Len(s))
  BY EnsureKeeps
<1> HIDE DEF e
<1>2. /\ CopyIn(e, s) \in Vector /\ Sound(CopyIn(e, s))
      /\ Len(CopyIn(e, s).buffer_) = Len(e.buffer_)
      /\ Peek(CopyIn(e, s)) = Peek(e) \o s
  BY <1>1, CopyInAppends
<1>3. Appended(v, s) = CopyIn(e, s)
  BY DEF Appended, e
<1> QED
  BY <1>1, <1>2, <1>3

(* Retrieve takes bytes from the front, and starts over when none is left. *)
LEMMA RetrieveTakes ==
  ASSUME NEW v \in Vector, Sound(v), NEW len \in Nat, len <= ReadableBytes(v)
  PROVE  LET r == Retrieve(v, len)
         IN  /\ r \in Vector /\ Sound(r)
             /\ r.buffer_ = v.buffer_
             /\ Peek(r) = SubSeq(Peek(v), len + 1, Len(Peek(v)))
<1> DEFINE i == v.reader_index_
           j == v.writer_index_
           d == v.buffer_
           r == Retrieve(v, len)
           n == ReadableBytes(v)
           t == SubSeq(Peek(v), len + 1, Len(Peek(v)))
<1>1. /\ d \in Seq(Nat) /\ i \in Nat /\ j \in Nat /\ v.capacity \in Nat /\ Len(d) \in Nat
      /\ i <= j /\ j <= Len(d) /\ Len(d) <= v.capacity
      /\ n = j - i /\ n \in Nat
  BY DEF Vector, Sound, ReadableBytes
<1>2. /\ Peek(v) \in Seq(Nat) /\ Len(Peek(v)) = n
      /\ \A k \in 1..n : Peek(v)[k] = d[i + k]
  BY PeekBytes
<1>3. /\ t \in Seq(Nat)
      /\ Len(t) = n - len
      /\ \A k \in 1..(n - len) : t[k] = Peek(v)[len + k]
  <2> DEFINE p == Peek(v)
  <2> HIDE DEF p, n
  <2>1. p \in Seq(Nat) /\ Len(p) = n /\ n \in Nat /\ len <= n
    BY <1>1, <1>2 DEF p, n
  <2>2. \A k \in (len + 1)..n : p[k] \in Nat
    BY <2>1, ElementOfSeq
  <2>3. /\ SubSeq(p, len + 1, n) \in Seq(Nat)
        /\ Len(SubSeq(p, len + 1, n)) = IF len + 1 <= n THEN n - (len + 1) + 1 ELSE 0
        /\ \A k \in 1..(n - (len + 1) + 1) : SubSeq(p, len + 1, n)[k] = p[(len + 1) + k - 1]
    BY <2>1, <2>2, SubSeqProperties
  <2>4. \A k \in 1..(n - len) : (len + 1) + k - 1 = len + k
    OBVIOUS
  <2>5. n - (len + 1) + 1 = n - len
    BY <2>1
  <2>6. t = SubSeq(p, len + 1, n)
    BY <2>1 DEF p
  <2>7. Len(SubSeq(p, len + 1, n)) = n - len
    BY <2>1, <2>3
  <2>8. \A k \in 1..(n - len) : SubSeq(p, len + 1, n)[k] = p[len + k]
    BY <2>3, <2>4, <2>5
  <2> HIDE DEF t
  <2> QED
    BY <2>3, <2>6, <2>7, <2>8 DEF p
<1>4. CASE len < n
  <2>1. r = Object(d, v.capacity, i + len, j)
    BY <1>4 DEF Retrieve
  <2>2. r.buffer_ = d /\ r.capacity = v.capacity /\ r.reader_index_ = i + len /\ r.writer_index_ = j
    BY <2>1 DEF Object
  <2>3. r \in Vector
    BY <1>1, <2>1 DEF Vector, Object
  <2> HIDE DEF r, t
  <2>4. Sound(r)
    BY <1>1, <1>4, <2>2 DEF Sound
  <2>5. ReadableBytes(r) = n - len
    BY <1>1, <2>2 DEF ReadableBytes
  <2>6. /\ Peek(r) \in Seq(Nat) /\ Len(Peek(r)) = n - len
        /\ \A k \in 1..(n - len) : Peek(r)[k] = d[(i + len) + k]
    BY <2>2, <2>3, <2>4, <2>5, PeekBytes
  <2> HIDE DEF n, i, d, j
  <2>7. ASSUME NEW k \in 1..(n - len) PROVE Peek(r)[k] = t[k]
    <3>1. len + k \in 1..n /\ (i + len) + k = i + (len + k)
      BY <1>1, <1>4
    <3>2. Peek(v)[len + k] = d[i + (len + k)]
      BY <1>2, <3>1
    <3> QED
      BY <1>3, <2>6, <3>1, <3>2
  <2>8. Peek(r) = t
    BY <1>3, <2>6, <2>7, SeqEqual
  <2> QED
    BY <2>2, <2>3, <2>4, <2>8 DEF r, t, d
<1>5. CASE ~(len < n)
  <2>1. r = Object(d, v.capacity, 0, 0)
    BY <1>5 DEF Retrieve, RetrieveAll
  <2>2. r.buffer_ = d /\ r.capacity = v.capacity /\ r.reader_index_ = 0 /\ r.writer_index_ = 0
    BY <2>1 DEF Object
  <2>3. r \in Vector
    BY <1>1, <2>1 DEF Vector, Object
  <2> HIDE DEF r, t
  <2>4. Sound(r)
    BY <1>1, <2>2 DEF Sound
  <2>5. ReadableBytes(r) = 0 /\ n - len = 0
    BY <1>1, <1>5, <2>2 DEF ReadableBytes
  <2>6. Peek(r) \in Seq(Nat) /\ Len(Peek(r)) = 0
    BY <2>3, <2>4, <2>5, PeekBytes
  <2>7. Len(t) = 0
    BY <1>3, <2>5
  <2>8. Peek(r) = t
    BY <1>3, <2>6, <2>7, SeqEqual
  <2> QED
    BY <2>2, <2>3, <2>4, <2>8 DEF r, t, d
<1> QED
  BY <1>4, <1>5
----------------------------------------------------------------------------
(* A vector whose indices are 0 has nothing to read. *)
LEMMA FreshIsEmpty ==
  ASSUME NEW d \in Seq(Nat), NEW room \in Nat, Len(d) <= room, SubSeq(d, 1, 0) = <<>>
  PROVE  LET o == Object(d, room, 0, 0)
         IN  o \in Vector /\ Sound(o) /\ Peek(o) = <<>> /\ o.buffer_ = d
<1> DEFINE o == Object(d, room, 0, 0)
<1>1. o.buffer_ = d /\ o.capacity = room /\ o.reader_index_ = 0 /\ o.writer_index_ = 0
  BY DEF Object
<1>2. o \in Vector
  BY DEF Object, Vector
<1> HIDE DEF o
<1>3. Sound(o)
  BY <1>1 DEF Sound
<1>4. Peek(o) = SubSeq(d, 0 + 1, 0)
  BY <1>1 DEF Peek
<1>5. Peek(o) = <<>>
  BY <1>4
<1> QED
  BY <1>1, <1>2, <1>3, <1>5 DEF o

(* Every vector that Acquire returns is sound, and empty for a reader. *)
LEMMA AcquireGives ==
  ASSUME pool_ \in Seq(Nat), NEW size \in Nat
  PROVE  /\ Acquired(size) \in Vector /\ Sound(Acquired(size))
         /\ Peek(Acquired(size)) = <<>>
         /\ Len(Acquired(size).buffer_) <= 2 * size
         /\ PoolAfterAcquire \in Seq(Nat)
<1>3. PoolAfterAcquire \in Seq(Nat)
  BY DEF PoolAfterAcquire
<1>1. CASE Fits(size)
  <2> DEFINE e == <<>>
  <2>1. Last \in Nat
    BY <1>1, ElementOfSeq, EmptySeq DEF Fits, Last
  <2>2. e \in Seq(Nat) /\ Len(e) = 0 /\ SubSeq(e, 1, 0) = <<>>
    BY SubSeqEmpty
  <2>3. Acquired(size) = Object(e, Last, 0, 0)
    BY <1>1 DEF Acquired
  <2> HIDE DEF e
  <2> DEFINE room == Last
             o == Object(e, room, 0, 0)
  <2>5. room \in Nat /\ Len(e) <= room
    BY <2>1, <2>2
  <2> HIDE DEF room
  <2>6. o \in Vector /\ Sound(o) /\ Peek(o) = <<>> /\ o.buffer_ = e
    BY <2>2, <2>5, FreshIsEmpty
  <2>7. Acquired(size) = o
    BY <2>3 DEF room
  <2> HIDE DEF o
  <2>4. /\ Acquired(size) \in Vector /\ Sound(Acquired(size))
        /\ Peek(Acquired(size)) = <<>> /\ Acquired(size).buffer_ = e
    BY <2>6, <2>7
  <2> QED
    BY <1>3, <2>2, <2>4
<1>2. CASE ~Fits(size)
  <2> DEFINE f == [k \in 1..size |-> 0]
  <2>1. f \in Seq(Nat) /\ Len(f) = size
    BY FunctionIsSeq
  <2> HIDE DEF f
  <2>2. Acquired(size) = Object(f, size, 0, 0)
    BY <1>2 DEF Acquired, f
  <2>3. SubSeq(f, 1, 0) = <<>>
    BY SubSeqEmpty
  <2> QED
    BY <1>3, <2>1, <2>2, <2>3, FreshIsEmpty
<1> QED
  BY <1>1, <1>2, <1>3

(* What Release does to the pool. *)
LEMMA ReleaseType ==
  ASSUME pool_ \in Seq(Nat), NEW v \in Vector
  PROVE  PoolAfterRelease(v) \in Seq(Nat)
BY DEF PoolAfterRelease, Vector

(* A Buffer without a vector has nothing to read. *)
LEMMA EmptyIsEmpty == Empty \in Vector /\ Sound(Empty) /\ Peek(Empty) = <<>> /\ Len(Empty.buffer_) = 0
<1>1. SubSeq(<<>>, 1, 0) = <<>>
  BY SubSeqEmpty
<1> QED
  BY <1>1 DEF Empty, Object, Vector, Sound, Peek

Inv == TypeOK /\ GrowthBounded

(* Types, soundness of the indices and the bound on growth, of every       *)
(* reachable state: what the assertions of buffer.cc check at run time.    *)
THEOREM Invariance == Spec => []Inv
<1>1. Init => Inv
  BY EmptyIsEmpty DEF Init, Inv, TypeOK, GrowthBounded
<1>2. ASSUME Inv, [Next]_vars PROVE Inv'
  <2>0. /\ live \subseteq Buffers /\ buf \in [Buffers -> Vector]
        /\ \A b \in Buffers : Sound(buf[b])
        /\ \A b \in Buffers \ live : buf[b] = Empty
        /\ pool_ \in Seq(Nat) /\ appended \in Nat /\ need \in [Buffers -> Nat]
        /\ \A b \in live : Len(buf[b].buffer_) <= 2 * need[b]
    BY <1>2 DEF Inv, TypeOK, GrowthBounded
  <2>1. ASSUME NEW b \in Buffers, NEW size \in InitialSizes, Construct(b, size) PROVE Inv'
    <3>1. size \in Nat
      BY ConstantsAssumption
    <3>2. /\ Acquired(size) \in Vector /\ Sound(Acquired(size))
          /\ Len(Acquired(size).buffer_) <= 2 * size /\ PoolAfterAcquire \in Seq(Nat)
      BY <2>0, <3>1, AcquireGives
    <3>3. /\ live' = live \cup {b} /\ buf' = [buf EXCEPT ![b] = Acquired(size)]
          /\ pool_' \in Seq(Nat) /\ need' = [need EXCEPT ![b] = size] /\ appended' = appended
      BY <2>1, <3>2 DEF Construct
    <3> QED
      BY <2>0, <3>1, <3>2, <3>3 DEF Inv, TypeOK, GrowthBounded
  <2>2. ASSUME NEW b \in Buffers, Destroy(b) PROVE Inv'
    <3>1. pool_' \in Seq(Nat)
      BY <2>0, <2>2, ReleaseType DEF Destroy
    <3>2. /\ live' = live \ {b} /\ buf' = [buf EXCEPT ![b] = Empty]
          /\ need' = need /\ appended' = appended
      BY <2>2 DEF Destroy
    <3> QED
      BY <2>0, <3>1, <3>2, EmptyIsEmpty DEF Inv, TypeOK, GrowthBounded
  <2>3. ASSUME NEW b \in Buffers, NEW len \in 0..MaxLen, AppendTo(b, len) PROVE Inv'
    <3> DEFINE s == [k \in 1..len |-> appended + k]
               v == Appended(buf[b], s)
    <3>1. len \in Nat /\ buf[b] \in Vector /\ Sound(buf[b]) /\ b \in live
      BY <2>0, <2>3, ConstantsAssumption DEF AppendTo
    <3>2. s \in [1..len -> Nat]
      BY <2>0, <3>1
    <3>3. s \in Seq(Nat) /\ Len(s) = len
      BY <3>1, <3>2, FunctionIsSeq
    <3>4. ReadableBytes(buf[b]) \in Nat
      BY <3>1 DEF ReadableBytes, Vector, Sound
    <3> HIDE DEF s
    <3>5. /\ v \in Vector /\ Sound(v)
          /\ \/ Len(v.buffer_) = Len(buf[b].buffer_)
             \/ Len(v.buffer_) <= 2 * (ReadableBytes(buf[b]) + len)
      BY <3>1, <3>3, AppendKeeps
    <3>6. /\ live' = live /\ buf' = [buf EXCEPT ![b] = v] /\ pool_' = pool_
          /\ need' = [need EXCEPT ![b] = Larger(@, ReadableBytes(buf[b]) + len)]
          /\ appended' = appended + len
      BY <2>3 DEF AppendTo, s
    <3> DEFINE m == Larger(need[b], ReadableBytes(buf[b]) + len)
    <3>7. m \in Nat /\ m >= need[b] /\ m >= ReadableBytes(buf[b]) + len
      BY <2>0, <3>1, <3>4 DEF Larger
    <3> HIDE DEF v, m
    <3>8. Len(v.buffer_) <= 2 * m
      <4>1. Len(buf[b].buffer_) \in Nat /\ Len(v.buffer_) \in Nat /\ need[b] \in Nat
        BY <2>0, <3>1, <3>5 DEF Vector
      <4>2. Len(buf[b].buffer_) <= 2 * need[b]
        BY <2>0, <3>1
      <4> QED
        BY <3>1, <3>4, <3>5, <3>7, <4>1, <4>2
    <3>9. need' = [need EXCEPT ![b] = m]
      BY <2>0, <3>6 DEF m
    <3>10. TypeOK'
      BY <2>0, <3>1, <3>5, <3>6, <3>7, <3>9 DEF TypeOK
    <3>11. GrowthBounded'
      BY <2>0, <3>1, <3>6, <3>8, <3>9 DEF GrowthBounded
    <3> QED
      BY <3>10, <3>11 DEF Inv
  <2>4. ASSUME NEW b \in Buffers, NEW len \in 0..MaxLen, RetrieveFrom(b, len) PROVE Inv'
    <3> DEFINE v == Retrieve(buf[b], len)
    <3>1. /\ len \in Nat /\ buf[b] \in Vector /\ Sound(buf[b]) /\ b \in live
          /\ len <= ReadableBytes(buf[b])
      BY <2>0, <2>4, ConstantsAssumption DEF RetrieveFrom
    <3>2. v \in Vector /\ Sound(v) /\ v.buffer_ = buf[b].buffer_
      BY <3>1, RetrieveTakes
    <3>3. /\ live' = live /\ buf' = [buf EXCEPT ![b] = v] /\ pool_' = pool_
          /\ need' = need /\ appended' = appended
      BY <2>4 DEF RetrieveFrom
    <3> HIDE DEF v
    <3> QED
      BY <2>0, <3>1, <3>2, <3>3 DEF Inv, TypeOK, GrowthBounded
  <2>5. ASSUME NEW b \in Buffers, NEW c \in Buffers, MoveConstruct(b, c) PROVE Inv'
    <3>1. /\ b \in live /\ c # b
          /\ live' = live \cup {c} /\ buf' = [buf EXCEPT ![b] = Empty, ![c] = buf[b]]
          /\ need' = [need EXCEPT ![c] = need[b]] /\ pool_' = pool_ /\ appended' = appended
      BY <2>5 DEF MoveConstruct
    <3>2. /\ buf' \in [Buffers -> Vector] /\ need' \in [Buffers -> Nat]
          /\ buf'[b] = Empty /\ buf'[c] = buf[b] /\ need'[c] = need[b]
          /\ \A d \in Buffers \ {b, c} : buf'[d] = buf[d]
          /\ \A d \in Buffers \ {c} : need'[d] = need[d]
      BY <2>0, <3>1, EmptyIsEmpty
    <3>3. TypeOK'
      BY <2>0, <3>1, <3>1, <3>2, EmptyIsEmpty DEF TypeOK
    <3>4. ASSUME NEW d \in live' PROVE Len(buf'[d].buffer_) <= 2 * need'[d]
      <4>1. CASE d = b
        BY <2>0, <3>2, <4>1, EmptyIsEmpty
      <4>2. CASE d = c
        BY <2>0, <3>1, <3>2, <4>2
      <4>3. CASE d \notin {b, c}
        BY <2>0, <3>1, <3>2, <4>3
      <4> QED
        BY <4>1, <4>2, <4>3
    <3> QED
      BY <3>3, <3>4 DEF Inv, GrowthBounded
  <2>6. ASSUME NEW b \in Buffers, NEW c \in Buffers, MoveAssign(b, c) PROVE Inv'
    <3>1. pool_' \in Seq(Nat)
      BY <2>0, <2>6, ReleaseType DEF MoveAssign
    <3>2. /\ b \in live /\ c \in live /\ c # b
          /\ live' = live /\ buf' = [buf EXCEPT ![b] = Empty, ![c] = buf[b]]
          /\ need' = [need EXCEPT ![c] = need[b]] /\ appended' = appended
      BY <2>6 DEF MoveAssign
    <3>3. /\ buf' \in [Buffers -> Vector] /\ need' \in [Buffers -> Nat]
          /\ buf'[b] = Empty /\ buf'[c] = buf[b] /\ need'[c] = need[b]
          /\ \A d \in Buffers \ {b, c} : buf'[d] = buf[d]
          /\ \A d \in Buffers \ {c} : need'[d] = need[d]
      BY <2>0, <3>2, EmptyIsEmpty
    <3>4. TypeOK'
      BY <2>0, <3>1, <3>2, <3>3, EmptyIsEmpty DEF TypeOK
    <3>5. ASSUME NEW d \in live' PROVE Len(buf'[d].buffer_) <= 2 * need'[d]
      <4>1. CASE d = b
        BY <2>0, <3>3, <4>1, EmptyIsEmpty
      <4>2. CASE d = c
        BY <2>0, <3>2, <3>3, <4>2
      <4>3. CASE d \notin {b, c}
        BY <2>0, <3>2, <3>3, <4>3
      <4> QED
        BY <4>1, <4>2, <4>3
    <3> QED
      BY <3>4, <3>5 DEF Inv, GrowthBounded
  <2>7. ASSUME UNCHANGED vars PROVE Inv'
    BY <1>2, <2>7 DEF Inv, TypeOK, GrowthBounded, vars
  <2> QED
    BY <1>2, <2>1, <2>2, <2>3, <2>4, <2>5, <2>6, <2>7 DEF Next
<1> QED
  BY <1>1, <1>2, PTL DEF Spec

(* No operation reads or writes outside its vector. *)
THEOREM TypeCorrect == Spec => []TypeOK
<1>1. Inv => TypeOK
  BY DEF Inv
<1> QED
  BY <1>1, Invariance, PTL

(* A vector is never more than twice as long as what its buffer once had   *)
(* to hold.                                                                *)
THEOREM GrowthIsBounded == Spec => []GrowthBounded
<1>1. Inv => GrowthBounded
  BY DEF Inv
<1> QED
  BY <1>1, Invariance, PTL
----------------------------------------------------------------------------
(* One object's bytes change, and the queues with them. *)
LEMMA OneChanges ==
  ASSUME buf \in [Buffers -> Vector], NEW b \in Buffers, NEW v \in Vector,
         buf' = [buf EXCEPT ![b] = v]
  PROVE  [a \in Buffers |-> Peek(buf[a])]' =
           [[a \in Buffers |-> Peek(buf[a])] EXCEPT ![b] = Peek(v)]
<1>1. /\ buf'[b] = v /\ \A a \in Buffers \ {b} : buf'[a] = buf[a]
  OBVIOUS
<1>2. \A a \in Buffers : Peek(buf'[a]) = IF a = b THEN Peek(v) ELSE Peek(buf[a])
  BY <1>1
<1> QED
  BY <1>2

(* The same, when bytes are moved from one object to another. *)
LEMMA TwoChange ==
  ASSUME buf \in [Buffers -> Vector], NEW b \in Buffers, NEW c \in Buffers, b # c,
         buf' = [buf EXCEPT ![b] = Empty, ![c] = buf[b]]
  PROVE  [a \in Buffers |-> Peek(buf[a])]' =
           [[a \in Buffers |-> Peek(buf[a])] EXCEPT ![b] = <<>>, ![c] = Peek(buf[b])]
<1>1. /\ buf'[b] = Empty /\ buf'[c] = buf[b] /\ \A a \in Buffers \ {b, c} : buf'[a] = buf[a]
  OBVIOUS
<1>2. \A a \in Buffers :
        Peek(buf'[a]) = IF a = c THEN Peek(buf[b]) ELSE IF a = b THEN <<>> ELSE Peek(buf[a])
  BY <1>1, EmptyIsEmpty
<1> QED
  BY <1>2

(* Buffers implement queues of bytes: each operation of buffer.cc does to  *)
(* the readable bytes what the queue's operation does, and compaction,     *)
(* growth and the pool are invisible.                                      *)
THEOREM Refinement == Spec => ImplementsQueues
<1> DEFINE content == [b \in Buffers |-> Peek(buf[b])]
<1>1. Init => Q!Init
  BY EmptyIsEmpty DEF Init, Q!Init
<1>2. ASSUME TypeOK, [Next]_vars PROVE [Q!Next]_<<content, live, appended>>
  <2>0. /\ live \subseteq Buffers /\ buf \in [Buffers -> Vector]
        /\ \A b \in Buffers : Sound(buf[b])
        /\ \A b \in Buffers \ live : buf[b] = Empty
        /\ pool_ \in Seq(Nat) /\ appended \in Nat
    BY <1>2 DEF TypeOK
  <2>1. ASSUME NEW b \in Buffers, NEW size \in InitialSizes, Construct(b, size) PROVE Q!Next
    <3>1. size \in Nat
      BY ConstantsAssumption
    <3>2. Acquired(size) \in Vector /\ Peek(Acquired(size)) = <<>>
      BY <2>0, <3>1, AcquireGives
    <3>3. /\ b \notin live /\ live' = live \cup {b} /\ appended' = appended
          /\ buf' = [buf EXCEPT ![b] = Acquired(size)]
      BY <2>1 DEF Construct
    <3>4. content' = [content EXCEPT ![b] = <<>>]
      BY <2>0, <3>2, <3>3, OneChanges
    <3>5. content[b] = <<>>
      BY <2>0, <3>3, EmptyIsEmpty
    <3>6. content' = content
      BY <3>4, <3>5
    <3> HIDE DEF content
    <3>7. Q!Create(b)
      BY <3>3, <3>6 DEF Q!Create, content
    <3> QED
      BY <3>7 DEF Q!Next
  <2>2. ASSUME NEW b \in Buffers, Destroy(b) PROVE Q!Next
    <3>1. /\ b \in live /\ live' = live \ {b} /\ appended' = appended
          /\ buf' = [buf EXCEPT ![b] = Empty]
      BY <2>2 DEF Destroy
    <3>2. content' = [content EXCEPT ![b] = <<>>]
      BY <2>0, <3>1, EmptyIsEmpty, OneChanges
    <3>3. Q!Discard(b)
      BY <3>1, <3>2 DEF Q!Discard
    <3> QED
      BY <3>3 DEF Q!Next
  <2>3. ASSUME NEW b \in Buffers, NEW len \in 0..MaxLen, AppendTo(b, len) PROVE Q!Next
    <3> DEFINE s == [k \in 1..len |-> appended + k]
               v == Appended(buf[b], s)
    <3>1. len \in Nat /\ buf[b] \in Vector /\ Sound(buf[b]) /\ b \in live
      BY <2>0, <2>3, ConstantsAssumption DEF AppendTo
    <3>2. s \in [1..len -> Nat]
      BY <2>0, <3>1
    <3>3. s \in Seq(Nat)
      BY <3>1, <3>2, FunctionIsSeq
    <3>4. s = Q!Numbered(appended, len)
      BY DEF Q!Numbered
    <3>5. /\ live' = live /\ appended' = appended + len /\ buf' = [buf EXCEPT ![b] = v]
      BY <2>3 DEF AppendTo
    <3> HIDE DEF s
    <3>6. v \in Vector /\ Peek(v) = Peek(buf[b]) \o s
      BY <3>1, <3>3, AppendKeeps
    <3> HIDE DEF v
    <3>7. content' = [content EXCEPT ![b] = Peek(buf[b]) \o s]
      BY <2>0, <3>5, <3>6, OneChanges
    <3>8. content' = [content EXCEPT ![b] = content[b] \o Q!Numbered(appended, len)]
      BY <3>4, <3>7
    <3>9. appended' >= appended /\ appended' - appended = len
      BY <2>0, <3>1, <3>5
    <3>10. Q!Put(b, len)
      BY <3>1, <3>5, <3>8 DEF Q!Put
    <3>11. Q!Put(b, appended' - appended)
      BY <3>9, <3>10
    <3> QED
      BY <3>9, <3>11 DEF Q!Next
  <2>4. ASSUME NEW b \in Buffers, NEW len \in 0..MaxLen, RetrieveFrom(b, len) PROVE Q!Next
    <3> DEFINE v == Retrieve(buf[b], len)
    <3>1. /\ len \in Nat /\ buf[b] \in Vector /\ Sound(buf[b]) /\ b \in live
          /\ len <= ReadableBytes(buf[b])
      BY <2>0, <2>4, ConstantsAssumption DEF RetrieveFrom
    <3>2. v \in Vector /\ Peek(v) = SubSeq(Peek(buf[b]), len + 1, Len(Peek(buf[b])))
      BY <3>1, RetrieveTakes
    <3>3. live' = live /\ appended' = appended /\ buf' = [buf EXCEPT ![b] = v]
      BY <2>4 DEF RetrieveFrom
    <3> HIDE DEF v
    <3>4. content' = [content EXCEPT ![b] = SubSeq(Peek(buf[b]), len + 1, Len(Peek(buf[b])))]
      BY <2>0, <3>2, <3>3, OneChanges
    <3>5. content' = [content EXCEPT ![b] = SubSeq(content[b], len + 1, Len(content[b]))]
      BY <3>4
    <3>6. Len(content[b]) = ReadableBytes(buf[b]) /\ Len(content[b]) \in Nat
      BY <3>1, PeekBytes
    <3>7. len \in 0..Len(content[b])
      BY <3>1, <3>6
    <3>8. Q!Take(b, len)
      BY <3>1, <3>3, <3>5 DEF Q!Take
    <3> QED
      BY <3>7, <3>8 DEF Q!Next
  <2>5. ASSUME NEW b \in Buffers, NEW c \in Buffers, MoveConstruct(b, c) \/ MoveAssign(b, c)
        PROVE  Q!Next
    <3>1. /\ b \in live /\ c # b /\ live' = live \cup {c} /\ appended' = appended
          /\ buf' = [buf EXCEPT ![b] = Empty, ![c] = buf[b]]
      BY <2>5 DEF MoveConstruct, MoveAssign
    <3>2. content' = [content EXCEPT ![b] = <<>>, ![c] = Peek(buf[b])]
      BY <2>0, <3>1, TwoChange
    <3>3. content' = [content EXCEPT ![b] = <<>>, ![c] = content[b]]
      BY <3>2
    <3>4. Q!Pass(b, c)
      BY <3>1, <3>3 DEF Q!Pass
    <3> QED
      BY <3>4 DEF Q!Next
  <2>6. ASSUME UNCHANGED vars PROVE UNCHANGED <<content, live, appended>>
    BY <2>6 DEF vars
  <2> QED
    BY <1>2, <2>1, <2>2, <2>3, <2>4, <2>5, <2>6 DEF Next
<1> QED
  BY <1>1, <1>2, TypeCorrect, PTL DEF Spec, ImplementsQueues, Q!Spec
=============================================================================
