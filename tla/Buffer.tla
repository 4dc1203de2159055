------------------------------- MODULE Buffer -------------------------------
(***************************************************************************)
(* Buffer (lib_network/src/memory/buffer.cc) over BufferPool               *)
(* (buffer_pool.cc): a vector with an index to read from and one to write  *)
(* to, compacted or grown when an append does not fit, and taken from and  *)
(* given back to a pool that all buffers of the process share.             *)
(*                                                                         *)
(* A Buffer belongs to one thread and the pool is guarded by a mutex that  *)
(* each of its operations holds throughout, so an operation is one step.   *)
(* Bytes are numbered as they are appended; 0 is what resize fills with.   *)
(* Of a vector in the pool only the capacity matters, since Acquire clears *)
(* it.                                                                     *)
(***************************************************************************)
EXTENDS Integers, Sequences

CONSTANTS
  Buffers,                \* the Buffer objects
  InitialSizes,           \* what the constructor is asked for
  MaxLen,                 \* bound: bytes of one Append
  MaxBytes,               \* bound: bytes appended altogether
  kMaxConnectionPoolSize

ASSUME ConstantsAssumption ==
  /\ InitialSizes \subseteq Nat
  /\ MaxLen \in Nat
  /\ MaxBytes \in Nat
  /\ kMaxConnectionPoolSize \in Nat

VARIABLES
  live,      \* the objects that are constructed
  buf,       \* their vector and indices
  pool_,     \* capacities of the pooled vectors
  appended,  \* bytes appended so far
  need       \* history: the most an object was asked for or had to hold

vars == <<live, buf, pool_, appended, need>>

Larger(a, b) == IF a > b THEN a ELSE b

(* The members of a Buffer, with the capacity of its vector. *)
Object(data, room, reader, writer) ==
  [buffer_ |-> data, capacity |-> room, reader_index_ |-> reader, writer_index_ |-> writer]

(* A Buffer that was moved from, or does not exist. *)
Empty == Object(<<>>, 0, 0, 0)

ReadableBytes(v) == v.writer_index_ - v.reader_index_

WritableBytes(v) == Len(v.buffer_) - v.writer_index_

(* The bytes that Peek points to. *)
Peek(v) == SubSeq(v.buffer_, v.reader_index_ + 1, v.writer_index_)

(* std::vector::resize to a larger size: doubling, or more if needed. *)
Resize(v, n) ==
  Object([k \in 1..n |-> IF k <= Len(v.buffer_) THEN v.buffer_[k] ELSE 0],
         IF n <= v.capacity THEN v.capacity ELSE Larger(2 * Len(v.buffer_), n),
         v.reader_index_,
         v.writer_index_)

(* Mutant: the readable bytes stay where they are. *)
CompactWithoutCopy(v) == Object(v.buffer_, v.capacity, 0, ReadableBytes(v))

(* Mutant: the index to write to stays where it is. *)
CompactReaderOnly(v) == Object(v.buffer_, v.capacity, 0, v.writer_index_)

Compact(v) ==
  Object([k \in 1..Len(v.buffer_) |->
            IF k <= ReadableBytes(v) THEN v.buffer_[v.reader_index_ + k] ELSE v.buffer_[k]],
         v.capacity,
         0,
         ReadableBytes(v))

(* Mutant: grows although the bytes already read leave enough room. *)
MakeSpaceByGrowing(v, len) == Resize(v, v.writer_index_ + len)

MakeSpace(v, len) ==
  IF WritableBytes(v) + v.reader_index_ < len
  THEN Resize(v, v.writer_index_ + len)
  ELSE Compact(v)

EnsureWritableBytes(v, len) == IF WritableBytes(v) < len THEN MakeSpace(v, len) ELSE v

(* memcpy to BeginWrite, then HasWritten. *)
CopyIn(v, s) ==
  LET w == v.writer_index_
  IN  Object([k \in 1..Len(v.buffer_) |->
                IF k > w /\ k <= w + Len(s) THEN s[k - w] ELSE v.buffer_[k]],
             v.capacity,
             v.reader_index_,
             w + Len(s))

Appended(v, s) == CopyIn(EnsureWritableBytes(v, Len(s)), s)

RetrieveAll(v) == Object(v.buffer_, v.capacity, 0, 0)

Retrieve(v, len) ==
  IF len < ReadableBytes(v)
  THEN Object(v.buffer_, v.capacity, v.reader_index_ + len, v.writer_index_)
  ELSE RetrieveAll(v)
----------------------------------------------------------------------------
(* BufferPool: the vector that Acquire returns and the pool it leaves.     *)
(* One that is too small is dropped, one that is not comes back empty.     *)
Last == pool_[Len(pool_)]

Fits(size) == pool_ # <<>> /\ Last >= size

Acquired(size) ==
  IF Fits(size)
  THEN Object(<<>>, Last, 0, 0)
  ELSE Object([k \in 1..size |-> 0], size, 0, 0)

PoolAfterAcquire == IF pool_ = <<>> THEN pool_ ELSE SubSeq(pool_, 1, Len(pool_) - 1)

(* The destructor and the move assignment release a vector unless it is    *)
(* empty, and the pool takes it unless it is full.                         *)
PoolAfterRelease(v) ==
  IF v.buffer_ # <<>> /\ Len(pool_) < kMaxConnectionPoolSize
  THEN Append(pool_, v.capacity)
  ELSE pool_

Init ==
  /\ live = {}
  /\ buf = [b \in Buffers |-> Empty]
  /\ pool_ = <<>>
  /\ appended = 0
  /\ need = [b \in Buffers |-> 0]

Construct(b, size) ==
  /\ b \notin live
  /\ live' = live \cup {b}
  /\ buf' = [buf EXCEPT ![b] = Acquired(size)]
  /\ pool_' = PoolAfterAcquire
  /\ need' = [need EXCEPT ![b] = size]
  /\ UNCHANGED appended

Destroy(b) ==
  /\ b \in live
  /\ live' = live \ {b}
  /\ pool_' = PoolAfterRelease(buf[b])
  /\ buf' = [buf EXCEPT ![b] = Empty]
  /\ UNCHANGED <<appended, need>>

AppendTo(b, len) ==
  /\ b \in live
  /\ appended + len <= MaxBytes
  /\ buf' = [buf EXCEPT ![b] = Appended(@, [k \in 1..len |-> appended + k])]
  /\ appended' = appended + len
  /\ need' = [need EXCEPT ![b] = Larger(@, ReadableBytes(buf[b]) + len)]
  /\ UNCHANGED <<live, pool_>>

(* Callers retrieve no more than is readable, as the assertion demands. *)
RetrieveFrom(b, len) ==
  /\ b \in live
  /\ len <= ReadableBytes(buf[b])
  /\ buf' = [buf EXCEPT ![b] = Retrieve(@, len)]
  /\ UNCHANGED <<live, pool_, appended, need>>

(* Move construction of c from b, and move assignment to another object. *)
MoveConstruct(b, c) ==
  /\ b \in live
  /\ c \notin live
  /\ live' = live \cup {c}
  /\ buf' = [buf EXCEPT ![b] = Empty, ![c] = buf[b]]
  /\ need' = [need EXCEPT ![c] = need[b]]
  /\ UNCHANGED <<pool_, appended>>

MoveAssign(b, c) ==
  /\ b \in live
  /\ c \in live \ {b}
  /\ pool_' = PoolAfterRelease(buf[c])
  /\ buf' = [buf EXCEPT ![b] = Empty, ![c] = buf[b]]
  /\ need' = [need EXCEPT ![c] = need[b]]
  /\ UNCHANGED <<live, appended>>

Next ==
  \E b \in Buffers :
    \/ \E size \in InitialSizes : Construct(b, size)
    \/ Destroy(b)
    \/ \E len \in 0..MaxLen : AppendTo(b, len) \/ RetrieveFrom(b, len)
    \/ \E c \in Buffers : MoveConstruct(b, c) \/ MoveAssign(b, c)

Spec == Init /\ [][Next]_vars
----------------------------------------------------------------------------
Vector == [buffer_ : Seq(Nat), capacity : Nat, reader_index_ : Nat, writer_index_ : Nat]

(* What every member function relies on: reading stops before writing, and *)
(* writing before the end of the vector, in the vector's storage.          *)
Sound(v) ==
  /\ v.reader_index_ <= v.writer_index_
  /\ v.writer_index_ <= Len(v.buffer_)
  /\ Len(v.buffer_) <= v.capacity

(* Types, and the assertions of buffer.cc: HasWritten never passes the end *)
(* of the vector, whether the append grew it, compacted it or neither.     *)
TypeOK ==
  /\ live \subseteq Buffers
  /\ buf \in [Buffers -> Vector]
  /\ \A b \in Buffers : Sound(buf[b])
  /\ \A b \in Buffers \ live : buf[b] = Empty
  /\ pool_ \in Seq(Nat)
  /\ appended \in Nat
  /\ need \in [Buffers -> Nat]

(* A buffer that is never empty and goes on being filled does not grow     *)
(* without end: MakeSpace reclaims what was read before it resizes, so the *)
(* vector is at most twice as long as what it once had to hold.            *)
GrowthBounded == \A b \in live : Len(buf[b].buffer_) <= 2 * need[b]

(* The queues of bytes that the buffers stand for. *)
Q == INSTANCE ByteQueues WITH Queues <- Buffers, content <- [b \in Buffers |-> Peek(buf[b])]

(* Buffers implement queues: whatever is compacted, grown, moved, given    *)
(* back to the pool and taken from it again, readable bytes are exactly    *)
(* those appended and not yet retrieved, in order, and a new buffer never  *)
(* shows what the former owner of its vector left.                         *)
ImplementsQueues == Q!Spec
=============================================================================
