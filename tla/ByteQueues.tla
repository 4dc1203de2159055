----------------------------- MODULE ByteQueues -----------------------------
(***************************************************************************)
(* What the rest of the library takes a Buffer for: a queue of bytes that  *)
(* gives them back in order, is empty when it is new, and can be passed on *)
(* as a whole.  Bytes are numbered as they are put into any of the queues. *)
(***************************************************************************)
EXTENDS Integers, Sequences

CONSTANT Queues

VARIABLES content, live, appended

Numbered(from, n) == [k \in 1..n |-> from + k]

Init ==
  /\ content = [q \in Queues |-> <<>>]
  /\ live = {}
  /\ appended = 0

Create(q) ==
  /\ q \in Queues \ live
  /\ live' = live \cup {q}
  /\ UNCHANGED <<content, appended>>

Discard(q) ==
  /\ q \in live
  /\ live' = live \ {q}
  /\ content' = [content EXCEPT ![q] = <<>>]
  /\ UNCHANGED appended

Put(q, n) ==
  /\ q \in live
  /\ content' = [content EXCEPT ![q] = @ \o Numbered(appended, n)]
  /\ appended' = appended + n
  /\ UNCHANGED live

Take(q, n) ==
  /\ q \in live
  /\ content' = [content EXCEPT ![q] = SubSeq(@, n + 1, Len(@))]
  /\ UNCHANGED <<live, appended>>

(* What r had is gone, and q is left empty. *)
Pass(q, r) ==
  /\ q \in live
  /\ r \in Queues \ {q}
  /\ content' = [content EXCEPT ![q] = <<>>, ![r] = content[q]]
  /\ live' = live \cup {r}
  /\ UNCHANGED appended

Next ==
  \E q \in Queues :
    \/ Create(q)
    \/ Discard(q)
    \/ \E n \in 0..Len(content[q]) : Take(q, n)
    \/ appended' >= appended /\ Put(q, appended' - appended)
    \/ \E r \in Queues : Pass(q, r)

Spec == Init /\ [][Next]_<<content, live, appended>>
=============================================================================
