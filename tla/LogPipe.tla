------------------------------ MODULE LogPipe ------------------------------
(***************************************************************************)
(* What an asynchronous log promises its callers: an accepted entry joins  *)
(* the end of what is pending; pending entries are delivered from the      *)
(* front, in order and once; an entry may be discarded while it is         *)
(* pending, and only then.                                                 *)
(***************************************************************************)
EXTENDS Integers, Sequences

CONSTANT Entry

VARIABLES pending, delivered

Init == pending = <<>> /\ delivered = <<>>

Without(s, i) == SubSeq(s, 1, i - 1) \o SubSeq(s, i + 1, Len(s))

Accept ==
  /\ \E e \in Entry : pending' = Append(pending, e)
  /\ UNCHANGED delivered

(* A full log makes room by discarding a pending entry. *)
AcceptDiscarding ==
  /\ \E e \in Entry, i \in 1..Len(pending) : pending' = Append(Without(pending, i), e)
  /\ UNCHANGED delivered

Deliver ==
  \E n \in 1..Len(pending) :
    /\ delivered' = delivered \o SubSeq(pending, 1, n)
    /\ pending' = SubSeq(pending, n + 1, Len(pending))

Next == Accept \/ AcceptDiscarding \/ Deliver

Spec == Init /\ [][Next]_<<pending, delivered>>
============================================================================
