--------------------------- MODULE MCOrderServer ---------------------------
(* OrderServer for TLC: two connections, of one address or of two, whose   *)
(* requests bring together two subscriptions of one connection or of two,  *)
(* orders before and after a subscription, and ids that clash.             *)
EXTENDS OrderServer, TLC

CONSTANTS c1, c2

Order(kind, id) == [kind |-> kind, id |-> id]
sub     == Order("subscribe", 0)
named   == Order("named", 1)
unnamed == Order("unnamed", 0)
invalid == Order("invalid", 0)

MCScripts ==
  {c1 :> <<sub, sub>>         @@ c2 :> <<>>,
   c1 :> <<sub, unnamed>>     @@ c2 :> <<sub>>,
   c1 :> <<unnamed, unnamed>> @@ c2 :> <<named>>,
   c1 :> <<invalid, sub>>     @@ c2 :> <<unnamed>>}

MCAddresses == {c1 :> 1 @@ c2 :> 1, c1 :> 1 @@ c2 :> 2}
=============================================================================
