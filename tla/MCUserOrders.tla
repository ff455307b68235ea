--------------------------- MODULE MCUserOrders ---------------------------
(* Two slots, three orders at most; see the cfg files for bounds.          *)
EXTENDS UserOrders

CONSTANTS m1, m2

Request(userId, m, long, limit, trigger, reduceOnly, post, size, maxTs) ==
  [userId |-> userId, market |-> m, long |-> long, limit |-> limit,
   trigger |-> trigger, reduceOnly |-> reduceOnly, post |-> post,
   size |-> size, maxTs |-> maxTs]

(* A limit order the user names, one that expires and only reduces, a      *)
(* reduce-only stop, and a maker order in another market that only tries.  *)
MCRequests ==
  {Request(1, m1, TRUE, TRUE, "none", FALSE, "none", 2, 0),
   Request(2, m1, FALSE, TRUE, "none", TRUE, "none", 2, 1),
   Request(1, m1, FALSE, FALSE, "waiting", FALSE, "none", 1, 0),
   Request(0, m2, TRUE, TRUE, "none", FALSE, "try", 1, 1)}

Change(size, excludeFill, flip, maxTs) ==
  [size |-> size, excludeFill |-> excludeFill, flip |-> flip,
   maxTs |-> maxTs, mustModify |-> FALSE]

MCChanges == {Change(Keep, FALSE, TRUE, Keep), Change(1, TRUE, FALSE, 0)}
=============================================================================
