---------------------------- MODULE MCSpotOrders ----------------------------
(* A seller of base tokens, a buyer, and a keeper.                         *)
EXTENDS SpotOrders

CONSTANTS alice, bob, keeper

MCUsers == {alice, bob, keeper}
MCKeepers == {keeper}
Limit(long, post, reduceOnly, size, price, maxTs) ==
  [long |-> long, limit |-> TRUE, trigger |-> "none", reduceOnly |-> reduceOnly,
   post |-> post, size |-> size, price |-> price, maxTs |-> maxTs]
Sells == {Limit(FALSE, FALSE, FALSE, 3, 50, 0)}
Buys == {Limit(TRUE, TRUE, FALSE, 2, 50, 1), Limit(FALSE, FALSE, TRUE, 1, 50, 0),
         [long |-> TRUE, limit |-> FALSE, trigger |-> "waiting", reduceOnly |-> FALSE,
          post |-> FALSE, size |-> 1, price |-> 60, maxTs |-> 0]}
MCRequests == [u \in MCUsers |-> IF u = alice THEN Sells ELSE IF u = bob THEN Buys ELSE {}]
MCExchanges == {[fee |-> 4, rebate |-> 1]}
MCSeed == [u \in MCUsers |->
  IF u = alice THEN [base |-> 1, quote |-> 0]
  ELSE IF u = bob THEN [base |-> 0, quote |-> 60] ELSE [base |-> 1, quote |-> 60]]
MCFloor == [leaving \in BOOLEAN |->
  IF leaving THEN [base |-> 1, quote |-> 40] ELSE [base |-> 0, quote |-> 0]]
MCMaxId == [u \in MCUsers |-> IF u = bob THEN 3 ELSE 2]
MCCap == [leaving \in BOOLEAN |-> [base |-> 1, quote |-> 50]]
=============================================================================
