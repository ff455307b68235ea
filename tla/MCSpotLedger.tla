---------------------------- MODULE MCSpotLedger ----------------------------
(* Two accounts of the main pool and one of another pool, two tokens.      *)
EXTENDS SpotLedger, TLC

CONSTANTS alice, bob, carol, usdc, sol, usdc1, sol1

MCUsers == {alice, bob, carol}
MCSpot == {usdc, sol, usdc1, sol1}
MCUserPool == alice :> 0 @@ bob :> 0 @@ carol :> 1
MCMarketPool == usdc :> 0 @@ sol :> 0 @@ usdc1 :> 1 @@ sol1 :> 1
MCMint == usdc :> "usdc" @@ sol :> "sol" @@ usdc1 :> "usdc" @@ sol1 :> "sol"
All(x) == [m \in MCSpot |-> x]
MCPrice == [All(1) EXCEPT ![sol] = 2, ![sol1] = 2]
MCAsset == [Initial |-> All(80), Fill |-> All(85), Maintenance |-> All(90)]
MCLiability ==
  [Initial |-> All(120), Fill |-> All(115), Maintenance |-> All(110)]
MCNone == [t \in Types |-> <<>>]
MCFee == All(2)
MCSegments ==
  <<[upTo |-> 85, weight |-> 5], [upTo |-> 90, weight |-> 10],
    [upTo |-> 95, weight |-> 15], [upTo |-> 99, weight |-> 70],
    [upTo |-> 100, weight |-> 100]>>
MCSeed == alice :> [All(0) EXCEPT ![usdc] = 40]
       @@ bob :> [All(0) EXCEPT ![usdc] = 10, ![sol] = 30]
       @@ carol :> [All(0) EXCEPT ![usdc1] = 30, ![sol1] = 20]
MCSwaps == {[lent |-> 10, back |-> 0, out |-> 5], [lent |-> 4, back |-> 1, out |-> 7]}
=============================================================================
