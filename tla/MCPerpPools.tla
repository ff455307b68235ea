---------------------------- MODULE MCPerpPools ----------------------------
(* Bounds are in the cfg files.                                            *)
EXTENDS PerpPools

MCCosts == {-1, 1}
MCPnls == {-2, 1}
MCBases == {-1, 0, 1}
MCLimits == {[imbalance |-> 1, withdraw |-> 1, insurance |-> 1],
             [imbalance |-> 1, withdraw |-> 2, insurance |-> 0]}
=============================================================================
