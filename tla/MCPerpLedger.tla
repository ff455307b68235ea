--------------------------- MODULE MCPerpLedger ---------------------------
(* Users are interchangeable; see the cfg files for bounds.                *)
EXTENDS PerpLedger, TLC

CONSTANTS u1, u2, u3

MCFundingRates == {-7, 7}

UserSymmetry == Permutations(Users)
=============================================================================
