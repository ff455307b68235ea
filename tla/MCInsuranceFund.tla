-------------------------- MODULE MCInsuranceFund --------------------------
(* Two stakers and a fund of a few tokens; see the cfg files for bounds.   *)
EXTENDS InsuranceFund, TLC

CONSTANTS u1, u2

MCPower == [e \in 0 .. MaxExpo |-> Radix^e]

MCSymmetry == Permutations({u1, u2})

(* No revenue; a market that can give all of its revenue; one whose        *)
(* depositors' claim is below its revenue, which gives half of the claim.  *)
MCPools == {[revenue |-> 0, claim |-> 0],
            [revenue |-> 4, claim |-> 8],
            [revenue |-> 8, claim |-> 6]}
=============================================================================
