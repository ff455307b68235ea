--------------------------- MODULE MCUserAccounts ---------------------------
(* Two authorities with up to two accounts each; an authority may refer    *)
(* the other.  A position of 4 at a price of 2 needs 4 tokens at first by  *)
(* default and 1 in high leverage.                                         *)
EXTENDS UserAccounts, TLC

CONSTANTS alice, bob

MCAuthorities == {alice, bob}
MCSymmetry == Permutations(MCAuthorities)
MCRatio == [Default |-> [Initial |-> 50, Maintenance |-> 25],
            HighLeverage |-> [Initial |-> 10, Maintenance |-> 5]]
=============================================================================
