------------------------------ MODULE FundMath ------------------------------
(***************************************************************************)
(* Arithmetic of the insurance fund: proportions, share conversions, the   *)
(* rebase exponent and the "on the hour" schedule.  Every operator is the  *)
(* integer function its Rust counterpart computes; the checked arithmetic  *)
(* of the code (safe_mul, safe_div, cast) appears as the guards of the     *)
(* actions that call these operators.                                      *)
(***************************************************************************)
EXTENDS Integers, FiniteSets, FiniteSetsExt

CONSTANTS
  Radix,     \* base of a rebase; 10 in the program
  MaxExpo,   \* the largest power of Radix that fits the program's u128; 38
  Power      \* the powers of Radix up to that one

ASSUME PowerAssumption ==
  /\ Radix \in Nat /\ Radix > 1
  /\ MaxExpo \in Nat
  /\ Power \in [0 .. MaxExpo -> Nat \ {0}]
  /\ Power[0] = 1
  /\ \A e \in 1 .. MaxExpo : Power[e] = Radix * Power[e - 1]

Least(a, b) == IF a < b THEN a ELSE b
Greatest(a, b) == IF a > b THEN a ELSE b

(* value * numerator / denominator, with the detour through the complement *)
(* the code takes when the numerator is over half of the denominator.      *)
GetProportionUp(value, numerator, denominator) ==                    \* mutant
  IF numerator = denominator THEN value
  ELSE IF numerator > denominator \div 2 /\ denominator > numerator
    THEN value - (value * (denominator - numerator)) \div denominator
    ELSE (value * numerator) \div denominator
GetProportion(value, numerator, denominator) ==
  IF numerator = denominator THEN value
  ELSE IF numerator > denominator \div 2 /\ denominator > numerator
    THEN LET complement == value * (denominator - numerator)
         IN  value - complement \div denominator
                   - (IF complement % denominator = 0 THEN 0 ELSE 1)
    ELSE (value * numerator) \div denominator

(* How often n can be divided by Radix before it falls below it. *)
Log(n) == Cardinality({e \in 1 .. MaxExpo : Power[e] <= n})

(* Shares minted for `amount` tokens; the guard is the validate! that an   *)
(* empty vault must have no shares.                                        *)
SharesDefined(total, vault) == vault > 0 \/ total = 0

VaultAmountToIfShares(amount, total, vault) ==
  IF vault > 0 THEN GetProportion(amount, total, vault) ELSE amount

IfSharesToVaultAmount(n, total, vault) ==
  IF total > 0 THEN GetProportion(vault, n, total) ELSE 0

RebaseExpo(total, vault) == Log((total \div Radix) \div vault)

(* Seconds until the next update an hourly-style schedule allows.          *)
OnTheHourUpdate(now, last, period) ==
  LET delay == last % period
      wait  == IF period <= 1 \/ delay = 0 THEN period
               ELSE IF delay > period \div 3 THEN 2 * period - delay
               ELSE period - delay
  IN  Greatest(wait - (now - last), 0)
=============================================================================
