------------------------------- MODULE Margin -------------------------------
(***************************************************************************)
(* The margin engine: what an account's collateral is worth, what its      *)
(* liabilities require, and what a liquidation may therefore take.         *)
(*                                                                         *)
(* Weights, ratios and fees are fractions of Scale; collateral,            *)
(* requirements and shortages carry that factor, so no fraction is lost.   *)
(* Perp amounts are in order steps, spot amounts in token units of whole   *)
(* quote value.  Interest, LP shares, resting spot orders, strict (twap)   *)
(* prices and oracle validity are left out.                                *)
(***************************************************************************)
EXTENDS Integers, FiniteSets, FiniteSetsExt, Functions

CONSTANTS
  SpotMarkets, Quote,     \* the spot markets and market 0 among them
  PerpMarkets,
  Scale,                  \* 100 percent
  AssetWeight, LiabilityWeight,      \* by margin type and spot market
  MarginRatio, PnlWeight,            \* by margin type and perp market
  Buffer,                 \* liquidation_margin_buffer_ratio
  LiquidatorFee, InsuranceFee, \* liquidator_fee, if_liquidation_fee by market
  Grace, FeePerSlot,      \* slots before, and steps of, the fee's growth
  PctScale,               \* LIQUIDATION_PCT_PRECISION
  InitialPct, Duration,   \* initial_pct_to_liquidate, liquidation_duration
  SmallShortage,          \* 50 quote: below it the pace does not apply
  SmallPosition,          \* 50 quote: a perp position closed in one piece
  SmallBorrow,            \* 10 quote: a liability taken over in one piece
  Dust                    \* 1 quote: an asset remainder that goes along

Types == {"Initial", "Fill", "Maintenance"}
Markets == SpotMarkets \cup PerpMarkets

(* The bounds on fees and margin ratios are those that the admin's         *)
(* instructions check.                                                     *)
ASSUME MarginAssumption ==
  /\ IsFiniteSet(SpotMarkets) /\ IsFiniteSet(PerpMarkets)
  /\ Quote \in SpotMarkets /\ SpotMarkets \cap PerpMarkets = {}
  /\ Scale \in Nat \ {0} /\ PctScale \in Nat \ {0}
  /\ AssetWeight \in [Types -> [SpotMarkets -> Nat]]
  /\ LiabilityWeight \in [Types -> [SpotMarkets -> Nat]]
  /\ MarginRatio \in [Types -> [PerpMarkets -> 0 .. Scale]]
  /\ PnlWeight \in [Types -> [PerpMarkets -> Nat]]
  /\ Buffer \in Nat \ {0}
  /\ LiquidatorFee \in [Markets -> Nat] /\ InsuranceFee \in [Markets -> Nat]
  /\ \A m \in Markets : LiquidatorFee[m] + InsuranceFee[m] < Scale
  /\ {Grace, FeePerSlot, InitialPct, Duration} \subseteq Nat
  /\ {SmallPosition, SmallBorrow, Dust} \subseteq Nat
  /\ SmallShortage \in Nat \ {0}

(* An account needs no less to open a position than to keep it, as         *)
(* validate_margin and validate_margin_weights (validation/margin.rs) and  *)
(* the admin's update of the weights of unrealized pnl require.            *)
ASSUME WeightAssumption ==
  /\ \A m \in SpotMarkets :
       /\ AssetWeight["Initial"][m] <= AssetWeight["Maintenance"][m]
       /\ LiabilityWeight["Maintenance"][m] <= LiabilityWeight["Initial"][m]
  /\ \A m \in PerpMarkets :
       /\ MarginRatio["Maintenance"][m] <= MarginRatio["Initial"][m]
       /\ PnlWeight["Initial"][m] <= PnlWeight["Maintenance"][m]

Size(n) == IF n < 0 THEN -n ELSE n
Lesser(a, b) == IF a < b THEN a ELSE b
Larger(a, b) == IF a < b THEN b ELSE a
Unsaturated(n) == n
Floored(n) == Larger(n, 0)                              \* saturating_sub
UpDiv(n, d) == (n + d - 1) \div d

SumOver(S, f(_)) == SumFunctionOnSet([x \in S |-> f(x)], S)
-----------------------------------------------------------------------------
(* The account of a user, as far as margin reads it: signed token amounts, *)
(* and per perp market the position with the sizes of its resting bids and *)
(* asks; price maps every market to its oracle price.                      *)

PerpPosition == [base : Int, quote : Int, bids : Nat, asks : Nat]
FlatPerp == [base |-> 0, quote |-> 0, bids |-> 0, asks |-> 0]

HasOpenOrder(p) == p.bids > 0 \/ p.asks > 0

(* The side of the resting orders whose fill leaves the larger position.   *)
WorstCaseBase(p) == Larger(Size(p.base + p.bids), Size(p.base - p.asks))

UnrealizedPnl(p, value) == p.quote + p.base * value

WeightedPnl(p, m, value, type) ==
  LET pnl == UnrealizedPnl(p, value)
  IN  pnl * (IF pnl > 0 THEN PnlWeight[type][m] ELSE Scale)

SpotCollateral(a, m, price, type) ==
  IF a.spot[m] > 0
    THEN a.spot[m] * (IF m = Quote THEN Scale
                                   ELSE price[m] * AssetWeight[type][m])
    ELSE 0

SpotLiability(a, m, price) ==
  IF a.spot[m] < 0
    THEN -a.spot[m] * (IF m = Quote THEN 1 ELSE price[m]) ELSE 0

SpotRequirement(a, m, price, type) ==
  SpotLiability(a, m, price) *
    (IF m = Quote THEN Scale ELSE LiabilityWeight[type][m])

PerpRequirement(a, m, price, type) ==
  WorstCaseBase(a.perp[m]) * price[m] * MarginRatio[type][m]

TotalCollateral(a, price, type) ==
  SumOver(SpotMarkets, LAMBDA m : SpotCollateral(a, m, price, type))
  + SumOver(PerpMarkets, LAMBDA m : WeightedPnl(a.perp[m], m, price[m], type))

MarginRequirement(a, price, type) ==
  SumOver(SpotMarkets, LAMBDA m : SpotRequirement(a, m, price, type))
  + SumOver(PerpMarkets, LAMBDA m : PerpRequirement(a, m, price, type))

MeetsMargin(a, price, type) ==
  TotalCollateral(a, price, type) >= MarginRequirement(a, price, type)

(* Liquidation adds the buffer to every liability and to every loss.       *)
CollateralPlusBuffer(a, price) ==
  TotalCollateral(a, price, "Maintenance")
  + Buffer * SumOver(PerpMarkets,
      LAMBDA m : Lesser(UnrealizedPnl(a.perp[m], price[m]), 0))

RequirementPlusBuffer(a, price) ==
  MarginRequirement(a, price, "Maintenance")
  + Buffer * (SumOver(SpotMarkets, LAMBDA m : SpotLiability(a, m, price))
              + SumOver(PerpMarkets,
                  LAMBDA m : WorstCaseBase(a.perp[m]) * price[m]))

CanExitLiquidation(a, price) ==
  CollateralPlusBuffer(a, price) >= RequirementPlusBuffer(a, price)

(* An absolute value in the code: a surplus counts as a shortage too.      *)
MarginShortage(a, price) ==
  Size(RequirementPlusBuffer(a, price) - CollateralPlusBuffer(a, price))

(* The part of the shortage a market is held responsible for.              *)
TrackedShortage(a, price, m, shortage) ==
  LET total == MarginRequirement(a, price, "Maintenance")
      own   == IF m \in SpotMarkets
                 THEN SpotRequirement(a, m, price, "Maintenance")
                 ELSE PerpRequirement(a, m, price, "Maintenance")
  IN  IF total = 0 THEN 0 ELSE (shortage * own) \div total

(* Nothing owned, something owed: what a bankrupt account looks like.      *)
IsUserBankrupt(a) ==
  /\ \A m \in SpotMarkets : a.spot[m] <= 0
  /\ \A m \in PerpMarkets :
       a.perp[m].base = 0 /\ a.perp[m].quote <= 0 /\ ~HasOpenOrder(a.perp[m])
  /\ \/ \E m \in SpotMarkets : a.spot[m] < 0
     \/ \E m \in PerpMarkets : a.perp[m].quote < 0
-----------------------------------------------------------------------------
MaxPctForgetful(freed, shortage, elapsed) ==
  Lesser(PctScale, InitialPct + (elapsed * PctScale) \div Duration)

(* How much of the shortage may be freed by now: everything when it is     *)
(* small, else a share that grows with the slots since the episode began.  *)
MaxPctToLiquidate(freed, shortage, elapsed) ==
  IF shortage < SmallShortage * Scale THEN PctScale
  ELSE LET pct == Lesser(PctScale, InitialPct +
                    (IF Duration = 0 THEN PctScale
                                     ELSE (elapsed * PctScale) \div Duration))
           freeable == Floored(((shortage + freed) * pct) \div PctScale - freed)
       IN  (freeable * PctScale) \div shortage

PerpInsuranceFee(tracked, base, m, value, fee) ==
  LET ratio == MarginRatio["Maintenance"][m] + Buffer
      left  == Floored(Floored(ratio - fee) - tracked \div (base * value))
  IN  IF ratio <= fee \/ base = 0 THEN 0
      ELSE Lesser(InsuranceFee[m], (left * 19) \div 20)

(* Order steps of a perp position to take over; Unbounded is u64::MAX.     *)
Unbounded == 1000000
BaseToCover(shortage, m, value, fee, insurance) ==
  LET ratio == MarginRatio["Maintenance"][m] + Buffer
  IN  IF ratio <= fee THEN Unbounded
                      ELSE UpDiv(shortage, value * (ratio - fee - insurance))

(* The liquidator's fee grows slowly once an episode has outlasted a grace *)
(* period.                                                                 *)
LiquidationFee(m, elapsed) ==
  IF elapsed < Grace THEN LiquidatorFee[m]
  ELSE Lesser(LiquidatorFee[m] + elapsed * FeePerSlot,
              Lesser(3 * LiquidatorFee[m], MarginRatio["Maintenance"][m]))

(* Multipliers of the spot liquidations: assets go at a premium for the    *)
(* liquidator and liabilities at a discount.                               *)
Premium(m) == Scale + LiquidatorFee[m]
Discount(m) == Scale - LiquidatorFee[m]

SpotInsuranceFee(tracked, amount, weight, assetMult, m, liabMult, value) ==
  LET owed == LiabilityWeight["Maintenance"][m] + Buffer
      left == Floored(Floored(owed - (weight * assetMult) \div liabMult)
                      - tracked \div (amount * value))
  IN  IF weight >= owed \/ amount = 0 THEN 0
      ELSE Lesser(InsuranceFee[m], (left * Scale) \div owed)

(* Units of a liability worth `value` each to take over, against an asset  *)
(* of the given weight; the division fails when the fee eats all the gain. *)
Undefined == -1
CoverIgnoringAsset(shortage, weight, assetMult, owed, liabMult, value, fee) ==
  Larger(1, shortage \div (value * owed))

LiabilityToCover(shortage, weight, assetMult, owed, liabMult, value, fee) ==
  LET margin == owed - (weight * assetMult) \div liabMult
      gain   == margin - (fee * owed) \div Scale
  IN  IF weight >= owed \/ margin <= 0 THEN Unbounded
      ELSE IF gain <= 0 THEN Undefined
      ELSE Larger(1, shortage \div (value * gain))

LiabilityImplied(assets, assetMult, assetValue, liabMult, value) ==
  UpDiv(assets * assetValue * liabMult, value * assetMult)

AssetAtDiscount(assets, assetMult, assetValue, n, liabMult, value) ==
  Lesser(assets, Larger(1, (n * value * liabMult) \div (assetValue * assetMult)))

AssetForLiability(assets, assetMult, assetValue, n, liabMult, value) ==
  LET due == Larger(1, (n * value * assetMult) \div (assetValue * liabMult))
  IN  IF Size(due - assets) * assetValue < Dust THEN assets ELSE due

(* A swap may not be worse for the account than the liquidator's fee.      *)
SwapWithinBoundaries(in, out, assetValue, value, am, lm) ==
  out * value * Premium(am) >= in * assetValue * Discount(lm)
=============================================================================
