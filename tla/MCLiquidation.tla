--------------------------- MODULE MCLiquidation ---------------------------
(* One account in five predicaments and a liquidator that can afford them. *)
EXTENDS Liquidation, TLC

CONSTANTS victim, keeper, usdc, sol, perp

MCUsers == {victim, keeper}
MCSpot == {usdc, sol}
MCPerps == {perp}

Both2(x, y) == usdc :> x @@ sol :> y

(* Halfway between the two for a fill, but for the weight of pnl.          *)
MCAssetWeight == [Initial |-> Both2(100, 70), Fill |-> Both2(100, 75),
                  Maintenance |-> Both2(100, 80)]
MCLiabilityWeight == [Initial |-> Both2(100, 120), Fill |-> Both2(100, 115),
                      Maintenance |-> Both2(100, 110)]
MCMarginRatio == [Initial |-> perp :> 20, Fill |-> perp :> 15,
                  Maintenance |-> perp :> 10]
MCPnlWeight == [t \in Types |-> perp :> 100]
MCFee == Both2(0, 3) @@ perp :> 3
MCInsuranceFee == Both2(1, 2) @@ perp :> 2
MCPrices == sol :> {9, 13} @@ perp :> {86, 95}
MCSwaps == {[in |-> 65, out |-> 5], [in |-> 450, out |-> 40]}
MCContractTier == perp :> 0
MCAssetTier == Both2(0, 0)

At(base, quote) == perp :> [FlatPerp EXCEPT !.base = base, !.quote = quote]

Start(s, p, k) ==
  [spot |-> victim :> s @@ keeper :> Both2(k, 100),
   perp |-> victim :> p @@ keeper :> At(0, 0),
   price |-> usdc :> 1 @@ sol :> 10 @@ perp :> 100,
   insurance |-> Both2(4, 2),
   pools |-> perp :> [pnl |-> 50, fee |-> 5, claim |-> 15]]

MCOrders == {1, -1}

MCScenarios ==
  { Start(Both2(100, 0), At(8, -800), 5000),
    Start(Both2(1000, -80), At(0, 0), 5000),
    Start(Both2(0, -80), At(0, 990), 5000),
    [Start(Both2(1000, -80), At(0, 0), 5000) EXCEPT !.price[sol] = 13],
    Start(Both2(0, 12), At(0, -90), 5000) }
=============================================================================
