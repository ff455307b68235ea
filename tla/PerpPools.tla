----------------------------- MODULE PerpPools -----------------------------
(***************************************************************************)
(* The tokens of one perp market: its pnl pool and fee pool, the revenue   *)
(* pool of the quote market, the insurance vault and the users' tokens,    *)
(* with the counters that say how much of the fee pool is reserved, how    *)
(* fast revenue may move in and out, and how much insurance is left.       *)
(*                                                                         *)
(* PerpLedger has the positions; here the market knows only their sums     *)
(* (base, quote and unsettled funding), as the handlers of this module do, *)
(* and the position an instruction is about is any.  Quote tokens bear no  *)
(* interest (SpotLedger has interest), so a balance is its token amount.   *)
(***************************************************************************)
EXTENDS Integers, FiniteSetsExt

CONSTANTS
  Prices,           \* oracle prices
  Fees,             \* fees, rewards and spreads of one instruction
  Costs,            \* costs of a curve change, and funding of the amm
  Pnls,             \* pnl of the user of an instruction, its debt, a deposit
  Bases,            \* base amount of the user of an instruction
  Limits,           \* records [imbalance, withdraw, insurance] an admin sets
  Threshold,        \* FEE_POOL_TO_REVENUE_POOL_THRESHOLD
  Fraction,         \* a loss settled gives 1/Fraction to the fee pool (100)
  ExcessPart,       \* 1/ExcessPart of the fee pool backs an excess (5)
  Deposits,         \* tokens users deposited
  Insurance,        \* tokens in the insurance vault
  MaxTokens, MaxCount, MaxPrice, MaxOps    \* bounds of the model

ASSUME PoolsAssumption ==
  /\ Prices \subseteq Nat \ {0} /\ Fees \subseteq Nat
  /\ Costs \subseteq Int /\ Pnls \subseteq Int /\ Bases \subseteq Int
  /\ Limits \subseteq [imbalance : Nat, withdraw : Nat, insurance : Nat]
  /\ Limits # {}
  /\ Threshold \in Nat /\ Fraction \in Nat \ {0} /\ ExcessPart \in Nat \ {0}
  /\ Deposits \in Nat /\ Insurance \in Nat
  /\ MaxTokens \in Nat /\ MaxCount \in Nat
  /\ MaxPrice \in Nat /\ MaxOps \in Nat

VARIABLES
  market,           \* the PerpMarket
  spot,             \* the quote SpotMarket and the two token vaults
  ops               \* number of instructions so far

vars == <<market, spot, ops>>

(* surplus is total_fee_minus_distributions, moved is                      *)
(* revenue_withdraw_since_last_settle; periodOver says that the revenue    *)
(* pool was last settled after the market last moved revenue.              *)
PerpMarket ==
  [status : {"active", "settlement", "delisted"},
   pnlPool : Nat, feePool : Nat, surplus : Int, netRevenue : Int,
   exchangeFee : Nat, liquidationFee : Nat, feeWithdrawn : Nat,
   socialLoss : Nat, moved : Int, periodOver : BOOLEAN, insured : Nat,
   limits : [imbalance : Nat, withdraw : Nat, insurance : Nat],
   base : Int, quote : Int, funding : Int, expiryPrice : Int]

(* users is what all users hold; a user in debt counts negative.           *)
SpotMarket == [vault : Nat, insuranceVault : Nat, revenuePool : Nat,
               users : Int]

Init ==
  /\ market \in
       {[status |-> "active", pnlPool |-> 0, feePool |-> 0, surplus |-> 0,
         netRevenue |-> 0, exchangeFee |-> 0, liquidationFee |-> 0,
         feeWithdrawn |-> 0, socialLoss |-> 0, moved |-> 0,
         periodOver |-> FALSE, insured |-> 0, limits |-> limits,
         base |-> 0, quote |-> 0, funding |-> 0, expiryPrice |-> 0] :
          limits \in Limits}
  /\ spot = [vault |-> Deposits, insuranceVault |-> Insurance,
             revenuePool |-> 0, users |-> Deposits]
  /\ ops = 0
-----------------------------------------------------------------------------
Abs(n) == IF n < 0 THEN -n ELSE n
Least(x, y) == IF x < y THEN x ELSE y
Most(x, y) == IF x > y THEN x ELSE y
(* Division of the program's integers, towards zero.                       *)
DivTrunc(n, d) == IF (n < 0) = (d < 0) THEN Abs(n) \div Abs(d)
                                       ELSE -(Abs(n) \div Abs(d))

WithinBounds(m, s) ==
  /\ {m.pnlPool, m.feePool, s.revenuePool, s.insuranceVault}
       \subseteq 0 .. MaxTokens
  /\ {m.surplus, m.netRevenue, m.quote, m.funding}
       \subseteq -MaxTokens .. MaxTokens
  /\ {m.exchangeFee, m.liquidationFee, m.socialLoss} \subseteq 0 .. MaxCount
  /\ m.base \in Bases /\ m.expiryPrice \in 0 .. MaxPrice
  /\ s.users \in Deposits - MaxTokens .. Deposits + MaxTokens

Commit(m, s) ==
  /\ ops < MaxOps /\ ops' = ops + 1
  /\ WithinBounds(m, s)
  /\ market' = m /\ spot' = s

(* Funding the user of an instruction collects first: the market's sums of *)
(* settled and unsettled quote change by what is pending of it.            *)
Collected(m, n) == [m EXCEPT !.quote = @ + n, !.funding = @ - n]
Pending == {0, market.funding}

CostBasis(m) == m.quote + m.funding
NetUserPnl(m, price) == m.base * price + CostBasis(m)

TotalFeeLowerBound(m) == m.exchangeFee \div 2

(* What the fee pool keeps for the protocol.  The program subtracts        *)
(* unsigned numbers: a negative result is an error in every handler that   *)
(* asks.                                                                   *)
Reserved(m) == TotalFeeLowerBound(m) + m.liquidationFee - m.feeWithdrawn
-----------------------------------------------------------------------------
(* update_pool_balances. *)

(* What the amm has earned goes to the fee pool, the rest of the fee pool  *)
(* to the pnl pool; the fee pool gets at least what is reserved.           *)
FeePoolTarget(m) == m.surplus + m.liquidationFee - m.feeWithdrawn
FeePoolFull(m) == FeePoolTarget(m) <= m.feePool

PoolsBalanced(m) ==
  LET fee  == IF FeePoolFull(m) THEN Most(0, FeePoolTarget(m)) ELSE m.feePool
      pnl  == m.pnlPool + m.feePool - fee
      need == Least(Most(0, Reserved(m) - fee), pnl)
  IN [m EXCEPT !.feePool = fee + need, !.pnlPool = pnl - need]

TransferUnpaced(m, s) ==                                             \* mutant
  LET gap    == m.surplus - m.feeWithdrawn - Threshold
      earned == TotalFeeLowerBound(m)
                  + Least(m.liquidationFee, m.insured + m.limits.insurance)
                  - m.feeWithdrawn
      spare  == Most(0, m.feePool - (Threshold + m.socialLoss))
      out    == Most(0, Least(m.limits.withdraw, m.netRevenue))
  IN IF gap > 0 THEN Least(Least(Most(0, earned), spare), out)
     ELSE IF gap < 0
     THEN -Least(-gap, Least(m.limits.withdraw, s.revenuePool))
     ELSE 0
TransferAgain(m, s) ==                                               \* mutant
  LET gap    == m.surplus - m.feeWithdrawn - Threshold
      earned == TotalFeeLowerBound(m) + m.liquidationFee
      spare  == Most(0, m.feePool - (Threshold + m.socialLoss))
      out    == Most(0, Least(m.moved + m.limits.withdraw, m.netRevenue))
  IN IF gap > 0 THEN Least(Least(Most(0, earned), spare), out)
     ELSE IF gap < 0
     THEN -Least(-gap, Least(m.limits.withdraw - m.moved, s.revenuePool))
     ELSE 0
(* calculate_revenue_pool_transfer: positive to the revenue pool, negative *)
(* from it.                                                                *)
RevenueTransfer(m, s) ==
  LET gap    == m.surplus - m.feeWithdrawn - Threshold
      earned == TotalFeeLowerBound(m)
                  + Least(m.liquidationFee, m.insured + m.limits.insurance)
                  - m.feeWithdrawn
      spare  == Most(0, m.feePool - (Threshold + m.socialLoss))
      out    == Most(0, Least(m.moved + m.limits.withdraw, m.netRevenue))
      in     == Least(Least(m.limits.withdraw - m.moved, m.limits.withdraw),
                      s.revenuePool)
  IN IF gap > 0 THEN Least(Least(Most(0, earned), spare), out)
     ELSE IF gap < 0 THEN -Least(-gap, in)
     ELSE 0

RevenueMoved(m, n) ==
  [m EXCEPT !.feePool = @ - n,
            !.feeWithdrawn = @ + Most(0, n),
            !.surplus = @ - n,
            !.moved = @ - n,
            !.periodOver = @ /\ n = 0]

(* A loss that is settled goes to the pnl pool, a part of it to the fee    *)
(* pool unless that was full; a gain comes from the pnl pool.              *)
PnlSettled(m, paid, full) ==
  LET amm == IF full \/ paid >= 0 THEN 0 ELSE DivTrunc(paid, Fraction)
  IN [m EXCEPT !.feePool = @ - amm, !.pnlPool = @ - (paid - amm)]

(* The market after the whole of it, when the user is paid a gain as far   *)
(* as the pool goes, or pays a loss, and the revenue it moved.             *)
UpdatePoolBalances(m, s, pnl) ==
  LET b == PoolsBalanced(m)
      c == IF m.periodOver THEN [b EXCEPT !.moved = 0] ELSE b
      n == RevenueTransfer(c, s)
      d == RevenueMoved(c, n)
      paid == IF pnl > 0 THEN Least(pnl, d.pnlPool) ELSE pnl
  IN [market |-> PnlSettled(d, paid, FeePoolFull(m)),
      paid |-> paid, revenue |-> n]
-----------------------------------------------------------------------------
(* Trading, funding and the curve change the counters, not the tokens. *)

Trading == market.status = "active"

(* A fill against the amm: the user pays a fee, the amm earns its spread,  *)
(* and a part of both rewards a maker, filler or referrer.                 *)
FillWithAmm ==
  \E price \in Prices, fee, spread \in Fees, base \in {-1, 1},
     n \in Pending :
    \E reward \in 0 .. fee + spread :
      LET income == fee + spread - reward
          m == Collected(market, n)
      IN /\ Trading
         /\ Commit([m EXCEPT !.base = @ + base,
                             !.quote = @ - base * price - (fee - reward),
                             !.exchangeFee = @ + fee,
                             !.surplus = @ + income,
                             !.netRevenue = @ + income], spot)

(* A fill between users: what rewards leave of the fee is the market's.    *)
Match ==
  \E fee \in Fees, n \in Pending :
    LET m == Collected(market, n)
    IN /\ Trading
       /\ Commit([m EXCEPT !.quote = @ - fee, !.exchangeFee = @ + fee,
                           !.surplus = @ + fee, !.netRevenue = @ + fee],
                 spot)

(* The insurance fund's fee of a liquidation stays with the market.        *)
Liquidate ==
  \E fee \in Fees, n \in Pending :
    LET m == Collected(market, n)
    IN Commit([m EXCEPT !.quote = @ - fee, !.liquidationFee = @ + fee], spot)

SettleFunding == \E n \in Pending : Commit(Collected(market, n), spot)

(* calculate_funding_rate_long_short: the amm receives owed or pays part   *)
(* of it, within the fees it may distribute; the period's revenue is       *)
(* reset.  What users have coming changes by the uncapped amount.          *)
UpdateFundingRate ==
  \E owed \in Costs :
    \E gain \in (IF owed < 0 THEN owed .. 0 ELSE {owed}) :
      /\ Trading
      /\ market.base = 0 => owed = 0
      /\ gain < 0 => market.surplus + gain >= TotalFeeLowerBound(market)
      /\ Commit([market EXCEPT !.surplus = @ + gain, !.netRevenue = 0,
                               !.funding = @ - owed], spot)

(* apply_cost_to_market; a checked cost may not use what is reserved.      *)
Affordable(m, cost) == cost <= 0 \/ m.surplus - cost >= Reserved(m)
CostApplied(m, cost) ==
  [m EXCEPT !.surplus = @ - cost, !.netRevenue = @ - cost]

UpdateAmm ==
  \E cost \in Costs, checked \in BOOLEAN :
    /\ Trading
    /\ cost > 0 => Reserved(market) >= 0
    /\ checked => Affordable(market, cost)
    /\ Commit(CostApplied(market, cost), spot)

Listed == market.status # "delisted"                  \* perp_market_valid

(* The admin sets the unsettled funding, here to nothing, or computes the  *)
(* surplus anew from the pools and the users' pnl, or both.                *)
UpdateAmmSummaryStats ==
  \E price \in Prices, funding \in {0, market.funding},
     withoutFee \in BOOLEAN :
    LET m == [market EXCEPT !.funding = funding]
        surplus == m.pnlPool + m.feePool - NetUserPnl(m, price)
                     - IF withoutFee THEN m.liquidationFee ELSE 0
    IN /\ Listed
       /\ \/ Commit(m, spot)
          \/ Commit([m EXCEPT !.surplus = surplus], spot)

UpdateMaxImbalances ==
  \E limits \in Limits :
    /\ Listed
    /\ market.insured <= limits.insurance
    /\ Abs(market.moved) <= limits.withdraw
    /\ Commit([market EXCEPT !.limits = limits], spot)
-----------------------------------------------------------------------------
(* Instructions that move tokens. *)

DepositIntoFeePool ==
  \E n \in Pnls :
    /\ Listed /\ n > 0
    /\ Commit([market EXCEPT !.surplus = @ + n, !.feePool = @ + n],
              [spot EXCEPT !.vault = @ + n])

(* settle_revenue_to_insurance_fund: InsuranceFund has the amount.  In the *)
(* second of the market's last transfer it does not start a new period.    *)
SettleRevenue ==
  \E n \in 0 .. Least(spot.revenuePool, spot.vault),
     over \in {market.periodOver, TRUE} :
    Commit([market EXCEPT !.periodOver = over],
           [spot EXCEPT !.vault = @ - n, !.insuranceVault = @ + n,
                        !.revenuePool = @ - n])

(* settle_pnl: the user's unrealized pnl is settled, a gain up to what it  *)
(* realized and what the pools hold beyond the claims of all users, a loss *)
(* up to the limit of what it can withdraw.  own says that the owner asks, *)
(* or that a closed position is being liquidated.  trial is TrySettle: an  *)
(* instruction that refuses after the pools were updated then succeeds     *)
(* without paying the user.                                                *)
SettlePnlMarket(trial, own) ==
  \E price \in Prices, pnl \in Pnls, n \in Pending :
    \E realized \in {0, Most(0, pnl)}, limit \in {0, Most(0, -pnl)} :
      LET m      == Collected(market, n)
          tokens == m.pnlPool + m.feePool \div ExcessPart
          net    == NetUserPnl(m, price)
          excess == IF net < tokens THEN tokens - Most(0, net) ELSE 0
          claim  == IF pnl > 0 THEN Least(pnl, realized + excess)
                               ELSE Most(pnl, -limit)
          r      == UpdatePoolBalances(m, spot, claim)
          s      == [spot EXCEPT !.revenuePool = @ + r.revenue]
          refused == r.paid = 0 \/ (r.paid > 0 /\ excess <= 0 /\ ~own)
      IN /\ Trading /\ Reserved(m) >= 0
         /\ IF refused
            THEN trial /\ Commit(r.market, s)
            ELSE Commit([r.market EXCEPT !.quote = @ - r.paid],
                        [s EXCEPT !.users = @ + r.paid])

SettlePnl == \E trial, own \in BOOLEAN : SettlePnlMarket(trial, own)

DeficitUncapped(m, vault, price) ==                                  \* mutant
  Least(Least(NetUserPnl(m, price) - m.limits.imbalance,
              m.limits.withdraw - m.moved), vault - 1)
DeficitPayment(m, vault, price) ==
  Least(Least(NetUserPnl(m, price) - m.limits.imbalance,
              m.limits.withdraw - m.moved),
        Least(m.limits.insurance - m.insured, vault - 1))

(* resolve_perp_pnl_deficit: the insurance fund pays into an empty pnl     *)
(* pool when the amm is in deficit and users' claims are too high.         *)
ResolvePnlDeficit ==
  \E price \in Prices :
    LET pay == DeficitPayment(market, spot.insuranceVault, price)
    IN /\ Trading
       /\ market.surplus < 0 /\ market.pnlPool = 0
       /\ market.limits.imbalance > 0 /\ pay > 0
       /\ Commit([market EXCEPT !.surplus = @ + pay, !.moved = @ + pay,
                                !.insured = @ + pay, !.periodOver = FALSE,
                                !.pnlPool = @ + pay],
                 [spot EXCEPT !.insuranceVault = @ - pay, !.vault = @ + pay])

(* resolve_perp_bankruptcy: a debt is paid by the insurance fund, then the *)
(* fee pool, then all positions.  What the fee pool pays goes nowhere.     *)
ResolvePerpBankruptcy ==
  \E pnl \in Pnls :
    LET debt == -pnl
        paid == Least(debt, Least(Most(0, spot.insuranceVault - 1),
                                  market.limits.insurance - market.insured))
        fees == Least(debt - paid, market.feePool)
    IN /\ debt > 0
       /\ Commit([market EXCEPT !.insured = @ + paid,
                                !.pnlPool = @ + paid,
                                !.feePool = @ - fees,
                                !.socialLoss = @ + debt - paid - fees,
                                !.quote = @ + debt],
                 [spot EXCEPT !.insuranceVault = @ - paid,
                              !.vault = @ + paid])
-----------------------------------------------------------------------------
(* Expiry. *)

ExpiryPriceForLongs(m, target) ==                                    \* mutant
  IF m.base = 0 THEN target ELSE
  Least(-DivTrunc(m.quote - (m.pnlPool + m.feePool), m.base), target) - 1
(* calculate_expiry_price: the target, or what both pools can pay.         *)
ExpiryPrice(m, target) ==
  IF m.base = 0 THEN target ELSE
  LET best == -DivTrunc(m.quote - (m.pnlPool + m.feePool), m.base)
  IN IF m.base > 0 THEN Least(best, target) - 1 ELSE Most(best, target) + 1

(* The part of the fee pool that may be distributed moves to the pnl pool  *)
(* and the curve takes a last change within the same budget.               *)
SettleExpiredMarket ==
  LET keep   == Reserved(market)
      budget == Most(0, market.surplus - keep)
      n      == Least(budget, Most(0, market.feePool - keep))
  IN /\ keep >= 0
     /\ \E target \in Prices, cost \in 0 .. budget :
          LET m == CostApplied([market EXCEPT !.feePool = @ - n,
                                              !.pnlPool = @ + n], cost)
          IN Commit([m EXCEPT !.status = "settlement",
                              !.expiryPrice = ExpiryPrice(m, target)], spot)

ExpiredFeeKept(m, base, quote, fee) ==                               \* mutant
  m.expiryPrice * base + quote + fee
(* What a position is paid when it is closed at the expiry price.          *)
ExpiredPnl(m, base, quote, fee) == m.expiryPrice * base + quote - fee

(* update_pnl_pool_and_user_balance: all of the pnl or none.               *)
SettleExpiredPosition ==
  \E base \in Bases, quote \in Pnls, fee \in Fees \cup {0}, n \in Pending :
    LET m   == Collected(market, n)
        pnl == ExpiredPnl(m, base, quote, fee)
    IN /\ market.status = "settlement"
       /\ base = 0 => fee = 0
       /\ pnl <= m.pnlPool
       /\ Commit([m EXCEPT !.base = @ - base, !.quote = @ - quote,
                           !.pnlPool = @ - pnl],
                 [spot EXCEPT !.users = @ + pnl])

PoolsKept(m) == [m EXCEPT !.status = "delisted"]                     \* mutant
PoolsReleased(m) ==
  [m EXCEPT !.status = "delisted", !.feePool = 0, !.pnlPool = 0]

(* settle_expired_market_pools_to_revenue_pool. *)
SettlePoolsToRevenuePool ==
  /\ market.status = "settlement"
  /\ market.base = 0 /\ CostBasis(market) = 0
  /\ Commit(PoolsReleased(market),
            [spot EXCEPT !.revenuePool = @ + market.pnlPool + market.feePool])
-----------------------------------------------------------------------------
Next ==
  \/ FillWithAmm \/ Match \/ Liquidate \/ SettleFunding \/ UpdateFundingRate \/ UpdateAmm
  \/ UpdateAmmSummaryStats \/ UpdateMaxImbalances
  \/ DepositIntoFeePool \/ SettleRevenue \/ SettlePnl
  \/ ResolvePnlDeficit \/ ResolvePerpBankruptcy
  \/ SettleExpiredMarket \/ SettleExpiredPosition
  \/ SettlePoolsToRevenuePool

Spec == Init /\ [][Next]_vars
-----------------------------------------------------------------------------
(* Properties. *)

TypeOK == market \in PerpMarket /\ spot \in SpotMarket

(* The checked subtractions of update_pool_balances, of the curve and of   *)
(* settle_expired_market never fail, so that the market cannot be stuck:   *)
(* what was withdrawn as revenue was earned by exchange and liquidation    *)
(* fees.  In one period the market moves at most its limit, either way,    *)
(* and draws at most its insurance ("quote_settled_insurance breached its  *)
(* max"), whatever the order of settlements, deficits, bankruptcies and    *)
(* changes of the limits.                                                  *)
FlowsBounded ==
  /\ market.feeWithdrawn <= TotalFeeLowerBound(market) + market.liquidationFee
  /\ Abs(market.moved) <= market.limits.withdraw
  /\ market.insured <= market.limits.insurance

(* Tokens of the vault that belong to no pool and no user.                 *)
Stranded ==
  spot.vault
    - (market.pnlPool + market.feePool + spot.revenuePool + spot.users)

(* The vault has every token the pools and the users hold, and tokens lose *)
(* their owner only where the fee pool pays for a bankruptcy and where     *)
(* settle_pnl refuses a gain in trial mode.                                *)
TokensAccounted ==
  /\ []TypeOK
  /\ [](Stranded >= 0)
  /\ [][Stranded' # Stranded => ResolvePerpBankruptcy
                                  \/ SettlePnlMarket(TRUE, FALSE)]_vars

(* What users would be owed at the expiry price beyond what the pools have.*)
Shortfall ==
  NetUserPnl(market, market.expiryPrice) - (market.pnlPool + market.feePool)

(* The expiry price leaves users no more than the pools have, but for the  *)
(* funding they did not collect; and no settlement at that price leaves    *)
(* the others worse covered.                                               *)
ExpiryFair ==
  [][/\ SettleExpiredMarket /\ market.base # 0 => Shortfall' <= market.funding
     /\ market.status = "settlement" /\ market'.status = "settlement"
          => \/ Shortfall' <= Shortfall
             \/ SettleExpiredMarket \/ ResolvePerpBankruptcy
             \/ UpdateAmmSummaryStats]_vars

(* "user must settle their own unsettled pnl when its positive and pnl     *)
(* pool not in excess": settle_pnl called by another does not take such a  *)
(* gain out of the pool; what leaves the pools reaches the user.           *)
SettledPnlIsPaid == [][SettlePnl => Stranded' = Stranded]_vars
=============================================================================
