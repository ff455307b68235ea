----------------------------- MODULE PerpLedger -----------------------------
(***************************************************************************)
(* One perp market: the positions of its users, the sums and counts that   *)
(* the market keeps of them, and funding.  Trades, liquidations, transfers *)
(* and settlements change a few positions and the market in step; funding  *)
(* and socialised losses change what every position owes at once, through  *)
(* two cumulative rates, and are collected when a position is next touched.*)
(*                                                                         *)
(* A trade's quote amount is booked alike for the position, the other side *)
(* and the market, so it may be any price times the base.  A funding       *)
(* payment is not: it is divided by Precision for each position by itself, *)
(* and what the division drops is nobody's.  Oracle prices, margin and     *)
(* fees only decide which outcome of an instruction happens, so every      *)
(* outcome is allowed.  LP shares and the break-even amounts, which        *)
(* nothing reads but the clients, are left out.                            *)
(***************************************************************************)
EXTENDS Integers, FiniteSets, FiniteSetsExt

CONSTANTS
  Users,
  Prices,           \* oracle and fill prices
  ExpiryPrices,     \* prices an expired market is settled at
  Fees,             \* what a taker or a liquidated user pays on top
  FundingRates,     \* rates of one funding update, of both signs
  FundingLimits,    \* a third of the fee pool at a funding update
  BasePrecision,    \* AMM_RESERVE_PRECISION
  RatePrecision,    \* FUNDING_RATE_TO_QUOTE_PRECISION_PRECISION_RATIO
  MaxBase, MaxQuote, MaxRate, MaxFunding, MaxFill,
  MaxFractions      \* bounds of the model

ASSUME LedgerAssumption ==
  /\ IsFiniteSet(Users)
  /\ Prices \subseteq Nat /\ ExpiryPrices \subseteq Nat /\ Fees \subseteq Nat
  /\ FundingRates \subseteq Int /\ FundingLimits \subseteq Nat
  /\ BasePrecision \in Nat \ {0} /\ RatePrecision \in Nat \ {0}
  /\ MaxBase \in Nat /\ MaxQuote \in Nat /\ MaxRate \in Nat
  /\ MaxFunding \in Nat /\ MaxFill \in Nat /\ MaxFractions \in Nat

(* A rate times a base is in units of a quote unit over Precision.         *)
Precision == BasePrecision * RatePrecision

VARIABLES
  market,           \* the PerpMarket
  position          \* the PerpPosition of each user

vars == <<market, position>>

Status == {"active", "settlement", "delisted"}

(* long and short are base_asset_amount_long and _short, withAmm the       *)
(* amm's base_asset_amount_with_amm; rates are cumulative funding rates.   *)
(* fractions is history: how many divisions so far have dropped a fraction *)
(* of a quote unit in favour of the users.                                 *)
PerpMarket ==
  [status : Status, long : Int, short : Int, withAmm : Int,
   quote : Int, longEntry : Int, shortEntry : Int,
   longRate : Int, shortRate : Int, unsettledFunding : Int,
   fractions : Nat, users : Nat, usersWithBase : Nat, expiryPrice : Nat]

PerpPosition == [base : Int, quote : Int, entry : Int, rate : Int]

NoPosition == [base |-> 0, quote |-> 0, entry |-> 0, rate |-> 0]

Init ==
  /\ market = [status |-> "active", long |-> 0, short |-> 0, withAmm |-> 0,
               quote |-> 0, longEntry |-> 0, shortEntry |-> 0,
               longRate |-> 0, shortRate |-> 0, unsettledFunding |-> 0,
               fractions |-> 0, users |-> 0, usersWithBase |-> 0, expiryPrice |-> 0]
  /\ position = [u \in Users |-> NoPosition]
-----------------------------------------------------------------------------
(* A book is a market with its positions; operations map books to books.   *)

Book == [m |-> market, p |-> position]
Becomes(b) == market' = b.m /\ position' = b.p

Abs(n) == IF n < 0 THEN -n ELSE n
Sign(n) == IF n > 0 THEN 1 ELSE IF n < 0 THEN -1 ELSE 0
(* Division of the program's integers, towards zero.                       *)
DivTrunc(n, d) == Sign(n) * Sign(d) * (Abs(n) \div Abs(d))
DivCeil(n, d) == (n + d - 1) \div d
Without1(n) == IF n > 0 THEN n - 1 ELSE 0               \* saturating_sub

Empty(p) == p.base = 0 /\ p.quote = 0

(* The cumulative rate that applies to a position of this size.            *)
RateOf(m, base) == IF base > 0 THEN m.longRate ELSE m.shortRate

(* What a position has coming since its funding was last settled, in units *)
(* of a quote unit over Precision.                                         *)
Claim(m, p) ==
  IF p.base = 0 THEN 0 ELSE -(RateOf(m, p.base) - p.rate) * p.base

InQuote(n) == DivTrunc(n, Precision)

(* 1 when cutting n down to whole quote units makes more of it.            *)
RoundedUp(n) == IF InQuote(n) * Precision > n THEN 1 ELSE 0

(* What a position receives when its funding is settled: the fraction is   *)
(* dropped, whoever pays.                                                  *)
FundingPayment(m, p) == InQuote(Claim(m, p))

AddQuoteUncounted(b, u, d) ==                                        \* mutant
  LET p == b.p[u]
  IN [m |-> [b.m EXCEPT !.quote = b.m.quote + d,
                        !.users = IF Empty(p) /\ d # 0 THEN b.m.users + 1
                                              ELSE b.m.users],
      p |-> [b.p EXCEPT ![u].quote = p.quote + d]]
(* update_quote_asset_amount, with the count of users.                     *)
AddQuote(b, u, d) ==
  LET p == b.p[u]
      q == [p EXCEPT !.quote = p.quote + d]
  IN IF d = 0 THEN b ELSE
     [m |-> [b.m EXCEPT
               !.quote = b.m.quote + d,
               !.users = IF Empty(p) THEN b.m.users + 1
                         ELSE IF Empty(q) THEN Without1(b.m.users)
                         ELSE b.m.users],
      p |-> [b.p EXCEPT ![u] = q]]

CollectFundingTwice(b, u) ==                                         \* mutant
  LET pay == FundingPayment(b.m, b.p[u])
      c   == AddQuote(b, u, pay)
  IN [c EXCEPT !.m.unsettledFunding = c.m.unsettledFunding - pay]
SettleFunding(b, u) ==
  LET pay == FundingPayment(b.m, b.p[u])
      c   == AddQuote(b, u, pay)
  IN IF b.p[u].base = 0 THEN b ELSE
     [m |-> [c.m EXCEPT
               !.unsettledFunding = c.m.unsettledFunding - pay,
               !.fractions = c.m.fractions + RoundedUp(Claim(b.m, b.p[u]))],
      p |-> [c.p EXCEPT ![u].rate = RateOf(b.m, b.p[u].base)]]
-----------------------------------------------------------------------------
(* update_position_and_market: u's position takes on base (not 0) and      *)
(* quote.  The five kinds of update follow.                                *)

SameSide(x, y) == Sign(x) = Sign(y)

(* Open and Increase.                                                      *)
Extend(b, u, base, quote) ==
  LET p    == b.p[u]
      size == p.base + base
      up   == size > 0
  IN [m |-> [b.m EXCEPT
               !.quote = @ + quote,
               !.long = IF up THEN @ + base ELSE @,
               !.short = IF up THEN @ ELSE @ + base,
               !.longEntry = IF up THEN @ + quote ELSE @,
               !.shortEntry = IF up THEN @ ELSE @ + quote,
               !.users = IF Empty(p) THEN @ + 1 ELSE @,
               !.usersWithBase = IF p.base = 0 THEN @ + 1 ELSE @],
      p |-> [b.p EXCEPT ![u] =
               [base |-> size, quote |-> p.quote + quote,
                entry |-> p.entry + quote, rate |-> RateOf(b.m, size)]]]

ReduceKeepsRate(b, u, base, quote) ==                                \* mutant
  LET p      == b.p[u]
      leaves == DivTrunc(p.entry * Abs(base), Abs(p.base))
      up     == p.base > 0
  IN [m |-> [b.m EXCEPT
               !.quote = @ + quote,
               !.long = IF up THEN @ + base ELSE @,
               !.short = IF up THEN @ ELSE @ + base],
      p |-> [b.p EXCEPT ![u].base = @ + base, ![u].quote = @ + quote,
                        ![u].entry = @ - leaves]]
(* Reduce and Close.                                                       *)
ReduceBy(b, u, base, quote) ==
  LET p      == b.p[u]
      size   == p.base + base
      leaves == DivTrunc(p.entry * Abs(base), Abs(p.base))
      up     == p.base > 0
      q      == [base |-> size, quote |-> p.quote + quote,
                 entry |-> p.entry - leaves,
                 rate |-> IF size = 0 THEN 0 ELSE p.rate]
  IN [m |-> [b.m EXCEPT
               !.quote = @ + quote,
               !.long = IF up THEN @ + base ELSE @,
               !.short = IF up THEN @ ELSE @ + base,
               !.longEntry = IF up THEN @ - leaves ELSE @,
               !.shortEntry = IF up THEN @ ELSE @ - leaves,
               !.users = IF Empty(q) THEN Without1(@) ELSE @,
               !.usersWithBase = IF size = 0 THEN Without1(@) ELSE @],
      p |-> [b.p EXCEPT ![u] = q]]

FlipOneSide(b, u, base, quote) ==                                    \* mutant
  LET p    == b.p[u]
      size == p.base + base
  IN [m |-> [b.m EXCEPT
               !.quote = @ + quote,
               !.long = IF size > 0 THEN @ + base ELSE @,
               !.short = IF size > 0 THEN @ ELSE @ + base],
      p |-> [b.p EXCEPT ![u] =
               [base |-> size, quote |-> p.quote + quote,
                entry |-> quote - DivTrunc(quote * Abs(p.base), Abs(base)),
                rate |-> RateOf(b.m, size)]]]
Flip(b, u, base, quote) ==
  LET p     == b.p[u]
      size  == p.base + base
      entry == quote - DivTrunc(quote * Abs(p.base), Abs(base))
      up    == size > 0
  IN [m |-> [b.m EXCEPT
               !.quote = @ + quote,
               !.long = IF up THEN @ + size ELSE @ - p.base,
               !.short = IF up THEN @ - p.base ELSE @ + size,
               !.longEntry = IF up THEN @ + entry ELSE @ - p.entry,
               !.shortEntry = IF up THEN @ - p.entry ELSE @ + entry],
      p |-> [b.p EXCEPT ![u] =
               [base |-> size, quote |-> p.quote + quote,
                entry |-> entry, rate |-> RateOf(b.m, size)]]]

UpdatePosition(b, u, base, quote) ==
  LET p == b.p[u]
  IN IF base = 0 THEN AddQuote(b, u, quote)
     ELSE IF p.base = 0 \/ SameSide(p.base, base)
          THEN Extend(b, u, base, quote)
     ELSE IF Abs(p.base) >= Abs(base) THEN ReduceBy(b, u, base, quote)
     ELSE Flip(b, u, base, quote)

TradeWithAmmUnbooked(b, u, base, quote) ==                           \* mutant
  UpdatePosition(b, u, base, quote)
(* The amm, or the expired market, takes the other side of the update.     *)
TradeWithAmm(b, u, base, quote) ==
  LET c == UpdatePosition(b, u, base, quote)
  IN [c EXCEPT !.m.withAmm = c.m.withAmm + base]
-----------------------------------------------------------------------------
(* Funding rates. *)

CapCountsReceivers(m, rate, limit) ==                                \* mutant
  LET receivers == IF rate > 0 THEN m.short ELSE m.long
      available == -limit - Abs(InQuote(rate * receivers))
  IN IF receivers = 0 THEN 0
     ELSE DivTrunc((IF available < 0 THEN available + 1 ELSE available)
                     * Precision, receivers)
(* calculate_capped_funding_rate: what the receiving side gets of rate     *)
(* when the amm may add limit to what the other side pays.                 *)
CappedRate(m, rate, limit) ==
  LET payers    == IF rate > 0 THEN m.long ELSE m.short
      receivers == IF rate > 0 THEN m.short ELSE m.long
      available == -limit - Abs(InQuote(rate * payers))
  IN IF receivers = 0 THEN 0
     ELSE DivTrunc((IF available < 0 THEN available + 1 ELSE available)
                     * Precision, receivers)

FundingBookedToMarket(m, rate, limit) ==                             \* mutant
  LET owed   == InQuote(rate * m.withAmm)
      capped == IF owed < -limit THEN CappedRate(m, rate, limit) ELSE rate
  IN [m EXCEPT !.longRate = @ + (IF owed < 0 /\ rate < 0 THEN capped ELSE rate),
               !.shortRate = @ + (IF owed < 0 /\ rate > 0 THEN capped ELSE rate),
               !.unsettledFunding = @ + owed]
FundingNotCapped(m, rate, limit) ==                                  \* mutant
  [m EXCEPT !.longRate = @ + rate, !.shortRate = @ + rate,
            !.unsettledFunding = @ - InQuote(rate * m.withAmm),
            !.fractions = @ + RoundedUp(rate * m.withAmm)]
(* calculate_funding_rate_long_short and the cumulative rates: when the    *)
(* amm owes more than limit, the receiving side's rate is capped.  What    *)
(* the market books as unsettled is the uncapped amount.                   *)
FundingUpdate(m, rate, limit) ==
  LET owed   == InQuote(rate * m.withAmm)
      capped == IF owed < -limit THEN CappedRate(m, rate, limit) ELSE rate
  IN [m EXCEPT !.longRate = @ + (IF owed < 0 /\ rate < 0 THEN capped ELSE rate),
               !.shortRate = @ + (IF owed < 0 /\ rate > 0 THEN capped ELSE rate),
               !.unsettledFunding = @ - owed,
               !.fractions = @ + RoundedUp(rate * m.withAmm)]
-----------------------------------------------------------------------------
(* Instructions.  Each is taken only within the model's bounds. *)

PositionsWithinBounds(b) ==
  \A u \in Users : /\ b.p[u].base \in -MaxBase .. MaxBase
                   /\ b.p[u].quote \in -MaxQuote .. MaxQuote
                   /\ b.p[u].entry \in -MaxQuote .. MaxQuote

HasRoom(u, base) == position[u].base + base \in -MaxBase .. MaxBase

WithinBounds(b) ==
  /\ b.m.longRate \in -MaxRate .. MaxRate
  /\ b.m.shortRate \in -MaxRate .. MaxRate
  /\ b.m.unsettledFunding \in -MaxFunding .. MaxFunding
  /\ b.m.fractions <= MaxFractions
  /\ PositionsWithinBounds(b)

Commit(b) == WithinBounds(b) /\ Becomes(b)

(* fill_perp_order tries to update the funding rate after every trade; it  *)
(* succeeds at most once in a funding period.                              *)
CommitTrade(b) ==
  /\ PositionsWithinBounds(b)
  /\ \/ Commit(b)
     \/ \E rate \in FundingRates, limit \in FundingLimits :
          Commit([b EXCEPT !.m = FundingUpdate(b.m, rate, limit)])

Amounts == (-MaxFill .. MaxFill) \ {0}             \* bought is positive

Trading == market.status = "active"

(* A fill against the amm.  A taker pays fee, part of which may reward the *)
(* filler, a third user.  An order filled by several makers and the amm in *)
(* one instruction is several of these steps.                              *)
FillWithAmm(u, filler) ==
  \E price \in Prices, fee \in Fees, base \in Amounts :
    \E reward \in 0 .. fee :
      LET b == SettleFunding(Book, u)
          c == AddQuote(TradeWithAmm(b, u, base, -base * price), u, -fee)
      IN /\ Trading /\ HasRoom(u, base)
         /\ CommitTrade(AddQuote(c, filler, reward))

(* A fill against a maker's order.  The maker's position is updated first, *)
(* and the fee is shared by the maker's rebate, the filler and the amm.    *)
Match(taker, maker, filler) ==
  \E price \in Prices, fee \in Fees, base \in Amounts :
    \E rebate \in 0 .. fee :
      \E reward \in 0 .. fee - rebate :
        LET b == SettleFunding(SettleFunding(Book, taker), maker)
            c == UpdatePosition(UpdatePosition(b, maker, -base, base * price),
                                taker, base, -base * price)
            d == AddQuote(AddQuote(c, taker, -fee), maker, rebate)
        IN /\ Trading /\ HasRoom(taker, base) /\ HasRoom(maker, -base)
           /\ CommitTrade(AddQuote(d, filler, reward))

OpenInterest(m) == IF Abs(m.long) > Abs(m.short) THEN Abs(m.long)
                                                 ELSE Abs(m.short)

(* Moves part of a position to another account of the same owner.          *)
TransferPerpPosition(from, to) ==
  \E price \in Prices, n \in 1 .. Abs(position[from].base) :
    LET amount == Sign(position[from].base) * n
        b == SettleFunding(SettleFunding(Book, from), to)
        c == UpdatePosition(UpdatePosition(b, from, -amount, amount * price),
                            to, amount, -amount * price)
    IN /\ OpenInterest(c.m) <= OpenInterest(market)
       /\ Commit(c)

(* The liquidator takes over part of a position at the oracle price, and   *)
(* receives a fee; the insurance fund's fee stays with the market.         *)
LiquidatePerp(u, liquidator) ==
  \E price \in Prices, n \in 1 .. Abs(position[u].base),
     fee \in Fees, ifFee \in Fees :
    LET amount == Sign(position[u].base) * n
        at == IF market.status = "settlement" THEN market.expiryPrice
                                              ELSE price
        b == SettleFunding(SettleFunding(Book, u), liquidator)
        c == AddQuote(AddQuote(UpdatePosition(b, u, -amount, amount * at),
                               u, -fee), u, -ifFee)
        d == UpdatePosition(c, liquidator, amount, -amount * at)
    IN Commit(AddQuote(d, liquidator, fee))

(* liquidate_borrow_for_perp_pnl and liquidate_perp_pnl_for_deposit: the   *)
(* liquidator takes over part of the pnl of a closed position.             *)
LiquidatePnl(u, liquidator) ==
  \E n \in 1 .. Abs(position[u].quote) :
    LET pnl == Sign(position[u].quote) * n
        b == SettleFunding(SettleFunding(Book, u), liquidator)
    IN /\ position[u].base = 0
       /\ Commit(AddQuote(AddQuote(b, liquidator, pnl), u, -pnl))

SettleFundingPayment(u) == Commit(SettleFunding(Book, u))

(* Pays out part of a gain, or collects part of a loss; how much depends   *)
(* on the market's pool and the user's tokens.                             *)
SettlePnl(u) ==
  \E price \in Prices :
    LET b   == SettleFunding(Book, u)
        p   == b.p[u]
        pnl == p.base * price + p.quote
    IN /\ Trading
       /\ \E n \in 1 .. Abs(pnl) : Commit(AddQuote(b, u, -Sign(pnl) * n))
-----------------------------------------------------------------------------
(* Funding and socialised losses, over all positions at once. *)

UpdateFundingRate(rate, limit) ==
  /\ Trading
  /\ Commit([m |-> FundingUpdate(market, rate, limit), p |-> position])

SocialLossRoundedDown(m, loss) ==                                    \* mutant
  ((loss * BasePrecision) \div (Abs(m.long) + Abs(m.short))) * RatePrecision
SocialLossRate(m, loss) ==
  DivCeil(loss * BasePrecision, Abs(m.long) + Abs(m.short)) * RatePrecision

(* The debt of a user without assets is cleared.  The insurance fund and   *)
(* the fee pool pay `paid' of it, all positions the rest.                  *)
ResolvePerpBankruptcy(u, paid) ==
  LET debt  == -position[u].quote
      delta == SocialLossRate(market, debt - paid)
      m     == [market EXCEPT
                  !.longRate = IF paid < debt THEN @ + delta ELSE @,
                  !.shortRate = IF paid < debt THEN @ - delta ELSE @]
  IN /\ position[u].base = 0 /\ debt > 0 /\ paid <= debt
     /\ market.long # 0 \/ market.short # 0
     /\ Commit(AddQuote([m |-> m, p |-> position], u, debt))
-----------------------------------------------------------------------------
(* Expiry. *)

(* The admin may settle a market again, which prices it anew.              *)
SettleExpiredMarket ==
  \E price \in ExpiryPrices :
    /\ market' = [market EXCEPT !.status = "settlement",
                                !.expiryPrice = price]
    /\ UNCHANGED position

(* Closes a position at the expiry price and settles all of its pnl.       *)
SettleExpiredPosition(u) ==
  \E fee \in Fees :
    LET b == SettleFunding(Book, u)
        c == TradeWithAmm(b, u, -position[u].base,
                          position[u].base * market.expiryPrice)
        d == AddQuote(c, u, -fee)
    IN /\ market.status = "settlement"
       /\ position[u].base = 0 => fee = 0
       /\ Commit(AddQuote(d, u, -d.p[u].quote))

NetUserCostBasis(m) == m.quote + m.unsettledFunding

(* settle_expired_market_pools_to_revenue_pool.                            *)
Settled(m) ==
  /\ m.long = 0 /\ m.short = 0 /\ m.usersWithBase = 0
  /\ NetUserCostBasis(m) = 0

SettlePoolsToRevenuePool ==
  /\ market.status = "settlement"
  /\ Settled(market)
  /\ market' = [market EXCEPT !.status = "delisted"]
  /\ UNCHANGED position
-----------------------------------------------------------------------------
Next ==
  \/ \E u, filler \in Users : u # filler /\ FillWithAmm(u, filler)
  \/ \E taker, maker, filler \in Users :
       taker # maker /\ filler \notin {taker, maker}
         /\ Match(taker, maker, filler)
  \/ \E from, to \in Users : from # to /\ TransferPerpPosition(from, to)
  \/ \E u, liquidator \in Users :
       u # liquidator /\ LiquidatePerp(u, liquidator)
  \/ \E u, liquidator \in Users : u # liquidator /\ LiquidatePnl(u, liquidator)
  \/ \E u \in Users : SettleFundingPayment(u)
  \/ \E u \in Users : SettlePnl(u)
  \/ \E rate \in FundingRates, limit \in FundingLimits :
       UpdateFundingRate(rate, limit)
  \/ \E u \in Users : \E paid \in 0 .. Abs(position[u].quote) :
       ResolvePerpBankruptcy(u, paid)
  \/ SettleExpiredMarket
  \/ \E u \in Users : SettleExpiredPosition(u)
  \/ SettlePoolsToRevenuePool

Spec == Init /\ [][Next]_vars
-----------------------------------------------------------------------------
(* Properties. *)

Total(f) == SumFunctionOnSet(f, Users)

(* What all positions would receive if their funding were settled now, and *)
(* what they have coming, before each drops its fraction.                  *)
Pending == Total([u \in Users |-> FundingPayment(market, position[u])])
Claims == Total([u \in Users |-> Claim(market, position[u])])

(* Every record has its type, and a position without base owes no funding  *)
(* and has no entry: Close resets them.                                    *)
TypeOK ==
  /\ market \in PerpMarket
  /\ position \in [Users -> PerpPosition]
  /\ \A u \in Users :
       position[u].base = 0 => position[u].entry = 0 /\ position[u].rate = 0

(* The market's sums are those of its positions: every handler that        *)
(* touches a position books the same change, on the right side, also when  *)
(* a position flips.  Margins, funding and expiry prices rely on the sums. *)
MarketMatchesPositions ==
  LET Base(u)  == position[u].base
      Entry(u) == position[u].entry
  IN /\ market.quote = Total([u \in Users |-> position[u].quote])
     /\ market.long = Total([u \in Users |-> IF Base(u) > 0 THEN Base(u) ELSE 0])
     /\ market.short = Total([u \in Users |-> IF Base(u) < 0 THEN Base(u) ELSE 0])
     /\ market.longEntry
          = Total([u \in Users |-> IF Base(u) > 0 THEN Entry(u) ELSE 0])
     /\ market.shortEntry
          = Total([u \in Users |-> IF Base(u) < 0 THEN Entry(u) ELSE 0])

(* number_of_users and number_of_users_with_base count the positions with  *)
(* anything in them and with base, although they are kept in five places   *)
(* and with subtractions that saturate.                                    *)
CountsMatchPositions ==
  /\ market.users = Cardinality({u \in Users : ~Empty(position[u])})
  /\ market.usersWithBase = Cardinality({u \in Users : position[u].base # 0})

(* validate_perp_market: the amm holds the other side of the users' net    *)
(* position.                                                               *)
NetBaseMatches == market.long + market.short = market.withAmm

(* The three of them: every sum and count of the market is that of its     *)
(* positions.                                                              *)
AggregatesMatch == MarketMatchesPositions /\ CountsMatchPositions /\ NetBaseMatches

(* net_unsettled_funding_pnl understates what the positions have coming by *)
(* less than a quote unit for each payment and each funding update whose   *)
(* division dropped a fraction in the users' favour, whatever was capped,  *)
(* socialised and settled in between.  It is what calculate_net_user_pnl   *)
(* adds to the users' claims, which settle_pnl checks before it pays out   *)
(* an excess.  The bound cannot be had without the fractions: two shorts   *)
(* of half a unit each pay nothing for the unit that a long collects.      *)
UnsettledFundingCovers ==
  (market.unsettledFunding + market.fractions) * Precision >= Claims

RatesUnchanged == market'.longRate = market.longRate
                  /\ market'.shortRate = market.shortRate

(* Funding is collected once, whatever the order of trades, settlements,   *)
(* transfers and liquidations: a step that does not move the rates takes   *)
(* from what is booked as unsettled just what the positions it settles     *)
(* would have received, to the last unit, and leaves the others theirs.    *)
FundingCollectedOnce ==
  [][RatesUnchanged => market'.unsettledFunding - Pending'
                         = market.unsettledFunding - Pending]_vars

(* What users gain from a funding update in which the amm pays is less     *)
(* than one unit above the share of the fee pool that it may spend: the    *)
(* fraction that is dropped from what the amm pays itself.                 *)
FundingWithinLimit ==
  [][\A rate \in FundingRates, limit \in FundingLimits :
       UpdateFundingRate(rate, limit)
         => Claims' - Claims < (limit + 1) * Precision]_vars

(* Funding is neither collected twice nor more than the amm may spend.     *)
FundingFair == FundingCollectedOnce /\ FundingWithinLimit

(* A bankruptcy takes from what the positions have coming at least the     *)
(* debt that nobody paid.  Each position drops a fraction of its share, so *)
(* what they pay falls short of the debt by less than two units for each   *)
(* position: one that it would have received and one that it would owe.    *)
SocialLossCovered ==
  [][\A u \in Users : \A paid \in 0 .. Abs(position[u].quote) :
       ResolvePerpBankruptcy(u, paid) =>
         LET loss == -position[u].quote - paid
         IN /\ Claims - Claims' >= loss * Precision
            /\ Pending - Pending' > loss - 2 * market.usersWithBase]_vars
=============================================================================
