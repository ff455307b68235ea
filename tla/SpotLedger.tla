----------------------------- MODULE SpotLedger -----------------------------
(***************************************************************************)
(* Spot balances: deposits, withdrawals, transfers between accounts and    *)
(* between pools, swaps, the interest that moves all balances at once, and *)
(* the withdraw guard that slows a run on a market's vault.                *)
(*                                                                         *)
(* Balances are kept scaled: tokens are balance * index \div Precision,    *)
(* rounded down for deposits and up for borrows.  Precision \div One is    *)
(* the number of scaled units of one token unit at the initial index: 1    *)
(* for a token of nine decimals, 1000 for one of six.                      *)
(*                                                                         *)
(* Accounts trade on margin, are neither bankrupt nor being liquidated     *)
(* (Liquidation has those) and have no resting orders; markets have no     *)
(* deposit caps and no paused operations; oracles stand still.             *)
(***************************************************************************)
EXTENDS Margin, Sequences

CONSTANTS
  Users,
  UserPool, MarketPool,     \* pool_id of every account and market
  Mint,                     \* the token of every market
  Price,                    \* of every market, in quote per token unit
  One, Precision,           \* initial interest index, scaled units per index
  UtilPrecision, RatePrecision,
  OptimalUtil, OptimalRate, MaxRate, MinRate, \* the market's rate curve
  Segments,                 \* INTEREST_RATE_SEGMENT_AND_WEIGHTS
  WeightTotal,              \* the sum of their weights
  Year, Window,             \* ONE_YEAR and the 24 hours of the twaps, in ticks
  StakersFactor, FactorPrecision,  \* insurance_fund.total_factor
  GuardThreshold,                \* withdraw_guard_threshold of every market
  Seed,                     \* what every account has deposited at the start
  Amounts, Gifts, Swaps,    \* token amounts: own, donated, in and out of swaps
  MaxInstructions, MaxTime           \* bounds: instructions and clock ticks

ASSUME SpotLedgerAssumption ==
  /\ IsFiniteSet(Users) /\ Seed \in [Users -> [SpotMarkets -> Nat]]
  /\ Price \in [Markets -> Nat \ {0}]
  /\ {One, Precision, UtilPrecision, RatePrecision, WeightTotal, Year, Window,
      FactorPrecision} \subseteq Nat \ {0}
  /\ {OptimalRate, MaxRate, MinRate, GuardThreshold, MaxInstructions, MaxTime}
       \subseteq Nat
  /\ OptimalRate <= MaxRate /\ MinRate <= OptimalRate
  /\ 0 < OptimalUtil /\ OptimalUtil <= UtilPrecision /\ OptimalUtil \in Nat
  /\ Segments \in Seq([upTo : Nat, weight : Nat])
  /\ StakersFactor \in 0..FactorPrecision
  /\ Amounts \subseteq Nat /\ Gifts \subseteq Nat
  /\ Swaps \subseteq [lent : Nat, back : Nat, out : Nat]

VARIABLES
  spotMarket,     \* spot market: totals, indices, revenue pool, twaps, flash loan
  vault,      \* tokens in the vault of each market
  pos,        \* account and market: the scaled balance and its type
  net,        \* total_deposits less total_withdraws of each account, in quote
  now, instructions    \* the clock, and the instructions so far

spotVars == <<spotMarket, vault, pos, net, now, instructions>>

(* balance_type, scaled_balance and cumulative_deposits of a position.     *)
Balance == [owed : BOOLEAN, n : Nat, net : Int]
Market == [deposits : Nat, borrows : Nat, depositIndex : Nat, borrowIndex : Nat,
           revenue : Nat, interestTs : Nat,
           depositTwap : Nat, borrowTwap : Nat, utilTwap : Nat, twapTs : Nat,
           status : {"Active", "ReduceOnly"}]

Index(mk, owed) == IF owed THEN mk.borrowIndex ELSE mk.depositIndex

(* get_token_amount and get_spot_balance.                                  *)
Tokens(mk, owed, n) ==
  IF owed THEN UpDiv(n * mk.borrowIndex, Precision)
          ELSE (n * mk.depositIndex) \div Precision
Scaled(mk, owed, tokens, up) ==
  LET n == (tokens * Precision) \div Index(mk, owed)
  IN  IF up /\ n # 0 THEN n + 1 ELSE n

Held(mk, b) == Tokens(mk, b.owed, b.n)
Signed(mk, b) == IF b.owed THEN -Held(mk, b) ELSE Held(mk, b)
DepositTokens(mk) == Tokens(mk, FALSE, mk.deposits)
BorrowTokens(mk) == Tokens(mk, TRUE, mk.borrows)
-----------------------------------------------------------------------------
(* Interest.                                                               *)

Utilization(mk) ==
  LET d == DepositTokens(mk)
      b == BorrowTokens(mk)
  IN  IF d = 0 THEN IF b = 0 THEN 0 ELSE UtilPrecision
               ELSE (b * UtilPrecision) \div d

(* The curve above the optimum is piecewise linear; segment i starts where *)
(* the one before ends, the first one at the optimum.  The segments the    *)
(* loop gets to add their whole rate, the one it stops in a part of it.    *)
SegmentStart(i) == IF i = 1 THEN OptimalUtil ELSE Segments[i - 1].upTo
SegmentRate(i) == ((MaxRate - OptimalRate) * Segments[i].weight) \div WeightTotal
Reached(util) ==
  {i \in 1..Len(Segments) : \A j \in 1..(i - 1) : util > Segments[j].upTo}
RateWithin(i, util) ==
  IF util > Segments[i].upTo THEN SegmentRate(i)
  ELSE (SegmentRate(i) * (util - SegmentStart(i)))
         \div (Segments[i].upTo - SegmentStart(i))

(* The subtractions are checked: none below zero.                          *)
RateDefined(util) ==
  util > OptimalUtil =>
    \A i \in Reached(util) : Segments[i].upTo >= SegmentStart(i)

BorrowRate(util) ==
  LET slope == (OptimalRate * UtilPrecision) \div OptimalUtil
  IN  Larger(MinRate,
        IF util <= OptimalUtil THEN (util * slope) \div UtilPrecision
        ELSE OptimalRate + SumOver(Reached(util), LAMBDA i : RateWithin(i, util)))

(* One position of type `owed` moves by d scaled units, and its market.    *)
Grown(mk, b, owed, d) ==
  [mk |-> IF owed THEN [mk EXCEPT !.borrows = @ + d]
                  ELSE [mk EXCEPT !.deposits = @ + d],
   b  |-> [b EXCEPT !.owed = owed, !.n = @ + d]]

UpdateUncapped(mk, b, owed, tokens, leaving) ==
  LET d == Scaled(mk, b.owed, tokens, leaving)
  IN  Grown(mk, b, b.owed, IF owed = b.owed THEN d ELSE -d)

(* update_spot_balances: first pays off a balance of the other type.  What *)
(* leaves the program and what is owed is rounded up.                      *)
PaidOff(mk, b, held, tokens, leaving) ==
  Grown(mk, b, b.owed,
        -(IF held = 0 THEN 0
          ELSE IF held > tokens THEN Scaled(mk, b.owed, tokens, leaving \/ b.owed)
          ELSE b.n))
Extended(r, owed, tokens) ==
  IF tokens = 0 THEN r
                ELSE Grown(r.mk, r.b, owed, Scaled(r.mk, owed, tokens, owed))
UpdateSpotBalances(mk, b, owed, tokens, leaving) ==
  IF owed = b.owed THEN Grown(mk, b, owed, Scaled(mk, owed, tokens, owed))
  ELSE Extended(PaidOff(mk, b, Held(mk, b), tokens, leaving), owed,
                Floored(tokens - Held(mk, b)))

(* The same for an account, which counts its deposits per market.          *)
Move(mk, b, owed, tokens, leaving) ==
  UpdateSpotBalances(mk, [b EXCEPT !.net = IF owed THEN @ - tokens ELSE @ + tokens],
                     owed, tokens, leaving)

(* Nothing leaves the program that depositors could not claim.             *)
LeavesEnough(mk) == DepositTokens(mk) >= BorrowTokens(mk)

RevenuePoolForgotten(mk, tokens) ==
  UpdateSpotBalances(mk, [owed |-> FALSE, n |-> mk.revenue, net |-> 0], FALSE,
                     tokens, FALSE).mk
UpdateRevenuePool(mk, tokens) ==
  LET Kept(r) == [r.mk EXCEPT !.revenue = r.b.n]
  IN  Kept(UpdateSpotBalances(mk, [owed |-> FALSE, n |-> mk.revenue, net |-> 0],
                              FALSE, tokens, FALSE))

WeightedAverage(new, old, since, rest) ==
  LET bias == IF rest <= 1 THEN 0
              ELSE IF old * rest < new * since THEN -1
              ELSE IF old * rest > new * since THEN 1 ELSE 0
      avg  == (new * since + old * rest) \div (since + rest)
  IN  IF since = 0 THEN old
      ELSE IF avg = 0 /\ bias < 0 THEN 0 ELSE avg + bias

Twapped(mk) ==
  LET since == Floored(now - mk.twapTs)
      rest  == Larger(1, Window - since)
  IN  [mk EXCEPT
         !.depositTwap = WeightedAverage(DepositTokens(mk), @, since, rest),
         !.borrowTwap  = WeightedAverage(BorrowTokens(mk), @, since, rest),
         !.utilTwap    = WeightedAverage(Utilization(mk), @, since, rest),
         !.twapTs      = now]

InterestOnAllDeposits(mk) ==
  LET rate == BorrowRate(Utilization(mk)) * (now - mk.interestTs)
      grown(index) == ((index * rate) \div Year) \div RatePrecision
  IN  [borrow |-> grown(mk.borrowIndex) + 1, deposit |-> grown(mk.depositIndex)]

(* calculate_accumulated_interest: what the indices grow by until now.     *)
InterestAt(mk, util, rate) ==
  [borrow  |-> ((mk.borrowIndex * rate) \div Year) \div RatePrecision + 1,
   deposit |-> ((mk.depositIndex * ((rate * util) \div UtilPrecision))
                \div Year) \div RatePrecision]
Interest(mk) ==
  IF now <= mk.interestTs \/ Utilization(mk) = 0
    THEN [borrow |-> 0, deposit |-> 0]
    ELSE InterestAt(mk, Utilization(mk),
                    BorrowRate(Utilization(mk)) * (now - mk.interestTs))

(* update_spot_market_cumulative_interest: the insurance stakers' share of *)
(* the lenders' interest goes to the revenue pool.                         *)
Shared(mk, borrow, lenders, stakers) ==
  IF borrow > 1 /\ lenders > 0
    THEN UpdateRevenuePool([mk EXCEPT !.depositIndex = @ + lenders,
                                      !.borrowIndex = @ + borrow, !.interestTs = now],
                           (mk.deposits * stakers) \div Precision)
    ELSE mk
Accrued(mk) ==
  LET Split(i, stakers) == Shared(mk, i.borrow, i.deposit - stakers, stakers)
      Grow(i) == Split(i, (i.deposit * StakersFactor) \div FactorPrecision)
  IN  Twapped(Grow(Interest(mk)))

AccrualDefined(mk) == now > mk.interestTs => RateDefined(Utilization(mk))
-----------------------------------------------------------------------------
(* The withdraw guard.                                                     *)

MinDeposit(mk) ==
  mk.depositTwap
  - Larger(mk.depositTwap \div 4, Lesser(GuardThreshold, mk.depositTwap))

(* Markets of the main pool lend less of their deposits than others.       *)
MaxBorrow(m, mk) ==
  LET d == Lesser(DepositTokens(mk), mk.depositTwap)
      part(a, b, c) == Larger(GuardThreshold,
        Lesser(Larger(d \div a, mk.borrowTwap + d \div b), d - d \div c))
  IN  IF MarketPool[m] = 0 THEN part(3, 7, 8) ELSE part(2, 3, 10)

MaxUtilization(mk) ==
  Larger(OptimalUtil,
         mk.utilTwap + Floored(UtilPrecision - mk.utilTwap) \div 2)
MinDepositForUtil(mk) ==
  Lesser((BorrowTokens(mk) * UtilPrecision) \div MaxUtilization(mk),
         Floored(DepositTokens(mk) - GuardThreshold))
MaxBorrowForUtil(mk) ==
  Larger((MaxUtilization(mk) * DepositTokens(mk)) \div UtilPrecision, GuardThreshold)

ExceptionOfAnySize(mk, total, b, tokens) ==
  total >= 0 /\ b.net >= 0 /\ ~b.owed

(* A small net depositor may leave whatever the others do.                 *)
IsException(mk, total, b, tokens) ==
  /\ total >= 0 /\ b.net >= 0 /\ ~b.owed
  /\ Held(mk, b) + tokens < GuardThreshold \div 10

(* Checked after the balances moved; lenders need not mind the borrows.    *)
CheckWithdrawLimits(m, mk, total, b, tokens) ==
  \/ /\ DepositTokens(mk) >= Larger(MinDeposit(mk), MinDepositForUtil(mk))
     /\ b.owed => BorrowTokens(mk) <= Lesser(MaxBorrow(m, mk), MaxBorrowForUtil(mk))
  \/ IsException(mk, total, b, tokens)

(* update_spot_balances_and_cumulative_deposits_with_limits                *)
WithLimits(m, r, total, owed, tokens) ==
  /\ owed => LeavesEnough(r.mk)
  /\ CheckWithdrawLimits(m, r.mk, total, r.b, tokens)

Claim(mk) == DepositTokens(mk) - BorrowTokens(mk)
VaultOk(mk, tokens) ==            \* validate_spot_market_vault_amount
  /\ Tokens(mk, FALSE, mk.revenue) <= DepositTokens(mk)
  /\ tokens >= Claim(mk)
-----------------------------------------------------------------------------
(* Margin of an account, with the positions and markets of the next state. *)

Account(p, mks, u) ==
  [spot |-> [m \in SpotMarkets |-> Signed(mks[m], p[u][m])],
   perp |-> [q \in PerpMarkets |-> FlatPerp]]

Meets(u, type) == MeetsMargin(Account(pos', spotMarket', u), Price, type)

MaxWithdrawable(u, m, mks) ==
  LET a    == Account(pos, mks, u)
      free == TotalCollateral(a, Price, "Initial") - MarginRequirement(a, Price, "Initial")
      weight == IF m = Quote THEN Scale ELSE AssetWeight["Initial"][m]
  IN  IF weight = 0 THEN Unbounded
      ELSE IF \A x \in SpotMarkets : a.spot[x] >= 0 THEN a.spot[m]
      ELSE Floored(free - 1) \div (weight * Price[m])

(* What a position adds to an account's free collateral.                   *)
Contribution(m, tokens) ==
  LET a == [spot |-> [x \in SpotMarkets |-> IF x = m THEN tokens ELSE 0]]
  IN  SpotCollateral(a, m, Price, "Initial") - SpotRequirement(a, m, Price, "Initial")
-----------------------------------------------------------------------------
Worth(m, tokens) == tokens * Price[m]

Opened(u, m) ==
  [owed |-> FALSE, n |-> Seed[u][m] * (Precision \div One), net |-> Seed[u][m]]
OpenedIn(m) == SumOver(Users, LAMBDA u : Opened(u, m).n)
SeedIn(m) == SumOver(Users, LAMBDA u : Seed[u][m])

SpotInit ==
  /\ pos = [u \in Users |-> [m \in SpotMarkets |-> Opened(u, m)]]
  /\ spotMarket = [m \in SpotMarkets |->
       [deposits |-> OpenedIn(m), borrows |-> 0, depositIndex |-> One,
        borrowIndex |-> One, revenue |-> 0, interestTs |-> 0,
        depositTwap |-> SeedIn(m), borrowTwap |-> 0, utilTwap |-> 0,
        twapTs |-> 0, status |-> "Active"]]
  /\ vault = [m \in SpotMarkets |-> SeedIn(m)]
  /\ net = [u \in Users |-> SumOver(SpotMarkets, LAMBDA m : Worth(m, Seed[u][m]))]
  /\ now = 0 /\ instructions = 0

Instruction ==
  /\ instructions < MaxInstructions /\ instructions' = instructions + 1
  /\ UNCHANGED now

(* decrease_spot_balance: a checked subtraction.                           *)
Covered(mk) == mk.deposits >= 0 /\ mk.borrows >= 0

SetPos(u, m, r) ==
  /\ Covered(r.mk)
  /\ spotMarket' = [spotMarket EXCEPT ![m] = r.mk]
  /\ pos' = [pos EXCEPT ![u][m] = r.b]

(* In a reduce-only market a deposit only pays off a borrow.               *)
DepositedAmount(mk, b, amount, reduceOnly) ==
  IF b.owed /\ (reduceOnly \/ mk.status = "ReduceOnly")
    THEN Lesser(amount, Held(mk, b)) ELSE amount

CreditOk(r) ==
  /\ Held(r.mk, r.b) = 0 => r.b.n = 0
  /\ ~r.b.owed /\ r.b.n > 0 => r.mk.status = "Active"

DepositTo(u, m, mk, amount) ==
  /\ UserPool[u] = MarketPool[m]
  /\ \E r \in {Move(mk, pos[u][m], FALSE, amount, FALSE)} :
       CreditOk(r) /\ SetPos(u, m, r)
  /\ vault' = [vault EXCEPT ![m] = @ + amount]

Deposit(u, m, wanted, reduceOnly) ==
  /\ Instruction /\ AccrualDefined(spotMarket[m])
  /\ \E mk \in {Accrued(spotMarket[m])} :
     \E amount \in {DepositedAmount(mk, pos[u][m], wanted, reduceOnly)} :
      /\ DepositTo(u, m, mk, amount)
      /\ net' = [net EXCEPT ![u] = @ + Worth(m, amount)]

(* A gift of the administrator does not count as the account's deposit.    *)
AdminDeposit(u, m, wanted) ==
  /\ Instruction /\ AccrualDefined(spotMarket[m])
  /\ \E mk \in {Accrued(spotMarket[m])} :
      /\ DepositTo(u, m, mk, DepositedAmount(mk, pos[u][m], wanted, FALSE))
      /\ VaultOk(spotMarket'[m], vault'[m])
      /\ UNCHANGED net

WithdrawnAmount(u, m, mk, wanted, only) ==
  IF only THEN Lesser(Lesser(wanted, Held(mk, pos[u][m])),
                      MaxWithdrawable(u, m, [spotMarket EXCEPT ![m] = mk]))
          ELSE wanted

Withdraw(u, m, wanted, reduceOnly) ==
  LET only == reduceOnly \/ spotMarket[m].status = "ReduceOnly"
  IN
  /\ Instruction /\ UserPool[u] = MarketPool[m] /\ AccrualDefined(spotMarket[m])
  /\ \E mk \in {Accrued(spotMarket[m])} :
     \E amount \in {WithdrawnAmount(u, m, mk, wanted, only)} :
     \E r \in {Move(mk, pos[u][m], TRUE, amount, TRUE)} :
      /\ only => ~pos[u][m].owed
      /\ net' = [net EXCEPT ![u] = @ - Worth(m, amount)]
      /\ WithLimits(m, r, net'[u], TRUE, amount)
      /\ SetPos(u, m, r)
      /\ Meets(u, "Initial")
      /\ amount <= vault[m]
      /\ vault' = [vault EXCEPT ![m] = @ - amount]
      /\ VaultOk(spotMarket'[m], vault'[m])

(* A debit under the guard, then a credit that checks only dust.           *)
TransferDeposit(u, v, m, amount) ==
  /\ Instruction /\ u # v
  /\ UserPool[u] = MarketPool[m] /\ UserPool[v] = MarketPool[m]
  /\ AccrualDefined(spotMarket[m])
  /\ \E from \in {Move(Accrued(spotMarket[m]), pos[u][m], TRUE, amount, TRUE)} :
     \E to \in {Move(from.mk, pos[v][m], FALSE, amount, FALSE)} :
      /\ net' = [net EXCEPT ![u] = @ - Worth(m, amount), ![v] = @ + Worth(m, amount)]
      /\ WithLimits(m, from, net'[u], TRUE, amount)
      /\ MeetsMargin(Account([pos EXCEPT ![u][m] = from.b],
                             [spotMarket EXCEPT ![m] = from.mk], u), Price, "Initial")
      /\ Held(to.mk, to.b) = 0 => to.b.n = 0
      /\ Covered(to.mk)
      /\ spotMarket' = [spotMarket EXCEPT ![m] = to.mk]
      /\ pos' = [pos EXCEPT ![u][m] = from.b, ![v][m] = to.b]
      /\ VaultOk(to.mk, vault[m])
      /\ UNCHANGED vault

(* Of an account in one pool and one in another: d tokens of its deposit   *)
(* in market x go over as a deposit in y, l tokens of its borrow in market *)
(* z as a borrow in w.  Every leg is under the guard.                      *)
Route(r) ==
  /\ UserPool[r.u] # UserPool[r.v]
  /\ r.x # r.z /\ r.y # r.w
  /\ Mint[r.x] = Mint[r.y] /\ Mint[r.z] = Mint[r.w]
  /\ \A m \in {r.x, r.z} : MarketPool[m] = UserPool[r.u]
  /\ \A m \in {r.y, r.w} : MarketPool[m] = UserPool[r.v]
Routes == {r \in [u : Users, v : Users, x : SpotMarkets, y : SpotMarkets,
                  z : SpotMarkets, w : SpotMarkets] : Route(r)}

Leg(u, m, owed, tokens) ==
  IF tokens = 0 THEN [mk |-> Accrued(spotMarket[m]), b |-> pos[u][m]]
                ELSE Move(Accrued(spotMarket[m]), pos[u][m], owed, tokens, TRUE)

CanGive(u, m, owed, tokens) ==
  tokens > 0 => /\ pos[u][m].owed = owed
                /\ tokens <= Held(Accrued(spotMarket[m]), pos[u][m])

LegOk(m, leg, total, owed, tokens) ==
  tokens > 0 => WithLimits(m, leg, total, owed, tokens)

TransferPools(r, d, l) ==
  LET u == r.u  v == r.v  x == r.x  y == r.y  z == r.z  w == r.w
  IN
  /\ Instruction /\ r \in Routes
  /\ \A m \in {x, y, z, w} : AccrualDefined(spotMarket[m])
  /\ \E fromD \in {Leg(u, x, TRUE, d)}, toD \in {Leg(v, y, FALSE, d)},
        fromB \in {Leg(u, z, FALSE, l)}, toB \in {Leg(v, w, TRUE, l)} :
      /\ net' = [net EXCEPT ![u] = @ - Worth(x, d) + Worth(z, l),
                            ![v] = @ + Worth(y, d) - Worth(w, l)]
      /\ CanGive(u, x, FALSE, d) /\ CanGive(u, z, TRUE, l)
      /\ LegOk(x, fromD, net[u] - Worth(x, d), TRUE, d)
      /\ LegOk(y, toD, net[v] + Worth(y, d), FALSE, d)
      /\ LegOk(z, fromB, net'[u], FALSE, l)
      /\ LegOk(w, toB, net'[v], TRUE, l)
      /\ spotMarket' = [spotMarket EXCEPT ![x] = fromD.mk, ![y] = toD.mk,
                                  ![z] = fromB.mk, ![w] = toB.mk]
      /\ \A m \in {x, y, z, w} : Covered(spotMarket'[m])
      /\ pos' = [pos EXCEPT ![u] = [@ EXCEPT ![x] = fromD.b, ![z] = fromB.b],
                            ![v] = [@ EXCEPT ![y] = toD.b, ![w] = toB.b]]
      /\ Meets(u, "Initial") /\ Meets(v, "Initial")
      /\ d <= vault[x] /\ l <= vault[w]
      /\ vault' = [vault EXCEPT ![x] = @ - d, ![y] = @ + d,
                                ![w] = @ - l, ![z] = @ + l]
      /\ \A m \in {x, y, z, w} : VaultOk(spotMarket'[m], vault'[m])

DepositIntoRevenuePool(m, amount) ==
  /\ Instruction
  /\ spotMarket' = [spotMarket EXCEPT ![m] = UpdateRevenuePool(@, amount)] \* no accrual
  /\ vault' = [vault EXCEPT ![m] = @ + amount]
  /\ VaultOk(spotMarket'[m], vault'[m])
  /\ UNCHANGED <<pos, net>>

(* A keeper's crank of a market's interest and twaps.                      *)
UpdateCumulativeInterest(m) ==
  /\ Instruction /\ AccrualDefined(spotMarket[m])
  /\ spotMarket' = [spotMarket EXCEPT ![m] = Accrued(@)]
  /\ VaultOk(spotMarket'[m], vault[m])
  /\ UNCHANGED <<vault, pos, net>>
-----------------------------------------------------------------------------
(* A swap, two instructions of one transaction: the first lends an amount  *)
(* of x out of the vault, the second books what was not returned of it as  *)
(* a withdrawal and what came in of y as a deposit.                        *)

BeginSwap(u, x, y, lent) ==
  /\ x # y /\ lent <= vault[x]
  /\ UserPool[u] = MarketPool[x] /\ UserPool[u] = MarketPool[y]
  /\ AccrualDefined(spotMarket[x]) /\ AccrualDefined(spotMarket[y])

(* Neither side may grow in a reduce-only market.                          *)
SwapReduces(held, amount, mk) == held >= amount \/ mk.status # "ReduceOnly"

(* Maintenance margin is enough for a swap that improves the account.      *)
SwapMargin(x, y, inBefore, inAfter, outBefore, outAfter) ==
  IF Contribution(x, inAfter) + Contribution(y, outAfter)
       > Contribution(x, inBefore) + Contribution(y, outBefore)
    THEN "Maintenance" ELSE "Initial"

EndSwap(u, x, y, in, out) ==
  \E mx \in {Accrued(spotMarket[x])}, my \in {Accrued(spotMarket[y])} :
  LET had  == Signed(mx, pos[u][x])
      owed == -Signed(my, pos[u][y])
  IN
    \E sold \in {Move(mx, pos[u][x], TRUE, in, TRUE)},
       got \in {Move(my, pos[u][y], FALSE, out, FALSE)} :
      /\ in > 0 /\ out > 0
      /\ WithLimits(x, sold, net[u], TRUE, in)
      /\ SwapReduces(had, in, mx) /\ SwapReduces(owed, out, my)
      /\ Covered(sold.mk) /\ Covered(got.mk)
      /\ spotMarket' = [spotMarket EXCEPT ![x] = sold.mk, ![y] = got.mk]
      /\ pos' = [pos EXCEPT ![u] = [@ EXCEPT ![x] = sold.b, ![y] = got.b]]
      /\ VaultOk(spotMarket'[x], vault'[x]) /\ VaultOk(spotMarket'[y], vault'[y])
      /\ Meets(u, SwapMargin(x, y, had, Signed(sold.mk, sold.b),
                             -owed, Signed(got.mk, got.b)))

Swap(u, x, y, lent, back, out) ==
  /\ Instruction /\ UNCHANGED net
  /\ BeginSwap(u, x, y, lent)
  /\ vault' = [vault EXCEPT ![x] = @ - lent + back, ![y] = @ + out]
  /\ EndSwap(u, x, y, lent - back, out)

SetReduceOnly(m) ==
  /\ Instruction /\ spotMarket[m].status = "Active"
  /\ spotMarket' = [spotMarket EXCEPT ![m].status = "ReduceOnly"]
  /\ UNCHANGED <<vault, pos, net>>

Tick ==
  /\ now < MaxTime /\ now' = now + 1
  /\ UNCHANGED <<spotMarket, vault, pos, net, instructions>>

SpotNext ==
  \/ \E u \in Users, m \in SpotMarkets, a \in Amounts, only \in BOOLEAN :
       Deposit(u, m, a, only) \/ Withdraw(u, m, a, only)
  \/ \E u \in Users, m \in SpotMarkets, a \in Gifts : AdminDeposit(u, m, a)
  \/ \E u, v \in Users, m \in SpotMarkets, a \in Amounts :
       TransferDeposit(u, v, m, a)
  \/ \E r \in Routes, d, l \in Amounts \cup {0} : TransferPools(r, d, l)
  \/ \E m \in SpotMarkets, a \in Gifts : DepositIntoRevenuePool(m, a)
  \/ \E m \in SpotMarkets : UpdateCumulativeInterest(m) \/ SetReduceOnly(m)
  \/ \E u \in Users, x, y \in SpotMarkets, s \in Swaps :
       Swap(u, x, y, s.lent, s.back, s.out)
  \/ Tick

SpotSpec == SpotInit /\ [][SpotNext]_spotVars
-----------------------------------------------------------------------------
(* Properties.                                                             *)

SpotTypeOK ==
  /\ spotMarket \in [SpotMarkets -> Market] /\ vault \in [SpotMarkets -> Nat]
  /\ pos \in [Users -> [SpotMarkets -> Balance]] /\ net \in [Users -> Int]
  /\ now \in Nat /\ instructions \in Nat

(* Every deposit of an account and the revenue pool is counted in the      *)
(* deposits of its market, so that decrease_spot_balance never refuses to  *)
(* give it back; and what the two totals hold together is held by accounts *)
(* and the pool, whatever sides the balances change in between.  The       *)
(* totals need not be the sums of the two sides that their comments        *)
(* promise (state/spot_market.rs:61-67): update_spot_balances takes a      *)
(* balance below a token for empty, and what its owner then borrows joins  *)
(* the remainder, which stays among the deposits.                          *)
SumOf(m, owed) ==
  SumOver(Users, LAMBDA u : IF pos[u][m].owed = owed THEN pos[u][m].n ELSE 0)
BelowToken == (Precision - 1) \div One
BalancesCounted ==
  /\ SpotTypeOK
  /\ \A m \in SpotMarkets :
       /\ SumOf(m, FALSE) + spotMarket[m].revenue <= spotMarket[m].deposits
       /\ spotMarket[m].deposits + spotMarket[m].borrows
            = SumOf(m, FALSE) + SumOf(m, TRUE) + spotMarket[m].revenue

(* However withdrawals, transfers, swaps and the passing of time combine,  *)
(* the guard (check_withdraw_limits) keeps its share of the twap of the    *)
(* deposits in the market, but for what small depositors may take.         *)
GuardFloor ==
  \A m \in SpotMarkets :
    DepositTokens(spotMarket[m]) + Cardinality(Users) * (GuardThreshold \div 10)
      >= MinDeposit(spotMarket[m])

(* An instruction makes the depositors' claims outgrow the vault by no     *)
(* more than roundings: a scaled unit per balance moved, the interest of   *)
(* a token more borrowed and one less lent than there is.                  *)
Excess(m) == Claim(spotMarket[m]) - vault[m]
Rounding(mk) ==
  UpDiv(mk.depositIndex, Precision) + UpDiv(mk.borrowIndex, Precision)
DustOnly ==
  [][\A m \in SpotMarkets :
       Excess(m)' <= Excess(m) + Rounding(spotMarket'[m])]_spotVars

=============================================================================
