---------------------------- MODULE Liquidation ----------------------------
(***************************************************************************)
(* Liquidation and bankruptcy of accounts: the seven liquidations a keeper *)
(* can attempt, the two that take over the losses of a bankrupt account,   *)
(* and the other instructions that touch an account's status bits.         *)
(*                                                                         *)
(* An instruction that fails leaves no trace, so only successful ones are  *)
(* steps.  Paused markets, price bands and limit prices can only refuse an *)
(* attempt and are left out; so are funding, interest and LP shares.       *)
(***************************************************************************)
EXTENDS Margin

CONSTANTS
  Users,
  Scenarios,          \* accounts, prices and pools the program can start from
  Prices,             \* the prices a market's oracle can move to
  MaxTransfers,       \* what a liquidator is ready to take over
  Deposits, Orders,   \* amounts deposited, sizes of the orders placed
  Swaps,              \* sales in and out of a swapping liquidator
  TakerFee, Reward,   \* fee of a fill and flat reward of a keeper, in quote
  ContractTier, AssetTier,     \* ranks of the markets, 0 the safest
  MaxSlot, MaxMoves, MaxActs   \* bounds: slots, price moves, owner's actions

(* Amounts of the program's types, and prices above zero.                  *)
ASSUME LiquidationAssumption ==
  /\ IsFiniteSet(Users)
  /\ \A s \in Scenarios :
       /\ s.spot \in [Users -> [SpotMarkets -> Int]]
       /\ s.perp \in [Users -> [PerpMarkets -> PerpPosition]]
       /\ s.price \in [Markets -> Nat \ {0}]
       /\ s.insurance \in [SpotMarkets -> Nat]
       /\ s.pools \in [PerpMarkets -> [pnl : Nat, fee : Nat, claim : Nat]]
  /\ \A m \in DOMAIN Prices : m \in Markets /\ Prices[m] \subseteq Nat \ {0}
  /\ MaxTransfers \subseteq Nat /\ Deposits \subseteq Nat /\ Orders \subseteq Int
  /\ Swaps \subseteq [in : Nat, out : Nat]
  /\ TakerFee \in Nat /\ Reward \in Nat

VARIABLES
  acct,               \* User: positions and status
  price, slot,
  vault,              \* tokens in the vault of each spot market
  revenue,            \* revenue pool of each spot market
  insurance,          \* insurance vault of each spot market
  pools,              \* pnl pool and fee pool tokens of each perp market
  earned,             \* fees a perp market collected: taker and insurance fees
  written,            \* perp losses taken off the accounts of each market
  rewarded,           \* accounts that received a keeper's or referrer's reward
  moves, acts         \* counters of the bounds

vars == <<acct, price, slot, vault, revenue, insurance, pools, earned,
          written, rewarded, moves, acts>>

funds == <<vault, revenue, insurance, pools, earned, written>>
world == <<price, slot, rewarded, moves, acts>>

(* liquidating and bankrupt are the bits BeingLiquidated and Bankrupt of   *)
(* status, freed is liquidation_margin_freed, episode next_liquidation_id. *)
User == [spot : [SpotMarkets -> Int], perp : [PerpMarkets -> PerpPosition],
         liquidating : BOOLEAN, bankrupt : BOOLEAN,
         freed : Nat, lastActive : Nat, episode : Nat]

IsBeingLiquidated(a) == a.liquidating \/ a.bankrupt

SumUsers(f(_)) == SumOver(Users, f)
Claims(m, accounts) == SumUsers(LAMBDA u : accounts[u].spot[m])
PoolTokens(m) ==
  IF m = Quote THEN SumOver(PerpMarkets, LAMBDA p : pools[p].pnl + pools[p].fee)
               ELSE 0

(* validate_spot_market_vault_amount: the vault covers what is owed.       *)
Backed(m) == vault[m] >= Claims(m, acct) + revenue[m] + PoolTokens(m)

Init ==
  /\ \E s \in Scenarios :
       /\ acct = [u \in Users |->
            [spot |-> s.spot[u], perp |-> s.perp[u], liquidating |-> FALSE,
             bankrupt |-> FALSE, freed |-> 0, lastActive |-> 0, episode |-> 1]]
       /\ price = s.price
       /\ insurance = s.insurance
       /\ pools = s.pools
  /\ slot = 0
  /\ revenue = [m \in SpotMarkets |-> 0]
  /\ vault = [m \in SpotMarkets |-> Claims(m, acct) + PoolTokens(m)]
  /\ \A m \in SpotMarkets : vault[m] >= 0
  /\ earned = [p \in PerpMarkets |-> 0]
  /\ written = [p \in PerpMarkets |-> 0]
  /\ rewarded = {}
  /\ moves = 0 /\ acts = 0
-----------------------------------------------------------------------------
(* The status of an account.                                               *)

EnterAgain(a) ==
  [a EXCEPT !.liquidating = TRUE, !.freed = 0, !.episode = @ + 1]

Enter(a) ==
  IF IsBeingLiquidated(a) THEN a
  ELSE [a EXCEPT !.liquidating = TRUE, !.freed = 0, !.lastActive = slot,
                 !.episode = @ + 1]

Exit(a) == [a EXCEPT !.liquidating = FALSE, !.bankrupt = FALSE, !.freed = 0]

EnterBankruptcy(a) == [a EXCEPT !.liquidating = FALSE, !.bankrupt = TRUE]

(* An owner's activity postpones nothing while the account is liquidated.  *)
Active(a) == IF IsBeingLiquidated(a) THEN a ELSE [a EXCEPT !.lastActive = slot]

Meets(a) == MeetsMargin(a, price, "Maintenance")
CanExit(a) == CanExitLiquidation(a, price)
Shortage(a) == MarginShortage(a, price)

NoOrders(a) ==
  [a EXCEPT !.perp = [m \in PerpMarkets |->
                        [@[m] EXCEPT !.bids = 0, !.asks = 0]]]

(* A liquidation starts or goes on, and takes all orders off the books.    *)
Opened(a) ==
  LET b == NoOrders(Enter(a))
  IN  [b EXCEPT !.freed = @ + Floored(Shortage(a) - Shortage(b))]

ClosedAnyDebt(a, shortage, done) ==
  IF done THEN Exit(a) ELSE IF ~Meets(a) THEN EnterBankruptcy(a) ELSE a

(* It ends when it took what it had to, or when nothing is left to take.   *)
Closed(a, shortage, done) ==
  LET b == [a EXCEPT !.freed = @ + Floored(shortage - Shortage(a))]
  IN  IF done THEN Exit(b)
      ELSE IF IsUserBankrupt(b) THEN EnterBankruptcy(b) ELSE b

Only(u, a) == acct' = [acct EXCEPT ![u] = a] /\ UNCHANGED <<funds, world>>
Both(u, a, l, b) == acct' = [acct EXCEPT ![u] = a, ![l] = b]

CanAttempt(u, l) == u # l /\ ~acct[u].bankrupt /\ ~acct[l].bankrupt

(* Neither SufficientCollateral nor an exit.                               *)
Liquidatable(a) == IF IsBeingLiquidated(a) THEN ~CanExit(a) ELSE ~Meets(a)

Recovered(u) ==
  /\ IsBeingLiquidated(acct[u]) /\ CanExit(acct[u])
  /\ Only(u, Exit(acct[u]))

(* The orders alone were the trouble.                                      *)
Unburdened(u) ==
  /\ CanExit(Opened(acct[u]))
  /\ Only(u, Exit(Opened(acct[u])))

(* What all attempts but a swap have in common.                            *)
Attempt(u, Transfer) ==
  /\ Liquidatable(acct[u])
  /\ \/ Unburdened(u)
     \/ ~CanExit(Opened(acct[u])) /\ Transfer

(* The pace allows a share of what would cover the shortage.               *)
Elapsed(a) == slot - a.lastActive
Pct(a) == MaxPctToLiquidate(a.freed, Shortage(a), Elapsed(a))
Allowed(a, cover) == Lesser(Unbounded, (cover * Pct(a)) \div PctScale)

Held(u, allowed) == allowed = 0 /\ Only(u, Opened(acct[u]))

TakerOk(b) == MeetsMargin(b, price, "Initial")

AddPerp(a, m, base, quote) ==
  [a EXCEPT !.perp[m].base = @ + base, !.perp[m].quote = @ + quote]
AddSpot(a, m, n) == [a EXCEPT !.spot[m] = @ + n]
-----------------------------------------------------------------------------
(* Perp positions: taken over by the liquidator at the oracle price less a *)
(* fee, or sold to makers by an order the liquidator places.               *)

InsuranceFeeOf(a, m, fee) ==
  PerpInsuranceFee(TrackedShortage(a, price, m, Shortage(a)),
                   Size(a.perp[m].base), m, price[m], fee)

(* Order steps to transfer; small positions go as a whole.                 *)
PerpTransfer(a, m, cover) ==
  LET size    == Size(a.perp[m].base)
      allowed == IF cover = Unbounded THEN Unbounded
                 ELSE UpDiv(cover * Pct(a), PctScale)
      least   == IF size * price[m] > SmallPosition THEN 0 ELSE size
  IN  Lesser(size, Larger(allowed, least))

PerpPlan(a, m, max, fee) ==
  LET insured == InsuranceFeeOf(a, m, fee)
      cover   == BaseToCover(Shortage(a), m, price[m], fee, insured)
  IN  [insured |-> insured, cover |-> cover,
       allowed |-> Lesser(Pct(a), cover),            \* zero when held back
       n |-> Lesser(max, PerpTransfer(a, m, cover))]

Toward(n, base) == IF base > 0 THEN -n ELSE n      \* direction to close

FeeOn(value, fee) == (value * fee) \div Scale

HasPerp(a, m) == a.perp[m].base # 0 \/ HasOpenOrder(a.perp[m])

TakeOverPerp(u, l, a, m, plan, fee) ==
  LET side     == Toward(plan.n, a.perp[m].base)
      toLiq    == FeeOn(plan.n * price[m], fee)
      toFund   == FeeOn(plan.n * price[m], plan.insured)
      after    == AddPerp(a, m, side, -side * price[m] - toLiq - toFund)
      takeover == AddPerp(acct[l], m, -side, side * price[m] + toLiq)
  IN  /\ Both(u, Closed(after, Shortage(a), plan.n >= plan.cover), l, takeover)
      /\ TakerOk(takeover)
      /\ earned' = [earned EXCEPT ![m] = @ + toFund]
      /\ UNCHANGED <<vault, revenue, insurance, pools, written, world>>

LiquidatePerp(u, l, m, max) ==
  LET a    == Opened(acct[u])
      fee  == LiquidationFee(m, Elapsed(a))
      plan == PerpPlan(a, m, max, fee)
  IN  /\ CanAttempt(u, l)
      /\ \/ Recovered(u)
         \/ /\ HasPerp(acct[u], m)
            /\ Attempt(u,
                 \/ a.perp[m].base = 0 /\ Only(u, a)
                 \/ a.perp[m].base # 0 /\ Held(u, plan.allowed)
                 \/ /\ a.perp[m].base # 0 /\ plan.allowed # 0
                    /\ TakeOverPerp(u, l, a, m, plan, fee))

(* The order's limit allows a fill up to the fee away from the oracle, and *)
(* the position is judged anew after the fill.  The maker `k` needs the    *)
(* margin of a fill, or only maintenance when the fill made its position   *)
(* smaller.  Fills by the market's own amm are left out, and the market    *)
(* keeps the shares of the fee a maker, a filler or a referrer may get.    *)
FillPrice(m, fee, base, atLimit) ==
  price[m] - (IF atLimit THEN Toward(FeeOn(price[m], fee), -base) ELSE 0)

MakerOk(k, maker, m) ==
  LET before == acct[k].perp[m].base
      now    == maker.perp[m].base
      less   == now = 0 \/ (before * now > 0 /\ Size(now) < Size(before))
  IN  MeetsMargin(maker, price, IF less THEN "Maintenance" ELSE "Fill")

FillByMaker(u, k, a, m, plan, fillPrice) ==
  LET side   == Toward(plan.n, a.perp[m].base)
      toFund == FeeOn(plan.n * fillPrice, plan.insured)
      after  == AddPerp(a, m, side, -side * fillPrice - TakerFee - toFund)
      maker  == AddPerp(acct[k], m, -side, side * fillPrice)
  IN  /\ k # u /\ ~IsBeingLiquidated(acct[k])
      /\ Both(u, Closed(after, Shortage(a), Meets(after)), k, maker)
      /\ MakerOk(k, maker, m)
      /\ earned' = [earned EXCEPT ![m] = @ + TakerFee + toFund]
      /\ UNCHANGED <<vault, revenue, insurance, pools, written, world>>

LiquidatePerpWithFill(u, l, k, m, filled, atLimit) ==
  LET a    == Opened(acct[u])
      base == a.perp[m].base
      plan == PerpPlan(a, m, filled, LiquidatorFee[m])
  IN  /\ CanAttempt(u, l)
      /\ \/ Recovered(u)
         \/ /\ HasPerp(acct[u], m)
            /\ Attempt(u,
                 \/ base = 0 /\ Only(u, a)
                 \/ base # 0 /\ Held(u, plan.allowed)
                 \/ /\ base # 0 /\ plan.allowed # 0
                    /\ FillByMaker(u, k, a, m, plan,
                         FillPrice(m, LiquidationFee(m, Elapsed(a)),
                                   base, atLimit)))
-----------------------------------------------------------------------------
(* Assets against liabilities.  All four plans have the same shape: the    *)
(* units of the liability that would cover the shortage, what the pace,    *)
(* the size and the asset allow of them, and the asset they cost.          *)

Plan(a, max, owed, have, liability, asset, fee) ==
  LET cover == LiabilityToCover(Shortage(a), asset.weight, asset.mult,
                 liability.weight + Buffer, liability.mult,
                 liability.value, fee)
      least == IF owed * liability.value > SmallBorrow THEN 0 ELSE owed
      n     == Lesser(Lesser(max, owed),
                 Lesser(Larger(Allowed(a, cover), least),
                        LiabilityImplied(have, asset.mult, asset.value,
                                         liability.mult, liability.value)))
  IN  [cover |-> cover, allowed |-> Allowed(a, cover), n |-> n, fee |-> fee,
       asset |-> AssetForLiability(have, asset.mult, asset.value, n,
                                   liability.mult, liability.value)]

Moves(plan) == plan.allowed # 0 /\ plan.n # 0 /\ plan.asset # 0

SpotAsset(m) == [value |-> price[m], mult |-> Premium(m),
                 weight |-> AssetWeight["Maintenance"][m]]
SpotOwed(m) == [value |-> price[m], mult |-> Discount(m),
                weight |-> LiabilityWeight["Maintenance"][m]]
PnlAsset(p) == [value |-> 1, mult |-> Premium(p),
                weight |-> PnlWeight["Maintenance"][p]]
PnlOwed(p) == [value |-> 1, mult |-> Discount(p), weight |-> Scale]

(* A borrow with its collateral.  The liquidator takes over the borrow and *)
(* the collateral, and the fund's fee stays on the account as a borrow.    *)
SpotPlan(a, c, b, max) ==
  LET asset == SpotAsset(c)
      owed  == SpotOwed(b)
  IN  Plan(a, max, -a.spot[b], a.spot[c], owed, asset,
           SpotInsuranceFee(TrackedShortage(a, price, b, Shortage(a)),
             -a.spot[b], asset.weight, asset.mult, b, owed.mult, price[b]))

TakeOverSpot(u, l, a, c, b, plan) ==
  LET kept  == FeeOn(plan.n, plan.fee)
      after == AddSpot(AddSpot(a, b, plan.n - kept), c, -plan.asset)
      taker == AddSpot(AddSpot(acct[l], b, -plan.n), c, plan.asset)
  IN  /\ Moves(plan)
      /\ Both(u, Closed(after, Shortage(a), plan.n >= plan.cover), l, taker)
      /\ TakerOk(taker)
      /\ revenue' = [revenue EXCEPT ![b] = @ + kept]
      /\ UNCHANGED <<vault, insurance, pools, earned, written, world>>

LiquidateSpot(u, l, c, b, max) ==
  LET a    == Opened(acct[u])
      plan == SpotPlan(a, c, b, max)
  IN  /\ CanAttempt(u, l) /\ c # b
      /\ acct[u].spot[c] > 0 /\ acct[u].spot[b] < 0
      /\ \/ Recovered(u)
         \/ Attempt(u, /\ plan.cover # Undefined
                       /\ \/ Held(u, plan.allowed)
                          \/ TakeOverSpot(u, l, a, c, b, plan))

(* The same by a swap in one transaction: begin takes the asset out of the *)
(* vault, end brings the liability in and checks the price paid.  Both     *)
(* fail rather than exit, and the pace is not applied to the amount.       *)
SwapLimit(a, c, cover, b) ==
  LET due == AssetForLiability(a.spot[c], Scale, price[c], cover,
                               Scale, price[b])
  IN  Lesser(due + due \div 400, a.spot[c])

BeginSwap(u, c, b, in) ==
  LET a     == Opened(acct[u])
      cover == LiabilityToCover(Shortage(a), SpotAsset(c).weight, Scale,
                 SpotOwed(b).weight + Buffer, Scale, price[b], InsuranceFee[b])
  IN  /\ acct[u].spot[c] > 0 /\ acct[u].spot[b] < 0
      /\ Liquidatable(acct[u]) /\ ~CanExit(a)
      /\ cover # Undefined /\ Allowed(a, cover) # 0
      /\ in <= SwapLimit(a, c, cover, b) /\ in <= vault[c]

EndSwap(u, c, b, in, out) ==
  LET a     == Opened(acct[u])
      kept  == FeeOn(out, InsuranceFee[b])
      after == AddSpot(AddSpot(a, b, out - kept), c, -in)
  IN  /\ SwapWithinBoundaries(in, out, price[c], price[b], c, b)
      /\ acct' = [acct EXCEPT ![u] = Closed(after, Shortage(a), CanExit(after))]
      /\ revenue' = [revenue EXCEPT ![b] = @ + kept]

LiquidateSpotWithSwap(u, l, c, b, in, out) ==
  /\ CanAttempt(u, l) /\ c # b /\ in # 0 /\ out # 0
  /\ BeginSwap(u, c, b, in)
  /\ EndSwap(u, c, b, in, out)
  /\ vault' = [vault EXCEPT ![c] = @ - in, ![b] = @ + out]
  /\ UNCHANGED <<insurance, pools, earned, written, world>>
  /\ Backed(c)' /\ Backed(b)'
-----------------------------------------------------------------------------
(* Settled pnl of a market without a position, against spot balances.      *)

PnlOnly(p) == p.base = 0

TakeOverBorrow(u, l, a, p, b, plan) ==
  LET after == AddPerp(AddSpot(a, b, plan.n), p, 0, -plan.asset)
      taker == AddPerp(AddSpot(acct[l], b, -plan.n), p, 0, plan.asset)
  IN  /\ Moves(plan)
      /\ Both(u, Closed(after, Shortage(a), plan.n >= plan.cover), l, taker)
      /\ TakerOk(taker)
      /\ UNCHANGED <<funds, world>>

LiquidateBorrowForPerpPnl(u, l, p, b, max) ==
  LET a    == Opened(acct[u])
      pnl  == a.perp[p].quote
      plan == Plan(a, max, -a.spot[b], pnl, SpotOwed(b), PnlAsset(p), 0)
  IN  /\ CanAttempt(u, l)
      /\ PnlOnly(acct[u].perp[p]) /\ pnl > 0 /\ acct[u].spot[b] < 0
      /\ \/ Recovered(u)
         \/ Attempt(u, /\ plan.cover # Undefined
                       /\ \/ Held(u, plan.allowed)
                          \/ TakeOverBorrow(u, l, a, p, b, plan))

(* A loss may be paid off only after the safer liabilities of the account. *)
TierCollateral == 2  \* AssetTier::Cross and ContractTier::C
TierUnlisted == 4

IsAsSafeAs(p, a) ==
  /\ \A q \in PerpMarkets :
       a.perp[q] # FlatPerp => ContractTier[p] <= ContractTier[q]
  /\ \/ \A m \in SpotMarkets : a.spot[m] < 0 => AssetTier[m] = TierUnlisted
     \/ /\ \A m \in SpotMarkets : a.spot[m] < 0 => AssetTier[m] >= TierCollateral
        /\ ContractTier[p] <= TierCollateral

TakeOverLoss(u, l, a, p, c, plan) ==
  LET after == AddPerp(AddSpot(a, c, -plan.asset), p, 0, plan.n)
      taker == AddPerp(AddSpot(acct[l], c, plan.asset), p, 0, -plan.n)
  IN  /\ Moves(plan)
      /\ Both(u, Closed(after, Shortage(a), plan.n >= plan.cover), l, taker)
      /\ TakerOk(taker)
      /\ UNCHANGED <<funds, world>>

LiquidatePerpPnlForDeposit(u, l, p, c, max) ==
  LET a    == Opened(acct[u])
      loss == -a.perp[p].quote
      plan == Plan(a, max, loss, a.spot[c], PnlOwed(p), SpotAsset(c), 0)
  IN  /\ CanAttempt(u, l)
      /\ PnlOnly(acct[u].perp[p]) /\ loss > 0 /\ acct[u].spot[c] > 0
      /\ \/ Recovered(u)
         \/ Attempt(u,
              \/ /\ ~IsAsSafeAs(p, a) /\ NoOrders(acct[u]) # acct[u]
                 /\ Only(u, a)
              \/ /\ IsAsSafeAs(p, a) /\ plan.cover # Undefined
                 /\ \/ Held(u, plan.allowed)
                    \/ TakeOverLoss(u, l, a, p, c, plan))

SetUserStatusToBeingLiquidated(u) ==
  /\ ~IsBeingLiquidated(acct[u]) /\ ~Meets(acct[u])
  /\ Only(u, Enter(acct[u]))
-----------------------------------------------------------------------------
(* Bankruptcy.  The insurance fund pays down to its last token, then, for  *)
(* a perp loss, the market's fee pool; the rest is taken from everyone     *)
(* else: through funding for a perp loss, through interest for a borrow.   *)

Declared(a) ==
  IF ~a.bankrupt /\ IsUserBankrupt(a) THEN EnterBankruptcy(a) ELSE a

Resolved(a) == IF IsUserBankrupt(a) THEN a ELSE Exit(a)

CanResolve(u, l) ==
  /\ u # l /\ Declared(acct[u]).bankrupt /\ ~IsBeingLiquidated(acct[l])

(* The revenue settlement both handlers attempt first moves `r` tokens,    *)
(* which the vault must hold.                                              *)
CanSettle(m, r) == r <= vault[m]
InsuranceAfter(m, r) == insurance[m] + r

ResolvePerpBankruptcy(u, l, p, r) ==
  LET a       == Declared(acct[u])
      loss    == -a.perp[p].quote
      paid    == Lesser(Lesser(loss, Floored(InsuranceAfter(Quote, r) - 1)),
                        pools[p].claim)
      fromFee == Lesser(loss - paid, pools[p].fee)
  IN  /\ CanResolve(u, l) /\ CanSettle(Quote, r) /\ loss > 0
      /\ \E w \in Users : acct[w].perp[p].base # 0
      /\ acct' = [acct EXCEPT ![u] =
                     Resolved([a EXCEPT !.perp[p].quote = 0])]
      /\ insurance' = [insurance EXCEPT ![Quote] = @ + r - paid]
      /\ vault' = [vault EXCEPT ![Quote] = @ - r + paid]
      /\ revenue' = [revenue EXCEPT ![Quote] = @ - r]
      /\ pools' = [pools EXCEPT ![p].pnl = @ + paid, ![p].fee = @ - fromFee,
                                ![p].claim = @ - paid]
      /\ written' = [written EXCEPT ![p] = @ + loss]
      /\ UNCHANGED <<earned, world>>

(* Deposits of market m shrink in proportion to cover a loss.              *)
DepositsOf(m, r) ==
  SumUsers(LAMBDA u : Floored(acct[u].spot[m])) + revenue[m] - r + PoolTokens(m)

CutRoundedDown(n, loss, total) ==
  IF n <= 0 \/ loss = 0 THEN n ELSE n - (n * loss) \div total
Cut(n, loss, total) ==
  IF n <= 0 \/ loss = 0 THEN n ELSE n - UpDiv(n * loss, total)

ResolveSpotBankruptcy(u, l, m, r) ==
  LET a      == Declared(acct[u])
      borrow == -a.spot[m]
      paid   == Lesser(borrow, Floored(InsuranceAfter(m, r) - 1))
      loss   == borrow - paid
      total  == DepositsOf(m, r)
      cut(n) == IF total = 0 THEN n ELSE Cut(n, loss, total)
  IN  /\ CanResolve(u, l) /\ CanSettle(m, r) /\ borrow > 0
      /\ total = 0 \/ loss <= total
      /\ acct' = [w \in Users |->
           IF w = u THEN Resolved([a EXCEPT !.spot[m] = 0])
                    ELSE [acct[w] EXCEPT !.spot[m] = cut(@)]]
      /\ insurance' = [insurance EXCEPT ![m] = @ + r - paid]
      /\ vault' = [vault EXCEPT ![m] = @ - r + paid]
      /\ revenue' = [revenue EXCEPT ![m] = cut(@ - r)]
      /\ pools' = IF m # Quote THEN pools
                  ELSE [p \in PerpMarkets |->
                          [pools[p] EXCEPT !.pnl = cut(@), !.fee = cut(@)]]
      /\ UNCHANGED <<earned, written, world>>
-----------------------------------------------------------------------------
(* What else happens to accounts: their owners deposit and trade, keepers  *)
(* and referrers are rewarded by the accounts they serve, prices move.     *)

Acts == acts < MaxActs /\ acts' = acts + 1

DepositForgiving(u, m, n) ==                                         \* mutant
  LET a == AddSpot(acct[u], m, n)
  IN  /\ Acts /\ ~acct[u].bankrupt
      /\ acct' = [acct EXCEPT ![u] =
           Active(IF IsBeingLiquidated(a) THEN Exit(a) ELSE a)]
      /\ vault' = [vault EXCEPT ![m] = @ + n]
      /\ UNCHANGED <<revenue, insurance, pools, earned, written,
                     price, slot, rewarded, moves>>

Deposit(u, m, n) ==
  LET a == AddSpot(acct[u], m, n)
  IN  /\ Acts /\ ~acct[u].bankrupt
      /\ acct' = [acct EXCEPT ![u] =
           Active(IF IsBeingLiquidated(a) /\ CanExit(a) THEN Exit(a) ELSE a)]
      /\ vault' = [vault EXCEPT ![m] = @ + n]
      /\ UNCHANGED <<revenue, insurance, pools, earned, written,
                     price, slot, rewarded, moves>>

(* An order of size n, a bid if positive, may leave a larger position.     *)
RiskIncreasing(q, n) ==
  \/ n > 0 /\ (q.base >= 0 \/ q.bids + n > -q.base)
  \/ n < 0 /\ (q.base <= 0 \/ q.asks - n > q.base)

(* An account in liquidation may place orders once it can leave it; orders *)
(* that only reduce are held to the maintenance margin.                    *)
PlaceOrder(u, p, n) ==
  LET a == IF IsBeingLiquidated(acct[u]) THEN Exit(acct[u]) ELSE acct[u]
      b == [a EXCEPT !.perp[p].bids = @ + Floored(n),
                     !.perp[p].asks = @ + Floored(-n)]
  IN  /\ Acts /\ ~HasOpenOrder(acct[u].perp[p])
      /\ IsBeingLiquidated(acct[u]) => CanExit(acct[u])
      /\ MeetsMargin(b, price, IF RiskIncreasing(acct[u].perp[p], n)
                               THEN "Initial" ELSE "Maintenance")
      /\ acct' = [acct EXCEPT ![u] = Active(b)]
      /\ UNCHANGED <<funds, price, slot, rewarded, moves>>

RewardFromNowhere(v, u, p) ==
  /\ Acts /\ u # v /\ ~IsBeingLiquidated(acct[v])
  /\ acct' = [acct EXCEPT ![u] = AddPerp(@, p, 0, Reward)]
  /\ rewarded' = rewarded \cup {u}
  /\ UNCHANGED <<funds, price, slot, moves>>

KeeperReward(v, u, p) ==
  /\ Acts /\ u # v /\ ~IsBeingLiquidated(acct[v])
  /\ acct[v].perp[p] # FlatPerp
  /\ Both(v, AddPerp(acct[v], p, 0, -Reward),
          u, Active(AddPerp(acct[u], p, 0, Reward)))
  /\ rewarded' = rewarded \cup {u}
  /\ UNCHANGED <<funds, price, slot, moves>>

OracleMove(m, v) ==
  /\ moves < MaxMoves /\ moves' = moves + 1
  /\ v # price[m]
  /\ price' = [price EXCEPT ![m] = v]
  /\ UNCHANGED <<acct, funds, slot, rewarded, acts>>

Tick ==
  /\ slot < MaxSlot /\ slot' = slot + 1
  /\ UNCHANGED <<acct, funds, price, rewarded, moves, acts>>

Liquidate(u, l) ==
  \/ \E m \in PerpMarkets, max \in MaxTransfers : LiquidatePerp(u, l, m, max)
  \/ \E k \in Users, m \in PerpMarkets, n \in MaxTransfers,
        atLimit \in BOOLEAN : LiquidatePerpWithFill(u, l, k, m, n, atLimit)
  \/ \E c, b \in SpotMarkets, max \in MaxTransfers :
       LiquidateSpot(u, l, c, b, max)
  \/ \E c, b \in SpotMarkets, x \in Swaps :
       LiquidateSpotWithSwap(u, l, c, b, x.in, x.out)
  \/ \E p \in PerpMarkets, b \in SpotMarkets, max \in MaxTransfers :
       \/ LiquidateBorrowForPerpPnl(u, l, p, b, max)
       \/ LiquidatePerpPnlForDeposit(u, l, p, b, max)

Resolve(u, l) ==
  \/ \E p \in PerpMarkets, r \in {0, revenue[Quote]} :
       ResolvePerpBankruptcy(u, l, p, r)
  \/ \E m \in SpotMarkets : \E r \in {0, revenue[m]} :
       ResolveSpotBankruptcy(u, l, m, r)

Next ==
  \/ \E u, l \in Users : Liquidate(u, l) \/ Resolve(u, l)
  \/ \E u \in Users : SetUserStatusToBeingLiquidated(u)
  \/ \E u \in Users, m \in SpotMarkets, n \in Deposits : Deposit(u, m, n)
  \/ \E u \in Users, p \in PerpMarkets, n \in Orders : PlaceOrder(u, p, n)
  \/ \E v, u \in Users, p \in PerpMarkets : KeeperReward(v, u, p)
  \/ \E m \in DOMAIN Prices : \E v \in Prices[m] : OracleMove(m, v)
  \/ Tick

Spec == Init /\ [][Next]_vars
-----------------------------------------------------------------------------
(* Properties.                                                             *)

TypeOK ==
  /\ acct \in [Users -> User]
  /\ price \in [Markets -> Nat \ {0}] /\ slot \in Nat
  /\ vault \in [SpotMarkets -> Nat] /\ revenue \in [SpotMarkets -> Nat]
  /\ insurance \in [SpotMarkets -> Nat]
  /\ pools \in [PerpMarkets -> [pnl : Nat, fee : Nat, claim : Nat]]
  /\ earned \in [PerpMarkets -> Nat] /\ written \in [PerpMarkets -> Nat]
  /\ rewarded \subseteq Users /\ moves \in Nat /\ acts \in Nat

(* An account with the Bankrupt bit owns nothing and owes something, but   *)
(* for rewards it was paid since (handlers check the bit, math/bankruptcy  *)
(* decides it once).                                                       *)
BankruptcyIsReal ==
  \A u \in Users :
    acct[u].bankrupt => IsUserBankrupt(acct[u]) \/ u \in rewarded

(* Money is neither made nor lost: every liquidation, swap and bankruptcy  *)
(* leaves enough tokens in each vault for what accounts and pools are      *)
(* owed, perp positions only change hands, and the quote one account loses *)
(* another one, or the market's fees, gets.                                *)
VaultsBacked == \A m \in SpotMarkets : Backed(m)
PerpBase(p) == SumUsers(LAMBDA u : acct[u].perp[p].base)
PerpQuote(p) ==
  SumUsers(LAMBDA u : acct[u].perp[p].quote) + earned[p] - written[p]
PerpZeroSum ==
  [][\A p \in PerpMarkets : PerpBase(p)' = PerpBase(p)
                           /\ PerpQuote(p)' = PerpQuote(p)]_vars
MoneyConserved == []VaultsBacked /\ PerpZeroSum

(* The value of an account at the oracle prices, unweighted.               *)
Equity(a) ==
  SumOver(SpotMarkets, LAMBDA m : a.spot[m] * price[m])
  + SumOver(PerpMarkets, LAMBDA p : UnrealizedPnl(a.perp[p], price[p]))

(* Steps of a liquidation: the prices stand and no owner acts; the losses   *)
(* of the bankrupt are taken over in steps of their own.                   *)
Liquidating == UNCHANGED <<price, slot, moves, acts>>
TakingOver ==
  \E u \in Users : Declared(acct[u]).bankrupt /\ acct'[u] # acct[u]

(* The value of one unit of the coarsest token, which rounding may cost.   *)
Unit == Max({price[m] : m \in SpotMarkets})

(* A liquidation costs nobody but the account it is about, and that one no *)
(* more than the fees on what it hands over, and a remainder.              *)
Fees(u) ==
  LET a == acct[u]
      b == acct'[u]
      soldPerp(p) == Size(b.perp[p].base - a.perp[p].base) * price[p]
                     * (3 * LiquidatorFee[p] + InsuranceFee[p])
      soldSpot(m) == Floored(a.spot[m] - b.spot[m]) * price[m] * 2
                     * Max({LiquidatorFee[n] + InsuranceFee[n] : n \in Markets})
      gainedPnl(p) == Floored(a.perp[p].quote - b.perp[p].quote) * 2
                      * Max({LiquidatorFee[n] : n \in Markets})
  IN  (SumOver(PerpMarkets, LAMBDA p : soldPerp(p) + gainedPnl(p))
       + SumOver(SpotMarkets, soldSpot)) \div Scale

CostsBounded ==
  [][Liquidating /\ ~TakingOver => \A u \in Users :
       LET lost == Equity(acct[u]) - Equity(acct'[u])
       IN  /\ lost > Unit => Liquidatable(acct[u])
           /\ lost <= Fees(u) + Dust + TakerFee + Unit]_vars

(* However often it is called, a liquidation frees no more margin than the  *)
(* slots since the episode began allow; swaps, which pay out of the vault, *)
(* are not paced, and small positions go as a whole.                       *)
Due(a) ==
  ((Shortage(a) + a.freed)
   * Lesser(PctScale, InitialPct + (Elapsed(a) * PctScale) \div Duration))
  \div PctScale
Lump == SmallBorrow + Dust + Unit
KeepsPace ==
  [][\A u \in Users :
       /\ UNCHANGED <<price, slot, vault>> /\ IsBeingLiquidated(acct'[u])
       /\ acct[u].liquidating /\ Shortage(acct[u]) > SmallShortage * Scale
       /\ \A p \in PerpMarkets : ~HasOpenOrder(acct[u].perp[p])
       /\ acct'[u].freed > acct[u].freed
       => acct'[u].freed <= Due(acct[u]) + Lump * Scale]_vars

(* The positions aside, the status of the accounts moves as the abstract   *)
(* life cycle says: an episode per liquidation, bankruptcy only out of one *)
(* or declared where the loss is taken over, one account at a time.        *)
PhaseOf(a) == IF a.bankrupt THEN "bankrupt"
              ELSE IF a.liquidating THEN "liquidating" ELSE "normal"
Statuses == [u \in Users |-> PhaseOf(acct[u])]
Episodes == [u \in Users |-> acct[u].episode]
Lifecycle == INSTANCE AccountLifecycle WITH status <- Statuses, episode <- Episodes
FollowsLifecycle == Lifecycle!Spec

(* Nobody but a taker of positions ends a liquidation short of the margin: *)
(* where no other account changes - a keeper's check, orders cancelled, a   *)
(* swap, the owner's deposit or order - who leaves it meets the maintenance *)
(* margin in full.                                                         *)
LeavesUnaided(u) ==
  /\ PhaseOf(acct[u]) = "liquidating" /\ PhaseOf(acct'[u]) = "normal"
  /\ \A v \in Users \ {u} : acct'[v] = acct[v]

UnaidedExitsHealthy ==
  [][\A u \in Users :
       LeavesUnaided(u) => MeetsMargin(acct'[u], price, "Maintenance")]_vars

(* Who leaves a liquidation meets the maintenance margin: in full without a *)
(* taker, and up to rounding where a transfer to one was computed to cover  *)
(* the shortage.                                                           *)
ExitsHealthy ==
  [][\A u \in Users :
       /\ LeavesUnaided(u) => MeetsMargin(acct'[u], price, "Maintenance")
       /\ acct[u].liquidating /\ ~IsBeingLiquidated(acct'[u]) =>
            TotalCollateral(acct'[u], price, "Maintenance") + 2 * Unit * Scale
              >= MarginRequirement(acct'[u], price, "Maintenance")]_vars
=============================================================================
