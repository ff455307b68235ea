----------------------------- MODULE SpotOrders -----------------------------
(***************************************************************************)
(* Trading the base token of a spot market against the quote token: orders *)
(* of user accounts, matches between them, fills on an exchange outside    *)
(* the program, the fees of both, and the rebates that the exchange pays   *)
(* to the program some time after the fill that earned them.               *)
(*                                                                         *)
(* Balances are signed token amounts (SpotLedger has their interest); the  *)
(* limits of the withdraw guard stand still, as do the averages they come  *)
(* from.  Every order has a limit price and every market order an auction. *)
(* Margin and liquidation status decide whether an instruction is refused  *)
(* or does nothing, so every fill may also not happen; so does a disabled  *)
(* fulfillment config of an exchange.                                      *)
(***************************************************************************)
EXTENDS Integers, FiniteSets, FiniteSetsExt, Sequences

CONSTANTS
  Users, NoFiller,       \* user accounts
  Keepers,               \* those that fill orders and place none
  MaxOrders,             \* length of User.orders (32)
  OrderRequests,         \* the OrderParams each user sends
  Oracles, Twap,         \* oracle prices of the base token, their average
  Band,                  \* how far a price may be from the oracle
  Divergence,            \* and the oracle from its average
  Life,                  \* what a market order lives without max_ts (30)
  Exchanges,             \* [fee, rebate] of one fill on each exchange
  ExchangePrices,
  FeeNum, RebateNum, FeeDen,          \* fee tier of every user
  RewardNum, RewardDen, TimeReward,   \* filler reward structure
  Flat,                  \* flat_filler_fee
  ExpiryBuffer,          \* grace before a keeper may expire a limit order (15)
  DepositFloor, BorrowCap, \* withdraw guard per token; when leaving or not
  Seed,                  \* tokens every account starts with
  MaxId, MaxTime         \* bounds: each user's order ids and the clock

Tokens == {"base", "quote"}
Slots == 1..MaxOrders
OrderParams ==
  [long : BOOLEAN, limit : BOOLEAN, trigger : {"none", "waiting"},
   reduceOnly : BOOLEAN, post : BOOLEAN, size : Nat \ {0}, price : Nat \ {0},
   maxTs : Nat]

ASSUME SpotOrdersAssumption ==
  /\ IsFiniteSet(Users) /\ NoFiller \notin Users /\ Keepers \subseteq Users
  /\ \A u \in Users : /\ OrderRequests[u] \subseteq OrderParams
                      /\ \A t \in Tokens : Seed[u][t] \in Int
  /\ \A e \in Exchanges : e.fee \in Nat /\ e.rebate \in Nat
  /\ \A leaving \in BOOLEAN, t \in Tokens :
       DepositFloor[leaving][t] \in Nat /\ BorrowCap[leaving][t] \in Nat
  /\ {MaxOrders, Band, Divergence, Life, FeeNum, RebateNum, RewardNum, TimeReward,
      Flat} \subseteq Nat
  /\ {FeeDen, RewardDen, MaxTime} \subseteq Nat \ {0}
  /\ ExchangePrices \subseteq Nat /\ Twap \in Oracles

(* validate_fee_structure: rebate and filler reward fit into the fee.      *)
ASSUME FeeTierAssumption ==
  /\ RewardNum <= RewardDen
  /\ RebateNum * RewardDen + FeeNum * RewardNum <= FeeNum * RewardDen

VARIABLES
  now, oracle,
  status,     \* of the base market
  world       \* accounts, vaults, fee pool, fees earned, rebates outstanding

vars == <<now, oracle, status, world>>

Order ==
  [open : BOOLEAN, id : Nat, long : BOOLEAN, limit : BOOLEAN,
   trigger : {"none", "waiting", "fired"}, reduceOnly : BOOLEAN,
   post : BOOLEAN, size : Nat, filled : Nat, paid : Nat, price : Nat, maxTs : Nat,
   slot : Nat]
NoOrder ==
  [open |-> FALSE, id |-> 0, long |-> TRUE, limit |-> TRUE, trigger |-> "none",
   reduceOnly |-> FALSE, post |-> FALSE, size |-> 0, filled |-> 0, paid |-> 0, price |-> 0,
   maxTs |-> 0, slot |-> 0]

Init ==
  /\ now = 1 /\ oracle = Twap
  /\ status = "Active"
  /\ world = [acct   |-> [u \in Users |->
                [orders |-> [i \in Slots |-> NoOrder], nextId |-> 1,
                 base |-> Seed[u].base, quote |-> Seed[u].quote,
                 bids |-> 0, asks |-> 0, posOrders |-> 0, openOrders |-> 0,
                 auctions |-> 0]],
              vault  |-> [t \in Tokens |-> SumFunctionOnSet([u \in Users |-> Seed[u][t]], Users)],
              pool   |-> 0, earned |-> 0, owed |-> 0]
-----------------------------------------------------------------------------
(* Orders.                                                                 *)

Least(a, b) == IF a < b THEN a ELSE b
Most(a, b) == IF a < b THEN b ELSE a
Size(n) == IF n < 0 THEN -n ELSE n
CeilDiv(n, d) == (n + d - 1) \div d

Unfilled(o) == o.size - o.filled
Live(o) == o.trigger # "waiting"
HasAuction(o) == ~o.limit /\ Live(o)

(* What may be filled given the tokens held: a reduce-only order stops at  *)
(* an empty balance.                                                       *)
FillableOf(o, held) ==
  IF ~o.reduceOnly \/ o.post THEN Unfilled(o)
  ELSE IF held # 0 /\ o.long = (held < 0) THEN Least(Unfilled(o), Size(held))
  ELSE 0

ShouldExpire(o, time) == o.open /\ o.maxTs # 0 /\ o.trigger = "none" /\ time > o.maxTs
ShouldCancelReduceOnly(o, held) == o.open /\ o.reduceOnly /\ FillableOf(o, held) = 0

OpenSlots(a) == {i \in Slots : a.orders[i].open}

(* What the orders of the slots reserve on a side; how many auction.       *)
OnSide(a, S, long) ==
  SumFunctionOnSet([i \in S |-> IF a.orders[i].long = long /\ Live(a.orders[i])
                                  THEN Unfilled(a.orders[i]) ELSE 0], S)
Auctions(a, S) == Cardinality({i \in S : HasAuction(a.orders[i])})

Without(a, S) == [i \in Slots |-> IF i \in S THEN NoOrder ELSE a.orders[i]]

CancelUnreserved(a, S) ==
  LET bids == SumFunctionOnSet([i \in S |-> IF a.orders[i].long
                                             THEN Unfilled(a.orders[i]) ELSE 0], S)
  IN  [a EXCEPT !.orders = Without(a, S),
                !.bids = @ - bids, !.asks = @ + OnSide(a, S, FALSE),
                !.posOrders = @ - Cardinality(S), !.openOrders = @ - Cardinality(S),
                !.auctions = @ - Auctions(a, S)]

(* cancel_order for every slot of S; nothing reads a slot that is not open. *)
CancelSlots(a, S) ==
  [a EXCEPT !.orders = Without(a, S),
            !.bids = @ - OnSide(a, S, TRUE), !.asks = @ + OnSide(a, S, FALSE),
            !.posOrders = @ - Cardinality(S), !.openOrders = @ - Cardinality(S),
            !.auctions = @ - Auctions(a, S)]

Cancel(W, u, S) == [W EXCEPT !.acct[u] = CancelSlots(W.acct[u], S)]

(* update_spot_balances                                                    *)
Credit(W, u, t, d) == [W EXCEPT !.acct[u][t] = @ + d]

(* pay_keeper_flat_reward_for_spot; nobody is paid for an account of its   *)
(* own, and the payer may end up owing quote.                              *)
FlatReward(W, payer, f, n) ==
  IF f = NoFiller THEN W
  ELSE Credit(Credit(W, f, "quote", n * Flat), payer, "quote", -n * Flat)

Deposits(W, t) ==
  SumFunctionOnSet([u \in Users |-> Most(W.acct[u][t], 0)], Users)
  + (IF t = "quote" THEN W.pool ELSE 0)
Borrows(W, t) == SumFunctionOnSet([u \in Users |-> Most(-W.acct[u][t], 0)], Users)
-----------------------------------------------------------------------------
(* place_spot_order: the worlds a call that returns Ok may leave.          *)

Expired(a) == CancelSlots(a, {i \in Slots : ShouldExpire(a.orders[i], now)})

ForcedReduceOnly == status = "ReduceOnly"

NewOrder(p, id) ==
  [open |-> TRUE, id |-> id, long |-> p.long, limit |-> p.limit,
   trigger |-> p.trigger, reduceOnly |-> p.reduceOnly \/ ForcedReduceOnly,
   post |-> p.post, size |-> p.size, filled |-> 0, paid |-> 0, price |-> p.price,
   maxTs |-> IF p.maxTs = 0 /\ ~p.limit THEN now + Life ELSE p.maxTs,
   slot |-> now]

ReserveWaiting(a, i, o) ==
  [a EXCEPT !.orders = [a.orders EXCEPT ![i] = o], !.nextId = @ + 1,
            !.bids = IF o.long THEN @ + o.size ELSE @,
            !.asks = IF o.long THEN @ ELSE @ - o.size,
            !.posOrders = @ + 1, !.openOrders = @ + 1,
            !.auctions = IF HasAuction(o) THEN @ + 1 ELSE @]

AddOrder(a, i, o) ==
  [a EXCEPT !.orders = [a.orders EXCEPT ![i] = o], !.nextId = @ + 1,
            !.bids = IF Live(o) /\ o.long THEN @ + o.size ELSE @,
            !.asks = IF Live(o) /\ ~o.long THEN @ - o.size ELSE @,
            !.posOrders = @ + 1, !.openOrders = @ + 1,
            !.auctions = IF HasAuction(o) THEN @ + 1 ELSE @]

OpensNothing(o, held) == o.reduceOnly /\ held # 0 /\ o.long = (held < 0)

FirstFree(a) ==
  {i \in Slots \ OpenSlots(a) : \A j \in Slots \ OpenSlots(a) : i <= j}

PlaceSpotOrder(W, u, p) ==
  LET a == Expired(W.acct[u])
      o == NewOrder(p, a.nextId)
      kept(b) == [W EXCEPT !.acct[u] = b]
  IN  IF p.maxTs # 0 /\ p.maxTs < now THEN {kept(a)}
      ELSE IF ForcedReduceOnly /\ ~OpensNothing(o, a.base) THEN {}
      ELSE {kept(AddOrder(a, i, o)) : i \in FirstFree(a)}
-----------------------------------------------------------------------------
(* What an account can pay: what it holds and may borrow.  Tokens that     *)
(* leave the program must also leave the depositors' floor.                *)

MaxWithdrawUncapped(W, t, held, leaving) == Most(held, 0) + BorrowCap[leaving][t]

MaxWithdraw(W, t, held, leaving) ==
  LET d == Deposits(W, t)
      b == Borrows(W, t)
      room == Most(d - DepositFloor[leaving][t], 0)
  IN  IF held > 0 /\ leaving /\ room <= held THEN room
      ELSE Most(held, 0) + Least(Most(BorrowCap[leaving][t] - b, 0), Most(d - b, 0))

(* get_max_fill_amounts, of the token the order's side pays with.          *)
PaysWith(o) == IF o.long THEN "quote" ELSE "base"
MaxFill(W, u, i, leaving) ==
  LET t == PaysWith(W.acct[u].orders[i])
  IN  MaxWithdraw(W, t, W.acct[u][t], leaving)

FillableAt(W, u, i, price) ==
  LET o == W.acct[u].orders[i]
      n == FillableOf(o, W.acct[u].base)
  IN  Least(n, IF o.long THEN MaxFill(W, u, i, FALSE) \div price
                         ELSE MaxFill(W, u, i, FALSE))

TakerFee(q) == CeilDiv(q * FeeNum, FeeDen)
MakerRebate(q) == (q * RebateNum) \div FeeDen
FillerReward(q) == Least((q * RewardNum) \div RewardDen, TimeReward)

Sign(long) == IF long THEN 1 ELSE -1

(* The account's side of a fill of n for q quote, a charge on top.         *)
FillOrderOf(a, i, n, q, charge) ==
  LET o == a.orders[i]
      done == Unfilled(o) = n
      less == IF done THEN 1 ELSE 0
  IN  [a EXCEPT !.orders = [a.orders EXCEPT ![i] =
                  [o EXCEPT !.filled = o.filled + n, !.paid = o.paid + q, !.open = ~done]],
                !.base = @ + Sign(o.long) * n,
                !.quote = @ - Sign(o.long) * q - charge,
                !.bids = IF o.long THEN @ - n ELSE @,
                !.asks = IF o.long THEN @ ELSE @ + n,
                !.posOrders = @ - less, !.openOrders = @ - less,
                !.auctions = IF done /\ HasAuction(o) THEN @ - 1 ELSE @]
Fill(W, u, i, n, q, charge) ==
  [W EXCEPT !.acct[u] = FillOrderOf(W.acct[u], i, n, q, charge)]

Earn(W, toMarket, toPool) == [W EXCEPT !.earned = @ + toMarket, !.pool = @ + toPool]

Rewarded(W, f, reward) == IF f = NoFiller THEN W ELSE Credit(W, f, "quote", reward)

Crosses(maker, price) == IF maker.long THEN maker.price >= price ELSE maker.price <= price

(* fulfill_spot_order_with_match: at the maker's price.                    *)
MatchOrders(W, t, i, m, j, f) ==
  LET maker == W.acct[m].orders[j]
      n == Least(FillableAt(W, t, i, maker.price), FillableAt(W, m, j, maker.price))
      q == n * maker.price
      fee == TakerFee(q)
      rebate == MakerRebate(q)
      reward == IF f = NoFiller THEN 0 ELSE FillerReward(fee)
      left == fee - reward - rebate
      filled == Fill(Fill(W, t, i, n, q, fee), m, j, n, q, -rebate)
  IN  IF ~Crosses(maker, W.acct[t].orders[i].price) \/ n = 0 THEN W
      ELSE Earn(Rewarded(filled, f, reward), left, left)
-----------------------------------------------------------------------------
(* Fills on an exchange: x has the base tokens n filled, their price, the   *)
(* exchange's terms (its fee and the rebate it will pay) and the older     *)
(* rebates it settled with this fill.                                      *)

(* calculate_fee_for_fulfillment_with_external_market: the filler may be   *)
(* paid ahead of the rebate, from what the fee pool holds.                 *)
ExternalFees(q, x, pool, rewarded) ==
  LET costs == x.terms.fee + x.terms.rebate
      user == Most(TakerFee(q), costs)
      available == Least(user - x.terms.fee, Most(pool, user - costs))
      reward == IF rewarded THEN Least(FillerReward(q), available) ELSE 0
  IN  [user |-> user, reward |-> reward, market |-> user - x.terms.fee - reward,
       pool |-> user - x.terms.fee - reward - x.terms.rebate]

(* What the vaults give and get: a buyer's quote pays the exchange's       *)
(* charges on top, a seller's quote arrives without them.                  *)
VaultAfter(W, long, x) ==
  [base |-> W.vault.base + Sign(long) * x.n,
   quote |-> W.vault.quote + x.settled - Sign(long) * x.n * x.price - x.terms.fee - x.terms.rebate]

ExternalAllowed(W, t, i, x) ==
  LET o == W.acct[t].orders[i]
      most == MaxFill(W, t, i, TRUE)
  IN  /\ Crosses([long |-> ~o.long, price |-> x.price], o.price)
      /\ IF o.long THEN x.n * x.price + x.terms.fee + x.terms.rebate <= most ELSE x.n <= most

RebateTwice(W, t, i, x, f) ==
  LET o == W.acct[t].orders[i]
      fees == ExternalFees(x.n * x.price, x, W.pool + x.settled, f # NoFiller)
      filled == Fill(W, t, i, x.n, x.n * x.price, fees.user)
  IN  [Earn(Rewarded(filled, f, fees.reward), fees.market, fees.market + x.settled)
         EXCEPT !.owed = @ + x.terms.rebate - x.settled,
                !.vault = VaultAfter(W, o.long, x)]

(* fulfill_spot_order_with_external_market                                 *)
FillExternally(W, t, i, x, f) ==
  LET o == W.acct[t].orders[i]
      fees == ExternalFees(x.n * x.price, x, W.pool + x.settled, f # NoFiller)
      filled == Fill(W, t, i, x.n, x.n * x.price, fees.user)
  IN  [Earn(Rewarded(filled, f, fees.reward), fees.market, fees.pool + x.settled)
         EXCEPT !.owed = @ + x.terms.rebate - x.settled,
                !.vault = VaultAfter(W, o.long, x)]

(* The exchange fills nothing: invoke_settle_funds has paid older rebates  *)
(* into the vault by then, and the empty fill it returns names none.       *)
Unmatched(W, settled) ==
  [W EXCEPT !.vault["quote"] = @ + settled, !.owed = @ - settled]

LeavesEnough(W, t) == Deposits(W, t) >= Borrows(W, t)
-----------------------------------------------------------------------------
(* Makers.                                                                 *)

BreachesBand(o) == Sign(o.long) * (o.price - oracle) >= Band

Resting(o) == o.limit
NoJit == [id |-> 0, fresh |-> FALSE]
CanMake(W, t, i, m, j, jit) ==
  LET maker == W.acct[m].orders[j]
      taker == W.acct[t].orders[i]
  IN  /\ maker.open /\ maker.limit /\ Live(maker) /\ maker.long # taker.long
      /\ now = maker.slot /\ now = taker.slot => jit.fresh
      /\ ~taker.post
      /\ Resting(taker) => maker.post \/ maker.slot <= taker.slot
      /\ jit.id # 0 => maker.id = jit.id

(* get_spot_maker_orders_info: the slots of the makers' orders that could  *)
(* match, and those among them that are cancelled for a reward instead.    *)
MakerOrders(W, t, i, makers, jit) ==
  {mj \in (makers \ {t}) \X Slots : CanMake(W, t, i, mj[1], mj[2], jit)}
Unfit(W, mj) ==
  LET o == W.acct[mj[1]].orders[mj[2]]
  IN  \/ BreachesBand(o) \/ ShouldExpire(o, now)
      \/ ShouldCancelReduceOnly(o, W.acct[mj[1]].base)

(* Each maker pays the filler for its own orders.                          *)
CancelUnfit(W, S, f) ==
  LET slots(u) == {i \in Slots : <<u, i>> \in S}
      due == [u \in Users |-> IF f = NoFiller THEN 0 ELSE Cardinality(slots(u)) * Flat]
      earned(u) == IF u = f THEN SumFunctionOnSet(due, Users) ELSE 0
  IN  [W EXCEPT !.acct = [u \in Users |->
        [CancelSlots(W.acct[u], slots(u)) EXCEPT !.quote = @ + (earned(u) - due[u])]]]

(* insert_maker_order_info: the best price first, equal prices in the order *)
(* the accounts came in.                                                   *)
BestFirst(W, S) ==
  LET price(mj) == LET o == W.acct[mj[1]].orders[mj[2]] IN Sign(o.long) * o.price
  IN  {s \in [1..Cardinality(S) -> S] :
         \A k, l \in 1..Cardinality(S) :
           k < l => s[k] # s[l] /\ price(s[k]) >= price(s[l])}

(* The methods of fulfill_spot_order: the exchange, or the makers in turn  *)
(* while the order is open.                                                *)
MatchWhileOpen(W, t, i, mj, f) ==
  IF W.acct[t].orders[i].open THEN MatchOrders(W, t, i, mj[1], mj[2], f) ELSE W
MatchInTurn(W, t, i, s, f) ==
  LET after[k \in 0..Len(s)] ==
        IF k = 0 THEN W ELSE MatchWhileOpen(after[k - 1], t, i, s[k], f)
  IN  after[Len(s)]
MatchAll(W, t, i, makers, f) ==
  {MatchInTurn(W, t, i, s, f) : s \in BestFirst(W, makers)}

ExternalFills(W, t, i) ==
  {x \in [n : 1..FillableOf(W.acct[t].orders[i], W.acct[t].base), price : ExchangePrices,
          terms : Exchanges, settled : {0, W.owed}] : ExternalAllowed(W, t, i, x)}
Affordable(W, token) == W.pool >= 0 /\ LeavesEnough(W, token)

Fulfilled(W, t, i, makers, f, external) ==
  IF ~external THEN MatchAll(W, t, i, makers, f)
  ELSE LET token == PaysWith(W.acct[t].orders[i])
           filled == {FillExternally(W, t, i, x, f) : x \in ExternalFills(W, t, i)}
       IN  {Unmatched(W, settled) : settled \in {0, W.owed}}
             \cup {V \in filled : Affordable(V, token)}
-----------------------------------------------------------------------------
(* fill_spot_order: the worlds a call that returns Ok may leave.           *)

WithinBuffer(o) ==
  o.limit /\ ShouldExpire(o, now) /\ ~ShouldExpire(o, now - ExpiryBuffer)

FillWithinBand(before, after) ==
  LET n == after.filled - before.filled
  IN  n > 0 => Sign(before.long) * ((after.paid - before.paid) \div n - oracle) < Band

RewardedCancel(W, u, i, f) == FlatReward(Cancel(W, u, {i}), u, f, 1)

(* What is left open of a reduce-only order without a balance to reduce,   *)
(* or of an order its owner cannot pay, is cancelled.                      *)
CancelLeftover(W, t, i, f) ==
  LET o == W.acct[t].orders[i]
  IN  IF /\ o.open
         /\ \/ ShouldCancelReduceOnly(o, W.acct[t].base)
            \/ MaxFill(W, t, i, FALSE) = 0
      THEN RewardedCancel(W, t, i, f) ELSE W

FillSpotOrder(W, t, i, keeper, makers, jit, external) ==
  LET f == IF keeper \in makers \cup {t} THEN NoFiller ELSE keeper
      all == MakerOrders(W, t, i, makers, jit)
      unfit == {mj \in all : Unfit(W, mj)}
      swept == CancelUnfit(W, unfit, f)
      o == W.acct[t].orders[i]
  IN  IF Size(oracle - Twap) > Divergence THEN {swept}
      ELSE IF WithinBuffer(o) THEN {}
      ELSE IF ShouldExpire(o, now) \/ ShouldCancelReduceOnly(o, W.acct[t].base)
        THEN {RewardedCancel(swept, t, i, f)}
      ELSE {CancelLeftover(V, t, i, f) : V \in
              {V \in Fulfilled(swept, t, i, all \ unfit, f, external /\ ~o.post) :
                 FillWithinBand(o, V.acct[t].orders[i])}}
-----------------------------------------------------------------------------
(* Instructions.                                                           *)

Traders == Users \ Keepers
Idle == UNCHANGED <<now, oracle, status>>
RoomForId(u) == world.acct[u].nextId < MaxId[u]
Fillable(W, u, i) == W.acct[u].orders[i].open /\ Live(W.acct[u].orders[i])

Place(u, p) ==
  /\ RoomForId(u)
  /\ world' \in PlaceSpotOrder(world, u, p)
  /\ Idle

(* handle_fill_spot_order: makers come along only when accounts match.     *)
FillOrder(t, i, keeper, makers, external) ==
  /\ Fillable(world, t, i)
  /\ external => makers = {}
  /\ world' \in FillSpotOrder(world, t, i, keeper, makers, NoJit, external)
  /\ Idle

LastPlaced(W, u) == {i \in Slots : W.acct[u].orders[i].id = W.acct[u].nextId - 1}
CancelLast(W, u, id) ==
  Cancel(W, u, {i \in OpenSlots(W.acct[u]) : W.acct[u].orders[i].id = id})

(* handle_place_and_take_spot_order fails when nothing was placed.         *)
PlaceAndTake(u, p, makers, external, ioc) ==
  /\ RoomForId(u) /\ ~p.post
  /\ external => makers = {}
  /\ \E W \in PlaceSpotOrder(world, u, p) :
       /\ W.acct[u].nextId # world.acct[u].nextId
       /\ \E i \in LastPlaced(W, u) :
            /\ Fillable(W, u, i)
            /\ \E V \in FillSpotOrder(W, u, i, u, makers, NoJit, external) :
                 world' = IF ioc THEN CancelLast(V, u, W.acct[u].nextId - 1) ELSE V
  /\ Idle

(* handle_place_and_make_spot_order takes the account's last order for the *)
(* one just placed, also when a request out of date placed none.           *)
PlaceAndMake(u, p, t, i, external) ==
  /\ RoomForId(u) /\ u # t
  /\ p.post /\ p.limit /\ p.trigger = "none"
  /\ Fillable(world, t, i)
  /\ \E W \in PlaceSpotOrder(world, u, p) :
       LET id == W.acct[u].nextId - 1
           jit == [id |-> id, fresh |-> id = world.acct[u].nextId]
       IN  \E V \in FillSpotOrder(W, t, i, u, {u}, jit, external) :
             world' = CancelLast(V, u, id)
  /\ Idle

(* trigger_spot_order: the order's condition holds; an order that adds     *)
(* risk is cancelled at once when the account has no margin for it.        *)
TriggerSlot(a, i) ==
  LET o == [a.orders[i] EXCEPT !.trigger = "fired", !.slot = now]
  IN  [a EXCEPT !.orders = [a.orders EXCEPT ![i] = o],
                !.bids = IF o.long THEN @ + o.size ELSE @,
                !.asks = IF o.long THEN @ ELSE @ - o.size,
                !.auctions = IF HasAuction(o) THEN @ + 1 ELSE @]
Triggered(W, u, i) == [W EXCEPT !.acct[u] = TriggerSlot(W.acct[u], i)]

TriggerOrder(u, i, keeper) ==
  LET o == world.acct[u].orders[i]
      f == IF keeper = u THEN NoFiller ELSE keeper
      W == FlatReward(Triggered(world, u, i), u, f, 1)
  IN  /\ o.open /\ ~Live(o)
      /\ Size(oracle - Twap) <= Divergence
      /\ world' \in {W} \cup (IF o.reduceOnly THEN {} ELSE {Cancel(W, u, {i})})
      /\ Idle

CancelOrder(u, i) ==
  /\ world.acct[u].orders[i].open
  /\ world' = Cancel(world, u, {i})
  /\ Idle

CancelOrders(u, sides) ==
  /\ OpenSlots(world.acct[u]) # {}
  /\ world' = Cancel(world, u,
                {i \in OpenSlots(world.acct[u]) : world.acct[u].orders[i].long \in sides})
  /\ Idle

(* force_cancel_orders of an account below its initial margin.             *)
Reducing(o, held) == held # 0 /\ o.long = (held < 0) /\ FillableOf(o, held) <= Size(held)
ForceCancelOrders(u, keeper) ==
  LET a == world.acct[u]
      S == {i \in OpenSlots(a) : ~Reducing(a.orders[i], a.base)}
  IN  /\ world' = FlatReward(Cancel(world, u, S), u, keeper, Cardinality(S))
      /\ Idle

UpdateMarketStatus(s) == status' = s /\ UNCHANGED <<now, oracle, world>>
OracleMoves == oracle' \in Oracles /\ UNCHANGED <<now, status, world>>
Tick == now < MaxTime /\ now' = now + 1 /\ UNCHANGED <<oracle, status, world>>

Next ==
  \/ Tick \/ OracleMoves
  \/ \E s \in {"Active", "ReduceOnly"} : UpdateMarketStatus(s)
  \/ \E u \in Traders : \E p \in OrderRequests[u] : Place(u, p)
  \/ \E t \in Traders, i \in Slots, external \in BOOLEAN :
       \E keeper \in Keepers \cup {t}, makers \in SUBSET (Traders \ {t}) : FillOrder(t, i, keeper, makers, external)
  \/ \E u \in Traders, external, ioc \in BOOLEAN :
       \E p \in OrderRequests[u], makers \in SUBSET (Traders \ {u}) : PlaceAndTake(u, p, makers, external, ioc)
  \/ \E u, t \in Traders, i \in Slots, external \in BOOLEAN : \E p \in OrderRequests[u] :
       PlaceAndMake(u, p, t, i, external)
  \/ \E u \in Traders, i \in Slots : \E keeper \in Keepers \cup {u} : TriggerOrder(u, i, keeper)
  \/ \E u \in Traders, i \in Slots : CancelOrder(u, i)
  \/ \E u \in Traders, sides \in {{TRUE}, {FALSE}, BOOLEAN} : CancelOrders(u, sides)
  \/ \E u \in Traders, keeper \in Keepers : ForceCancelOrders(u, keeper)

Spec == Init /\ [][Next]_vars
-----------------------------------------------------------------------------
(* Properties.                                                             *)

Account ==
  [orders : [Slots -> Order], nextId : Nat, base : Int, quote : Int,
   bids : Nat, asks : Int, posOrders : Nat, openOrders : Nat, auctions : Nat]

(* Every order, counter and balance has its type: no order is filled past  *)
(* its size, nothing unreserved is released, no pool is overdrawn.         *)
TypeOK ==
  /\ now \in 1..MaxTime /\ oracle \in Oracles
  /\ status \in {"Active", "ReduceOnly"}
  /\ world \in [acct : [Users -> Account], vault : [Tokens -> Int],
                pool : Nat, earned : Nat, owed : Nat]
  /\ \A u \in Users, i \in Slots : Unfilled(world.acct[u].orders[i]) >= 0

(* Placing, filling, triggering, expiring and cancelling spot orders in any *)
(* order keep the counts of open orders and auctions and the open bids and *)
(* asks of the position equal to what the order array says, and nothing    *)
(* unreserved is released.                                                 *)
CountersMatchOrders ==
  /\ TypeOK
  /\ \A u \in Users :
       LET a == world.acct[u]
           S == OpenSlots(a)
       IN  /\ a.openOrders = Cardinality(S) /\ a.posOrders = Cardinality(S)
           /\ a.auctions = Auctions(a, S)
           /\ a.bids = OnSide(a, S, TRUE) /\ a.asks = -OnSide(a, S, FALSE)

(* The base vault holds what the accounts hold; the quote vault with what  *)
(* the exchanges owe is what the accounts hold and the market earned, and  *)
(* always covers what accounts and fee pool claim: whichever way an order  *)
(* was filled, although a match splits the fee between maker, filler and   *)
(* pool and an exchange keeps a rebate until a later order.  A rebate that *)
(* is settled by an order the exchange did not fill is earned, and in the  *)
(* vault, but in no pool (Unmatched).                                      *)
Holdings(t) == SumFunctionOnSet([u \in Users |-> world.acct[u][t]], Users)
BooksBalance ==
  /\ world.vault["base"] = Holdings("base")
  /\ world.vault["quote"] + world.owed = Holdings("quote") + world.earned
  /\ world.vault["quote"] >= Holdings("quote") + world.pool

(* Orders are filled only as far as the borrow limit allows: a step takes  *)
(* the borrows of the base token no further than the limit, and those of   *)
(* quote only by the fees and rewards charged on top.                      *)
Requested == UNION {OrderRequests[u] : u \in Users}
LargestSize == Max({p.size : p \in Requested})
LargestPrice == Max({p.price : p \in Requested} \cup ExchangePrices)
Charges == MaxOrders * Cardinality(Users) * Flat
           + 2 * TakerFee(LargestSize * LargestPrice)
BorrowsCapped ==
  [][\A t \in Tokens :
       Borrows(world', t) <= Most(Borrows(world, t), BorrowCap[FALSE][t])
                             + (IF t = "quote" THEN Charges ELSE 0)]_vars
=============================================================================
