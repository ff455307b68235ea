# Drift protocol: TLA+ models

Models of the Drift v2 on-chain program (`src/programs/drift`) and of the
polling account loader of its TypeScript SDK (`src/sdk`). Modules are checked
by TLC on small instances; the theorems are proved by TLAPS for every value of
the constants. Paths below are relative to `src/programs/drift/src` unless they
start with `sdk`.

## The system

The program is a set of Solana instructions over shared accounts. An
instruction is atomic: when it fails, every change it made is rolled back. So
the units of interleaving are whole instructions, sent in any order by users,
their delegates, makers, keepers (fill, trigger, cancel, settle), liquidators,
insurance stakers and the admin, while the clock and the oracles move. What is
hard is not data races but the order of instructions: state that is read long
after it was written (a request, an order, a cumulative rate), amounts booked
in two places, and long legal sequences that end in a state no handler expects.
The SDK is concurrent in the ordinary sense: one event loop, timers, responses
that come late, out of order, or never.

| Component | State | Operations | Talks to |
|---|---|---|---|
| Insurance fund (`controller/insurance.rs`) | vault, total and user shares, shares base; per stake: shares, base, escrowed request | add, request, cancel and remove stake; settle revenue; pay for a bankruptcy | revenue pool of the spot market, pnl pool of a perp market |
| Perp orders of a user (`controller/orders.rs`, `state/user.rs`) | order slots, `next_order_id`, per-market counts of open bids and asks | place, place-and-take, place-and-make, modify, cancel, expire, trigger, fill, force cancel | perp positions, matching, margin |
| Spot orders (`controller/orders.rs`, `state/fulfillment_params`) | the same slots, token balances, the market's fee pool, rebates owed by an exchange | place, match, fill on an exchange, trigger, expire, cancel | spot balances, withdraw guard |
| Signed-message orders (`state/signed_msg_user.rs`, `instructions/keeper.rs`) | table of recent messages per authority | place a signed order, resize and delete the table, make against a uuid | orders of a user |
| Perp market and positions (`controller/position.rs`, `funding.rs`, `pnl.rs`) | base, quote, entry and funding rate of every position; the market's sums, counts, net amm position and rates | fills, liquidation, transfer, funding, pnl settlement, bankruptcy, expiry | amm, token pools, insurance |
| Token pools of a market (`controller/amm.rs`, `repeg.rs`) | pnl pool, fee pool, fee counters, revenue moved and insurance drawn in the period | fees, curve budget, settle pnl, resolve deficit and bankruptcy, settle and release an expired market | revenue pool, insurance fund |
| Spot balances (`controller/spot_balance.rs`, `math/spot_withdraw.rs`) | scaled deposits and borrows, cumulative interest, twaps, revenue pool | deposit, withdraw, transfer to an account or pool, accrue, flash-loan swap | pools, margin, orders |
| Margin and liquidation (`math/margin.rs`, `controller/liquidation.rs`) | status bits of a user, margin freed, insurance spent | start, continue and leave liquidation; bankruptcies | positions, balances, insurance |
| Accounts and their modes (`instructions/user.rs`, `state/*_mode_config.rs`) | statistics, sub-accounts, referrer, idle and mode flags, places taken | open, idle, delete, enter and leave a mode | orders, positions, margin |
| AMM (`controller/amm.rs`, `math/amm*.rs`, `lp.rs`) | reserves, peg, spread, LP accumulators | swap, repeg, update k, LP add and remove | positions, fee pool |
| Insurance rebalancing (`state/if_rebalance_config.rs`) | swapped amounts per epoch | begin and end swap, transfer | insurance fund |
| SDK (`sdk/src/accounts`, `events`, `tx`, `dlob`) | caches keyed by slot, promises outstanding, timers | poll, push, resubscribe, send, confirm | RPC node, websocket |

`PROJECT.json` lists all of them, also those without state worth a model, with
the files and the reason, and the hazards of what is modelled and the properties that
would catch them.

What makes each component correct:

- **Insurance fund**: shares stay backed by the fund, no operation but a loss
  lowers the value of a share, a request can be cancelled as long as the rebases
  since leave a share of it, the fund is never emptied under its shares.
- **Orders**: the counters agree with the orders, an id names one order,
  reduce-only orders only reduce whatever happens to the position between
  placing and filling, nothing is filled after its expiry; spot fills create no
  tokens and respect the borrow limit.
- **Signed messages**: a message is placed at most once, however often and late
  it is submitted; an entry of the table names the message's order.
- **Perp market**: sums, counts and the amm's net position agree with the
  positions; funding is collected once; what is booked covers what is owed but
  for counted fractions; socialised losses are covered.
- **Token pools**: no token is lost, no flow exceeds what was earned or allowed,
  the price at which an expired market is settled is one it can pay.
- **Spot balances**: every deposit is counted, the guard limits every combination of
  outflows, interest never pays out more than it takes in.
- **Liquidation**: it costs no bystander, keeps to its pace, ends in a healthy
  or a bankrupt account, and what is bankrupt owns nothing.
- **Accounts**: every place and every sub-account is counted once; leaving a
  mode makes nobody liquidatable.
- **SDK**: fetched data never goes back in slot, every caller is answered.

## Modules

| Module | What it is |
|---|---|
| `FundMath` | share arithmetic of `math/insurance.rs` and `math/helpers.rs` |
| `InsuranceFund` | one insurance fund, its stakers and the spot market that feeds it |
| `UserOrders` | the perp orders of one account |
| `SignedMsgOrders` | the table of signed messages of one authority |
| `PerpLedger` | one perp market with the positions of its users |
| `PerpPools` | the tokens of one perp market |
| `Margin` | collateral, requirements and what a liquidation takes |
| `AccountLifecycle` | abstract: what the status bits of an account promise |
| `Liquidation` | liquidations and bankruptcies; composes `Margin`, implements `AccountLifecycle` |
| `SpotLedger` | spot balances, interest, withdraw guard, swaps; composes `Margin` |
| `SpotOrders` | spot orders, matches and fills on exchanges |
| `UserAccounts` | accounts of authorities and the two modes with limited places |
| `BulkAccountLoader` | the SDK's polling loader and a polling subscriber |
| `MC*` | values of the constants for TLC |
| `SumTheorems` | lemmas on sums over finite sets, which the proofs share |
| `*Proofs` | theorems about the module of that name; those about `SignedMsgOrders` are in `UserOrdersProofs` with the orders the messages place, those about `PerpPools` and `SpotLedger` in `TokenProofs` |

In every program module an instruction is one action with all calls it makes.
Guards come from the code's checks and early returns. Where an outcome depends
on prices, margin or oracle validity that the module does not hold, the model
allows every outcome; where checked arithmetic would fail, the action is not
taken, as the instruction is rolled back. Each mutated definition, marked as a
mutant or standing next to what it mutates, is a plausible slip in that code;
no model uses it.

### InsuranceFund, FundMath

`fund` is the `InsuranceFund` of a spot market with its vault's balance,
`stake[u]` the `InsuranceFundStake` of `u`, `staked[u]` the copy in the user's
statistics, `now` the clock. `AddStake`, `RequestRemove`, `CancelRequest` and
`RemoveStake` are the staker's instructions, each of which first rebases the
fund and the stake as the code does; `SettleRevenue` moves the revenue pool
into the vault, splits the gain between users and protocol and caps it by the
yearly rate; `PayFromInsurance` pays a bankruptcy, at most the vault less one.
The spot market's revenue pool and the deposit claims are an environment
(`Pools`). `FundMath` has the floored proportions, share prices, rebase
exponents and shares lost on a cancellation. Powers are a constant function
because the provers know nothing of `^`.

Run `insurance_fund`: shares stay backed although stakes are rebased long after
the fund (`StakesBacked`; a stake too many rebases behind to apply them counts
nothing), a cancellation is refused exactly when the rebases since the request
leave no share of it, whatever losses and settlements came in between
(`RequestCancellable`, with all checks of the handler in `CancelAllowed`), shares are ordered and the fund stays open
(`FundSound`), and only a loss dilutes (`NoDilution`).

Bounds: radix 2 instead of 10 makes a rebase happen with vaults of up to 3
tokens, so that every rounding direction occurs; amounts of 1 to 3 are below and
above half of the vault, the two branches of `get_proportion`; two moments are
before and after a cooldown of 1; two stakers are the least that dilute each
other. Left out: cost basis (a statistic), pause flags and the
healthy-utilisation check (both only refuse),
`admin_remove_insurance_fund_stake`, transfers of protocol shares.

### UserOrders

`user` holds the order slots, `next_order_id`, the positions' base amounts and
open bids, asks and order counts per market, and the account's totals. Operators
named after the code's functions map an account to an account (`CancelOrders`,
`ExpireOrders`, `PlacePerpOrder`, `FillOrder`, `SettleReduceOnly`, ...), and
actions compose them in the order in which handlers call them:
`PlaceAndTake` places, fills and cancels the rest of an immediate-or-cancel
order; `ModifyOrder` cancels and places again; placing expires old orders
first. `MovePosition` is everything else that changes a position between two
steps (fills of other orders, liquidation, settlement). Requests and changes
are a set of parameters, one for each way an order can differ that the code
tells apart.

- `user_orders`: counters match the orders (`CountersMatchOrders`), order ids
  and the user's own ids resolve to one order (`IdsResolve`), a reduce-only fill
  never extends or flips a position and nothing is filled after its `max_ts`
  (`FillsAreDue`).
- `user_orders_skip` (violated): `place_and_take` with a `max_ts` that has
  passed places nothing and goes on with the order placed before.

Bounds: two slots and two markets are the least in which a slot is reused
while another order is open and in which counters of two markets can be mixed
up; ids 1 to 3 allow a modification of a replaced order; times 0 to 3 with a
buffer of 1 are before, at and after expiry and its buffer. `MaxOrderId` keeps
ids below the wrap of the 32-bit counter. Left out: a market's status and
force-reduce-only, the account's reduce-only flag, the limit of eight
positions.

### SignedMsgOrders

`table` is `signed_msg_order_data` (`<<>>` while the account does not exist),
`nextId` the `next_order_id` of each account of the authority. `placed` and
`forgotten` are histories: which order was placed for which message, and which
entries the authority removed itself. `PlaceSigned` and `PlaceAgain` are the
two ways `place_signed_msg_taker_order` ends when the message is in time:
placing bracket orders, entry and order, or finding the message known (which
still prunes). Keepers submit any signed message at any time, any number of
times: messages are duplicated, delayed and reordered. `Resize`, `Delete` and
`Initialize` are the owner's instructions. `place_and_make_signed_msg` only
reads the table; what it relies on is `EntriesSound`.

Run `signed_orders`: one order for one message (`PlacedOnce`), a used uuid
blocks until auction and buffer are over (`UuidBlocksForLife`), one entry per
uuid, and the entry of a message without a `max_ts` holds the id of its order
(`EntriesSound`), stale entries never keep a fresh message out
(`TableNotClogged`: pruning leaves room for a message in its time unless every
entry is in its time too; `FindsRoom` is the guard of `PlaceSigned`). Names
begin with `Table` where `UserOrders` has the same one, so that one module can
prove about both.

Bounds: a table of up to two entries is full and not full with three messages;
two messages of two accounts share a uuid and follow each other with one slot
between the first one's auction and its eviction. Slots serve as wall clock.

### PerpLedger

`market` has the `PerpMarket` fields that sum over positions, the cumulative
funding rates and `net_unsettled_funding_pnl`; `position[u]` the base, quote,
entry and last rate of a `PerpPosition`. A *book* is a market with its
positions, and the operators map books to books: `AddQuote`
(`update_quote_asset_amount`), `SettleFunding`, and `UpdatePosition` with its
kinds of update (open and increase in `Extend`, reduce and close in `ReduceBy`,
`Flip`). Actions: `FillWithAmm`, `Match` (with the filler's reward and the
funding update a fill may trigger), `TransferPerpPosition`, `LiquidatePerp`,
`LiquidatePnl`, `SettleFundingPayment`, `SettlePnl`, `UpdateFundingRate`,
`ResolvePerpBankruptcy`, `SettleExpiredMarket`, `SettleExpiredPosition`,
`SettlePoolsToRevenuePool`. "active" stands for the statuses Active and
ReduceOnly. A fill against several makers is several steps, which leaves the
same book.

Run `perp_ledger`: the market's sums, counts and the amm's net base are those
of its positions (`AggregatesMatch`, with what `validate_perp_market`
requires); what is booked as unsettled falls short of what the positions have
coming only by the fractions that were dropped in the users' favour
(`UnsettledFundingCovers`); a step without a rate change takes from what is
booked exactly what the positions it settles are paid, and an update in which
the amm pays stays within its limit (`FundingFair`); socialising a loss takes at
least the unpaid debt from what the positions have coming
(`SocialLossCovered`).

Each payment is divided by `Precision` for its position alone and truncated
(`math/funding.rs:155-175`), in favour of whoever pays. So what positions have
coming exactly (`Claims`) and what they would be paid (`Pending`) differ, and
the simple claims are false of this code: a long of one unit and two shorts of
half a unit each collect 1 and pay 0, and a loss of one unit over four small
positions costs none of them anything. The properties therefore speak of
`Claims`, and say how far the payments fall from them: `market.fractions` is
a history variable that counts the divisions which dropped a fraction in the
users' favour, one unit each is what `UnsettledFundingCovers` allows on top of
what is booked, and less than two units per position with base is what
`SocialLossCovered` allows between the loss and what the positions pay for it.
`FundingCollectedOnce` needs no allowance.

Bounds: three users are the least with a taker, a maker and a filler, and with
two receivers of what one payer pays. A market expires at twice the price;
positions are of one step, fills of up to two (a flip). `Precision` is 3 and a
funding update moves rates by 7, two and a third units of quote for a step, so
every payment drops a fraction. A limit of 0 caps two receivers of one payer to
a third of a unit each; one of 2 lets the amm pay. At most two fractions are
counted on a path. Fees are 0 in the run; the theorems hold for any. Amounts of
trades are whole: the quote of a fill is rounded once and booked alike for both
sides. Left out: LP shares, break-even
amounts, the schedule of funding, and the pools that pay (`PerpPools`).

### PerpPools

`market` has the sums of a perp market (base, quote, unsettled funding), its
pnl and fee pool, what fees it earned, paid and withdrew
(`total_fee_minus_distributions`, `total_fee_withdrawn`, ...), what revenue it
moved in the period and what insurance it drew; `spot` has the revenue pool,
the insurance vault, the users' tokens and the vault that holds them all. The
position an instruction is about is any: the handlers of this module read only
the market's sums. `SettlePnl` is `update_pool_balances` with its four
transfers (protocol and fee pool sweep, revenue both ways, fee to pnl pool)
followed by the settlement in its two modes. Updates of the amm and of funding
that the code does first in the same instruction are actions of their own, which
allows every order the code has and more.

- `perp_pools`: revenue withdrawn was earned, the market moves and draws at
  most its limits in a period, so no checked subtraction gets stuck
  (`FlowsBounded`); the vault has every token, and only a bankruptcy paid by
  the fee pool and a refused trial settlement leave tokens without an owner
  (`TokensAccounted`); the expiry price leaves users no more than both pools
  hold, but for uncollected funding, and settling at it leaves the rest no
  worse covered (`ExpiryFair`).
- `perp_pools_trial` (violated): `settle_multiple_pnls` in trial mode takes the
  gain out of the pnl pool, then refuses and returns Ok.

Bounds: six instructions from a fresh market; four are the least that withdraw
revenue and then shrink the fees it came from, five that settle, expire and
close a position. Amounts of one and two with limits of one and two are at,
below and above each limit. The fee is 2, or none for an expired position.
Tokens bear no interest here.

### Margin, Liquidation, AccountLifecycle

`Margin` translates `math/margin.rs` and `math/liquidation.rs` to operators on
an account (signed token amounts, perp positions with resting orders): weights
and ratios are fractions of `Scale`, every amount carries that factor, so that
nothing is lost but what the code rounds. `Liquidation` has the accounts, the
oracle prices, vaults, revenue and insurance vaults and the pools of perp
markets. `Liquidate` is one of seven (perp, perp with fill, spot, spot with
swap, borrow for perp pnl, perp pnl for deposit, and the transfers inside),
each with entering or continuing the episode, cancelling orders, the exit if
that was enough, the paced transfer, fees and insurance, the second exit and
the decision on bankruptcy. `Resolve` is one of the two bankruptcies.
`Deposit`, `PlaceOrder` and `KeeperReward` are the other instructions that
touch the status bits or a bankrupt account.

`AccountLifecycle` is the abstract specification: an account is normal,
liquidating or bankrupt, episodes are numbered, and an instruction moves one
account. `Liquidation` implements it under the mapping `PhaseOf`.

In a liquidation with a fill the order is matched with one maker, who needs the
margin of a fill, or of maintenance where the fill only reduces its position
(`MakerOk`). Fills by the amm are left out, for the amm has no account here; so are
the shares of the taker's fee that go to maker, filler and referrer: the market
keeps the whole fee.

Run `liquidation`: a bankrupt account owns nothing but rewards it got since
(`BankruptcyIsReal`); vaults keep enough for accounts and pools, and perp
positions only change hands (`MoneyConserved`); a liquidation costs nobody but
its account, and that one no more than the fees (`CostsBounded`); who leaves
meets the maintenance margin, in full where no taker took positions over and
else but for rounding (`ExitsHealthy`); repeated calls free no more
margin than the slots allow (`KeepsPace`; the liquidation lasts one slot here, so
what is paced are calls in the slot of the first); status bits follow the life cycle
(`FollowsLifecycle`).

Bounds: five predicaments (a perp loss with a deposit, a borrow against a
deposit, a borrow against perp profit, a borrow under water, a perp loss
against a token) with one oracle move, one slot and one other instruction;
each is liquidated in pieces of 40 and in one, and the two oracle prices make
it healthy or bankrupt in between. Left out: funding, interest and LP shares
settled first, limit prices, price bands and paused markets, which only refuse.

### SpotLedger

`spotMarket` has the totals, cumulative interest, revenue pool and twaps of every
`SpotMarket`, `pos` the scaled balances, `vault` the tokens, `net` the deposits
less withdrawals of an account. `UpdateSpotBalances` pays off a balance of the
other type before it extends one, with the code's roundings; `Accrued` is the
interest with the stakers' share and the twaps; `BorrowRate` sums over the
segments of the rate curve that the code's loop reaches. `Covered` is the
checked subtraction of `decrease_spot_balance`: an instruction that would take
more from a total than it holds fails. Actions are the instructions:
`Deposit`, `AdminDeposit`, `Withdraw`, `TransferDeposit`, `TransferPools`,
`DepositIntoRevenuePool`, `UpdateCumulativeInterest`, `Swap` (both instructions
of the one transaction) and `SetReduceOnly`.

Run `spot_ledger`: accounts and revenue pool hold what the two totals of a market
hold together, and no less than what they lent is counted as deposits, so that
`decrease_spot_balance` never refuses to give it back (`BalancesCounted`); no
combination of steps gets below the guard's floor (`GuardFloor`; the exception
for small depositors is exercised by its mutant only: in this run no account
uses it to get below the floor); claims outgrow the vault by roundings only
(`DustOnly`).

`state/spot_market.rs:61-67` says more: each total is the sum of the balances on
its side. That is true of a token of nine decimals
(`TotalsExactForNineDecimals`) and false of a token with fewer, as `Findings`
says.

Bounds: three accounts, two pools with two tokens each are the least for a
transfer between accounts, between pools and a swap; three instructions and one
tick from seeded deposits borrow, accrue and repay. Indices of 100, two scaled
units in a token, and a rate that is exaggerated make dust and interest visible
after a tick. Left out: deposit caps,
paused operations, transfer fees of tokens, resting orders.

### SpotOrders

`world` holds the accounts (order slots, balances, open bids and asks), vaults,
the market's fee pool, the fees it says it earned and the rebates an exchange
still owes. `FillOrder` expires, then either matches makers in the order of the
code or fills on an exchange, with fees, the filler's reward, and the amounts
the withdraw guard leaves. An exchange that fills nothing may still settle
older rebates (`Unmatched`). `PlaceAndTake`, `PlaceAndMake`, `TriggerOrder`,
`CancelOrder(s)` and `ForceCancelOrders` are the other instructions. Every fill
may also not happen, since margin and oracle checks can stop it.

Run `spot_orders`: counters match the orders (`CountersMatchOrders`); the base
vault holds what the accounts hold, the quote vault and the rebates owed are
together what the accounts hold and the market earned, and the vault covers what
accounts and fee pool claim (`BooksBalance`; the fee pool may lack earned fees,
see `Findings`); borrows stay within the limit but for fees
(`BorrowsCapped`).

Bounds: a seller and a buyer with two slots each, requests that cross, trigger,
expire, are post-only and reduce-only; one exchange that charges a fee and owes a
rebate of it. Balances are whole tokens (`SpotLedger` has their interest).

### UserAccounts

`stats` and `account` are the `UserStats` and `User` accounts of two
authorities, `config` the two mode configs, `state` the program's counters;
`lost` counts places of deleted members. Actions are opening, entering and
leaving each mode, idling, orders, deposits and withdrawals, fills,
liquidation, deletion by the owner and by a keeper, the opening fee, and the
admin's changes of a config.

Run `user_accounts`: a config counts its members and the places that deleted
members took along (`PlacesAccounted`); counters of accounts, authorities and
referrals agree (`RosterSound`); nobody becomes liquidatable by leaving high
leverage (`DisableIsHarmless`).

Bounds: two authorities with two accounts, one place per mode, two prices; at
most eight instructions and two ticks, which reach forced leaving and both
deletions.

### BulkAccountLoader

An action is what runs between two awaits of `sdk/src/accounts/bulkAccountLoader.ts`
and `pollingUserAccountSubscriber.ts`. `loads` are the calls of `load()`,
`resolver` the one whose promise the next `finally` resolves, `requests` those
at the RPC node, `waiting` what each caller awaits. Nodes answer any batch late,
with any slot up to the newest, with an error, or never; `Write` is the chain
changing accounts; `TimeOut` the client's own timer.

Run `bulk_account_loader`: every caller of a load is answered, or joins another
load, unless a newer one took over the resolver of the promise it joined
(`CallersAnswered`, liveness, one leads-to per caller and load), and a
subscriber's data that came with a slot is never replaced by older data
(`NewestKept`).

`Subscribe` may be handed data, which then has no slot (0 in the model) and
spares the first fetch; any response replaces it. `updateData` is left out.

Bounds: two loads overlap, a subscriber and a caller join; the batch of other
accounts is the second response of a load. Ages of a load run to one past the
limit at which it is given up.

## Fairness and deadlock

The modules of the program state no fairness: the program promises nothing
about when instructions come, and every property of theirs is one of safety.
Their runs do not check deadlock, because counters, clocks and instructions are
bounded and a run stops there.

`BulkAccountLoader` is the exception. `SF(Tick)` says that time passes however
busy the event loop is, `WF(Settle)` that the loop resumes a continuation that
is ready, `WF(TimeOut)` that the client gives up a request at its timeout; these
are what the loop, the timers and the HTTP client guarantee. Nothing is assumed
of the network or of the callers: requests may be answered late, rejected or
never. Its run checks deadlock.

## Proofs

Assumptions are the named `ASSUME`s of the modules: constants are numbers of
the right sign, requests, messages and tables have their types, sets of users
and markets are finite where something is summed over them, `Power` is a table
of powers. For `Liquidation`: weights, ratios and fees are fractions of `Scale`,
a market's two liquidation fees together stay below the whole
(`instructions/admin.rs:2711` and `:2783`), initial weights are no softer than
maintenance weights (`WeightAssumption`: `validate_margin` and
`validate_margin_weights` in `validation/margin.rs`, and
`instructions/admin.rs:3323` for unrealized pnl), the margin buffer is positive, and scenarios are accounts
without status bits, positive prices and pools that are not in debt; `Init` adds
that the vaults cover them. Theorems hold for any number of users, slots,
messages, markets and amounts.

| Theorem | Says |
|---|---|
| `InsuranceFundProofs!GetProportionIsFloor` | both branches of `get_proportion` round down |
| `InsuranceFundProofs!TypesHold`, `FundStaysSound` | `TypeOK` (no unsigned field goes below zero); `FundSound` |
| `InsuranceFundProofs!StakesStayBacked`, `RequestsStayCancellable`, `SharesKeepTheirPrice` | `StakesBacked`, `RequestCancellable`; `NoDilution` |
| `InsuranceFundProofs!SpentRequestsFreezeStakes` | a request of which rebases leave no share is final: nothing changes the stake again |
| `UserOrdersProofs!OrdersStayWellFormed`, `IdsStayResolved`, `CountersStayExact`, `FillsStayDue` | `TypeOK`, `IdsResolve`, `CountersMatchOrders`; `FillsAreDue` |
| `UserOrdersProofs!TableStaysWellFormed`, `MessagesArePlacedOnce`, `UuidsBlockForLife`, `EntriesStaySound`, `TableNeverClogs` | of `SignedMsgOrders`: `TableTypeOK`, `PlacedOnce`, `UuidBlocksForLife`, `EntriesSound`, `TableNotClogged` |
| `PerpLedgerProofs!LedgerStaysWellFormed`, `AggregatesStayExact`, `UnsettledFundingStaysCovered`, `FundingStaysFair`, `SocialLossStaysCovered` | `TypeOK`, `AggregatesMatch`, `UnsettledFundingCovers`; `FundingFair`, `SocialLossCovered`, for any precisions |
| `TokenProofs!FlowsStayBounded`, `TokensStayAccounted`, `ExpirySettlesFairly` | of `PerpPools`: `FlowsBounded`; `TokensAccounted`, `ExpiryFair` |
| `TokenProofs!BalancesStayCounted`, `TotalsExactForNineDecimals` | of `SpotLedger`: `BalancesCounted`; both totals are exact where scaled balances are no finer than token units |
| `SpotOrdersProofs!CountersCorrect`, `BooksCorrect` | `CountersMatchOrders`, `BooksBalance` |
| `LiquidationProofs!LifecycleImplemented` | `Liquidation` implements `AccountLifecycle` (`FollowsLifecycle`) |
| `LiquidationProofs!BankruptciesAreReal`, `TypesHold`, `MoneyStaysConserved` | `BankruptcyIsReal`, `TypeOK`; `MoneyConserved` |
| `LiquidationProofs!UnaidedExitsMeetMargin` | `UnaidedExitsHealthy`, the half of `ExitsHealthy` about exits without a taker |
| `UserAccountsProofs!PlacesStayAccounted`, `RosterStaysSound`, `DisablingStaysHarmless` | `PlacesAccounted`, `RosterSound`; `DisableIsHarmless` |

The argument in each:

- *Sums*: `SumTheorems` derives induction over finite sets, for a set of subsets
  rather than an operator, from the well-foundedness of strict inclusion, and
  with it what `SumFunctionOnSet` returns: a sum changes by what one term
  changes (`SumUpdate`), splits (`SumSplit`), is linear, and bounds its terms.
- *Insurance fund*: types, ordered shares and an open fund are inductive
  together. That the fund is open needs that a payment leaves a token and that
  a withdrawal pays a floored proportion; that shares stay ordered needs that a
  rebase divides totals and stakes by the same power. Lemmas on `FundMath`
  bound every proportion. `StakesBacked` speaks of the shares
  each stake would have once rebased; a rebase of the fund divides every one of
  them and the total alike, and floors of parts add up to no more than the floor
  of the whole. `RequestCancellable` bounds the shares lost by the shares requested,
  which the fund and the stake both have, and shows that a request is zero after
  its rebases exactly when their power exceeds it (`LeftOfRequest`). As the base
  only grows, a request that was rebased away stays so, which is why such a stake
  is frozen. `NoDilution` multiplies out each floored proportion.
- *Orders*: `Good` is stated of any account, because an instruction takes the
  account through several; each operator keeps it, and an action is a chain of
  operators. Uniqueness of ids is inductive with "every id is below
  `next_order_id`"; that cancelling by the user's id finds the open order needs
  "the first slot with that id is the open one". The counters are cardinalities
  and sums over slots: each operator changes one slot, or cancels a set of
  slots one by one. `FillsAreDue` follows each instruction up to the one call
  that fills and shows that every call before and after it fills nothing.
- *Signed messages*: `PlacedOnce` alone is not inductive. The strengthening
  `OrdersRemembered` says that the entry of a placed message is in the table
  until auction and buffer are over or the authority removed it; then a second
  submission either finds the entry or comes too late. That a table never clogs
  follows from the types of its entries alone: pruning clears every entry that is
  over, and the search for a place finds the first cleared one
  (`StaleEntriesMakeRoom`).
- *Spot balances*: `LedgerInv` says of every market that its totals agree with
  the balances but for the dust of the instructions so far, and that both indices
  are at least what they were opened with. The indices are what bounds the dust:
  a deposit that is worth nothing has fewer scaled units than a token had at
  first (`HeldNothing`). An update of a balance is three moves of a balance with
  its total (`GrownBooks`), so each handler only has to show which balances of
  which markets it moved (`BookAddsUp`). In the middle of an instruction a total
  may be negative, and a transfer within a market moves two balances before it is
  checked. Interest raises the deposits by what it adds to the revenue pool
  (`AccrualEnriches`); lemmas on the rate curve, the twaps and the margin of an
  account only say that they are unsigned, which rests on segments that end in
  the order in which they start.
- *Spot orders*: an instruction takes the world through many worlds, so the
  invariant is one of worlds that every helper keeps: each account's counters are
  the sums over its open orders (`AccountOK`), and what accounts, fee pool and
  exchange hold together moves only with the vaults and the fees earned; that an
  unmatched order brings a rebate into the vault changes neither side of that
  equation (`Unmatched`). Matches are folded over the
  makers in any order, which covers the code's choice among equal prices. Two
  facts of the code had to be said for it: a maker's order is filled only while
  it is open and not waiting for its trigger, which is what keeps the counters of
  bids and asks of untriggered orders at zero, and rebate and reward fit into the
  fee, as `validate_fee_structure` requires (`validation/fee_structure.rs:13-103`,
  `FeeTierAssumption`).
- *Perp ledger*: each operator on books gives one user a new record and books
  in the market what the record has more than the old one (`Books`), so every
  sum follows by `SumUpdate` (`Matched`), and so does the surplus of what is
  booked as unsettled over what all positions would be paid, which an operator
  carries on (`Carries`): `FundingCollectedOnce`. The invariant about what is
  owed is `Cover`: what is booked plus one unit for each fraction, times
  `Precision`, is at least what the positions have coming exactly. A settlement
  books what it pays, and where truncation paid too much counts a fraction
  (`NearQuote`); new rates change what is coming by the rate times the base of
  each side (`RatesMove`), and truncation of the capped rate leaves the rest on
  the side of the market (`FundingUpdateKeeps`). A socialised loss is rounded up
  per unit of base, so it covers the debt (`SocialLossKeeps`); payments are
  within a unit of claims for each position (`PaymentsNearClaims`).
- *Pools*: the invariant is `TypeOK`, `FlowsBounded` and that stranded tokens
  are never negative. Each of the four transfers of `update_pool_balances` keeps
  it by itself, and the handlers chain them; types are needed because each
  transfer is the least of several unsigned differences. `TokensAccounted` and
  `ExpiryFair` are action properties that follow step by step from it; the
  second rests on a lemma about truncated division, which says on which side of
  the exact price the expiry price lies.
- *Life cycle and bankruptcies*: the invariant `Roster` only says that every
  user has an account with status bits and an episode. Lemmas show that every
  operator of `Liquidation` leaves those alone or is `Enter`, `Exit` or
  `EnterBankruptcy`; that an attempt never starts on a bankrupt account, so
  `Enter` begins or continues an episode; and that each handler therefore moves
  one account as the life cycle allows, while the others keep their status.
  Amounts play no part there. `BankruptcyIsReal` is inductive with `Roster`,
  since the bit is set right after `is_user_bankrupt` was evaluated, a
  liquidator or maker is never bankrupt, and what a bankrupt account shares of
  another one's loss is taken from deposits, of which it has none.
- *Money*: the invariant is `TypeOK` and `VaultsBacked`. Lemmas on the plans
  show that no instruction takes more than its account, the insurance or a pool
  has where that is unsigned. Then a step is a transfer between two accounts
  with what the revenue pool gains (`TransferSound`), a payment into or out of
  the vault by one account (`OneSound`), or a bankruptcy; in the latter the
  deposits lose at least the part of the loss nobody paid, since each cut is
  rounded up (`CutSums`), and none loses more than it has.
- *Exits*: whoever leaves passed `can_exit_liquidation`, the margin test with a
  buffer on top (`ExitIsStricter`), before the instruction did the rest of its
  work. An order placed after that may raise what the account needs; it is
  judged by maintenance margin if it only reduces the position and else by
  initial margin, which is no weaker because the weights are not (`InitialIsStricter`, from `WeightAssumption`). A covering
  transfer releases the account without a second test; that it then changes the
  taker's account is `TransferLeaves`: what is freed is positive, so one of the
  two amounts is. It needs that plans have the right sign, which is where the
  invariant of *Money* comes in.
- *Accounts and modes*: an instruction writes one account, so the sets that are
  counted (open accounts, those of an authority, members of a mode) gain or lose
  at most one element (`Toggle`, `WrittenCounts`), and the counters move with
  them. That a referrer's first account stays is not inductive: the invariant
  `Referred` adds that the statistics of who was named are marked, which is what
  `validate_user_deletion` refuses; a new account cannot name its own authority,
  which has no account yet. Leaving high leverage asks for the initial margin of
  the default ratios with a buffer, and `AccountsAssumption` says that initial
  ratios are not below maintenance ones, as `validate_margin` has it
  (`DisabledMeets`).

Checked by TLC only:

- `GuardFloor` and `DustOnly` of `SpotLedger` and `BorrowsCapped` of
  `SpotOrders`: each is about a difference of roundings that the code lets
  accumulate (balances scaled down and up, twaps that round toward zero, fees on
  top of a limit). The slack they allow is measured on the instance that the run
  checks; one that holds for every value of the constants would have to grow with
  the number of steps and would say little;
- `CostsBounded`, `ExitsHealthy` and `KeepsPace` of `Liquidation`; of
  `ExitsHealthy`, what `UnaidedExitsMeetMargin` leaves open is the account
  released by a transfer that was computed to cover its shortage. They compose
  several roundings with weights and multipliers: products of three or more
  unknowns, which the provers handle only when led through factor by factor;
- `NewestKept` of `BulkAccountLoader`, and `CallersAnswered`, which is a liveness
  property and out of the provers' reach.

## Findings

- `user_orders_skip`: `place_perp_order` returns Ok without placing when
  `max_ts` has passed, and `place_and_take` and `place_and_make` then act on the
  order placed before. The spot handler refuses this case for taking orders.
- `perp_pools_trial`: in trial mode `settle_pnl` refuses after the pools were
  updated and returns Ok; the tokens taken out of the pnl pool belong to nobody.

Two disagreements have no run of their own. First, the comments at
`state/spot_market.rs:61-67` promise that `deposit_balance` and `borrow_balance`
are the sums of the deposits and of the borrows. A token with fewer than nine
decimals has several scaled units in a token unit, and `update_spot_balances`
(`controller/spot_balance.rs:217`) takes a deposit that is worth less than a
token unit for empty when its owner borrows: the remainder stays in
`deposit_balance` while the balance that holds it becomes a borrow, and
`borrow_balance` is short of it. Two withdrawals of one account show it on
`SpotLedger`, with `Precision = 200` and an index of 100. The proof of
`BalancesStayCounted` bounds it by less than a token per instruction; at worst
the last borrower of a market cannot repay all of a borrow in one instruction,
since `decrease_spot_balance` fails on the missing part. No property states the
promise, and none tolerates what breaks it.

Second, `state/spot_market.rs:52-53` says that the spot fee pool's fees are settled
to the quote market's revenue pool. No instruction does that, and not all fees
reach the pool: `invoke_settle_funds` pays rebates of earlier fills into the quote
vault before the order is known to have matched, and `ExternalSpotFill::empty()`,
returned when it has not, names none of them
(`state/fulfillment_params/serum.rs:607-638`), so
`fulfill_spot_order_with_external_market` returns before it credits the fee pool
(`controller/orders.rs:5088`). The tokens are in the vault and in
`total_spot_fee`, but in no pool. `BooksBalance` speaks of the fees earned and of
the vault, and says of the pool only that the vault covers it.

## Remarks

What the models show of the code that a reader might not expect; none of it is
contradicted by a doc or a test.

Insurance fund
- A rebase may divide a pending request to zero shares. Its owner can then
  neither cancel nor withdraw it (`controller/insurance.rs:352` and `:432`), and
  adding and requesting again are refused while it is pending
  (`instructions/if_staker.rs:97` and `:188`): as the rebase of a refused
  instruction is undone with it, the stake stays frozen
  (`SpentRequestsFreezeStakes`).
- Cancelling a request for all shares of the fund forfeits all of them, even
  though the fund gained nothing (`math/insurance.rs:98`).

Orders
- Modifying an order with a `max_ts` in the past closes it and places nothing
  (`controller/orders.rs:276`).
- A signed message whose `max_ts` passed during its auction is recorded with an
  order id while the order is skipped; the id goes to the account's next order
  (`instructions/keeper.rs:847`).
- Entries of the signed-message table name an order id but no account, although
  the accounts of an authority share the table (`instructions/user.rs:2551`).
- `next_order_id` wraps to 1 after 2^32 - 1 orders (`macros.rs:13`); the model
  stays below.
- `place_and_make_spot_order` lacks the check that an order was placed
  (`instructions/user.rs:2879`).

Perp market and pools
- `net_unsettled_funding_pnl` keeps amounts that no position owes after capped
  funding or a socialised loss, so `settle_expired_market_pools_to_revenue_pool`
  refuses until the admin rewrites it (`instructions/admin.rs:1841`).
- `resolve_perp_pnl_deficit` does not start a new period for
  `revenue_withdraw_since_last_settle`.
- The fee pool's part of a bankruptcy is credited to no pool
  (`controller/liquidation.rs:3442`).
- The expiry price counts both pools, but winners are paid out of the pnl pool
  alone; with a net base of zero it is the target price whatever the pools hold.

Liquidation and spot
- `liquidate_spot_with_swap` is not paced.
- A bankrupt account may still receive rewards.
- Repaying a borrow rounds up to one scaled unit in the debtor's favour, and
  what is left over may change the side of the balance
  (`controller/spot_balance.rs:223`).
- The slope of the borrow rate is undefined for an optimal utilisation of more
  than 85% with the code's breakpoints (`math/spot_balance.rs:207`).
- `end_swap` refuses only when both deposits and withdrawals are paused.
- The reward for filling on an exchange is computed with the quote amount in
  place of the fee and then capped by the fee that is available
  (`math/fees.rs`).
- The taker's fee and flat rewards come on top of the borrow limit; the spot
  fee pool only pays fillers ahead of rebates that are still owed.

Accounts
- Deleting an account never gives back its places in the two modes.
- `handle_enable_user_high_leverage_mode` ignores the returned bool
  (`instructions/user.rs`).
- With a limit of zero sub-accounts the opening fee divides by one.

SDK
- Data handed to `subscribe` has an undefined slot, which no comparison orders:
  any response replaces it, one of a lagging node too
  (`sdk/src/accounts/pollingUserAccountSubscriber.ts:47-49` and `:74`).
- Who joined a load that was overtaken is not answered, and the older load's
  `finally` resolves the newer promise early.
- The comment speaks of a timeout of 30 seconds, the code uses 10.
- A second polling subscriber of a cached account keeps its own lagging fetch
  until the account changes again.

## Not modelled

- The AMM's curve, spread and repeg, and LP shares: 128-bit arithmetic whose
  properties are about precision. Small instances would not have the code's
  roundings, and wide ones are out of TLC's reach. Where the modules need the
  AMM, its outcome is an amount within what the callers check.
- Matching prices, auctions and fulfilment choice of perp orders: fills are
  any amount at an allowed price, which includes those the code picks.
- Oracles and their validity: the environment of every module.
- Insurance-fund rebalancing: one key, two vaults, one transaction; price
  comparisons rather than an order of steps.
- Most of `instructions/admin.rs`: one assignment of a parameter each. The ones
  that move money or counters are in the modules they concern.
- SDK: websocket subscribers, event lists, transaction senders and the book.
  The places there that deserve a model first are the resubscription timer
  (`sdk/src/accounts/webSocketAccountSubscriber.ts:116`), reconnection of the
  event stream (`sdk/src/events/eventSubscriber.ts:190`) and the retry loop
  (`sdk/src/tx/retryTxSender.ts:121`).
- Account loading, decoding, statistics and fuel, vendored bindings, generated
  IDL and deployment tooling: no state of their own on which a decision rests.

## Plan

What would be added next, in this order:

1. Proofs: `ExitsHealthy` for transfers to a taker and `KeepsPace` of
   `Liquidation`, for one kind of liquidation at a time.
2. `TxSender` and `EventList` of the SDK: retries, confirmations and the
   reconnection of the websocket, with liveness as in `BulkAccountLoader`.
3. `IfRebalance`: epochs and limits around `InsuranceFund`.
4. An abstract share vault that `InsuranceFund` implements.
5. LP shares with per-share accumulators on small numbers.
