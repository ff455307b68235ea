----------------------------- MODULE UserOrders -----------------------------
(***************************************************************************)
(* The perp orders of one user account: a fixed array of order slots, the  *)
(* counters kept beside it (open orders and auctions of the account, open  *)
(* orders, bids and asks of each position) and the instructions of the     *)
(* owner, of keepers and of other traders that place, cancel, modify,      *)
(* trigger, expire and fill them.                                          *)
(*                                                                         *)
(* An instruction is atomic and is refused as a whole when a check fails.  *)
(* Prices, oracles, margin and fees only decide which of an instruction's  *)
(* outcomes happens, so the model allows each; amounts are in order steps. *)
(***************************************************************************)
EXTENDS Integers, FiniteSets, FiniteSetsExt

CONSTANTS
  Markets,          \* perp markets
  MaxOrders,        \* length of User.orders (32)
  OrderRequests,    \* the OrderParams the owner sends
  OrderChanges,     \* the ModifyOrderParams the owner sends
  ExpiryBuffer,     \* grace before a keeper may expire a limit order (15)
  MaxOrderId, MaxBase, MaxTime                     \* bounds of the model

(* MaxOrderId stands below u32::MAX: the ids do not wrap around.           *)
VARIABLES
  now,              \* Clock::unix_timestamp
  user              \* the user account

vars == <<now, user>>

Slots == 1 .. MaxOrders
Keep == -1          \* None in a field of ModifyOrderParams

(* An order's kind: limit or market; its trigger: "none" (Market, Limit,   *)
(* Oracle), or a trigger order that is "waiting" or has "fired".  auction  *)
(* is has_auction(), post is post_only.                                    *)
Order ==
  [status : {"init", "open", "filled", "canceled"},
   id : Nat, userId : Nat, market : Markets, long : BOOLEAN, limit : BOOLEAN,
   trigger : {"none", "waiting", "fired"}, auction : BOOLEAN,
   reduceOnly : BOOLEAN, post : BOOLEAN,
   size : Nat, filled : Nat, maxTs : Nat]

OrderParams ==
  [userId : Nat, market : Markets, long : BOOLEAN, limit : BOOLEAN,
   trigger : {"none", "waiting"}, reduceOnly : BOOLEAN,
   post : {"none", "must", "try"}, size : Nat \ {0}, maxTs : Nat]

ModifyOrderParams ==
  [size : Nat \cup {Keep}, excludeFill : BOOLEAN, flip : BOOLEAN,
   maxTs : Nat \cup {Keep}, mustModify : BOOLEAN]

ASSUME OrdersAssumption ==
  /\ Markets # {}
  /\ MaxOrders \in Nat \ {0}
  /\ OrderRequests \subseteq OrderParams
  /\ OrderChanges \subseteq ModifyOrderParams
  /\ ExpiryBuffer \in Nat
  /\ MaxOrderId \in Nat /\ MaxBase \in Nat /\ MaxTime \in Nat

EmptyOrder(m) ==
  [status |-> "init", id |-> 0, userId |-> 0, market |-> m, long |-> TRUE,
   limit |-> TRUE, trigger |-> "none", auction |-> FALSE, reduceOnly |-> FALSE,
   post |-> FALSE, size |-> 0, filled |-> 0, maxTs |-> 0]

Init ==
  /\ now = 0
  /\ user = [orders       |-> [i \in Slots |->
                               EmptyOrder(CHOOSE m \in Markets : TRUE)],
             nextId       |-> 1,
             base         |-> [m \in Markets |-> 0],
             bids         |-> [m \in Markets |-> 0],
             asks         |-> [m \in Markets |-> 0],
             posOrders    |-> [m \in Markets |-> 0],
             openOrders   |-> 0,
             openAuctions |-> 0]
-----------------------------------------------------------------------------
(* Reading orders. *)

IsOpen(o) == o.status = "open"
MustBeTriggered(o) == o.trigger # "none"
(* Orders that count towards the bids and asks of their position.          *)
Live(o) == o.trigger # "waiting"
Unfilled(o) == o.size - o.filled

(* get_base_asset_amount_unfilled of an order given the position.          *)
Abs(n) == IF n < 0 THEN -n ELSE n
FillableIgnoringSide(o, base) ==                                     \* mutant
  IF o.reduceOnly /\ ~o.post
  THEN IF Unfilled(o) < Abs(base) THEN Unfilled(o) ELSE Abs(base)
  ELSE Unfilled(o)
Fillable(o, base) ==
  IF o.reduceOnly /\ ~o.post
  THEN IF o.long = (base < 0) /\ base # 0
       THEN IF Unfilled(o) < Abs(base) THEN Unfilled(o) ELSE Abs(base)
       ELSE 0
  ELSE Unfilled(o)

OpenSlots(u) == {i \in Slots : IsOpen(u.orders[i])}
FreeSlots(u) == Slots \ OpenSlots(u)
OpenIn(u, m) == {i \in OpenSlots(u) : u.orders[i].market = m}
OpenAuctions(u) == {i \in OpenSlots(u) : u.orders[i].auction}

(* The unfilled amount of the slots S on one side of market m, counting    *)
(* the orders that are in bids and asks.                                   *)
OnSide(u, S, m, long) ==
  SumFunctionOnSet([i \in Slots |-> Unfilled(u.orders[i])],
    {i \in S : /\ u.orders[i].market = m /\ u.orders[i].long = long
               /\ Live(u.orders[i])})

ShouldExpireAfterBuffer(o, time) ==                                  \* mutant
  /\ IsOpen(o) /\ o.maxTs # 0 /\ ~MustBeTriggered(o)
  /\ time > o.maxTs + ExpiryBuffer
ShouldExpire(o, time) ==
  /\ IsOpen(o) /\ o.maxTs # 0 /\ ~MustBeTriggered(o)
  /\ time > o.maxTs
ShouldCancelReduceOnly(o, base) ==
  IsOpen(o) /\ o.reduceOnly /\ Fillable(o, base) = 0

IsPositionReducing(o, base) ==
  o.long = (base < 0) /\ base # 0 /\ Fillable(o, base) <= Abs(base)
-----------------------------------------------------------------------------
(* Operations: each maps a user account to a user account. *)

Without(n, k) == IF n > k THEN n - k ELSE 0             \* saturating_sub

Plus(f, m, n) == [k \in Markets |-> IF k = m THEN f[k] + n ELSE f[k]]
NextIdUnchanged(u) == u.nextId                                       \* mutant
NextId(u) == u.nextId + 1                           \* get_then_update_id!

(* What the cancelled slots S give back to one side of market m.           *)
ReleasedWhole(u, S, m, long) ==                                      \* mutant
  SumFunctionOnSet([i \in Slots |-> u.orders[i].size],
    {i \in S : /\ u.orders[i].market = m /\ u.orders[i].long = long
               /\ Live(u.orders[i])})
Released(u, S, m, long) == OnSide(u, S, m, long)

(* cancel_order for every slot of S, a set of open orders.                 *)
CancelOrders(S, u) ==
  [orders       |-> [i \in Slots |-> IF i \in S
                       THEN [u.orders[i] EXCEPT !.status = "canceled"]
                       ELSE u.orders[i]],
   nextId       |-> u.nextId,
   base         |-> u.base,
   bids         |-> [m \in Markets |-> u.bids[m] - Released(u, S, m, TRUE)],
   asks         |-> [m \in Markets |-> u.asks[m] + Released(u, S, m, FALSE)],
   posOrders    |-> [m \in Markets |-> u.posOrders[m]
                       - Cardinality({i \in S : u.orders[i].market = m})],
   openOrders   |-> Without(u.openOrders, Cardinality(S)),
   openAuctions |-> Without(u.openAuctions,
                       Cardinality({i \in S : u.orders[i].auction}))]

CancelOrder(i, u) == CancelOrders({i}, u)

ExpireOrders(u) ==
  CancelOrders({i \in Slots : ShouldExpire(u.orders[i], now)}, u)

(* The first slot that does not hold an open order, if there is one.       *)
LastFree(u) ==                                                       \* mutant
  {i \in FreeSlots(u) : \A j \in FreeSlots(u) : i >= j}
FirstFree(u) ==
  {i \in FreeSlots(u) : \A j \in FreeSlots(u) : i <= j}

(* Trigger and post-only orders start without an auction; another gets one *)
(* by its parameters, its type or because its price crosses.               *)
Auctions(p) ==
  IF p.trigger # "none" \/ p.post # "none" THEN {FALSE} ELSE BOOLEAN

NewOrder(p, id, auction) ==
  [status |-> "open", id |-> id, userId |-> p.userId, market |-> p.market,
   long |-> p.long, limit |-> p.limit, trigger |-> p.trigger,
   auction |-> auction, reduceOnly |-> p.reduceOnly,
   post |-> p.post # "none", size |-> p.size, filled |-> 0, maxTs |-> p.maxTs]

(* The new order enters the array, the counters and its position.          *)
AddOrder(i, o, u) ==
  [orders       |-> [u.orders EXCEPT ![i] = o],
   nextId       |-> NextId(u),
   base         |-> u.base,
   bids         |-> IF Live(o) /\ o.long
                    THEN Plus(u.bids, o.market, o.size) ELSE u.bids,
   asks         |-> IF Live(o) /\ ~o.long
                    THEN Plus(u.asks, o.market, -o.size) ELSE u.asks,
   posOrders    |-> Plus(u.posOrders, o.market, 1),
   openOrders   |-> u.openOrders + 1,
   openAuctions |-> u.openAuctions + (IF o.auction THEN 1 ELSE 0)]

SkipId(u) ==
  [orders |-> u.orders, nextId |-> NextId(u), base |-> u.base,
   bids |-> u.bids, asks |-> u.asks, posOrders |-> u.posOrders,
   openOrders |-> u.openOrders, openAuctions |-> u.openAuctions]

UserIdUsed(n, u) == \E i \in OpenSlots(u) : u.orders[i].userId = n

(* place_perp_order: the accounts a call that returns Ok may leave.  Its   *)
(* order may be skipped because it is out of date, or, when it only tries  *)
(* to be post-only, because it would cross.                                *)
PlacePerpOrder(p, before) ==
  LET u == ExpireOrders(before)
  IN  IF FreeSlots(u) = {} \/ (p.userId > 0 /\ UserIdUsed(p.userId, u))
      THEN {}
      ELSE IF p.maxTs # 0 /\ p.maxTs < now
           THEN {u}
           ELSE {AddOrder(i, NewOrder(p, u.nextId, a), u) :
                   i \in FirstFree(u), a \in Auctions(p)}
                  \cup (IF p.post = "try" THEN {SkipId(u)} ELSE {})

Side(long) == IF long THEN 1 ELSE -1

FillsUpAlone(o, a) == a = o.size                                     \* mutant
FillsUp(o, a) == o.filled + a = o.size

(* The effect of a fill of amount a on the account, as taker or maker.     *)
FillOrder(i, a, u) ==
  LET o == u.orders[i]
      done == FillsUp(o, a)
  IN  [orders       |-> [u.orders EXCEPT ![i] =
                           [o EXCEPT !.filled = o.filled + a,
                                     !.status = IF done THEN "filled"
                                                        ELSE "open"]],
       nextId       |-> u.nextId,
       base         |-> Plus(u.base, o.market, Side(o.long) * a),
       bids         |-> IF o.long THEN Plus(u.bids, o.market, -a)
                                  ELSE u.bids,
       asks         |-> IF o.long THEN u.asks
                                  ELSE Plus(u.asks, o.market, a),
       posOrders    |-> IF done THEN Plus(u.posOrders, o.market, -1)
                                ELSE u.posOrders,
       openOrders   |-> IF done THEN Without(u.openOrders, 1) ELSE u.openOrders,
       openAuctions |-> IF done /\ o.auction THEN Without(u.openAuctions, 1)
                                             ELSE u.openAuctions]

(* A reduce-only order left without a position to reduce is cancelled.     *)
SettleReduceOnly(i, u) ==
  IF ShouldCancelReduceOnly(u.orders[i], u.base[u.orders[i].market])
  THEN CancelOrder(i, u) ELSE u

(* should_expire_order_before_fill refuses the instruction while a limit   *)
(* order is within the buffer after its max_ts.                            *)
WithinBuffer(o) == /\ o.limit /\ ShouldExpire(o, now)
                   /\ ~ShouldExpire(o, now - ExpiryBuffer)

(* fill_perp_order of the order in slot i as the taker.  It does nothing   *)
(* while the user is liquidated or bankrupt or the oracle diverges.        *)
FillPerpOrder(i, u) ==
  LET o    == u.orders[i]
      base == u.base[o.market]
  IN  IF ~IsOpen(o) \/ ~Live(o) THEN {}
      ELSE {u} \cup
           (CASE WithinBuffer(o) -> {}
              [] ~WithinBuffer(o) /\ (ShouldExpire(o, now)
                                      \/ ShouldCancelReduceOnly(o, base))
                 -> {CancelOrder(i, u)}
              [] OTHER -> {SettleReduceOnly(i, FillOrder(i, a, u)) :
                             a \in 1 .. Fillable(o, base)})

(* The order as a maker for someone else's taker order: cancelled when it  *)
(* is out of date, off the oracle's price or would increase a position it  *)
(* must reduce, otherwise filled, if at all, by some amount.               *)
MakeOrder(i, u) ==
  LET o    == u.orders[i]
      base == u.base[o.market]
  IN  IF ~IsOpen(o) \/ ~o.limit \/ ~Live(o) THEN {}
      ELSE {CancelOrder(i, u)} \cup
           (IF ShouldExpire(o, now) \/ ShouldCancelReduceOnly(o, base)
            THEN {}
            ELSE {FillOrder(i, a, u) : a \in 1 .. Fillable(o, base)})

(* merge_modify_order_params_with_existing_order: what to place instead of *)
(* o, unless the fills so far leave nothing of the new size.               *)
NewSize(o, c) ==
  IF c.size = Keep THEN Unfilled(o)
  ELSE IF c.excludeFill THEN Without(c.size, o.filled) ELSE c.size

MergedParams(o, c) ==
  [userId |-> o.userId, market |-> o.market,
   long |-> IF c.flip THEN ~o.long ELSE o.long, limit |-> o.limit,
   trigger |-> IF MustBeTriggered(o) THEN "waiting" ELSE "none",
   reduceOnly |-> o.reduceOnly,
   post |-> IF o.post THEN "must" ELSE "none", size |-> NewSize(o, c),
   maxTs |-> IF c.maxTs = Keep THEN o.maxTs ELSE c.maxTs]

ModifyOrderAt(i, c, u) ==
  LET o == u.orders[i]
      cancelled == CancelOrder(i, u)
  IN  IF NewSize(o, c) = 0
      THEN IF c.size # Keep /\ c.excludeFill THEN {cancelled} ELSE {}
      ELSE PlacePerpOrder(MergedParams(o, c), cancelled)
-----------------------------------------------------------------------------
(* The owner's instructions. *)

(* place_perp_order alone, or several times in place_orders.               *)
Place(p) ==
  /\ user.nextId < MaxOrderId
  /\ user' \in PlacePerpOrder(p, user)
  /\ UNCHANGED now

(* The slots of the order the program takes for the one just placed: that  *)
(* with get_last_order_id().                                               *)
LastPlaced(u) == {i \in OpenSlots(u) : u.orders[i].id = u.nextId - 1}

CancelIfOpen(i, u) == IF IsOpen(u.orders[i]) THEN CancelOrder(i, u) ELSE u

(* place_and_take_perp_order: place, fill as the taker, and cancel what is *)
(* left of an immediate-or-cancel order.  Only the market of the request   *)
(* is writable.                                                            *)
PlaceAndTake(p, ioc) ==
  /\ p.post = "none"
  /\ user.nextId < MaxOrderId
  /\ \E u \in PlacePerpOrder(p, user) : \E i \in LastPlaced(u) :
       \E filled \in FillPerpOrder(i, u) :
         /\ u.orders[i].market = p.market
         /\ user' = IF ioc THEN CancelIfOpen(i, filled) ELSE filled
  /\ UNCHANGED now

(* place_and_make_perp_order: place a post-only order, let one taker fill  *)
(* it, cancel what is left of it; the taker is in the request's market.    *)
PlaceAndMake(p) ==
  /\ p.post # "none" /\ p.limit /\ p.trigger = "none"
  /\ user.nextId < MaxOrderId
  /\ \E u \in PlacePerpOrder(p, user) :
       \/ LastPlaced(u) = {} /\ user' = u
       \/ \E i \in LastPlaced(u) :
            \E made \in {u} \cup (IF u.orders[i].market = p.market
                                THEN MakeOrder(i, u) ELSE {}) :
              user' = CancelIfOpen(i, made)
  /\ UNCHANGED now

(* cancel_order_by_order_id; an unknown id is no error.                    *)
CancelById(id) ==
  /\ \E i \in OpenSlots(user) : /\ user.orders[i].id = id
                                /\ user' = CancelOrder(i, user)
  /\ UNCHANGED now

(* cancel_order_by_user_order_id takes the first slot that has the id,     *)
(* whatever its status, and is refused when that order is not open.        *)
SlotOfUserId(n, u) ==
  {i \in Slots : /\ u.orders[i].userId = n
                 /\ \A j \in Slots : u.orders[j].userId = n => i <= j}

CancelByUserId(n) ==
  /\ \E i \in SlotOfUserId(n, user) : /\ IsOpen(user.orders[i])
                                      /\ user' = CancelOrder(i, user)
  /\ UNCHANGED now

(* cancel_orders, filtered by market and direction: by the owner, or by a  *)
(* liquidation that starts on the account.                                 *)
CancelFiltered(markets, sides) ==
  /\ OpenSlots(user) # {}
  /\ user' = CancelOrders({i \in OpenSlots(user) :
               /\ user.orders[i].market \in markets
               /\ user.orders[i].long \in sides}, user)
  /\ UNCHANGED now

ModifyOrder(i, c) ==
  /\ IsOpen(user.orders[i])
  /\ user.nextId < MaxOrderId
  /\ user' \in ModifyOrderAt(i, c, user)
  /\ UNCHANGED now
-----------------------------------------------------------------------------
(* Keepers and other traders. *)

FillAsTaker(i) == user' \in FillPerpOrder(i, user) \ {user} /\ UNCHANGED now
FillAsMaker(i) == user' \in MakeOrder(i, user) /\ UNCHANGED now

(* The order's trigger condition holds: it becomes live with an auction,   *)
(* and is cancelled at once if it adds risk the account has no margin for. *)
TriggeredOrder(i, u) ==
  LET o == u.orders[i]
  IN  [orders       |-> [u.orders EXCEPT ![i] =
                           [o EXCEPT !.trigger = "fired", !.auction = TRUE]],
       nextId       |-> u.nextId,
       base         |-> u.base,
       bids         |-> IF o.long THEN Plus(u.bids, o.market, o.size)
                                  ELSE u.bids,
       asks         |-> IF o.long THEN u.asks
                                  ELSE Plus(u.asks, o.market, -o.size),
       posOrders    |-> u.posOrders,
       openOrders   |-> u.openOrders,
       openAuctions |-> u.openAuctions + 1]

TriggerOrder(i) ==
  /\ IsOpen(user.orders[i]) /\ ~Live(user.orders[i])
  /\ \/ user' = TriggeredOrder(i, user)
     \/ /\ ~user.orders[i].reduceOnly
        /\ user' = CancelOrder(i, TriggeredOrder(i, user))
  /\ UNCHANGED now

(* force_cancel_orders of an account below its initial margin: all orders  *)
(* but those that reduce a position.                                       *)
ForceCancelOrders ==
  /\ OpenSlots(user) # {}
  /\ user' = CancelOrders({i \in OpenSlots(user) :
               LET o == user.orders[i]
               IN  ~IsPositionReducing(o, user.base[o.market])}, user)
  /\ UNCHANGED now

(* The rest of the program moves the position without an order: LP         *)
(* settlement, liquidation, a transfer.                                    *)
MovePosition(m, b) ==
  /\ user' = [orders |-> user.orders, nextId |-> user.nextId,
              base |-> [user.base EXCEPT ![m] = b], bids |-> user.bids,
              asks |-> user.asks, posOrders |-> user.posOrders,
              openOrders |-> user.openOrders,
              openAuctions |-> user.openAuctions]
  /\ UNCHANGED now

Tick == now < MaxTime /\ now' = now + 1 /\ UNCHANGED user

Next ==
  \/ Tick
  \/ \E p \in OrderRequests : Place(p)
  \/ \E p \in OrderRequests, ioc \in BOOLEAN : PlaceAndTake(p, ioc)
  \/ \E p \in OrderRequests : PlaceAndMake(p)
  \/ \E id \in 1 .. MaxOrderId : CancelById(id)
  \/ \E n \in {p.userId : p \in OrderRequests} : CancelByUserId(n)
  \/ \E markets \in {Markets} \cup {{m} : m \in Markets},
        sides \in {BOOLEAN, {TRUE}, {FALSE}} : CancelFiltered(markets, sides)
  \/ \E i \in Slots, c \in OrderChanges : ModifyOrder(i, c)
  \/ \E i \in Slots : FillAsTaker(i)
  \/ \E i \in Slots : FillAsMaker(i)
  \/ \E i \in Slots : TriggerOrder(i)
  \/ ForceCancelOrders
  \/ \E m \in Markets, b \in -MaxBase .. MaxBase : MovePosition(m, b)

Spec == Init /\ [][Next]_vars
-----------------------------------------------------------------------------
(* Properties. *)

(* What an account may hold: an open order is not filled up, and one that  *)
(* is filled up has been taken out of the open ones.                       *)
OrderOK(o) ==
  /\ IsOpen(o) => o.filled < o.size
  /\ o.status = "filled" => o.filled = o.size
  /\ ~Live(o) => o.filled = 0 /\ ~o.auction

TypeOK ==
  /\ now \in Nat
  /\ user.nextId \in Nat
  /\ user.orders \in [Slots -> Order]
  /\ \A i \in Slots : OrderOK(user.orders[i])
  /\ user.base \in [Markets -> Int]

(* The counters that margin, idleness and auction-skipping checks read     *)
(* instead of the orders agree with the orders, after every way an order   *)
(* can come, change and go: the saturating and unchecked subtractions      *)
(* never lose or invent a count, and a closed order holds no margin.       *)
CountersMatchOrders ==
  /\ user.openOrders = Cardinality(OpenSlots(user))
  /\ user.openAuctions = Cardinality(OpenAuctions(user))
  /\ \A m \in Markets :
       /\ user.posOrders[m] = Cardinality(OpenIn(user, m))
       /\ user.bids[m] = OnSide(user, OpenSlots(user), m, TRUE)
       /\ user.asks[m] = -OnSide(user, OpenSlots(user), m, FALSE)

(* An id names at most one open order, and not the next one: whoever       *)
(* cancels, fills or triggers by id cannot hit another order.              *)
OrderIdsResolve ==
  /\ \A i \in Slots : user.orders[i].id < user.nextId
  /\ \A i, j \in OpenSlots(user) :
       user.orders[i].id = user.orders[j].id => i = j

(* cancel_order_by_user_order_id looks at the first slot with the user's   *)
(* id and is refused if that slot's order is closed.  It still always      *)
(* reaches an open order with the id: slots of closed orders that keep a   *)
(* stale copy of the id come after it, since orders take the first slot.   *)
UserOrderIdResolves ==
  \A i \in OpenSlots(user) : user.orders[i].userId > 0 =>
    \A j \in Slots : user.orders[j].userId = user.orders[i].userId => i <= j

(* Both of them: an id of either kind leads to the order it was given to.  *)
IdsResolve == OrderIdsResolve /\ UserOrderIdResolves

(* The amount by which the step filled the order in slot i.                *)
FilledBy(i) ==
  user'.orders[i].filled -
    (IF user'.orders[i].id = user.orders[i].id THEN user.orders[i].filled
                                               ELSE 0)

(* A reduce-only order that takes brings the position closer to zero by    *)
(* exactly what it fills: it neither flips nor grows it, although the      *)
(* position may have changed in any way since the order was placed.        *)
ReduceOnlyReduces ==
  [][ \A i \in Slots :
        LET o == user'.orders[i]
        IN  (o.reduceOnly /\ ~o.post /\ FilledBy(i) > 0) =>
              /\ Abs(user'.base[o.market])
                   = Abs(user.base[o.market]) - FilledBy(i)
              /\ user'.base[o.market] * user.base[o.market] >= 0 ]_vars

(* No order is filled after its max_ts, as taker or maker, though keepers  *)
(* cannot expire a limit order until the buffer has passed.  (Trigger      *)
(* orders never expire.)                                                   *)
NoFillAfterExpiry ==
  [][ \A i \in Slots :
        LET o == user'.orders[i]
        IN  (FilledBy(i) > 0 /\ o.maxTs # 0 /\ ~MustBeTriggered(o))
              => now <= o.maxTs ]_vars

(* What a fill may never do, however late it comes.                        *)
FillsAreDue == ReduceOnlyReduces /\ NoFillAfterExpiry

(* An order out of date when it arrives is skipped, as the message says    *)
(* ("skipping order"): the instruction changes no order but those that had *)
(* expired.                                                                *)
SkippedOrderIsSkipped ==
  [][ \A p \in OrderRequests, ioc \in BOOLEAN :
        (PlaceAndTake(p, ioc) /\ p.maxTs # 0 /\ p.maxTs < now)
          => user' = ExpireOrders(user) ]_vars

=============================================================================
