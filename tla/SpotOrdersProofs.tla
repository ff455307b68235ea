--------------------------- MODULE SpotOrdersProofs ---------------------------
(***************************************************************************)
(* For any users, requests, prices, exchanges and limits, and any number   *)
(* of order slots: the counters of an account count its spot orders, and   *)
(* the vaults hold what the accounts and the fee pool claim.               *)
(*                                                                         *)
(* An instruction takes the world through many worlds, so the invariant    *)
(* is one of worlds, kept by every helper: an account is sound by itself,  *)
(* and what the accounts hold together moves only with the vaults and the  *)
(* fee pool.                                                               *)
(***************************************************************************)
EXTENDS SpotOrders, SumTheorems

(* An order is open while something of it is unfilled; one that waits for  *)
(* its trigger is untouched.                                               *)
OrderOK(o) ==
  /\ o \in Order /\ Unfilled(o) >= 0
  /\ o.open <=> Unfilled(o) > 0
  /\ o.open => o.price > 0
  /\ o.trigger = "waiting" => o.filled = 0

(* What one order adds to the counters of its account, and what the orders *)
(* of an account add together.                                             *)
Parts == {"bids", "asks", "orders", "auctions"}
Part(o, k) ==
  IF ~o.open THEN 0
  ELSE CASE k = "bids"     -> IF o.long /\ Live(o) THEN Unfilled(o) ELSE 0
         [] k = "asks"     -> IF ~o.long /\ Live(o) THEN Unfilled(o) ELSE 0
         [] k = "orders"   -> 1
         [] k = "auctions" -> IF HasAuction(o) THEN 1 ELSE 0

SumOf(f, k) == SumFunctionOnSet([i \in Slots |-> Part(f[i], k)], Slots)

AccountType ==
  [orders : [Slots -> Order], nextId : Nat, base : Int, quote : Int,
   bids : Int, asks : Int, posOrders : Int, openOrders : Int, auctions : Int]

Counted(a) ==
  /\ a.bids = SumOf(a.orders, "bids") /\ a.asks = -SumOf(a.orders, "asks")
  /\ a.posOrders = SumOf(a.orders, "orders")
  /\ a.openOrders = SumOf(a.orders, "orders")
  /\ a.auctions = SumOf(a.orders, "auctions")

AccountOK(a) ==
  /\ a \in AccountType
  /\ \A i \in Slots : OrderOK(a.orders[i])
  /\ Counted(a)

LEMMA SlotsFinite == IsFiniteSet(Slots)
BY SpotOrdersAssumption, FS_Interval DEF Slots

LEMMA OrderFields ==
  ASSUME NEW o \in Order
  PROVE  /\ o.open \in BOOLEAN /\ o.id \in Nat /\ o.long \in BOOLEAN
         /\ o.limit \in BOOLEAN /\ o.trigger \in {"none", "waiting", "fired"}
         /\ o.reduceOnly \in BOOLEAN /\ o.post \in BOOLEAN
         /\ o.size \in Nat /\ o.filled \in Nat /\ o.paid \in Nat /\ o.price \in Nat
         /\ o.maxTs \in Nat /\ o.slot \in Nat /\ Unfilled(o) \in Int
BY DEF Order, Unfilled

LEMMA NoOrderOK == OrderOK(NoOrder) /\ \A k \in Parts : Part(NoOrder, k) = 0
BY DEF OrderOK, NoOrder, Order, Unfilled, Part

LEMMA PartIsNat ==
  ASSUME NEW o, OrderOK(o), NEW k \in Parts
  PROVE  Part(o, k) \in Nat
<1>1. Unfilled(o) \in Nat
  BY OrderFields DEF OrderOK
<1> QED
  BY <1>1 DEF Part, Parts

LEMMA AccountFields ==
  ASSUME NEW a \in AccountType
  PROVE  /\ a.orders \in [Slots -> Order] /\ a.nextId \in Nat
         /\ a.base \in Int /\ a.quote \in Int /\ a.bids \in Int /\ a.asks \in Int
         /\ a.posOrders \in Int /\ a.openOrders \in Int /\ a.auctions \in Int
BY DEF AccountType

LEMMA SumOfIsNat ==
  ASSUME NEW f, \A i \in Slots : OrderOK(f[i]), NEW k \in Parts
  PROVE  SumOf(f, k) \in Nat
<1>1. \A i \in Slots : [j \in Slots |-> Part(f[j], k)][i] \in Nat
  BY PartIsNat
<1> QED
  BY <1>1, SlotsFinite, SumIsNat DEF SumOf

(* A step on one slot moves each counter by the difference of the order's  *)
(* parts.                                                                  *)
LEMMA SumOfUpdate ==
  ASSUME NEW f \in [Slots -> Order], \A i \in Slots : OrderOK(f[i]),
         NEW i \in Slots, NEW o, OrderOK(o), NEW k \in Parts
  PROVE  SumOf([f EXCEPT ![i] = o], k) = SumOf(f, k) + (Part(o, k) - Part(f[i], k))
<1> DEFINE F == [j \in Slots |-> Part(f[j], k)]
           G == [j \in Slots |-> Part([f EXCEPT ![i] = o][j], k)]
<1>1. \A j \in Slots : F[j] \in Int
  BY PartIsNat
<1>2. G[i] = Part(o, k) /\ F[i] = Part(f[i], k)
  OBVIOUS
<1>3. Part(o, k) \in Int /\ \A j \in Slots : j # i => F[j] = G[j]
  BY PartIsNat
<1>4. SumOf([f EXCEPT ![i] = o], k) = SumFunctionOnSet(G, Slots)
      /\ SumOf(f, k) = SumFunctionOnSet(F, Slots)
  BY DEF SumOf
<1> HIDE DEF F, G
<1>5. SumFunctionOnSet(G, Slots) = SumFunctionOnSet(F, Slots) + (G[i] - F[i])
  <2>1. G[i] \in Int
    BY <1>2, <1>3
  <2> QED
    BY <1>1, <1>3, <2>1, SlotsFinite, SumUpdate
<1> QED
  BY <1>2, <1>4, <1>5

LEMMA SlotStep ==
  ASSUME NEW a, AccountOK(a), NEW i \in Slots, NEW o, OrderOK(o),
         NEW b \in AccountType,
         b.orders = [a.orders EXCEPT ![i] = o],
         b.bids = a.bids + (Part(o, "bids") - Part(a.orders[i], "bids")),
         b.asks = a.asks - (Part(o, "asks") - Part(a.orders[i], "asks")),
         b.posOrders = a.posOrders + (Part(o, "orders") - Part(a.orders[i], "orders")),
         b.openOrders = a.openOrders + (Part(o, "orders") - Part(a.orders[i], "orders")),
         b.auctions = a.auctions + (Part(o, "auctions") - Part(a.orders[i], "auctions"))
  PROVE  AccountOK(b)
<1>1. a.orders \in [Slots -> Order] /\ \A j \in Slots : OrderOK(a.orders[j])
  BY AccountFields DEF AccountOK
<1>2. b.orders[i] = o /\ \A j \in Slots : j # i => b.orders[j] = a.orders[j]
  BY <1>1
<1>3. \A k \in Parts :
        SumOf(b.orders, k) = SumOf(a.orders, k) + (Part(o, k) - Part(a.orders[i], k))
  BY <1>1, SumOfUpdate
<1>4. {"bids", "asks", "orders", "auctions"} \subseteq Parts
  BY DEF Parts
<1>5. SumOf(a.orders, "asks") \in Int /\ Part(o, "asks") \in Int
      /\ Part(a.orders[i], "asks") \in Int
  BY <1>1, <1>4, SumOfIsNat, PartIsNat
<1>6. a.asks = -SumOf(a.orders, "asks")
  BY DEF AccountOK, Counted
<1>7. b.asks = -SumOf(b.orders, "asks")
  BY <1>3, <1>4, <1>5, <1>6
<1>8. Counted(b)
  BY <1>3, <1>4, <1>7 DEF AccountOK, Counted
<1> QED
  BY <1>1, <1>2, <1>8 DEF AccountOK

(* cancel_order for open slots.                                            *)
LEMMA SumOfWithout ==
  ASSUME NEW a, AccountOK(a), NEW S \in SUBSET Slots, NEW k \in Parts
  PROVE  SumOf(Without(a, S), k)
           = SumOf(a.orders, k)
             - SumFunctionOnSet([i \in S |-> Part(a.orders[i], k)], S)
<1> DEFINE F == [i \in Slots |-> Part(a.orders[i], k)]
           G == [i \in Slots |-> Part(Without(a, S)[i], k)]
           R == Slots \ S
<1>1. \A i \in Slots : F[i] \in Int
  BY PartIsNat DEF AccountOK
<1>2. G = [i \in Slots |-> IF i \in R THEN F[i] ELSE 0]
  BY NoOrderOK DEF Without
<1>3. SumOf(a.orders, k) = SumFunctionOnSet(F, Slots)
      /\ SumOf(Without(a, S), k) = SumFunctionOnSet(G, Slots)
  BY DEF SumOf
<1>4. R \in SUBSET Slots
  OBVIOUS
<1>5. \A i \in S : F[i] = [j \in S |-> Part(a.orders[j], k)][i]
  OBVIOUS
<1>6. IsFiniteSet(S)
  BY SlotsFinite, FS_Subset
<1> HIDE DEF F, G
<1>7. SumFunctionOnSet(F, S) = SumFunctionOnSet([i \in S |-> Part(a.orders[i], k)], S)
  BY <1>5, <1>6, SumSame
<1>8. SumFunctionOnSet(F, Slots) = SumFunctionOnSet(F, S) + SumFunctionOnSet(F, R)
  BY <1>1, SlotsFinite, SumSplit
<1>9. SumFunctionOnSet(F, R) = SumFunctionOnSet(G, Slots)
  BY <1>1, <1>2, <1>4, SlotsFinite, SumFilter
<1>10. SumFunctionOnSet(F, S) \in Int /\ SumFunctionOnSet(F, R) \in Int
  BY <1>1, <1>4, <1>6, SlotsFinite, FS_Subset, SumIsInt
<1> QED
  BY <1>3, <1>7, <1>8, <1>9, <1>10

LEMMA CancelledParts ==
  ASSUME NEW a, AccountOK(a), NEW S \in SUBSET OpenSlots(a)
  PROVE  /\ OnSide(a, S, TRUE) = SumFunctionOnSet([i \in S |-> Part(a.orders[i], "bids")], S)
         /\ OnSide(a, S, FALSE) = SumFunctionOnSet([i \in S |-> Part(a.orders[i], "asks")], S)
         /\ Cardinality(S) = SumFunctionOnSet([i \in S |-> Part(a.orders[i], "orders")], S)
         /\ Auctions(a, S) = SumFunctionOnSet([i \in S |-> Part(a.orders[i], "auctions")], S)
<1>1. IsFiniteSet(S) /\ S \subseteq Slots /\ \A i \in S : a.orders[i].open
  BY SlotsFinite, FS_Subset DEF OpenSlots
<1>2. \A i \in S : a.orders[i].long \in BOOLEAN
  BY <1>1, OrderFields DEF AccountOK, OrderOK
<1>3. [i \in S |-> IF a.orders[i].long = TRUE /\ Live(a.orders[i])
                     THEN Unfilled(a.orders[i]) ELSE 0]
        = [i \in S |-> Part(a.orders[i], "bids")]
  BY <1>1, <1>2 DEF Part
<1>4. [i \in S |-> IF a.orders[i].long = FALSE /\ Live(a.orders[i])
                     THEN Unfilled(a.orders[i]) ELSE 0]
        = [i \in S |-> Part(a.orders[i], "asks")]
  BY <1>1, <1>2 DEF Part
<1>5. [i \in S |-> IF i \in S THEN 1 ELSE 0] = [i \in S |-> Part(a.orders[i], "orders")]
  BY <1>1 DEF Part
<1>6. [i \in S |-> IF i \in {j \in S : HasAuction(a.orders[j])} THEN 1 ELSE 0]
        = [i \in S |-> Part(a.orders[i], "auctions")]
  BY <1>1 DEF Part
<1>7. Cardinality(S) = SumFunctionOnSet([i \in S |-> IF i \in S THEN 1 ELSE 0], S)
  BY <1>1, SumOnes
<1>8. Auctions(a, S)
        = SumFunctionOnSet([i \in S |-> IF i \in {j \in S : HasAuction(a.orders[j])}
                                         THEN 1 ELSE 0], S)
  <2>1. {j \in S : HasAuction(a.orders[j])} \in SUBSET S
    OBVIOUS
  <2> QED
    BY <1>1, <2>1, SumOnes DEF Auctions
<1> QED
  BY <1>3, <1>4, <1>5, <1>6, <1>7, <1>8 DEF OnSide

LEMMA CancelKeepsAccount ==
  ASSUME NEW a, AccountOK(a), NEW S \in SUBSET OpenSlots(a)
  PROVE  /\ AccountOK(CancelSlots(a, S))
         /\ CancelSlots(a, S).orders = Without(a, S)
         /\ CancelSlots(a, S).base = a.base /\ CancelSlots(a, S).quote = a.quote
         /\ CancelSlots(a, S).nextId = a.nextId
<1> DEFINE b == CancelSlots(a, S)
<1>1. S \in SUBSET Slots /\ IsFiniteSet(S) /\ a \in AccountType
      /\ \A i \in Slots : OrderOK(a.orders[i])
  BY SlotsFinite, FS_Subset DEF OpenSlots, AccountOK
<1>2. /\ b.orders = Without(a, S) /\ b.base = a.base /\ b.quote = a.quote
      /\ b.nextId = a.nextId /\ b.bids = a.bids - OnSide(a, S, TRUE)
      /\ b.asks = a.asks + OnSide(a, S, FALSE)
      /\ b.posOrders = a.posOrders - Cardinality(S)
      /\ b.openOrders = a.openOrders - Cardinality(S)
      /\ b.auctions = a.auctions - Auctions(a, S)
  BY <1>1 DEF CancelSlots, AccountType
<1>3. \A k \in Parts :
        /\ SumOf(b.orders, k)
             = SumOf(a.orders, k) - SumFunctionOnSet([i \in S |-> Part(a.orders[i], k)], S)
        /\ SumFunctionOnSet([i \in S |-> Part(a.orders[i], k)], S) \in Int
        /\ SumOf(a.orders, k) \in Int
  <2> SUFFICES ASSUME NEW k \in Parts
               PROVE  /\ SumOf(b.orders, k)
                           = SumOf(a.orders, k) - SumFunctionOnSet([i \in S |-> Part(a.orders[i], k)], S)
                      /\ SumFunctionOnSet([i \in S |-> Part(a.orders[i], k)], S) \in Int
                      /\ SumOf(a.orders, k) \in Int
    OBVIOUS
  <2>1. \A i \in S : [j \in S |-> Part(a.orders[j], k)][i] \in Int
    BY <1>1, PartIsNat
  <2>2. SumFunctionOnSet([i \in S |-> Part(a.orders[i], k)], S) \in Int
    BY <1>1, <2>1, SumIsInt
  <2> QED
    BY <1>1, <1>2, <2>2, SumOfWithout, SumOfIsNat
<1>4. {"bids", "asks", "orders", "auctions"} \subseteq Parts
  BY DEF Parts
<1>5. b.orders \in [Slots -> Order] /\ \A i \in Slots : OrderOK(b.orders[i])
  <2>1. \A i \in Slots : b.orders[i] \in {NoOrder, a.orders[i]}
    BY <1>1, <1>2 DEF Without
  <2>2. \A i \in Slots : OrderOK(b.orders[i])
    BY <1>1, <2>1, NoOrderOK
  <2>3. b.orders = [i \in Slots |-> b.orders[i]]
    BY <1>2 DEF Without
  <2> QED
    BY <2>2, <2>3 DEF OrderOK
<1>6. Counted(a)
  BY DEF AccountOK
<1>7. Counted(b)
  <2> HIDE DEF b
  <2>1. b.bids = SumOf(b.orders, "bids")
    BY <1>2, <1>3, <1>4, <1>6, CancelledParts DEF Counted
  <2>3. b.asks = -SumOf(b.orders, "asks")
    <3>1. b.asks = -SumOf(a.orders, "asks")
                     + SumFunctionOnSet([i \in S |-> Part(a.orders[i], "asks")], S)
      BY <1>2, <1>6, CancelledParts DEF Counted
    <3> QED
      BY <1>3, <1>4, <3>1
  <2>2. b.posOrders = SumOf(b.orders, "orders") /\ b.openOrders = SumOf(b.orders, "orders")
        /\ b.auctions = SumOf(b.orders, "auctions")
    BY <1>2, <1>3, <1>4, <1>6, CancelledParts DEF Counted
  <2> QED
    BY <2>1, <2>2, <2>3 DEF Counted
<1>8. b \in AccountType
  <2>1. /\ OnSide(a, S, TRUE) \in Int /\ OnSide(a, S, FALSE) \in Int
        /\ Cardinality(S) \in Int /\ Auctions(a, S) \in Int
    BY <1>3, <1>4, CancelledParts
  <2>2. /\ a.bids - OnSide(a, S, TRUE) \in Int /\ a.asks + OnSide(a, S, FALSE) \in Int
        /\ a.posOrders - Cardinality(S) \in Int /\ a.openOrders - Cardinality(S) \in Int
        /\ a.auctions - Auctions(a, S) \in Int
    <3>1. /\ a.bids \in Int /\ a.asks \in Int /\ a.posOrders \in Int
          /\ a.openOrders \in Int /\ a.auctions \in Int
      BY <1>1, AccountFields
    <3> DEFINE bids == OnSide(a, S, TRUE)
               asks == OnSide(a, S, FALSE)
    <3>2. bids \in Int /\ asks \in Int
      BY <2>1
    <3> HIDE DEF bids, asks
    <3>3. a.bids - bids \in Int /\ a.asks + asks \in Int
      BY <3>1, <3>2
    <3>4. /\ a.posOrders - Cardinality(S) \in Int
          /\ a.openOrders - Cardinality(S) \in Int
          /\ a.auctions - Auctions(a, S) \in Int
      BY <2>1, <3>1
    <3> QED
      BY <3>3, <3>4 DEF bids, asks
  <2>3. Without(a, S) \in [Slots -> Order]
    BY <1>2, <1>5
  <2> QED
    BY <1>1, <2>2, <2>3 DEF CancelSlots, AccountType
<1> QED
  BY <1>2, <1>5, <1>7, <1>8 DEF AccountOK
-----------------------------------------------------------------------------
(* Worlds.                                                                 *)

WorldType ==
  [acct : [Users -> AccountType], vault : [Tokens -> Int],
   pool : Nat, earned : Int, owed : Nat]
WorldOK(W) == W \in WorldType /\ \A u \in Users : AccountOK(W.acct[u])

BaseHeld(W) == SumFunctionOnSet([u \in Users |-> W.acct[u].base], Users)
QuoteHeld(W) == SumFunctionOnSet([u \in Users |-> W.acct[u].quote], Users)

Books(W) ==
  /\ W.vault["base"] = BaseHeld(W)
  /\ W.vault["quote"] + W.owed = QuoteHeld(W) + W.earned
  /\ W.vault["quote"] >= QuoteHeld(W) + W.pool

Good(W) == WorldOK(W) /\ Books(W)

(* The orders of the accounts are what they were; or at least their terms. *)
SameOrders(V, W) == \A u \in Users : V.acct[u].orders = W.acct[u].orders
SameTerms(V, W) ==
  \A u \in Users, i \in Slots :
    /\ V.acct[u].orders[i].price = W.acct[u].orders[i].price
    /\ V.acct[u].orders[i].long = W.acct[u].orders[i].long
    /\ V.acct[u].orders[i].trigger = W.acct[u].orders[i].trigger

(* Nothing but the accounts changed.                                       *)
SameFunds(V, W) ==
  V.vault = W.vault /\ V.pool = W.pool /\ V.earned = W.earned /\ V.owed = W.owed

(* One account was replaced.                                               *)
Replaced(V, W, u, b) == V = [W EXCEPT !.acct[u] = b]

LEMMA WorldFields ==
  ASSUME NEW W \in WorldType
  PROVE  /\ W.acct \in [Users -> AccountType] /\ W.vault \in [Tokens -> Int]
         /\ W.pool \in Nat /\ W.earned \in Int /\ W.owed \in Nat
BY DEF WorldType

LEMMA AccountOf ==
  ASSUME NEW W, WorldOK(W), NEW u \in Users
  PROVE  W.acct[u] \in AccountType /\ AccountOK(W.acct[u])
         /\ \A i \in Slots : OrderOK(W.acct[u].orders[i]) /\ W.acct[u].orders[i] \in Order
BY DEF WorldOK, AccountOK, OrderOK

LEMMA HeldIsInt ==
  ASSUME NEW W, WorldOK(W)
  PROVE  BaseHeld(W) \in Int /\ QuoteHeld(W) \in Int
<1>1. \A u \in Users : W.acct[u].base \in Int /\ W.acct[u].quote \in Int
  BY AccountOf, AccountFields
<1>2. IsFiniteSet(Users)
  BY SpotOrdersAssumption
<1>3. /\ \A u \in Users : [v \in Users |-> W.acct[v].base][u] \in Int
      /\ \A u \in Users : [v \in Users |-> W.acct[v].quote][u] \in Int
  BY <1>1
<1> QED
  BY <1>2, <1>3, SumIsInt DEF BaseHeld, QuoteHeld

(* One account is replaced by another sound one.                           *)
LEMMA AccountReplaced ==
  ASSUME NEW W, WorldOK(W), NEW u \in Users, NEW b, AccountOK(b),
         NEW V, Replaced(V, W, u, b)
  PROVE  /\ WorldOK(V) /\ SameFunds(V, W) /\ V.acct[u] = b
         /\ \A v \in Users : v # u => V.acct[v] = W.acct[v]
         /\ BaseHeld(V) = BaseHeld(W) + (b.base - W.acct[u].base)
         /\ QuoteHeld(V) = QuoteHeld(W) + (b.quote - W.acct[u].quote)
<1>1. W \in WorldType /\ W.acct \in [Users -> AccountType]
  BY WorldFields DEF WorldOK
<1>2. b \in AccountType
  BY DEF AccountOK
<1>3. V.acct = [W.acct EXCEPT ![u] = b] /\ SameFunds(V, W)
  BY <1>1 DEF WorldType, SameFunds, Replaced
<1>4. V \in WorldType
  BY <1>1, <1>2 DEF WorldType, Replaced
<1>5. V.acct[u] = b /\ \A v \in Users : v # u => V.acct[v] = W.acct[v]
  BY <1>1, <1>3
<1>6. WorldOK(V)
  BY <1>4, <1>5 DEF WorldOK
<1>7. \A v \in Users : W.acct[v].base \in Int /\ W.acct[v].quote \in Int
  BY AccountOf, AccountFields
<1>8. b.base \in Int /\ b.quote \in Int
  BY <1>2, AccountFields
<1>9. BaseHeld(V) = BaseHeld(W) + (b.base - W.acct[u].base)
  <2> DEFINE F == [v \in Users |-> W.acct[v].base]
             G == [v \in Users |-> V.acct[v].base]
  <2>1. G[u] = b.base /\ F[u] = W.acct[u].base /\ (\A v \in Users : F[v] \in Int)
        /\ \A v \in Users : v # u => F[v] = G[v]
    BY <1>5, <1>7
  <2>2. BaseHeld(V) = SumFunctionOnSet(G, Users) /\ BaseHeld(W) = SumFunctionOnSet(F, Users)
    BY DEF BaseHeld
  <2>3. IsFiniteSet(Users)
    BY SpotOrdersAssumption
  <2> HIDE DEF F, G
  <2>4. G[u] \in Int
    BY <1>8, <2>1
  <2>5. SumFunctionOnSet(G, Users) = SumFunctionOnSet(F, Users) + (G[u] - F[u])
    BY <2>1, <2>3, <2>4, SumUpdate
  <2> QED
    BY <2>1, <2>2, <2>5
<1>10. QuoteHeld(V) = QuoteHeld(W) + (b.quote - W.acct[u].quote)
  <2> DEFINE F == [v \in Users |-> W.acct[v].quote]
             G == [v \in Users |-> V.acct[v].quote]
  <2>1. G[u] = b.quote /\ F[u] = W.acct[u].quote /\ (\A v \in Users : F[v] \in Int)
        /\ \A v \in Users : v # u => F[v] = G[v]
    BY <1>5, <1>7
  <2>2. QuoteHeld(V) = SumFunctionOnSet(G, Users) /\ QuoteHeld(W) = SumFunctionOnSet(F, Users)
    BY DEF QuoteHeld
  <2>3. IsFiniteSet(Users)
    BY SpotOrdersAssumption
  <2> HIDE DEF F, G
  <2>4. G[u] \in Int
    BY <1>8, <2>1
  <2>5. SumFunctionOnSet(G, Users) = SumFunctionOnSet(F, Users) + (G[u] - F[u])
    BY <2>1, <2>3, <2>4, SumUpdate
  <2> QED
    BY <2>1, <2>2, <2>5
<1> QED
  BY <1>3, <1>5, <1>6, <1>9, <1>10

(* The books balance as before when the account holds what it held.        *)
LEMMA OrdersReplaced ==
  ASSUME NEW W, Good(W), NEW u \in Users, NEW b, AccountOK(b),
         b.base = W.acct[u].base, b.quote = W.acct[u].quote,
         NEW V, Replaced(V, W, u, b)
  PROVE  /\ Good(V) /\ V.acct[u] = b
         /\ \A v \in Users : v # u => V.acct[v] = W.acct[v]
<1>1. WorldOK(W)
  BY DEF Good
<1>2. /\ WorldOK(V) /\ SameFunds(V, W) /\ V.acct[u] = b
      /\ \A v \in Users : v # u => V.acct[v] = W.acct[v]
      /\ BaseHeld(V) = BaseHeld(W) + (b.base - W.acct[u].base)
      /\ QuoteHeld(V) = QuoteHeld(W) + (b.quote - W.acct[u].quote)
  BY <1>1, AccountReplaced
<1>3. W.acct[u].base \in Int /\ W.acct[u].quote \in Int
      /\ BaseHeld(W) \in Int /\ QuoteHeld(W) \in Int
  BY <1>1, AccountOf, AccountFields, HeldIsInt
<1>4. BaseHeld(V) = BaseHeld(W) /\ QuoteHeld(V) = QuoteHeld(W)
  BY <1>2, <1>3
<1>5. Books(V)
  BY <1>2, <1>4 DEF Good, Books, SameFunds
<1> QED
  BY <1>2, <1>5 DEF Good

(* Cancelling open orders of one account.                                  *)
LEMMA CancelKeeps ==
  ASSUME NEW W, Good(W), NEW u \in Users, NEW S \in SUBSET OpenSlots(W.acct[u])
  PROVE  /\ Good(Cancel(W, u, S))
         /\ Cancel(W, u, S).acct[u] = CancelSlots(W.acct[u], S)
         /\ \A v \in Users : v # u => Cancel(W, u, S).acct[v] = W.acct[v]
<1> DEFINE b == CancelSlots(W.acct[u], S)
           V == Cancel(W, u, S)
<1>1. AccountOK(b) /\ b.base = W.acct[u].base /\ b.quote = W.acct[u].quote
  BY AccountOf, CancelKeepsAccount DEF Good
<1>2. Replaced(V, W, u, b)
  BY DEF Cancel, Replaced
<1> HIDE DEF b, V
<1>3. /\ Good(V) /\ V.acct[u] = b
      /\ \A v \in Users : v # u => V.acct[v] = W.acct[v]
  BY <1>1, <1>2, OrdersReplaced
<1> QED
  BY <1>3 DEF b, V

LEMMA QuoteMoves ==
  ASSUME NEW a, AccountOK(a), NEW d \in Int
  PROVE  /\ AccountOK([a EXCEPT !.quote = @ + d])
         /\ [a EXCEPT !.quote = @ + d].quote = a.quote + d
         /\ [a EXCEPT !.quote = @ + d].base = a.base
         /\ [a EXCEPT !.quote = @ + d].orders = a.orders
<1>1. a \in AccountType /\ a.quote + d \in Int
  BY AccountFields DEF AccountOK
<1> DEFINE b == [a EXCEPT !.quote = @ + d]
<1>2. /\ b \in AccountType /\ b.orders = a.orders /\ b.base = a.base
      /\ b.quote = a.quote + d /\ b.bids = a.bids /\ b.asks = a.asks
      /\ b.posOrders = a.posOrders /\ b.openOrders = a.openOrders
      /\ b.auctions = a.auctions
  BY <1>1 DEF AccountType
<1> HIDE DEF b
<1>3. AccountOK(b)
  BY <1>2 DEF AccountOK, Counted
<1> QED
  BY <1>2, <1>3 DEF b

LEMMA CreditKeeps ==
  ASSUME NEW W, WorldOK(W), NEW u \in Users, NEW d \in Int,
         NEW V, V = Credit(W, u, "quote", d)
  PROVE  /\ WorldOK(V) /\ SameFunds(V, W) /\ SameOrders(V, W)
         /\ BaseHeld(V) = BaseHeld(W)
         /\ QuoteHeld(V) = QuoteHeld(W) + d
<1> DEFINE b == [W.acct[u] EXCEPT !.quote = @ + d]
<1>1. /\ AccountOK(b) /\ b.quote = W.acct[u].quote + d
      /\ b.base = W.acct[u].base /\ b.orders = W.acct[u].orders
  BY AccountOf, QuoteMoves
<1>2. Replaced(V, W, u, b)
  BY DEF Credit, Replaced
<1> HIDE DEF b
<1>3. /\ WorldOK(V) /\ SameFunds(V, W) /\ V.acct[u] = b
      /\ \A v \in Users : v # u => V.acct[v] = W.acct[v]
      /\ BaseHeld(V) = BaseHeld(W) + (b.base - W.acct[u].base)
      /\ QuoteHeld(V) = QuoteHeld(W) + (b.quote - W.acct[u].quote)
  BY <1>1, <1>2, AccountReplaced
<1>4. W.acct[u].base \in Int /\ W.acct[u].quote \in Int
      /\ BaseHeld(W) \in Int /\ QuoteHeld(W) \in Int
  BY AccountOf, AccountFields, HeldIsInt
<1>5. SameOrders(V, W)
  BY <1>1, <1>3 DEF SameOrders
<1> QED
  BY <1>1, <1>3, <1>4, <1>5

(* A flat reward moves quote from one account to another.                  *)
LEMMA FlatRewardKeeps ==
  ASSUME NEW W, Good(W), NEW u \in Users, NEW f \in Users \cup {NoFiller},
         NEW n \in Int
  PROVE  Good(FlatReward(W, u, f, n)) /\ SameOrders(FlatReward(W, u, f, n), W)
<1>1. CASE f = NoFiller
  BY <1>1 DEF FlatReward, SameOrders
<1>2. CASE f # NoFiller
  <2> DEFINE d == n * Flat
             V == Credit(W, f, "quote", d)
             X == Credit(V, u, "quote", -d)
  <2>1. f \in Users /\ d \in Int /\ -d \in Int /\ FlatReward(W, u, f, n) = X
    <3>1. Flat \in Int
      BY SpotOrdersAssumption
    <3>2. d \in Int /\ -n * Flat = -d
      BY <3>1
    <3> QED
      BY <1>2, <3>2 DEF FlatReward
  <2> HIDE DEF d
  <2>2. /\ WorldOK(V) /\ SameFunds(V, W) /\ SameOrders(V, W)
        /\ BaseHeld(V) = BaseHeld(W)
        /\ QuoteHeld(V) = QuoteHeld(W) + d
    BY <2>1, CreditKeeps DEF Good
  <2> HIDE DEF V
  <2>3. /\ WorldOK(X) /\ SameFunds(X, V) /\ SameOrders(X, V)
        /\ BaseHeld(X) = BaseHeld(V)
        /\ QuoteHeld(X) = QuoteHeld(V) + (-d)
    BY <2>1, <2>2, CreditKeeps
  <2> HIDE DEF X
  <2>4. QuoteHeld(W) \in Int
    BY HeldIsInt DEF Good
  <2>5. QuoteHeld(X) = QuoteHeld(W)
    BY <2>1, <2>2, <2>3, <2>4
  <2>6. Books(X)
    BY <2>2, <2>3, <2>5 DEF Good, Books, SameFunds
  <2>7. SameOrders(X, W)
    BY <2>2, <2>3 DEF SameOrders
  <2> QED
    BY <2>1, <2>3, <2>6, <2>7 DEF Good
<1> QED
  BY <1>1, <1>2
-----------------------------------------------------------------------------
(* Fills.                                                                  *)

FilledBy(o, n, q) ==
  [o EXCEPT !.filled = o.filled + n, !.paid = o.paid + q, !.open = ~(Unfilled(o) = n)]

LEMMA FilledOrder ==
  ASSUME NEW o, OrderOK(o), Live(o), NEW n \in Nat \ {0}, n <= Unfilled(o), NEW q \in Nat
  PROVE  /\ OrderOK(FilledBy(o, n, q))
         /\ FilledBy(o, n, q).price = o.price /\ FilledBy(o, n, q).long = o.long
         /\ FilledBy(o, n, q).trigger = o.trigger
         /\ Part(FilledBy(o, n, q), "bids")
              = Part(o, "bids") - (IF o.long THEN n ELSE 0)
         /\ Part(FilledBy(o, n, q), "asks")
              = Part(o, "asks") - (IF o.long THEN 0 ELSE n)
         /\ Part(FilledBy(o, n, q), "orders")
              = Part(o, "orders") - (IF Unfilled(o) = n THEN 1 ELSE 0)
         /\ Part(FilledBy(o, n, q), "auctions")
              = Part(o, "auctions")
                - (IF Unfilled(o) = n /\ HasAuction(o) THEN 1 ELSE 0)
<1> DEFINE p == FilledBy(o, n, q)
<1>1. o \in Order /\ o.filled + n \in Nat /\ o.paid + q \in Nat
  BY OrderFields DEF OrderOK
<1>2. /\ p.filled = o.filled + n /\ p.open = (Unfilled(o) # n) /\ p.long = o.long
      /\ p.limit = o.limit /\ p.trigger = o.trigger /\ p.size = o.size
      /\ p.price = o.price
  BY <1>1 DEF FilledBy, Order
<1>3. p \in Order
  BY <1>1 DEF FilledBy, Order
<1> HIDE DEF p
<1>4. o.open /\ Unfilled(o) \in Nat /\ o.size \in Nat /\ o.filled \in Nat
  BY OrderFields DEF OrderOK
<1>5. Unfilled(p) = Unfilled(o) - n
  BY <1>2, <1>4 DEF Unfilled
<1>7. p.open <=> Unfilled(o) # n
  BY <1>2
<1>6. OrderOK(p)
  <2>1. Unfilled(p) >= 0 /\ (p.open <=> Unfilled(p) > 0)
    BY <1>4, <1>5, <1>7
  <2>2. p.price > 0 /\ p.trigger # "waiting"
    BY <1>2, <1>4 DEF OrderOK, Live
  <2> QED
    BY <1>3, <2>1, <2>2 DEF OrderOK
<1>8. Live(p) /\ (HasAuction(p) <=> HasAuction(o))
  BY <1>2 DEF Live, HasAuction
<1>9. o.long \in BOOLEAN
  BY OrderFields DEF OrderOK
<1>10. Part(p, "bids") = Part(o, "bids") - (IF o.long THEN n ELSE 0)
  BY <1>2, <1>4, <1>5, <1>7, <1>8, <1>9 DEF Part
<1>11. Part(p, "asks") = Part(o, "asks") - (IF o.long THEN 0 ELSE n)
  BY <1>2, <1>4, <1>5, <1>7, <1>8, <1>9 DEF Part
<1>12. Part(p, "orders") = Part(o, "orders") - (IF Unfilled(o) = n THEN 1 ELSE 0)
  BY <1>4, <1>7 DEF Part
<1>13. Part(p, "auctions")
         = Part(o, "auctions") - (IF Unfilled(o) = n /\ HasAuction(o) THEN 1 ELSE 0)
  BY <1>4, <1>7, <1>8 DEF Part
<1> QED
  BY <1>2, <1>6, <1>10, <1>11, <1>12, <1>13 DEF p

LEMMA FillKeepsAccount ==
  ASSUME NEW a, AccountOK(a), NEW i \in Slots, Live(a.orders[i]),
         NEW n \in Nat \ {0}, n <= Unfilled(a.orders[i]), NEW q \in Nat, NEW c \in Int
  PROVE  /\ AccountOK(FillOrderOf(a, i, n, q, c))
         /\ FillOrderOf(a, i, n, q, c).orders
              = [a.orders EXCEPT ![i] = FilledBy(a.orders[i], n, q)]
         /\ FillOrderOf(a, i, n, q, c).base = a.base + Sign(a.orders[i].long) * n
         /\ FillOrderOf(a, i, n, q, c).quote
              = (a.quote - Sign(a.orders[i].long) * q) - c
<1> DEFINE o == a.orders[i]
           p == FilledBy(o, n, q)
           b == FillOrderOf(a, i, n, q, c)
<1>1. a \in AccountType /\ OrderOK(o) /\ OrderOK(p)
  BY FilledOrder DEF AccountOK
<1>2. o.long \in BOOLEAN /\ Sign(o.long) \in Int
  BY <1>1, OrderFields DEF OrderOK, Sign
<1>3. /\ a.base \in Int /\ a.quote \in Int /\ a.bids \in Int /\ a.asks \in Int
      /\ a.posOrders \in Int /\ a.openOrders \in Int /\ a.auctions \in Int
      /\ a.orders \in [Slots -> Order]
  BY <1>1, AccountFields
<1>4. Part(o, "bids") \in Int /\ Part(o, "asks") \in Int /\ Part(o, "orders") \in Int
      /\ Part(o, "auctions") \in Int
  BY <1>1, PartIsNat DEF Parts
<1>5. /\ b.orders = [a.orders EXCEPT ![i] = p] /\ b.nextId = a.nextId
      /\ b.base = a.base + Sign(o.long) * n
      /\ b.quote = (a.quote - Sign(o.long) * q) - c
      /\ b.bids = IF o.long THEN a.bids - n ELSE a.bids
      /\ b.asks = IF o.long THEN a.asks ELSE a.asks + n
      /\ b.posOrders = a.posOrders - (IF Unfilled(o) = n THEN 1 ELSE 0)
      /\ b.openOrders = a.openOrders - (IF Unfilled(o) = n THEN 1 ELSE 0)
      /\ b.auctions = IF Unfilled(o) = n /\ HasAuction(o) THEN a.auctions - 1
                      ELSE a.auctions
  BY <1>1 DEF FillOrderOf, AccountType, FilledBy
<1>6. b \in AccountType
  <2>1. Sign(o.long) * n \in Int /\ Sign(o.long) * q \in Int
    BY <1>2
  <2>2. [a.orders EXCEPT ![i] = p] \in [Slots -> Order]
    BY <1>1, <1>3 DEF OrderOK
  <2> DEFINE less == IF Unfilled(o) = n THEN 1 ELSE 0
  <2>3. /\ a.base + Sign(o.long) * n \in Int
        /\ (a.quote - Sign(o.long) * q) - c \in Int
        /\ (IF o.long THEN a.bids - n ELSE a.bids) \in Int
        /\ (IF o.long THEN a.asks ELSE a.asks + n) \in Int
        /\ a.posOrders - less \in Int /\ a.openOrders - less \in Int
        /\ (IF Unfilled(o) = n /\ HasAuction(o) THEN a.auctions - 1
            ELSE a.auctions) \in Int
    <3> HIDE DEF o
    <3> QED
      BY <1>3, <2>1
  <2> QED
    BY <1>1, <2>2, <2>3 DEF FillOrderOf, AccountType, FilledBy
<1>7. /\ b.bids = a.bids + (Part(p, "bids") - Part(o, "bids"))
      /\ b.asks = a.asks - (Part(p, "asks") - Part(o, "asks"))
      /\ b.posOrders = a.posOrders + (Part(p, "orders") - Part(o, "orders"))
      /\ b.openOrders = a.openOrders + (Part(p, "orders") - Part(o, "orders"))
      /\ b.auctions = a.auctions + (Part(p, "auctions") - Part(o, "auctions"))
  <2>1. /\ Part(p, "bids") = Part(o, "bids") - (IF o.long THEN n ELSE 0)
        /\ Part(p, "asks") = Part(o, "asks") - (IF o.long THEN 0 ELSE n)
        /\ Part(p, "orders") = Part(o, "orders") - (IF Unfilled(o) = n THEN 1 ELSE 0)
        /\ Part(p, "auctions")
              = Part(o, "auctions") - (IF Unfilled(o) = n /\ HasAuction(o) THEN 1 ELSE 0)
    BY <1>1, FilledOrder
  <2> HIDE DEF b, o, p
  <2> QED
    BY <1>3, <1>4, <1>5, <2>1
<1> HIDE DEF b, p
<1>8. AccountOK(b)
  BY <1>1, <1>5, <1>6, <1>7, SlotStep
<1> QED
  BY <1>5, <1>8 DEF b, p

LEMMA FillKeeps ==
  ASSUME NEW W, WorldOK(W), NEW u \in Users, NEW i \in Slots, Live(W.acct[u].orders[i]),
         NEW n \in Nat \ {0}, n <= Unfilled(W.acct[u].orders[i]),
         NEW q \in Nat, NEW c \in Int
  PROVE  /\ WorldOK(Fill(W, u, i, n, q, c)) /\ SameFunds(Fill(W, u, i, n, q, c), W)
         /\ SameTerms(Fill(W, u, i, n, q, c), W)
         /\ \A v \in Users : v # u => Fill(W, u, i, n, q, c).acct[v] = W.acct[v]
         /\ BaseHeld(Fill(W, u, i, n, q, c))
              = BaseHeld(W) + Sign(W.acct[u].orders[i].long) * n
         /\ QuoteHeld(Fill(W, u, i, n, q, c))
              = (QuoteHeld(W) - Sign(W.acct[u].orders[i].long) * q) - c
<1> DEFINE a == W.acct[u]
           o == a.orders[i]
           b == FillOrderOf(a, i, n, q, c)
           V == Fill(W, u, i, n, q, c)
<1>1. AccountOK(a) /\ OrderOK(o) /\ a \in AccountType /\ a.orders \in [Slots -> Order]
  BY AccountOf, AccountFields
<1>2. /\ AccountOK(b) /\ b.orders = [a.orders EXCEPT ![i] = FilledBy(o, n, q)]
      /\ b.base = a.base + Sign(o.long) * n
      /\ b.quote = (a.quote - Sign(o.long) * q) - c
  BY <1>1, FillKeepsAccount
<1>3. Replaced(V, W, u, b)
  BY DEF Fill, Replaced
<1> HIDE DEF b, V
<1>4. /\ WorldOK(V) /\ SameFunds(V, W) /\ V.acct[u] = b
      /\ \A v \in Users : v # u => V.acct[v] = W.acct[v]
      /\ BaseHeld(V) = BaseHeld(W) + (b.base - a.base)
      /\ QuoteHeld(V) = QuoteHeld(W) + (b.quote - a.quote)
  BY <1>2, <1>3, AccountReplaced
<1>5. SameTerms(V, W)
  <2>1. FilledBy(o, n, q).price = o.price /\ FilledBy(o, n, q).long = o.long
        /\ FilledBy(o, n, q).trigger = o.trigger
    BY <1>1, FilledOrder
  <2> SUFFICES ASSUME NEW v \in Users, NEW j \in Slots
               PROVE  /\ V.acct[v].orders[j].price = W.acct[v].orders[j].price
                      /\ V.acct[v].orders[j].long = W.acct[v].orders[j].long
                      /\ V.acct[v].orders[j].trigger = W.acct[v].orders[j].trigger
    BY DEF SameTerms
  <2>2. CASE v # u
    BY <1>4, <2>2
  <2>3. CASE v = u /\ j # i
    <3>1. b.orders[j] = a.orders[j]
      BY <1>1, <1>2, <2>3
    <3> QED
      BY <1>4, <2>3, <3>1
  <2>4. CASE v = u /\ j = i
    <3>1. b.orders[i] = FilledBy(o, n, q)
      BY <1>1, <1>2
    <3> QED
      BY <1>4, <2>1, <2>4, <3>1
  <2> QED
    BY <2>2, <2>3, <2>4
<1>6. a.base \in Int /\ a.quote \in Int /\ BaseHeld(W) \in Int /\ QuoteHeld(W) \in Int
  BY <1>1, AccountFields, HeldIsInt
<1>7. Sign(o.long) * n \in Int /\ Sign(o.long) * q \in Int
  <2>1. Sign(o.long) \in Int
    BY DEF Sign
  <2> QED
    BY <2>1
<1>8. /\ BaseHeld(V) = BaseHeld(W) + Sign(o.long) * n
      /\ QuoteHeld(V) = (QuoteHeld(W) - Sign(o.long) * q) - c
  <2> HIDE DEF a, o
  <2> QED
    BY <1>2, <1>4, <1>6, <1>7
<1> QED
  BY <1>4, <1>5, <1>8 DEF b, V

(* What leaves the fee pool or reaches it.                                 *)
LEMMA EarnKeeps ==
  ASSUME NEW W, WorldOK(W), NEW m \in Int, NEW p \in Int, W.pool + p \in Nat
  PROVE  /\ WorldOK(Earn(W, m, p)) /\ Earn(W, m, p).acct = W.acct
         /\ Earn(W, m, p).vault = W.vault /\ Earn(W, m, p).owed = W.owed
         /\ Earn(W, m, p).pool = W.pool + p /\ Earn(W, m, p).earned = W.earned + m
         /\ BaseHeld(Earn(W, m, p)) = BaseHeld(W)
         /\ QuoteHeld(Earn(W, m, p)) = QuoteHeld(W)
<1> DEFINE V == Earn(W, m, p)
<1>1. W \in WorldType /\ W.pool + p \in Nat /\ W.earned + m \in Int
  BY WorldFields DEF WorldOK
<1>2. /\ V \in WorldType /\ V.acct = W.acct /\ V.vault = W.vault /\ V.owed = W.owed
      /\ V.pool = W.pool + p /\ V.earned = W.earned + m
  BY <1>1 DEF Earn, WorldType
<1> HIDE DEF V
<1>3. WorldOK(V)
  BY <1>2 DEF WorldOK
<1>4. BaseHeld(V) = BaseHeld(W) /\ QuoteHeld(V) = QuoteHeld(W)
  BY <1>2 DEF BaseHeld, QuoteHeld
<1> QED
  BY <1>2, <1>3, <1>4 DEF V

(* What an order can be filled for is no more than what is left of it.     *)
LEMMA MaxFillIsNat ==
  ASSUME NEW W, WorldOK(W), NEW u \in Users, NEW i \in Slots, NEW leaving \in BOOLEAN
  PROVE  MaxFill(W, u, i, leaving) \in Nat
<1> DEFINE t == PaysWith(W.acct[u].orders[i])
<1>1. t \in {"base", "quote"}
  BY DEF PaysWith
<1>2. \A v \in Users : W.acct[v].base \in Int /\ W.acct[v].quote \in Int
  BY AccountOf, AccountFields
<1> HIDE DEF t
<1>3. \A v \in Users : W.acct[v][t] \in Int
  BY <1>1, <1>2
<1>4. IsFiniteSet(Users) /\ DepositFloor[leaving][t] \in Int /\ BorrowCap[leaving][t] \in Int
  BY <1>1, SpotOrdersAssumption DEF Tokens
<1>5. W.pool \in Int
  BY WorldFields DEF WorldOK
<1>6. Deposits(W, t) \in Int /\ Borrows(W, t) \in Int
  <2> DEFINE F == [v \in Users |-> Most(W.acct[v][t], 0)]
             G == [v \in Users |-> Most(-W.acct[v][t], 0)]
  <2>1. \A v \in Users : F[v] \in Int /\ G[v] \in Int
    BY <1>3 DEF Most
  <2>2. SumFunctionOnSet(F, Users) \in Int /\ SumFunctionOnSet(G, Users) \in Int
    <3> HIDE DEF F, G
    <3> QED
      BY <1>4, <2>1, SumIsInt
  <2> QED
    BY <1>5, <2>2 DEF Deposits, Borrows
<1>7. MaxWithdraw(W, t, W.acct[u][t], leaving) \in Nat
  BY <1>3, <1>4, <1>6 DEF MaxWithdraw, Most, Least
<1> QED
  BY <1>7 DEF MaxFill, t

LEMMA FillableBounds ==
  ASSUME NEW W, WorldOK(W), NEW u \in Users, NEW i \in Slots,
         NEW price \in Nat \ {0}
  PROVE  /\ FillableAt(W, u, i, price) \in Nat
         /\ FillableAt(W, u, i, price) <= Unfilled(W.acct[u].orders[i])
         /\ FillableOf(W.acct[u].orders[i], W.acct[u].base) <= Unfilled(W.acct[u].orders[i])
<1> DEFINE o == W.acct[u].orders[i]
           most == MaxFill(W, u, i, FALSE)
<1>1. Unfilled(o) \in Nat /\ W.acct[u].base \in Int
  BY AccountOf, AccountFields, OrderFields DEF OrderOK
<1>2. FillableOf(o, W.acct[u].base) \in Nat /\ FillableOf(o, W.acct[u].base) <= Unfilled(o)
  BY <1>1 DEF FillableOf, Least, Size
<1>3. most \in Nat
  BY MaxFillIsNat
<1> DEFINE n == FillableOf(o, W.acct[u].base)
<1>4. FillableAt(W, u, i, price)
        = Least(n, IF o.long THEN most \div price ELSE most)
  BY DEF FillableAt
<1> HIDE DEF most, n, o
<1>5. most \div price \in Nat
  BY <1>3
<1>6. (IF o.long THEN most \div price ELSE most) \in Nat
  BY <1>3, <1>5
<1>7. FillableAt(W, u, i, price) \in Nat /\ FillableAt(W, u, i, price) <= n
  BY <1>2, <1>4, <1>6 DEF Least, n
<1> QED
  BY <1>1, <1>2, <1>7 DEF n, o

(* Fees.                                                                   *)
LEMMA FeeConstants ==
  /\ FeeNum \in Nat /\ RebateNum \in Nat /\ FeeDen \in Nat \ {0}
  /\ RewardNum \in Nat /\ RewardDen \in Nat \ {0} /\ TimeReward \in Nat
BY SpotOrdersAssumption

LEMMA DivBounds ==
  ASSUME NEW n \in Nat, NEW d \in Nat \ {0}
  PROVE  n \div d \in Nat /\ (n \div d) * d <= n
OBVIOUS

LEMMA CeilDivBounds ==
  ASSUME NEW n \in Nat, NEW d \in Nat \ {0}
  PROVE  CeilDiv(n, d) \in Nat /\ n <= CeilDiv(n, d) * d
<1>1. n + d - 1 \in Nat /\ (n + d - 1) - (d - 1) = n
  OBVIOUS
<1> DEFINE x == n + d - 1
<1>2. x \in Nat /\ n = x - (d - 1)
  BY <1>1
<1> HIDE DEF x
<1>3. x \div d \in Nat /\ x < (x \div d) * d + d
  BY <1>2
<1>4. n <= (x \div d) * d
  <2>1. (x \div d) * d \in Int
    BY <1>3
  <2> QED
    BY <1>2, <1>3, <2>1
<1> QED
  BY <1>3, <1>4 DEF CeilDiv, x

LEMMA ProductNat ==
  ASSUME NEW a \in Nat, NEW b \in Nat
  PROVE  a * b \in Nat
OBVIOUS

LEMMA FillerRewardBounds ==
  ASSUME NEW q \in Nat
  PROVE  FillerReward(q) \in Nat /\ FillerReward(q) <= (q * RewardNum) \div RewardDen
<1>1. q * RewardNum \in Nat
  BY FeeConstants, ProductNat
<1>2. (q * RewardNum) \div RewardDen \in Nat
  BY <1>1, FeeConstants, DivBounds
<1> QED
  BY <1>2, FeeConstants DEF FillerReward, Least

(* Rebate and reward fit into the fee: with k = E - N, what the reward      *)
(* leaves of the fee is fee k / E >= q F k / (D E) >= q R / D >= rebate.     *)
LEMMA Shares ==
  ASSUME NEW q \in Nat, NEW fee \in Nat, NEW reward \in Nat, NEW rebate \in Nat,
         NEW F \in Nat, NEW R \in Nat, NEW N \in Nat,
         NEW D \in Nat \ {0}, NEW E \in Nat \ {0},
         q * F <= fee * D, rebate * D <= q * R, reward * E <= fee * N,
         N <= E, R * E + F * N <= F * E
  PROVE  reward + rebate <= fee
<1>1. (q * F) * (E - N) <= (fee * D) * (E - N)
  <2> DEFINE k == E - N
             x == q * F
             y == fee * D
  <2>1. k \in Nat /\ x \in Nat /\ y \in Nat /\ x <= y
    OBVIOUS
  <2> HIDE DEF k, x, y
  <2>2. x * k <= y * k
    BY <2>1
  <2> QED
    BY <2>2 DEF k, x, y
<1>2. R * E <= F * (E - N)
  OBVIOUS
<1>3. q * (R * E) <= q * (F * (E - N))
  <2> DEFINE x == R * E
             y == F * (E - N)
  <2>1. x \in Int /\ y \in Int /\ x <= y
    BY <1>2
  <2> HIDE DEF x, y
  <2>2. q * x <= q * y
    BY <2>1
  <2> QED
    BY <2>2 DEF x, y
<1>4. (rebate * D) * E <= (q * R) * E
  <2> DEFINE x == rebate * D
             y == q * R
  <2>1. x \in Nat /\ y \in Nat /\ x <= y
    OBVIOUS
  <2> HIDE DEF x, y
  <2>2. x * E <= y * E
    BY <2>1
  <2> QED
    BY <2>2 DEF x, y
<1>5. (rebate * D) * E <= (fee * D) * (E - N)
  BY <1>1, <1>3, <1>4
<1>6. (reward * E) * D <= (fee * N) * D
  <2> DEFINE x == reward * E
             y == fee * N
  <2>1. x \in Nat /\ y \in Nat /\ x <= y
    OBVIOUS
  <2> HIDE DEF x, y
  <2>2. x * D <= y * D
    BY <2>1
  <2> QED
    BY <2>2 DEF x, y
<1>7. ((reward + rebate) - fee) * (D * E) <= 0
  BY <1>5, <1>6
<1>8. D * E \in Nat \ {0}
  OBVIOUS
<1> DEFINE z == (reward + rebate) - fee
           d == D * E
<1>9. z \in Int /\ d \in Nat \ {0} /\ z * d <= 0
  BY <1>7, <1>8
<1> HIDE DEF z, d
<1>10. z <= 0
  BY <1>9
<1> QED
  BY <1>10 DEF z

LEMMA MarketShare ==
  ASSUME NEW q \in Nat, NEW reward \in {0, FillerReward(TakerFee(q))}
  PROVE  /\ TakerFee(q) \in Nat /\ MakerRebate(q) \in Nat /\ reward \in Nat
         /\ (TakerFee(q) - reward) - MakerRebate(q) \in Nat
<1> DEFINE fee == TakerFee(q)
           rebate == MakerRebate(q)
<1>1. q * FeeNum \in Nat /\ q * RebateNum \in Nat
  BY FeeConstants, ProductNat
<1>2. fee \in Nat /\ q * FeeNum <= fee * FeeDen
  BY <1>1, FeeConstants, CeilDivBounds DEF TakerFee
<1>3. rebate \in Nat /\ rebate * FeeDen <= q * RebateNum
  BY <1>1, FeeConstants, DivBounds DEF MakerRebate
<1> HIDE DEF fee, rebate
<1>4. FillerReward(fee) \in Nat /\ FillerReward(fee) * RewardDen <= fee * RewardNum
  <2>1. fee * RewardNum \in Nat
    BY <1>2, FeeConstants, ProductNat
  <2> DEFINE r == FillerReward(fee)
             s == (fee * RewardNum) \div RewardDen
  <2>2. s \in Nat /\ s * RewardDen <= fee * RewardNum
    BY <2>1, FeeConstants, DivBounds
  <2>3. r \in Nat /\ r <= s
    BY <1>2, FillerRewardBounds
  <2> HIDE DEF r, s
  <2>4. r * RewardDen <= s * RewardDen
    BY <2>2, <2>3, FeeConstants
  <2>5. r * RewardDen \in Int /\ s * RewardDen \in Int /\ fee * RewardNum \in Int
    BY <2>1, <2>2, <2>3, FeeConstants
  <2> QED
    BY <2>2, <2>3, <2>4, <2>5 DEF r
<1>5. reward \in Nat /\ reward * RewardDen <= fee * RewardNum
  <2>1. CASE reward = 0
    <3>1. fee * RewardNum \in Nat
      BY <1>2, FeeConstants, ProductNat
    <3> QED
      BY <2>1, <3>1, FeeConstants
  <2>2. CASE reward = FillerReward(fee)
    BY <1>4, <2>2
  <2> QED
    BY <2>1, <2>2 DEF fee
<1>6. reward + rebate <= fee
  BY <1>2, <1>3, <1>5, FeeConstants, FeeTierAssumption, Shares
<1> QED
  BY <1>2, <1>3, <1>5, <1>6 DEF fee, rebate
-----------------------------------------------------------------------------
(* Matches and fills on an exchange.                                       *)

LEMMA TermsCarry ==
  ASSUME NEW U, NEW V, NEW W, SameTerms(U, V), SameTerms(V, W)
  PROVE  SameTerms(U, W)
BY DEF SameTerms

LEMMA OrdersKeepTerms ==
  ASSUME NEW V, NEW W, SameOrders(V, W)
  PROVE  SameTerms(V, W)
BY DEF SameTerms, SameOrders

LEMMA LiveByTerms ==
  ASSUME NEW V, NEW W, SameTerms(V, W), NEW u \in Users, NEW i \in Slots
  PROVE  Live(V.acct[u].orders[i]) <=> Live(W.acct[u].orders[i])
BY DEF SameTerms, Live

LEMMA RewardedKeeps ==
  ASSUME NEW W, WorldOK(W), NEW f \in Users \cup {NoFiller}, NEW reward \in Nat,
         f = NoFiller => reward = 0
  PROVE  /\ WorldOK(Rewarded(W, f, reward)) /\ SameFunds(Rewarded(W, f, reward), W)
         /\ SameOrders(Rewarded(W, f, reward), W)
         /\ BaseHeld(Rewarded(W, f, reward)) = BaseHeld(W)
         /\ QuoteHeld(Rewarded(W, f, reward)) = QuoteHeld(W) + reward
<1>1. CASE f = NoFiller
  <2>1. QuoteHeld(W) \in Int
    BY HeldIsInt
  <2> QED
    BY <1>1, <2>1 DEF Rewarded, SameFunds, SameOrders
<1>2. CASE f # NoFiller
  <2>1. f \in Users /\ reward \in Int
    BY <1>2
  <2> DEFINE V == Credit(W, f, "quote", reward)
  <2>2. /\ WorldOK(V) /\ SameFunds(V, W) /\ SameOrders(V, W)
        /\ BaseHeld(V) = BaseHeld(W) /\ QuoteHeld(V) = QuoteHeld(W) + reward
    <3>1. \A d \in Int : d = reward => V = Credit(W, f, "quote", d)
      OBVIOUS
    <3> HIDE DEF V
    <3> QED
      BY <2>1, <3>1, CreditKeeps
  <2> QED
    BY <1>2, <2>2 DEF Rewarded
<1> QED
  BY <1>1, <1>2

LEMMA MatchKeeps ==
  ASSUME NEW W, Good(W), NEW t \in Users, NEW m \in Users, t # m,
         NEW i \in Slots, NEW j \in Slots, NEW f \in Users \cup {NoFiller},
         Live(W.acct[t].orders[i]), Live(W.acct[m].orders[j]),
         W.acct[m].orders[j].price > 0,
         W.acct[m].orders[j].long # W.acct[t].orders[i].long
  PROVE  /\ Good(MatchOrders(W, t, i, m, j, f))
         /\ SameTerms(MatchOrders(W, t, i, m, j, f), W)
<1> DEFINE taker == W.acct[t].orders[i]
           maker == W.acct[m].orders[j]
           n == Least(FillableAt(W, t, i, maker.price), FillableAt(W, m, j, maker.price))
           q == n * maker.price
           fee == TakerFee(q)
           rebate == MakerRebate(q)
           reward == IF f = NoFiller THEN 0 ELSE FillerReward(fee)
           left == fee - reward - rebate
           W1 == Fill(W, t, i, n, q, fee)
           W2 == Fill(W1, m, j, n, q, -rebate)
           W3 == Rewarded(W2, f, reward)
           W4 == Earn(W3, left, left)
<1>1. \/ MatchOrders(W, t, i, m, j, f) = W
      \/ n # 0 /\ MatchOrders(W, t, i, m, j, f) = W4
  <2>1. CASE ~Crosses(maker, taker.price) \/ n = 0
    BY <2>1 DEF MatchOrders
  <2>2. CASE Crosses(maker, taker.price) /\ n # 0
    BY <2>2, Zenon DEF MatchOrders
  <2> QED
    BY <2>1, <2>2
<1>2. WorldOK(W) /\ Books(W)
  BY DEF Good
<1>3. maker \in Order /\ taker \in Order /\ maker.price \in Nat \ {0}
      /\ maker.long \in BOOLEAN /\ taker.long \in BOOLEAN
      /\ Unfilled(maker) \in Int /\ Unfilled(taker) \in Int
  BY <1>2, AccountOf, OrderFields
<1>4. n \in Nat /\ n <= Unfilled(taker) /\ n <= Unfilled(maker)
  <2> DEFINE x == FillableAt(W, t, i, maker.price)
             y == FillableAt(W, m, j, maker.price)
  <2>1. /\ x \in Nat /\ x <= Unfilled(taker) /\ y \in Nat /\ y <= Unfilled(maker)
    BY <1>2, <1>3, FillableBounds
  <2>2. n = Least(x, y)
    OBVIOUS
  <2> HIDE DEF x, y, n, taker, maker
  <2> QED
    BY <1>3, <2>1, <2>2 DEF Least
<1> HIDE DEF n
<1>5. q \in Nat
  BY <1>3, <1>4
<1> HIDE DEF q
<1>6. reward \in {0, FillerReward(TakerFee(q))}
  OBVIOUS
<1>7. fee \in Nat /\ rebate \in Nat /\ reward \in Nat /\ left \in Nat
  BY <1>5, <1>6, MarketShare
<1>8. f = NoFiller => reward = 0
  OBVIOUS
<1>9. left = (fee - reward) - rebate
  OBVIOUS
<1> HIDE DEF fee, rebate, reward, left
<1>10. SUFFICES ASSUME n # 0 PROVE Good(W4) /\ SameTerms(W4, W)
  BY <1>1 DEF SameTerms
<1>11. n \in Nat \ {0}
  BY <1>4, <1>10
<1>12. /\ WorldOK(W1) /\ SameFunds(W1, W) /\ SameTerms(W1, W)
       /\ W1.acct[m] = W.acct[m]
       /\ BaseHeld(W1) = BaseHeld(W) + Sign(taker.long) * n
       /\ QuoteHeld(W1) = (QuoteHeld(W) - Sign(taker.long) * q) - fee
  BY <1>2, <1>4, <1>5, <1>7, <1>11, FillKeeps
<1> HIDE DEF W1
<1>13. /\ WorldOK(W2) /\ SameFunds(W2, W1) /\ SameTerms(W2, W1)
       /\ BaseHeld(W2) = BaseHeld(W1) + Sign(maker.long) * n
       /\ QuoteHeld(W2) = (QuoteHeld(W1) - Sign(maker.long) * q) - (-rebate)
  <2>1. W1.acct[m].orders[j] = maker /\ -rebate \in Int
    BY <1>7, <1>12
  <2> QED
    BY <1>4, <1>5, <1>11, <1>12, <2>1, FillKeeps
<1> HIDE DEF W2
<1>14. /\ WorldOK(W3) /\ SameFunds(W3, W2) /\ SameOrders(W3, W2)
       /\ BaseHeld(W3) = BaseHeld(W2) /\ QuoteHeld(W3) = QuoteHeld(W2) + reward
  BY <1>7, <1>8, <1>13, RewardedKeeps
<1> HIDE DEF W3
<1>15. /\ WorldOK(W4) /\ W4.acct = W3.acct /\ W4.vault = W3.vault /\ W4.owed = W3.owed
       /\ W4.pool = W3.pool + left /\ W4.earned = W3.earned + left
       /\ BaseHeld(W4) = BaseHeld(W3) /\ QuoteHeld(W4) = QuoteHeld(W3)
  <2>1. W3.pool + left \in Nat /\ left \in Int
    BY <1>7, <1>14, WorldFields DEF WorldOK
  <2> QED
    BY <1>14, <2>1, EarnKeeps
<1> HIDE DEF W4
<1>16. SameTerms(W4, W)
  <2>1. SameTerms(W3, W)
    BY <1>12, <1>13, <1>14, TermsCarry, OrdersKeepTerms
  <2> QED
    BY <1>15, <2>1 DEF SameTerms
<1>17. /\ BaseHeld(W) \in Int /\ QuoteHeld(W) \in Int /\ W.pool \in Int
       /\ W.earned \in Int /\ W.owed \in Int
  BY <1>2, HeldIsInt, WorldFields DEF WorldOK
<1>18. \/ Sign(taker.long) = 1 /\ Sign(maker.long) = -1
       \/ Sign(taker.long) = -1 /\ Sign(maker.long) = 1
  BY <1>3 DEF Sign
<1>19. BaseHeld(W4) = BaseHeld(W) /\ QuoteHeld(W4) = QuoteHeld(W) - left
  <2> HIDE DEF taker, maker
  <2> DEFINE s == Sign(taker.long)
             r == Sign(maker.long)
  <2>1. (s = 1 /\ r = -1) \/ (s = -1 /\ r = 1)
    BY <1>18
  <2>2. /\ BaseHeld(W1) = BaseHeld(W) + s * n
        /\ QuoteHeld(W1) = (QuoteHeld(W) - s * q) - fee
        /\ BaseHeld(W2) = BaseHeld(W1) + r * n
        /\ QuoteHeld(W2) = (QuoteHeld(W1) - r * q) - (-rebate)
    BY <1>12, <1>13
  <2> HIDE DEF s, r
  <2>5. /\ s * n \in Int /\ s * q \in Int /\ r * n = -(s * n) /\ r * q = -(s * q)
    <3>1. CASE s = 1 /\ r = -1
      BY <1>4, <1>5, <3>1
    <3>2. CASE s = -1 /\ r = 1
      BY <1>4, <1>5, <3>2
    <3> QED
      BY <2>1, <3>1, <3>2
  <2> DEFINE x == s * n
             y == s * q
             xx == r * n
             yy == r * q
  <2>6. /\ x \in Int /\ y \in Int /\ xx = -x /\ yy = -y
        /\ BaseHeld(W1) = BaseHeld(W) + x
        /\ QuoteHeld(W1) = (QuoteHeld(W) - y) - fee
        /\ BaseHeld(W2) = BaseHeld(W1) + xx
        /\ QuoteHeld(W2) = (QuoteHeld(W1) - yy) - (-rebate)
    BY <2>2, <2>5
  <2> HIDE DEF x, y, xx, yy
  <2>3. BaseHeld(W4) = BaseHeld(W)
    BY <1>14, <1>15, <1>17, <2>6
  <2>4. QuoteHeld(W4) = ((QuoteHeld(W) - fee) + rebate) + reward
    BY <1>7, <1>14, <1>15, <1>17, <2>6
  <2> QED
    BY <1>7, <1>9, <1>17, <2>3, <2>4
<1>20. Books(W4)
  <2>1. /\ W4.vault = W.vault /\ W4.owed = W.owed
        /\ W4.pool = W.pool + left /\ W4.earned = W.earned + left
    BY <1>12, <1>13, <1>14, <1>15 DEF SameFunds
  <2> QED
    BY <1>2, <1>7, <1>17, <1>19, <2>1 DEF Books
<1> QED
  BY <1>15, <1>16, <1>20 DEF Good

LEMMA ExternalKeeps ==
  ASSUME NEW W, Good(W), NEW t \in Users, NEW i \in Slots,
         NEW f \in Users \cup {NoFiller}, Live(W.acct[t].orders[i]),
         NEW x \in ExternalFills(W, t, i)
  PROVE  Good(FillExternally(W, t, i, x, f))
<1> DEFINE o == W.acct[t].orders[i]
           q == x.n * x.price
           fees == ExternalFees(q, x, W.pool + x.settled, f # NoFiller)
           W1 == Fill(W, t, i, x.n, q, fees.user)
           W2 == Rewarded(W1, f, fees.reward)
           gain == fees.pool + x.settled
           W3 == Earn(W2, fees.market, gain)
           V == FillExternally(W, t, i, x, f)
<1>1. WorldOK(W) /\ Books(W)
  BY DEF Good
<1>2. W \in WorldType /\ W.pool \in Nat /\ W.owed \in Nat /\ W.earned \in Int
      /\ W.vault \in [Tokens -> Int]
  BY <1>1, WorldFields DEF WorldOK
<1>3. /\ x.n \in 1..FillableOf(o, W.acct[t].base) /\ x.price \in ExchangePrices
      /\ x.terms \in Exchanges /\ x.settled \in {0, W.owed}
  BY DEF ExternalFills
<1>4. /\ x.n \in Nat \ {0} /\ x.n <= Unfilled(o) /\ x.price \in Nat
      /\ x.terms.fee \in Nat /\ x.terms.rebate \in Nat
      /\ x.settled \in Nat /\ x.settled <= W.owed
  <2>1. W.acct[t].base \in Int /\ Unfilled(o) \in Nat
    BY <1>1, AccountOf, AccountFields, OrderFields DEF OrderOK
  <2> HIDE DEF o
  <2>2. FillableOf(o, W.acct[t].base) \in Nat
        /\ FillableOf(o, W.acct[t].base) <= Unfilled(o)
    BY <2>1 DEF FillableOf, Least, Size
  <2>3. x.n \in Nat \ {0} /\ x.n <= Unfilled(o)
    BY <1>3, <2>1, <2>2
  <2>4. x.price \in Nat /\ x.terms.fee \in Nat /\ x.terms.rebate \in Nat
    BY <1>3, SpotOrdersAssumption
  <2>5. x.settled \in Nat /\ x.settled <= W.owed
    BY <1>2, <1>3
  <2> QED
    BY <2>3, <2>4, <2>5
<1>5. q \in Nat
  BY <1>4, ProductNat
<1> HIDE DEF q
<1> DEFINE fee == x.terms.fee
           rebate == x.terms.rebate
           user == fees.user
           reward == fees.reward
           market == fees.market
<1>6. /\ user \in Nat /\ reward \in Nat /\ market \in Nat
      /\ (f = NoFiller => reward = 0)
      /\ market = (user - fee) - reward /\ fees.pool = ((user - fee) - reward) - rebate
      /\ W.pool + gain \in Nat
  <2> DEFINE pool == W.pool + x.settled
             costs == fee + rebate
             rewarded == f # NoFiller
             available == Least(user - fee, Most(pool, user - costs))
  <2>1. pool \in Nat /\ fee \in Nat /\ rebate \in Nat /\ rewarded \in BOOLEAN
    BY <1>2, <1>4
  <2>2. TakerFee(q) \in Nat /\ FillerReward(q) \in Nat
    BY <1>5, FillerRewardBounds, FeeConstants, ProductNat, CeilDivBounds DEF TakerFee
  <2>3. /\ user = Most(TakerFee(q), costs)
        /\ reward = IF rewarded THEN Least(FillerReward(q), available) ELSE 0
        /\ market = (user - fee) - reward
        /\ fees.pool = ((user - fee) - reward) - rebate
    BY DEF ExternalFees
  <2>4. gain = fees.pool + x.settled
    OBVIOUS
  <2> DEFINE share == fees.pool
  <2>5. /\ share = ((user - fee) - reward) - rebate /\ gain = share + x.settled
        /\ (f = NoFiller => ~rewarded)
    BY <2>3, <2>4
  <2> HIDE DEF user, reward, market, gain, fee, rebate, rewarded, share
  <2>6. user \in Nat /\ user >= fee + rebate
    BY <2>1, <2>2, <2>3 DEF Most
  <2>7. /\ reward \in Nat /\ reward <= user - fee
        /\ reward <= pool \/ reward <= (user - fee) - rebate
        /\ (f = NoFiller => reward = 0)
    BY <2>1, <2>2, <2>3, <2>5, <2>6 DEF Least, Most
  <2>8. market \in Nat /\ W.pool + gain \in Nat
    BY <1>2, <1>4, <2>1, <2>3, <2>5, <2>6, <2>7
  <2> QED
    BY <2>3, <2>6, <2>7, <2>8
<1>7. V = [W3 EXCEPT !.owed = @ + (rebate - x.settled), !.vault = VaultAfter(W, o.long, x)]
  BY DEF FillExternally, q
<1> HIDE DEF fee, rebate, user, reward, market, gain, fees
<1>8. /\ WorldOK(W1) /\ SameFunds(W1, W)
      /\ BaseHeld(W1) = BaseHeld(W) + Sign(o.long) * x.n
      /\ QuoteHeld(W1) = (QuoteHeld(W) - Sign(o.long) * q) - user
  BY <1>1, <1>4, <1>5, <1>6, FillKeeps DEF user
<1> HIDE DEF W1
<1>9. /\ WorldOK(W2) /\ SameFunds(W2, W1)
      /\ BaseHeld(W2) = BaseHeld(W1) /\ QuoteHeld(W2) = QuoteHeld(W1) + reward
  BY <1>6, <1>8, RewardedKeeps DEF reward
<1> HIDE DEF W2
<1>10. /\ WorldOK(W3) /\ W3.acct = W2.acct /\ W3.vault = W.vault /\ W3.owed = W.owed
       /\ W3.pool = W.pool + gain /\ W3.earned = W.earned + market
       /\ BaseHeld(W3) = BaseHeld(W2) /\ QuoteHeld(W3) = QuoteHeld(W2)
  <2>1. W2.vault = W.vault /\ W2.owed = W.owed /\ W2.pool = W.pool /\ W2.earned = W.earned
    BY <1>8, <1>9 DEF SameFunds
  <2>2. W2.pool + gain \in Nat /\ gain \in Int /\ market \in Int
    <3>1. gain \in Int
      BY <1>4, <1>6 DEF gain, fee, rebate, user, reward, fees
    <3> QED
      BY <1>6, <2>1, <3>1
  <2>3. /\ WorldOK(W3) /\ W3.acct = W2.acct /\ W3.vault = W2.vault /\ W3.owed = W2.owed
        /\ W3.pool = W2.pool + gain /\ W3.earned = W2.earned + market
        /\ BaseHeld(W3) = BaseHeld(W2) /\ QuoteHeld(W3) = QuoteHeld(W2)
    BY <1>9, <2>2, EarnKeeps DEF market
  <2> QED
    BY <2>1, <2>3
<1> HIDE DEF W3
<1>11. o.long \in BOOLEAN /\ Sign(o.long) \in Int /\ Sign(o.long) * x.n \in Int
       /\ Sign(o.long) * q \in Int
  <2>1. o.long \in BOOLEAN /\ Sign(o.long) \in Int
    BY <1>1, AccountOf, OrderFields DEF Sign
  <2> QED
    BY <1>4, <1>5, <2>1
<1>12. VaultAfter(W, o.long, x)
         = [base |-> W.vault["base"] + Sign(o.long) * x.n,
            quote |-> W.vault["quote"]
                        + ((((x.settled - Sign(o.long) * q) - fee)) - rebate)]
  BY <1>4, <1>11 DEF VaultAfter, q, fee, rebate
<1> DEFINE vault == VaultAfter(W, o.long, x)
           x1 == Sign(o.long) * x.n
           x2 == Sign(o.long) * q
<1>13. /\ fee \in Nat /\ rebate \in Nat /\ x1 \in Int /\ x2 \in Int
       /\ W.vault["base"] \in Int /\ W.vault["quote"] \in Int
  BY <1>2, <1>4, <1>11 DEF fee, rebate, Tokens
<1>14. /\ vault["base"] = W.vault["base"] + x1
       /\ vault["quote"] = W.vault["quote"] + (((x.settled - x2) - fee) - rebate)
  BY <1>12
<1>15. vault \in [Tokens -> Int]
  <2> HIDE DEF x1, x2
  <2>1. /\ W.vault["base"] + x1 \in Int
        /\ W.vault["quote"] + (((x.settled - x2) - fee) - rebate) \in Int
    BY <1>4, <1>13
  <2> QED
    BY <1>12, <2>1 DEF Tokens, x1, x2
<1>16. W.owed + (rebate - x.settled) \in Nat
  BY <1>2, <1>4, <1>13
<1> HIDE DEF V, x1, x2, vault
<1>17. /\ V \in WorldType /\ V.acct = W3.acct /\ V.pool = W3.pool /\ V.earned = W3.earned
       /\ V.vault = vault /\ V.owed = W.owed + (rebate - x.settled)
  <2>1. W3 \in WorldType /\ V = [W3 EXCEPT !.owed = @ + (rebate - x.settled), !.vault = vault]
    BY <1>7, <1>10 DEF WorldOK, vault
  <2> QED
    BY <1>10, <1>15, <1>16, <2>1 DEF WorldType
<1>18. WorldOK(V) /\ BaseHeld(V) = BaseHeld(W3) /\ QuoteHeld(V) = QuoteHeld(W3)
  BY <1>10, <1>17 DEF WorldOK, BaseHeld, QuoteHeld
<1>19. BaseHeld(W) \in Int /\ QuoteHeld(W) \in Int
  BY <1>1, HeldIsInt
<1>20. BaseHeld(V) = BaseHeld(W) + x1
       /\ QuoteHeld(V) = ((QuoteHeld(W) - x2) - user) + reward
  BY <1>8, <1>9, <1>10, <1>18 DEF x1, x2
<1>21. V.vault["base"] = BaseHeld(V)
  BY <1>1, <1>14, <1>17, <1>20 DEF Books
<1>22. gain = (((user - fee) - reward) - rebate) + x.settled
  BY <1>6 DEF gain
<1>23. V.vault["quote"] = W.vault["quote"] + (((x.settled - x2) - fee) - rebate)
  BY <1>14, <1>17
<1>24. V.vault["quote"] >= QuoteHeld(V) + V.pool
  <2>1. W.vault["quote"] >= QuoteHeld(W) + W.pool
    BY <1>1 DEF Books
  <2>2. V.pool = W.pool + gain
    BY <1>10, <1>17
  <2> QED
    BY <1>2, <1>4, <1>6, <1>13, <1>19, <1>20, <1>22, <1>23, <2>1, <2>2
<1>25. V.vault["quote"] + V.owed = QuoteHeld(V) + V.earned
  <2>1. W.vault["quote"] + W.owed = QuoteHeld(W) + W.earned
    BY <1>1 DEF Books
  <2>2. V.earned = W.earned + market
    BY <1>10, <1>17
  <2> QED
    BY <1>2, <1>4, <1>6, <1>13, <1>17, <1>19, <1>20, <1>23, <2>1, <2>2
<1> QED
  BY <1>18, <1>21, <1>24, <1>25 DEF Good, Books, V

(* Nothing was filled, but older rebates may have been settled.            *)
LEMMA UnmatchedKeeps ==
  ASSUME NEW W, Good(W), NEW r \in {0, W.owed}
  PROVE  Good(Unmatched(W, r))
<1> DEFINE V == Unmatched(W, r)
<1>1. WorldOK(W) /\ Books(W)
  BY DEF Good
<1>2. /\ W \in WorldType /\ W.owed \in Nat /\ W.pool \in Nat /\ W.earned \in Int
      /\ W.vault \in [Tokens -> Int] /\ r \in Nat /\ r <= W.owed
  BY <1>1, WorldFields DEF WorldOK
<1>3. W.vault["quote"] \in Int /\ W.vault["base"] \in Int
  BY <1>2 DEF Tokens
<1> DEFINE vault == [W.vault EXCEPT !["quote"] = @ + r]
<1>4. /\ vault \in [Tokens -> Int] /\ vault["quote"] = W.vault["quote"] + r
      /\ vault["base"] = W.vault["base"]
  BY <1>2, <1>3 DEF Tokens
<1>5. V = [W EXCEPT !.vault = vault, !.owed = W.owed - r]
  BY <1>2 DEF Unmatched, WorldType
<1> HIDE DEF vault, V
<1>6. W.owed - r \in Nat
  BY <1>2
<1>7. /\ V \in WorldType /\ V.acct = W.acct /\ V.pool = W.pool /\ V.earned = W.earned
      /\ V.vault = vault /\ V.owed = W.owed - r
  BY <1>2, <1>4, <1>5, <1>6 DEF WorldType
<1>8. WorldOK(V) /\ BaseHeld(V) = BaseHeld(W) /\ QuoteHeld(V) = QuoteHeld(W)
  BY <1>1, <1>7 DEF WorldOK, BaseHeld, QuoteHeld
<1>9. BaseHeld(W) \in Int /\ QuoteHeld(W) \in Int
  BY <1>1, HeldIsInt
<1>10. Books(V)
  BY <1>1, <1>2, <1>3, <1>4, <1>7, <1>8, <1>9 DEF Books
<1> QED
  BY <1>8, <1>10 DEF Good, V
-----------------------------------------------------------------------------
(* A match with each maker in turn: the recursion has a solution, and the  *)
(* orders keep their terms from one match to the next.                     *)

IsRun(g, W, t, i, s, f, n) ==
  g = [k \in 0..n |-> IF k = 0 THEN W ELSE MatchWhileOpen(g[k - 1], t, i, s[k], f)]

LEMMA RunExists ==
  ASSUME NEW W, NEW t, NEW i, NEW s, NEW f, NEW n \in Nat
  PROVE  \E g : IsRun(g, W, t, i, s, f, n)
<1> DEFINE P == {k \in 0..n : \E g : IsRun(g, W, t, i, s, f, k)}
<1>1. 0 \in P
  <2> DEFINE g == [k \in 0..0 |-> W]
  <2>1. g = [k \in 0..0 |-> IF k = 0 THEN W ELSE MatchWhileOpen(g[k - 1], t, i, s[k], f)]
    <3>1. \A k \in 0..0 : k = 0
      OBVIOUS
    <3> QED
      BY <3>1
  <2>2. IsRun(g, W, t, i, s, f, 0)
    BY <2>1 DEF IsRun
  <2> QED
    BY <2>2
<1>2. ASSUME NEW k \in 0..n - 1, k \in P PROVE k + 1 \in P
  <2>1. PICK g : IsRun(g, W, t, i, s, f, k)
    BY <1>2
  <2> DEFINE h == [l \in 0..k + 1 |-> IF l = k + 1 THEN MatchWhileOpen(g[k], t, i, s[k + 1], f)
                                      ELSE g[l]]
             H(l) == IF l = 0 THEN W ELSE MatchWhileOpen(h[l - 1], t, i, s[l], f)
  <2>2. ASSUME NEW l \in 0..k + 1 PROVE h[l] = H(l)
    <3>1. CASE l = k + 1
      <4>1. h[l] = MatchWhileOpen(g[k], t, i, s[k + 1], f) /\ h[k] = g[k] /\ l - 1 = k
            /\ l # 0
        BY <3>1
      <4> HIDE DEF h
      <4> QED
        BY <3>1, <4>1
    <3>2. CASE l # k + 1
      <4>1. l \in 0..k
        BY <3>2
      <4>2. g[l] = IF l = 0 THEN W ELSE MatchWhileOpen(g[l - 1], t, i, s[l], f)
        BY <2>1, <4>1 DEF IsRun
      <4>3. h[l] = g[l] /\ (l # 0 => h[l - 1] = g[l - 1])
        BY <3>2, <4>1
      <4> HIDE DEF h
      <4> QED
        BY <4>2, <4>3
    <3> QED
      BY <3>1, <3>2
  <2>3. h = [l \in 0..k + 1 |-> H(l)]
    <3>1. h = [l \in 0..k + 1 |-> h[l]]
      OBVIOUS
    <3> HIDE DEF h, H
    <3> QED
      BY <2>2, <3>1
  <2>4. IsRun(h, W, t, i, s, f, k + 1)
    <3> HIDE DEF h
    <3> QED
      BY <2>3 DEF IsRun
  <2>5. k + 1 \in 0..n
    OBVIOUS
  <2> HIDE DEF h
  <2> QED
    BY <2>4, <2>5
<1>3. \A k \in 0..n : k \in P
  <2> HIDE DEF P
  <2> QED
    BY <1>1, <1>2, UpToInduction
<1> QED
  BY <1>3

CanMatch(W, t, i, mj) ==
  /\ mj[1] \in Users /\ mj[2] \in Slots /\ mj[1] # t
  /\ Live(W.acct[mj[1]].orders[mj[2]])
  /\ W.acct[mj[1]].orders[mj[2]].price > 0
  /\ W.acct[mj[1]].orders[mj[2]].long # W.acct[t].orders[i].long

LEMMA MatchInTurnKeeps ==
  ASSUME NEW W, Good(W), NEW t \in Users, NEW i \in Slots,
         NEW f \in Users \cup {NoFiller}, Live(W.acct[t].orders[i]),
         NEW n \in Nat, NEW S, NEW s \in [1..n -> S],
         \A mj \in S : CanMatch(W, t, i, mj)
  PROVE  /\ Good(MatchInTurn(W, t, i, s, f))
         /\ SameTerms(MatchInTurn(W, t, i, s, f), W)
<1>1. Len(s) = n
  OBVIOUS
<1> DEFINE g == CHOOSE h : IsRun(h, W, t, i, s, f, n)
<1>2. MatchInTurn(W, t, i, s, f) = g[n]
  BY <1>1 DEF MatchInTurn, IsRun
<1>3. IsRun(g, W, t, i, s, f, n)
  BY RunExists
<1> HIDE DEF g
<1>4. \A k \in 0..n :
        g[k] = IF k = 0 THEN W ELSE MatchWhileOpen(g[k - 1], t, i, s[k], f)
  BY <1>3 DEF IsRun
<1> DEFINE P == {k \in 0..n : Good(g[k]) /\ SameTerms(g[k], W)}
<1>5. 0 \in P
  BY <1>4 DEF SameTerms
<1>6. ASSUME NEW k \in 0..n - 1, k \in P PROVE k + 1 \in P
  <2> DEFINE V == g[k]
             mj == s[k + 1]
             X == MatchWhileOpen(V, t, i, mj, f)
  <2>1. g[k + 1] = X /\ k + 1 \in 0..n
    BY <1>4
  <2>2. Good(V) /\ SameTerms(V, W)
    BY <1>6
  <2>3. CanMatch(W, t, i, mj)
    <3>1. k + 1 \in 1..n
      OBVIOUS
    <3>2. mj \in S
      BY <3>1
    <3> QED
      BY <3>2
  <2> HIDE DEF V, mj
  <2>4. CanMatch(V, t, i, mj) /\ Live(V.acct[t].orders[i])
    BY <2>2, <2>3, LiveByTerms DEF CanMatch, SameTerms
  <2>5. Good(MatchOrders(V, t, i, mj[1], mj[2], f))
        /\ SameTerms(MatchOrders(V, t, i, mj[1], mj[2], f), V)
    BY <2>2, <2>4, MatchKeeps DEF CanMatch
  <2>6. Good(X) /\ SameTerms(X, V)
    BY <2>2, <2>5 DEF MatchWhileOpen, SameTerms
  <2> HIDE DEF X
  <2>7. SameTerms(X, W)
    BY <2>2, <2>6, TermsCarry
  <2> QED
    BY <2>1, <2>6, <2>7
<1>7. \A k \in 0..n : k \in P
  <2> HIDE DEF P
  <2> QED
    BY <1>5, <1>6, UpToInduction
<1> QED
  BY <1>2, <1>7
-----------------------------------------------------------------------------
(* The maker orders that are cancelled for a reward.                       *)

LEMMA ZeroButOne ==
  ASSUME NEW f \in Users, NEW d \in Int
  PROVE  SumFunctionOnSet([u \in Users |-> IF u = f THEN d ELSE 0], Users) = d
<1> DEFINE F == [u \in Users |-> 0]
           G == [u \in Users |-> IF u = f THEN d ELSE 0]
<1>1. IsFiniteSet(Users)
  BY SpotOrdersAssumption
<1>2. /\ \A u \in Users : F[u] \in Int /\ F[u] = 0
      /\ G[f] = d /\ G[f] \in Int /\ \A u \in Users : u # f => F[u] = G[u]
  OBVIOUS
<1> HIDE DEF F, G
<1>3. SumFunctionOnSet(G, Users) = SumFunctionOnSet(F, Users) + (G[f] - F[f])
  <2>1. G[f] \in Int /\ \A u \in Users : F[u] \in Int
    BY <1>2
  <2>2. \A u \in Users : u # f => F[u] = G[u]
    BY <1>2
  <2> QED
    BY <1>1, <2>1, <2>2, SumUpdate
<1>4. SumFunctionOnSet(F, Users) = 0
  BY <1>1, <1>2, SumZero
<1> QED
  BY <1>2, <1>3, <1>4 DEF G

(* Rewards between the users sum to nothing.                               *)
LEMMA DuesCancelOut ==
  ASSUME NEW f \in Users \cup {NoFiller}, NEW due \in [Users -> Int],
         f = NoFiller => \A u \in Users : due[u] = 0,
         NEW D, D = SumFunctionOnSet(due, Users)
  PROVE  /\ D \in Int
         /\ SumFunctionOnSet([u \in Users |-> (IF u = f THEN D ELSE 0) - due[u]], Users) = 0
<1> DEFINE E == [u \in Users |-> IF u = f THEN D ELSE 0]
           H == [u \in Users |-> (IF u = f THEN D ELSE 0) - due[u]]
<1>1. IsFiniteSet(Users) /\ NoFiller \notin Users
  BY SpotOrdersAssumption
<1>2. D \in Int /\ \A u \in Users : due[u] \in Int
  BY <1>1, SumIsInt
<1>3. \A u \in Users : E[u] \in Int /\ due[u] \in Int /\ H[u] = E[u] + (-1) * due[u]
  BY <1>2
<1>4. SumFunctionOnSet(E, Users) = D
  <2>1. CASE f \in Users
    BY <1>2, <2>1, ZeroButOne
  <2>2. CASE f = NoFiller
    <3>1. D = 0
      BY <1>1, <2>2, SumZero
    <3>2. \A u \in Users : E[u] = 0
      BY <1>1, <2>2
    <3> HIDE DEF E
    <3> QED
      BY <1>1, <3>1, <3>2, SumZero
  <2> QED
    BY <2>1, <2>2
<1> HIDE DEF E, H
<1>5. -1 \in Int
  OBVIOUS
<1>6. SumFunctionOnSet(H, Users)
        = SumFunctionOnSet(E, Users) + (-1) * SumFunctionOnSet(due, Users)
  BY <1>1, <1>3, <1>5, SumLinear
<1>7. SumFunctionOnSet(H, Users) = 0
  BY <1>2, <1>4, <1>6
<1> QED
  BY <1>2, <1>7 DEF H

OpenOrdersOf(W, S) ==
  \A mj \in S : /\ mj \in Users \X Slots
                 /\ W.acct[mj[1]].orders[mj[2]].open

LEMMA CancelUnfitKeeps ==
  ASSUME NEW W, Good(W), NEW S, OpenOrdersOf(W, S), NEW f \in Users \cup {NoFiller}
  PROVE  /\ Good(CancelUnfit(W, S, f))
         /\ \A u \in Users, i \in Slots : <<u, i>> \notin S =>
              CancelUnfit(W, S, f).acct[u].orders[i] = W.acct[u].orders[i]
<1> DEFINE slots(u) == {i \in Slots : <<u, i>> \in S}
           due == [u \in Users |-> IF f = NoFiller THEN 0 ELSE Cardinality(slots(u)) * Flat]
           D == SumFunctionOnSet(due, Users)
           gain == [u \in Users |-> (IF u = f THEN D ELSE 0) - due[u]]
           b(u) == CancelSlots(W.acct[u], slots(u))
           acct == [u \in Users |-> [b(u) EXCEPT !.quote = @ + gain[u]]]
           V == CancelUnfit(W, S, f)
<1>1. WorldOK(W) /\ Books(W) /\ W \in WorldType
  BY DEF Good, WorldOK
<1>2. \A u \in Users : slots(u) \in SUBSET OpenSlots(W.acct[u])
  <2> SUFFICES ASSUME NEW u \in Users, NEW i \in slots(u)
               PROVE  i \in OpenSlots(W.acct[u])
    OBVIOUS
  <2>1. i \in Slots /\ <<u, i>> \in S
    OBVIOUS
  <2> QED
    BY <2>1 DEF OpenOrdersOf, OpenSlots
<1>3. due \in [Users -> Int] /\ (f = NoFiller => \A u \in Users : due[u] = 0)
  <2> SUFFICES ASSUME NEW u \in Users
               PROVE  Cardinality(slots(u)) * Flat \in Int
    OBVIOUS
  <2>1. Cardinality(slots(u)) \in Nat
    <3>1. slots(u) \subseteq Slots
      OBVIOUS
    <3> QED
      BY <3>1, SlotsFinite, FS_Subset, FS_CardinalityType
  <2>2. Flat \in Nat
    BY SpotOrdersAssumption
  <2> HIDE DEF slots
  <2> QED
    BY <2>1, <2>2
<1> HIDE DEF due
<1>4. D \in Int /\ SumFunctionOnSet(gain, Users) = 0
  BY <1>3, DuesCancelOut
<1> HIDE DEF D
<1>5. V = [W EXCEPT !.acct = acct]
  <2>1. \A u \in Users : gain[u] = (IF u = f THEN D ELSE 0) - due[u]
    OBVIOUS
  <2>2. V = [W EXCEPT !.acct = [u \in Users |->
               [b(u) EXCEPT !.quote = @ + ((IF u = f THEN D ELSE 0) - due[u])]]]
    BY DEF CancelUnfit, due, D
  <2> HIDE DEF b, V
  <2> QED
    BY <2>1, <2>2
<1>6. \A u \in Users : gain[u] \in Int
  BY <1>3, <1>4
<1> HIDE DEF gain
<1>7. \A u \in Users :
        /\ AccountOK(acct[u]) /\ acct[u].orders = Without(W.acct[u], slots(u))
        /\ acct[u].base = W.acct[u].base /\ acct[u].quote = W.acct[u].quote + gain[u]
  <2> SUFFICES ASSUME NEW u \in Users
               PROVE  /\ AccountOK(acct[u]) /\ acct[u].orders = Without(W.acct[u], slots(u))
                      /\ acct[u].base = W.acct[u].base
                      /\ acct[u].quote = W.acct[u].quote + gain[u]
    OBVIOUS
  <2>1. /\ AccountOK(b(u)) /\ b(u).orders = Without(W.acct[u], slots(u))
        /\ b(u).base = W.acct[u].base /\ b(u).quote = W.acct[u].quote
    BY <1>1, <1>2, AccountOf, CancelKeepsAccount
  <2>2. acct[u] = [b(u) EXCEPT !.quote = @ + gain[u]]
    OBVIOUS
  <2> HIDE DEF b, acct, slots
  <2> QED
    BY <1>6, <2>1, <2>2, QuoteMoves
<1> HIDE DEF acct, V
<1>8. acct \in [Users -> AccountType]
  <2>1. acct = [u \in Users |-> acct[u]]
    BY DEF acct
  <2>2. \A u \in Users : acct[u] \in AccountType
    BY <1>7 DEF AccountOK
  <2> QED
    BY <2>1, <2>2
<1>9. V \in WorldType /\ V.acct = acct /\ SameFunds(V, W)
  BY <1>1, <1>5, <1>8 DEF WorldType, SameFunds
<1>10. WorldOK(V)
  BY <1>7, <1>9 DEF WorldOK
<1>11. BaseHeld(V) = BaseHeld(W)
  <2>1. [u \in Users |-> V.acct[u].base] = [u \in Users |-> W.acct[u].base]
    BY <1>7, <1>9
  <2> QED
    BY <2>1 DEF BaseHeld
<1>12. QuoteHeld(V) = QuoteHeld(W)
  <2> DEFINE F == [u \in Users |-> W.acct[u].quote]
             H == [u \in Users |-> V.acct[u].quote]
  <2>1. IsFiniteSet(Users) /\ 1 \in Int
    BY SpotOrdersAssumption
  <2>2. \A u \in Users : W.acct[u].quote \in Int
    BY <1>1, AccountOf, AccountFields
  <2>3. \A u \in Users : F[u] \in Int /\ gain[u] \in Int /\ H[u] = F[u] + 1 * gain[u]
    <3> SUFFICES ASSUME NEW u \in Users
                 PROVE  F[u] \in Int /\ gain[u] \in Int /\ H[u] = F[u] + 1 * gain[u]
      OBVIOUS
    <3>1. F[u] = W.acct[u].quote /\ F[u] \in Int
      BY <2>2
    <3>2. H[u] = W.acct[u].quote + gain[u]
      BY <1>7, <1>9
    <3>3. gain[u] \in Int
      BY <1>6
    <3> HIDE DEF F, H
    <3> QED
      BY <3>1, <3>2, <3>3
  <2>4. QuoteHeld(V) = SumFunctionOnSet(H, Users) /\ QuoteHeld(W) = SumFunctionOnSet(F, Users)
    BY DEF QuoteHeld
  <2> HIDE DEF F, H
  <2>5. SumFunctionOnSet(H, Users)
          = SumFunctionOnSet(F, Users) + 1 * SumFunctionOnSet(gain, Users)
    BY <2>1, <2>3, SumLinear
  <2>6. SumFunctionOnSet(F, Users) \in Int
    BY <2>1, <2>3, SumIsInt
  <2> QED
    BY <1>4, <2>4, <2>5, <2>6
<1>13. Books(V)
  BY <1>1, <1>9, <1>11, <1>12 DEF Books, SameFunds
<1>14. ASSUME NEW u \in Users, NEW i \in Slots, <<u, i>> \notin S
       PROVE  V.acct[u].orders[i] = W.acct[u].orders[i]
  BY <1>7, <1>9, <1>14 DEF Without
<1> QED
  BY <1>10, <1>13, <1>14 DEF Good, V
-----------------------------------------------------------------------------
(* Placing, triggering and cancelling.                                     *)

LEMMA NewOrderOK ==
  ASSUME NEW p \in OrderParams, NEW id \in Nat, now \in Nat
  PROVE  /\ OrderOK(NewOrder(p, id)) /\ NewOrder(p, id).open
         /\ NewOrder(p, id).filled = 0
<1> DEFINE o == NewOrder(p, id)
<1>1. /\ p.long \in BOOLEAN /\ p.limit \in BOOLEAN /\ p.trigger \in {"none", "waiting"}
      /\ p.reduceOnly \in BOOLEAN /\ p.post \in BOOLEAN /\ p.size \in Nat \ {0}
      /\ p.price \in Nat \ {0} /\ p.maxTs \in Nat
  BY DEF OrderParams
<1>2. now + Life \in Nat
  BY SpotOrdersAssumption
<1>3. ForcedReduceOnly \in BOOLEAN
  BY DEF ForcedReduceOnly
<1>4. (IF p.maxTs = 0 /\ ~p.limit THEN now + Life ELSE p.maxTs) \in Nat
      /\ (p.reduceOnly \/ ForcedReduceOnly) \in BOOLEAN
  BY <1>1, <1>2, <1>3
<1>5. o \in Order
  BY <1>1, <1>4 DEF NewOrder, Order
<1>6. o.open /\ o.filled = 0 /\ o.size = p.size /\ o.price = p.price
  BY DEF NewOrder
<1> HIDE DEF o
<1>7. Unfilled(o) \in Nat \ {0} /\ o.price > 0
  BY <1>1, <1>6 DEF Unfilled
<1>8. OrderOK(o)
  <2>1. Unfilled(o) >= 0 /\ Unfilled(o) > 0
    BY <1>7
  <2> QED
    BY <1>5, <1>6, <1>7, <2>1 DEF OrderOK
<1> QED
  BY <1>6, <1>8 DEF o

LEMMA AddOrderKeepsAccount ==
  ASSUME NEW a, AccountOK(a), NEW i \in Slots, ~a.orders[i].open,
         NEW o, OrderOK(o), o.open, o.filled = 0
  PROVE  /\ AccountOK(AddOrder(a, i, o))
         /\ AddOrder(a, i, o).base = a.base /\ AddOrder(a, i, o).quote = a.quote
<1> DEFINE b == AddOrder(a, i, o)
<1>1. a \in AccountType /\ o \in Order /\ o.size \in Nat /\ Unfilled(o) = o.size
      /\ o.long \in BOOLEAN
  BY OrderFields DEF AccountOK, OrderOK, Unfilled
<1>2. /\ a.orders \in [Slots -> Order] /\ a.nextId \in Nat
      /\ a.base \in Int /\ a.quote \in Int /\ a.bids \in Int /\ a.asks \in Int
      /\ a.posOrders \in Int /\ a.openOrders \in Int /\ a.auctions \in Int
  BY <1>1, AccountFields
<1>3. /\ b.orders = [a.orders EXCEPT ![i] = o] /\ b.base = a.base /\ b.quote = a.quote
      /\ b.bids = IF Live(o) /\ o.long THEN a.bids + o.size ELSE a.bids
      /\ b.asks = IF Live(o) /\ ~o.long THEN a.asks - o.size ELSE a.asks
      /\ b.posOrders = a.posOrders + 1 /\ b.openOrders = a.openOrders + 1
      /\ b.auctions = IF HasAuction(o) THEN a.auctions + 1 ELSE a.auctions
  BY <1>1 DEF AddOrder, AccountType
<1>4. b \in AccountType
  <2>1. [a.orders EXCEPT ![i] = o] \in [Slots -> Order] /\ a.nextId + 1 \in Nat
        /\ (IF Live(o) /\ o.long THEN a.bids + o.size ELSE a.bids) \in Int
        /\ (IF Live(o) /\ ~o.long THEN a.asks - o.size ELSE a.asks) \in Int
        /\ a.posOrders + 1 \in Int /\ a.openOrders + 1 \in Int
        /\ (IF HasAuction(o) THEN a.auctions + 1 ELSE a.auctions) \in Int
    BY <1>1, <1>2
  <2> QED
    BY <1>1, <2>1 DEF AddOrder, AccountType
<1>5. \A k \in Parts : Part(a.orders[i], k) = 0
  BY DEF Part
<1>6. /\ Part(o, "bids") = IF Live(o) /\ o.long THEN o.size ELSE 0
      /\ Part(o, "asks") = IF Live(o) /\ ~o.long THEN o.size ELSE 0
      /\ Part(o, "orders") = 1
      /\ Part(o, "auctions") = IF HasAuction(o) THEN 1 ELSE 0
  BY <1>1 DEF Part
<1>7. Part(a.orders[i], "bids") = 0 /\ Part(a.orders[i], "asks") = 0
      /\ Part(a.orders[i], "orders") = 0 /\ Part(a.orders[i], "auctions") = 0
  BY <1>5 DEF Parts
<1> HIDE DEF b
<1>8. /\ b.bids = a.bids + (Part(o, "bids") - Part(a.orders[i], "bids"))
      /\ b.asks = a.asks - (Part(o, "asks") - Part(a.orders[i], "asks"))
      /\ b.posOrders = a.posOrders + (Part(o, "orders") - Part(a.orders[i], "orders"))
      /\ b.openOrders = a.openOrders + (Part(o, "orders") - Part(a.orders[i], "orders"))
      /\ b.auctions = a.auctions + (Part(o, "auctions") - Part(a.orders[i], "auctions"))
  BY <1>1, <1>2, <1>3, <1>6, <1>7
<1>9. AccountOK(b)
  BY <1>3, <1>4, <1>8, SlotStep
<1> QED
  BY <1>3, <1>9 DEF b

LEMMA TriggerKeepsAccount ==
  ASSUME NEW a, AccountOK(a), NEW i \in Slots, a.orders[i].open, ~Live(a.orders[i]),
         now \in Nat
  PROVE  /\ AccountOK(TriggerSlot(a, i))
         /\ TriggerSlot(a, i).base = a.base /\ TriggerSlot(a, i).quote = a.quote
         /\ TriggerSlot(a, i).orders[i].open
<1> DEFINE o == a.orders[i]
           p == [o EXCEPT !.trigger = "fired", !.slot = now]
           b == TriggerSlot(a, i)
<1>1. a \in AccountType /\ OrderOK(o) /\ o \in Order
  BY DEF AccountOK, OrderOK
<1>2. /\ a.orders \in [Slots -> Order] /\ a.nextId \in Nat
      /\ a.base \in Int /\ a.quote \in Int /\ a.bids \in Int /\ a.asks \in Int
      /\ a.posOrders \in Int /\ a.openOrders \in Int /\ a.auctions \in Int
  BY <1>1, AccountFields
<1>3. o.trigger = "waiting" /\ o.filled = 0
  BY <1>1 DEF Live, OrderOK
<1>4. /\ p \in Order /\ p.open = o.open /\ p.long = o.long /\ p.limit = o.limit
      /\ p.size = o.size /\ p.filled = o.filled /\ p.price = o.price
      /\ p.trigger = "fired"
  BY <1>1 DEF Order
<1>5. o.size \in Nat /\ o.long \in BOOLEAN /\ Unfilled(o) = o.size /\ Unfilled(p) = o.size
  BY <1>1, <1>3, <1>4, OrderFields DEF Unfilled
<1>6. /\ b.orders = [a.orders EXCEPT ![i] = p] /\ b.base = a.base /\ b.quote = a.quote
      /\ b.bids = IF p.long THEN a.bids + p.size ELSE a.bids
      /\ b.asks = IF p.long THEN a.asks ELSE a.asks - p.size
      /\ b.posOrders = a.posOrders /\ b.openOrders = a.openOrders
      /\ b.auctions = IF HasAuction(p) THEN a.auctions + 1 ELSE a.auctions
  BY <1>1 DEF TriggerSlot, AccountType
<1>7. b \in AccountType
  <2> HIDE DEF p
  <2>1. p.size \in Nat
    BY <1>4, <1>5
  <2>2. [a.orders EXCEPT ![i] = p] \in [Slots -> Order]
        /\ (IF p.long THEN a.bids + p.size ELSE a.bids) \in Int
        /\ (IF p.long THEN a.asks ELSE a.asks - p.size) \in Int
        /\ (IF HasAuction(p) THEN a.auctions + 1 ELSE a.auctions) \in Int
    BY <1>2, <1>4, <2>1
  <2>3. b = [a EXCEPT !.orders = [a.orders EXCEPT ![i] = p],
                      !.bids = IF p.long THEN a.bids + p.size ELSE a.bids,
                      !.asks = IF p.long THEN a.asks ELSE a.asks - p.size,
                      !.auctions = IF HasAuction(p) THEN a.auctions + 1 ELSE a.auctions]
    BY DEF TriggerSlot, p
  <2> HIDE DEF b
  <2> QED
    BY <1>1, <2>2, <2>3 DEF AccountType
<1> HIDE DEF p, b
<1>8. OrderOK(p)
  BY <1>1, <1>4, <1>5 DEF OrderOK
<1>9. /\ Part(p, "bids") = IF p.long THEN p.size ELSE 0
      /\ Part(p, "asks") = IF p.long THEN 0 ELSE p.size
      /\ Part(p, "orders") = 1
      /\ Part(p, "auctions") = IF HasAuction(p) THEN 1 ELSE 0
  BY <1>4, <1>5 DEF Part, Live
<1>10. Part(o, "bids") = 0 /\ Part(o, "asks") = 0 /\ Part(o, "orders") = 1
       /\ Part(o, "auctions") = 0
  BY DEF Part, HasAuction
<1>11. p.size \in Int
  BY <1>4, <1>5
<1>12. /\ b.bids = a.bids + (Part(p, "bids") - Part(o, "bids"))
       /\ b.asks = a.asks - (Part(p, "asks") - Part(o, "asks"))
       /\ b.posOrders = a.posOrders + (Part(p, "orders") - Part(o, "orders"))
       /\ b.openOrders = a.openOrders + (Part(p, "orders") - Part(o, "orders"))
       /\ b.auctions = a.auctions + (Part(p, "auctions") - Part(o, "auctions"))
  <2> HIDE DEF o
  <2> QED
    BY <1>2, <1>6, <1>9, <1>10, <1>11
<1>13. AccountOK(b)
  BY <1>6, <1>7, <1>8, <1>12, SlotStep
<1>14. b.orders[i].open
  BY <1>2, <1>4, <1>6
<1> QED
  BY <1>6, <1>13, <1>14 DEF b
-----------------------------------------------------------------------------
(* What an instruction does to the world.                                  *)

LEMMA ExpiredKeepsAccount ==
  ASSUME NEW a, AccountOK(a)
  PROVE  /\ AccountOK(Expired(a)) /\ Expired(a).nextId = a.nextId
         /\ Expired(a).base = a.base /\ Expired(a).quote = a.quote
<1>1. {i \in Slots : ShouldExpire(a.orders[i], now)} \in SUBSET OpenSlots(a)
  BY DEF ShouldExpire, OpenSlots
<1> QED
  BY <1>1, CancelKeepsAccount DEF Expired

LEMMA PlaceKeeps ==
  ASSUME NEW W, Good(W), NEW u \in Users, NEW p \in OrderParams, now \in Nat,
         NEW V \in PlaceSpotOrder(W, u, p)
  PROVE  Good(V) /\ \A v \in Users : v # u => V.acct[v] = W.acct[v]
<1> DEFINE a == Expired(W.acct[u])
           o == NewOrder(p, a.nextId)
<1>1. /\ AccountOK(a) /\ a.base = W.acct[u].base /\ a.quote = W.acct[u].quote
      /\ a.nextId \in Nat
  BY AccountOf, AccountFields, ExpiredKeepsAccount DEF Good
<1>2. OrderOK(o) /\ o.open /\ o.filled = 0
  BY <1>1, NewOrderOK
<1>3. \/ V = [W EXCEPT !.acct[u] = a]
      \/ \E i \in FirstFree(a) : V = [W EXCEPT !.acct[u] = AddOrder(a, i, o)]
  BY DEF PlaceSpotOrder
<1> HIDE DEF a, o
<1>4. CASE V = [W EXCEPT !.acct[u] = a]
  <2>1. Replaced(V, W, u, a)
    BY <1>4 DEF Replaced
  <2> QED
    BY <1>1, <2>1, OrdersReplaced
<1>5. CASE \E i \in FirstFree(a) : V = [W EXCEPT !.acct[u] = AddOrder(a, i, o)]
  <2>1. PICK i \in FirstFree(a) : V = [W EXCEPT !.acct[u] = AddOrder(a, i, o)]
    BY <1>5
  <2> DEFINE b == AddOrder(a, i, o)
  <2>2. i \in Slots /\ ~a.orders[i].open
    BY DEF FirstFree, OpenSlots
  <2>3. AccountOK(b) /\ b.base = W.acct[u].base /\ b.quote = W.acct[u].quote
    BY <1>1, <1>2, <2>2, AddOrderKeepsAccount
  <2>4. Replaced(V, W, u, b)
    BY <2>1 DEF Replaced
  <2> HIDE DEF b
  <2> QED
    BY <2>3, <2>4, OrdersReplaced
<1> QED
  BY <1>3, <1>4, <1>5

LEMMA TriggeredKeeps ==
  ASSUME NEW W, Good(W), NEW u \in Users, NEW i \in Slots,
         W.acct[u].orders[i].open, ~Live(W.acct[u].orders[i]), now \in Nat
  PROVE  Good(Triggered(W, u, i)) /\ Triggered(W, u, i).acct[u].orders[i].open
<1> DEFINE b == TriggerSlot(W.acct[u], i)
           V == Triggered(W, u, i)
<1>1. /\ AccountOK(b) /\ b.base = W.acct[u].base /\ b.quote = W.acct[u].quote
      /\ b.orders[i].open
  BY AccountOf, TriggerKeepsAccount DEF Good
<1>2. Replaced(V, W, u, b)
  BY DEF Triggered, Replaced
<1> HIDE DEF b, V
<1>3. Good(V) /\ V.acct[u] = b
  BY <1>1, <1>2, OrdersReplaced
<1> QED
  BY <1>1, <1>3 DEF V

LEMMA RewardedCancelKeeps ==
  ASSUME NEW W, Good(W), NEW u \in Users, NEW i \in Slots, W.acct[u].orders[i].open,
         NEW f \in Users \cup {NoFiller}
  PROVE  Good(RewardedCancel(W, u, i, f))
<1>1. {i} \in SUBSET OpenSlots(W.acct[u])
  BY DEF OpenSlots
<1>2. Good(Cancel(W, u, {i}))
  BY <1>1, CancelKeeps
<1> QED
  BY <1>2, FlatRewardKeeps DEF RewardedCancel

LEMMA CancelLeftoverKeeps ==
  ASSUME NEW W, Good(W), NEW t \in Users, NEW i \in Slots, NEW f \in Users \cup {NoFiller}
  PROVE  Good(CancelLeftover(W, t, i, f))
BY RewardedCancelKeeps DEF CancelLeftover

LEMMA CancelLastKeeps ==
  ASSUME NEW W, Good(W), NEW u \in Users, NEW id
  PROVE  Good(CancelLast(W, u, id))
<1>1. {i \in OpenSlots(W.acct[u]) : W.acct[u].orders[i].id = id}
        \in SUBSET OpenSlots(W.acct[u])
  OBVIOUS
<1> QED
  BY <1>1, CancelKeeps DEF CancelLast

(* The makers' orders that are not swept are those they were.              *)
LEMMA MakersMatch ==
  ASSUME NEW W, Good(W), NEW t \in Users, NEW i \in Slots, NEW makers \in SUBSET Users,
         NEW jit, NEW mj \in MakerOrders(W, t, i, makers, jit)
  PROVE  /\ mj \in Users \X Slots /\ mj[1] # t
         /\ W.acct[mj[1]].orders[mj[2]].open
         /\ CanMatch(W, t, i, mj)
<1>1. mj \in (makers \ {t}) \X Slots /\ CanMake(W, t, i, mj[1], mj[2], jit)
  BY DEF MakerOrders
<1>2. mj \in Users \X Slots /\ mj[1] \in Users /\ mj[2] \in Slots /\ mj[1] # t
  BY <1>1
<1>3. /\ W.acct[mj[1]].orders[mj[2]].open /\ Live(W.acct[mj[1]].orders[mj[2]])
      /\ W.acct[mj[1]].orders[mj[2]].long # W.acct[t].orders[i].long
  BY <1>1 DEF CanMake
<1>4. W.acct[mj[1]].orders[mj[2]].price > 0
  BY <1>2, <1>3, AccountOf DEF Good, OrderOK
<1> QED
  BY <1>2, <1>3, <1>4 DEF CanMatch

LEMMA MatchAllKeeps ==
  ASSUME NEW W, Good(W), NEW t \in Users, NEW i \in Slots, NEW f \in Users \cup {NoFiller},
         Live(W.acct[t].orders[i]), NEW S \in SUBSET (Users \X Slots),
         \A mj \in S : CanMatch(W, t, i, mj), NEW V \in MatchAll(W, t, i, S, f)
  PROVE  Good(V)
<1>1. PICK s \in BestFirst(W, S) : V = MatchInTurn(W, t, i, s, f)
  BY DEF MatchAll
<1>2. IsFiniteSet(Users \X Slots)
  BY SpotOrdersAssumption, SlotsFinite, FS_Product
<1>3. Cardinality(S) \in Nat
  BY <1>2, FS_Subset, FS_CardinalityType
<1>4. s \in [1..Cardinality(S) -> S]
  BY DEF BestFirst
<1> QED
  BY <1>1, <1>3, <1>4, MatchInTurnKeeps
LEMMA FulfilledKeeps ==
  ASSUME NEW W, Good(W), NEW t \in Users, NEW i \in Slots, NEW f \in Users \cup {NoFiller},
         Live(W.acct[t].orders[i]), NEW S \in SUBSET (Users \X Slots),
         \A mj \in S : CanMatch(W, t, i, mj), NEW external \in BOOLEAN,
         NEW V \in Fulfilled(W, t, i, S, f, external)
  PROVE  Good(V)
<1>1. CASE ~external
  <2>1. V \in MatchAll(W, t, i, S, f)
    BY <1>1 DEF Fulfilled
  <2> QED
    BY <2>1, MatchAllKeeps
<1>2. CASE external
  <2>1. \/ \E r \in {0, W.owed} : V = Unmatched(W, r)
        \/ \E x \in ExternalFills(W, t, i) : V = FillExternally(W, t, i, x, f)
    BY <1>2 DEF Fulfilled
  <2> QED
    BY <2>1, UnmatchedKeeps, ExternalKeeps
<1> QED
  BY <1>1, <1>2

LEMMA FillSpotKeeps ==
  ASSUME NEW W, Good(W), NEW t \in Users, NEW i \in Slots, Fillable(W, t, i),
         NEW keeper \in Users, NEW makers \in SUBSET Users, NEW jit,
         NEW external \in BOOLEAN,
         NEW V \in FillSpotOrder(W, t, i, keeper, makers, jit, external)
  PROVE  Good(V)
<1> DEFINE f == IF keeper \in makers \cup {t} THEN NoFiller ELSE keeper
           all == MakerOrders(W, t, i, makers, jit)
           unfit == {mj \in all : Unfit(W, mj)}
           fit == all \ unfit
           swept == CancelUnfit(W, unfit, f)
           o == W.acct[t].orders[i]
           outside == external /\ ~o.post
<1>1. \/ V = swept
      \/ V = RewardedCancel(swept, t, i, f)
      \/ \E X \in Fulfilled(swept, t, i, fit, f, outside) : V = CancelLeftover(X, t, i, f)
  BY DEF FillSpotOrder
<1>2. f \in Users \cup {NoFiller} /\ outside \in BOOLEAN
  <2>1. o.post \in BOOLEAN
    BY AccountOf, OrderFields DEF Good
  <2> QED
    BY <2>1
<1>3. \A mj \in all : /\ mj \in Users \X Slots /\ mj[1] # t
                      /\ W.acct[mj[1]].orders[mj[2]].open
                      /\ CanMatch(W, t, i, mj)
  BY MakersMatch
<1>4. OpenOrdersOf(W, unfit)
  BY <1>3 DEF OpenOrdersOf
<1> HIDE DEF f, outside
<1>5. /\ Good(swept)
      /\ \A u \in Users, j \in Slots : <<u, j>> \notin unfit =>
           swept.acct[u].orders[j] = W.acct[u].orders[j]
  <2> HIDE DEF unfit
  <2> QED
    BY <1>2, <1>4, CancelUnfitKeeps
<1>6. swept.acct[t].orders[i] = o
  <2>1. <<t, i>> \notin unfit
    BY <1>3
  <2> HIDE DEF unfit, swept, o
  <2> QED
    BY <1>5, <2>1 DEF o
<1>7. \A mj \in fit : CanMatch(swept, t, i, mj)
  <2> SUFFICES ASSUME NEW mj \in fit PROVE CanMatch(swept, t, i, mj)
    OBVIOUS
  <2>1. mj \in all /\ mj \notin unfit
    OBVIOUS
  <2> HIDE DEF all, unfit, fit, swept
  <2>2. mj = <<mj[1], mj[2]>> /\ mj[1] \in Users /\ mj[2] \in Slots
    BY <1>3, <2>1
  <2>3. swept.acct[mj[1]].orders[mj[2]] = W.acct[mj[1]].orders[mj[2]]
    BY <1>5, <2>1, <2>2
  <2> QED
    BY <1>3, <1>6, <2>1, <2>3 DEF CanMatch
<1>8. o.open /\ Live(o)
  BY DEF Fillable
<1>9. fit \in SUBSET (Users \X Slots)
  BY <1>3
<1> HIDE DEF all, unfit, fit, swept, o
<1>10. CASE V = swept
  BY <1>5, <1>10
<1>11. CASE V = RewardedCancel(swept, t, i, f)
  BY <1>2, <1>5, <1>6, <1>8, <1>11, RewardedCancelKeeps
<1>12. CASE \E X \in Fulfilled(swept, t, i, fit, f, outside) : V = CancelLeftover(X, t, i, f)
  <2>1. PICK X \in Fulfilled(swept, t, i, fit, f, outside) : V = CancelLeftover(X, t, i, f)
    BY <1>12
  <2>2. Good(X)
    BY <1>2, <1>5, <1>6, <1>7, <1>8, <1>9, FulfilledKeeps
  <2> QED
    BY <1>2, <2>1, <2>2, CancelLeftoverKeeps
<1> QED
  BY <1>1, <1>10, <1>11, <1>12
-----------------------------------------------------------------------------
(* The invariant.                                                          *)

IInv ==
  /\ now \in 1..MaxTime /\ oracle \in Oracles
  /\ status \in {"Active", "ReduceOnly"}
  /\ Good(world)

LEMMA InitEstablishesIInv == Init => IInv
<1> SUFFICES ASSUME Init PROVE IInv
  OBVIOUS
<1> DEFINE W == world
<1>1. now \in 1..MaxTime /\ oracle \in Oracles /\ status \in {"Active", "ReduceOnly"}
  BY SpotOrdersAssumption DEF Init
<1> DEFINE fresh(u) ==
             [orders |-> [i \in Slots |-> NoOrder], nextId |-> 1,
              base |-> Seed[u].base, quote |-> Seed[u].quote,
              bids |-> 0, asks |-> 0, posOrders |-> 0, openOrders |-> 0, auctions |-> 0]
<1>2. /\ W.acct = [u \in Users |-> fresh(u)]
      /\ W.vault = [t \in Tokens |-> SumFunctionOnSet([u \in Users |-> Seed[u][t]], Users)]
      /\ W.pool = 0 /\ W.earned = 0 /\ W.owed = 0
      /\ W = [acct |-> W.acct, vault |-> W.vault, pool |-> W.pool, earned |-> W.earned,
              owed |-> W.owed]
  BY DEF Init
<1> HIDE DEF W
<1>3. \A u \in Users : Seed[u].base \in Int /\ Seed[u].quote \in Int
  <2>1. \A u \in Users : Seed[u]["base"] \in Int /\ Seed[u]["quote"] \in Int
    BY SpotOrdersAssumption DEF Tokens
  <2> QED
    BY <2>1
<1>4. \A u \in Users : AccountOK(W.acct[u])
  <2> SUFFICES ASSUME NEW u \in Users PROVE AccountOK(W.acct[u])
    OBVIOUS
  <2> DEFINE a == W.acct[u]
  <2>0. a = fresh(u)
    BY <1>2
  <2>1. a.orders = [i \in Slots |-> NoOrder]
    BY <2>0
  <2>2. \A i \in Slots : a.orders[i] = NoOrder /\ OrderOK(a.orders[i])
    BY <2>1, NoOrderOK
  <2>3. NoOrder \in Order
    BY NoOrderOK DEF OrderOK
  <2>4. a \in AccountType
    <3>1. [i \in Slots |-> NoOrder] \in [Slots -> Order]
      BY <2>3
    <3> QED
      BY <1>3, <2>0, <3>1 DEF AccountType
  <2>5. a.bids = 0 /\ a.asks = 0 /\ a.posOrders = 0 /\ a.openOrders = 0 /\ a.auctions = 0
    BY <2>0
  <2> HIDE DEF a
  <2>6. \A k \in Parts : SumOf(a.orders, k) = 0
    <3> SUFFICES ASSUME NEW k \in Parts PROVE SumOf(a.orders, k) = 0
      OBVIOUS
    <3>1. \A i \in Slots : [j \in Slots |-> Part(a.orders[j], k)][i] = 0
      BY <2>2, NoOrderOK
    <3> QED
      BY <3>1, SlotsFinite, SumZero DEF SumOf
  <2>7. Counted(a)
    BY <2>5, <2>6 DEF Counted, Parts
  <2> QED
    BY <2>2, <2>4, <2>7 DEF AccountOK, a
<1>10. \A u \in Users : W.acct[u].base = Seed[u].base /\ W.acct[u].quote = Seed[u].quote
  <2> SUFFICES ASSUME NEW u \in Users
               PROVE  W.acct[u].base = Seed[u].base /\ W.acct[u].quote = Seed[u].quote
    OBVIOUS
  <2>1. W.acct[u] = fresh(u)
    BY <1>2
  <2> QED
    BY <2>1
<1> HIDE DEF fresh
<1>5. /\ [u \in Users |-> W.acct[u].base] = [u \in Users |-> Seed[u]["base"]]
      /\ [u \in Users |-> W.acct[u].quote] = [u \in Users |-> Seed[u]["quote"]]
  BY <1>10
<1>6. W.vault["base"] = BaseHeld(W) /\ W.vault["quote"] = QuoteHeld(W)
  BY <1>2, <1>5 DEF BaseHeld, QuoteHeld, Tokens
<1>7. QuoteHeld(W) \in Int /\ BaseHeld(W) \in Int
  <2>1. /\ \A u \in Users : [v \in Users |-> W.acct[v].base][u] \in Int
        /\ \A u \in Users : [v \in Users |-> W.acct[v].quote][u] \in Int
    BY <1>3, <1>10
  <2> QED
    BY <2>1, SpotOrdersAssumption, SumIsInt DEF BaseHeld, QuoteHeld
<1>8. W \in WorldType
  <2>1. W.acct \in [Users -> AccountType]
    <3>1. W.acct = [u \in Users |-> W.acct[u]]
      BY <1>2
    <3> QED
      BY <1>4, <3>1 DEF AccountOK
  <2>2. W.vault \in [Tokens -> Int]
    <3>1. \A t \in Tokens : W.vault[t] \in Int
      BY <1>6, <1>7 DEF Tokens
    <3> QED
      BY <1>2, <3>1
  <2>3. W.pool \in Nat /\ W.earned \in Int /\ W.owed \in Nat
    BY <1>2
  <2> QED
    BY <1>2, <2>1, <2>2, <2>3 DEF WorldType
<1>9. Books(W)
  BY <1>2, <1>6, <1>7 DEF Books
<1> QED
  BY <1>1, <1>4, <1>8, <1>9 DEF IInv, Good, WorldOK, W
LEMMA TradersAreUsers ==
  /\ Traders \subseteq Users /\ Keepers \subseteq Users
  /\ \A u \in Users : OrderRequests[u] \subseteq OrderParams
BY SpotOrdersAssumption DEF Traders

(* One lemma per instruction: the world it leaves is sound.                *)
LEMMA PlaceAction ==
  ASSUME IInv, NEW u \in Traders, NEW p \in OrderRequests[u], Place(u, p)
  PROVE  Good(world')
<1>1. u \in Users /\ p \in OrderParams /\ now \in Nat /\ Good(world)
  BY TradersAreUsers DEF IInv
<1>2. world' \in PlaceSpotOrder(world, u, p)
  BY DEF Place
<1> QED
  BY <1>1, <1>2, PlaceKeeps

LEMMA FillOrderAction ==
  ASSUME IInv, NEW t \in Traders, NEW i \in Slots, NEW external \in BOOLEAN,
         NEW keeper \in Keepers \cup {t}, NEW makers \in SUBSET (Traders \ {t}),
         FillOrder(t, i, keeper, makers, external)
  PROVE  Good(world')
<1>1. t \in Users /\ keeper \in Users /\ makers \in SUBSET Users /\ Good(world)
  BY TradersAreUsers DEF IInv
<1>2. Fillable(world, t, i)
      /\ world' \in FillSpotOrder(world, t, i, keeper, makers, NoJit, external)
  BY DEF FillOrder
<1> QED
  BY <1>1, <1>2, FillSpotKeeps

LEMMA PlaceAndTakeAction ==
  ASSUME IInv, NEW u \in Traders, NEW external \in BOOLEAN, NEW ioc \in BOOLEAN,
         NEW p \in OrderRequests[u], NEW makers \in SUBSET (Traders \ {u}),
         PlaceAndTake(u, p, makers, external, ioc)
  PROVE  Good(world')
<1>1. u \in Users /\ p \in OrderParams /\ now \in Nat /\ Good(world)
      /\ makers \in SUBSET Users
  BY TradersAreUsers DEF IInv
<1>2. PICK W \in PlaceSpotOrder(world, u, p) :
        \E i \in LastPlaced(W, u) :
          /\ Fillable(W, u, i)
          /\ \E V \in FillSpotOrder(W, u, i, u, makers, NoJit, external) :
               world' = IF ioc THEN CancelLast(V, u, W.acct[u].nextId - 1) ELSE V
  BY DEF PlaceAndTake
<1>3. Good(W)
  BY <1>1, PlaceKeeps
<1>4. PICK i \in LastPlaced(W, u) :
        /\ Fillable(W, u, i)
        /\ \E V \in FillSpotOrder(W, u, i, u, makers, NoJit, external) :
             world' = IF ioc THEN CancelLast(V, u, W.acct[u].nextId - 1) ELSE V
  BY <1>2
<1>5. PICK V \in FillSpotOrder(W, u, i, u, makers, NoJit, external) :
        world' = IF ioc THEN CancelLast(V, u, W.acct[u].nextId - 1) ELSE V
  BY <1>4
<1>6. i \in Slots
  BY DEF LastPlaced
<1>7. Good(V)
  BY <1>1, <1>3, <1>4, <1>6, FillSpotKeeps
<1>8. Good(CancelLast(V, u, W.acct[u].nextId - 1))
  BY <1>1, <1>7, CancelLastKeeps
<1> QED
  BY <1>5, <1>7, <1>8

LEMMA PlaceAndMakeAction ==
  ASSUME IInv, NEW u \in Traders, NEW t \in Traders, NEW i \in Slots,
         NEW external \in BOOLEAN, NEW p \in OrderRequests[u],
         PlaceAndMake(u, p, t, i, external)
  PROVE  Good(world')
<1>1. /\ u \in Users /\ t \in Users /\ p \in OrderParams /\ now \in Nat /\ Good(world)
      /\ u # t /\ {u} \in SUBSET Users /\ Fillable(world, t, i)
  BY TradersAreUsers DEF IInv, PlaceAndMake
<1> DEFINE id(W) == W.acct[u].nextId - 1
           jit(W) == [id |-> id(W), fresh |-> id(W) = world.acct[u].nextId]
<1>2. PICK W \in PlaceSpotOrder(world, u, p) :
        \E V \in FillSpotOrder(W, t, i, u, {u}, jit(W), external) :
          world' = CancelLast(V, u, id(W))
  BY DEF PlaceAndMake
<1> HIDE DEF id, jit
<1>3. PICK V \in FillSpotOrder(W, t, i, u, {u}, jit(W), external) :
        world' = CancelLast(V, u, id(W))
  BY <1>2
<1>4. Good(W) /\ W.acct[t] = world.acct[t]
  BY <1>1, PlaceKeeps
<1>5. Fillable(W, t, i)
  BY <1>1, <1>4 DEF Fillable
<1>6. Good(V)
  BY <1>1, <1>4, <1>5, FillSpotKeeps
<1> QED
  BY <1>1, <1>3, <1>6, CancelLastKeeps

LEMMA TriggerOrderAction ==
  ASSUME IInv, NEW u \in Traders, NEW i \in Slots, NEW keeper \in Keepers \cup {u},
         TriggerOrder(u, i, keeper)
  PROVE  Good(world')
<1> DEFINE f == IF keeper = u THEN NoFiller ELSE keeper
           X == Triggered(world, u, i)
           W == FlatReward(X, u, f, 1)
<1>1. u \in Users /\ f \in Users \cup {NoFiller} /\ now \in Nat /\ Good(world)
  BY TradersAreUsers DEF IInv
<1>2. /\ world.acct[u].orders[i].open /\ ~Live(world.acct[u].orders[i])
      /\ world' = W \/ world' = Cancel(W, u, {i})
  BY DEF TriggerOrder
<1> HIDE DEF f
<1>3. Good(X) /\ X.acct[u].orders[i].open
  BY <1>1, <1>2, TriggeredKeeps
<1> HIDE DEF X
<1>4. Good(W) /\ SameOrders(W, X)
  BY <1>1, <1>3, FlatRewardKeeps
<1> HIDE DEF W
<1>5. W.acct[u].orders[i].open
  BY <1>1, <1>3, <1>4 DEF SameOrders
<1>6. {i} \in SUBSET OpenSlots(W.acct[u])
  BY <1>5 DEF OpenSlots
<1>7. Good(Cancel(W, u, {i}))
  BY <1>1, <1>4, <1>6, CancelKeeps
<1> QED
  BY <1>2, <1>4, <1>7

LEMMA CancelAction ==
  ASSUME IInv, NEW u \in Traders,
         \/ \E i \in Slots : CancelOrder(u, i)
         \/ \E sides \in {{TRUE}, {FALSE}, BOOLEAN} : CancelOrders(u, sides)
  PROVE  Good(world')
<1>1. u \in Users /\ Good(world)
  BY TradersAreUsers DEF IInv
<1>2. ASSUME NEW i \in Slots, CancelOrder(u, i) PROVE Good(world')
  <2>1. world' = Cancel(world, u, {i}) /\ {i} \in SUBSET OpenSlots(world.acct[u])
    BY <1>2 DEF CancelOrder, OpenSlots
  <2> QED
    BY <1>1, <2>1, CancelKeeps
<1>3. ASSUME NEW sides, CancelOrders(u, sides) PROVE Good(world')
  <2> DEFINE S == {i \in OpenSlots(world.acct[u]) : world.acct[u].orders[i].long \in sides}
  <2>1. world' = Cancel(world, u, S) /\ S \in SUBSET OpenSlots(world.acct[u])
    BY <1>3 DEF CancelOrders
  <2> HIDE DEF S
  <2> QED
    BY <1>1, <2>1, CancelKeeps
<1> QED
  BY <1>2, <1>3

LEMMA ForceCancelAction ==
  ASSUME IInv, NEW u \in Traders, NEW keeper \in Keepers, ForceCancelOrders(u, keeper)
  PROVE  Good(world')
<1>1. u \in Users /\ keeper \in Users /\ Good(world)
  BY TradersAreUsers DEF IInv
<1> DEFINE a == world.acct[u]
           S == {i \in OpenSlots(a) : ~Reducing(a.orders[i], a.base)}
<1>2. /\ world' = FlatReward(Cancel(world, u, S), u, keeper, Cardinality(S))
      /\ S \in SUBSET OpenSlots(a)
  BY DEF ForceCancelOrders
<1> HIDE DEF S
<1>3. Cardinality(S) \in Int
  <2>1. S \subseteq Slots
    BY <1>2 DEF OpenSlots
  <2>2. Cardinality(S) \in Nat
    BY <2>1, SlotsFinite, FS_Subset, FS_CardinalityType
  <2> QED
    BY <2>2
<1>4. Good(Cancel(world, u, S))
  BY <1>1, <1>2, CancelKeeps
<1> QED
  BY <1>1, <1>2, <1>3, <1>4, FlatRewardKeeps

LEMMA StepKeepsIInv == IInv /\ [Next]_vars => IInv'
<1> SUFFICES ASSUME IInv, [Next]_vars PROVE IInv'
  OBVIOUS
<1>1. CASE Tick
  <2>1. MaxTime \in Nat
    BY SpotOrdersAssumption
  <2> QED
    BY <1>1, <2>1 DEF Tick, IInv
<1>2. CASE OracleMoves
  BY <1>2 DEF OracleMoves, IInv
<1>3. CASE \E s \in {"Active", "ReduceOnly"} : UpdateMarketStatus(s)
  BY <1>3 DEF UpdateMarketStatus, IInv
<1>4. CASE UNCHANGED vars
  BY <1>4 DEF vars, IInv
<1> DEFINE Held == IInv /\ Idle /\ Good(world')
<1>5. Held => IInv'
  BY DEF Idle, IInv
<1>6. CASE \E u \in Traders : \E p \in OrderRequests[u] : Place(u, p)
  BY <1>5, <1>6, PlaceAction DEF Place
<1>7. CASE \E t \in Traders, i \in Slots, external \in BOOLEAN :
             \E keeper \in Keepers \cup {t}, makers \in SUBSET (Traders \ {t}) :
               FillOrder(t, i, keeper, makers, external)
  BY <1>5, <1>7, FillOrderAction DEF FillOrder
<1>8. CASE \E u \in Traders, external, ioc \in BOOLEAN :
             \E p \in OrderRequests[u], makers \in SUBSET (Traders \ {u}) :
               PlaceAndTake(u, p, makers, external, ioc)
  BY <1>5, <1>8, PlaceAndTakeAction DEF PlaceAndTake
<1>9. CASE \E u, t \in Traders, i \in Slots, external \in BOOLEAN :
             \E p \in OrderRequests[u] : PlaceAndMake(u, p, t, i, external)
  BY <1>5, <1>9, PlaceAndMakeAction DEF PlaceAndMake
<1>10. CASE \E u \in Traders, i \in Slots : \E keeper \in Keepers \cup {u} :
              TriggerOrder(u, i, keeper)
  BY <1>5, <1>10, TriggerOrderAction DEF TriggerOrder
<1>11. CASE \E u \in Traders, i \in Slots : CancelOrder(u, i)
  BY <1>5, <1>11, CancelAction DEF CancelOrder
<1>12. CASE \E u \in Traders, sides \in {{TRUE}, {FALSE}, BOOLEAN} : CancelOrders(u, sides)
  BY <1>5, <1>12, CancelAction DEF CancelOrders
<1>13. CASE \E u \in Traders, keeper \in Keepers : ForceCancelOrders(u, keeper)
  BY <1>5, <1>13, ForceCancelAction DEF ForceCancelOrders
<1> QED
  BY <1>1, <1>2, <1>3, <1>4, <1>6, <1>7, <1>8, <1>9, <1>10, <1>11, <1>12, <1>13 DEF Next

LEMMA Invariance == Spec => []IInv
<1> QED
  BY InitEstablishesIInv, StepKeepsIInv, PTL DEF Spec
-----------------------------------------------------------------------------
(* What the invariant says of the counters and the books.                  *)

LEMMA SoundAccount ==
  ASSUME NEW a, AccountOK(a)
  PROVE  /\ a \in Account
         /\ a.openOrders = Cardinality(OpenSlots(a))
         /\ a.posOrders = Cardinality(OpenSlots(a))
         /\ a.auctions = Auctions(a, OpenSlots(a))
         /\ a.bids = OnSide(a, OpenSlots(a), TRUE)
         /\ a.asks = -OnSide(a, OpenSlots(a), FALSE)
<1> DEFINE S == OpenSlots(a)
<1>1. S \in SUBSET Slots /\ S \in SUBSET OpenSlots(a) /\ IsFiniteSet(S)
  BY SlotsFinite, FS_Subset DEF OpenSlots
<1>2. a \in AccountType /\ Counted(a) /\ \A i \in Slots : OrderOK(a.orders[i])
  BY DEF AccountOK
<1>3. \A i \in Slots \ S : ~a.orders[i].open
  BY DEF OpenSlots
<1> HIDE DEF S
<1>4. ASSUME NEW k \in Parts
      PROVE  SumOf(a.orders, k) = SumFunctionOnSet([i \in S |-> Part(a.orders[i], k)], S)
  <2> DEFINE F == [i \in Slots |-> Part(a.orders[i], k)]
             G == [i \in S |-> Part(a.orders[i], k)]
  <2>1. \A i \in Slots : F[i] \in Int
    BY <1>2, PartIsNat
  <2>2. F = [i \in Slots |-> IF i \in S THEN F[i] ELSE 0]
    <3>1. \A i \in Slots : i \notin S => F[i] = 0
      BY <1>3 DEF Part
    <3> QED
      BY <3>1
  <2>3. \A i \in S : F[i] = G[i]
    BY <1>1
  <2>4. SumOf(a.orders, k) = SumFunctionOnSet(F, Slots)
    BY DEF SumOf
  <2> HIDE DEF F, G
  <2>5. SumFunctionOnSet(F, S) = SumFunctionOnSet(F, Slots)
    BY <1>1, <2>1, <2>2, SlotsFinite, SumFilter
  <2>6. SumFunctionOnSet(F, S) = SumFunctionOnSet(G, S)
    BY <1>1, <2>3, SumSame
  <2> QED
    BY <2>4, <2>5, <2>6 DEF G
<1>5. /\ OnSide(a, S, TRUE) = SumOf(a.orders, "bids")
      /\ OnSide(a, S, FALSE) = SumOf(a.orders, "asks")
      /\ Cardinality(S) = SumOf(a.orders, "orders")
      /\ Auctions(a, S) = SumOf(a.orders, "auctions")
  BY <1>1, <1>4, CancelledParts DEF Parts
<1>6. /\ a.bids = SumOf(a.orders, "bids") /\ a.asks = -SumOf(a.orders, "asks")
      /\ a.posOrders = SumOf(a.orders, "orders")
      /\ a.openOrders = SumOf(a.orders, "orders")
      /\ a.auctions = SumOf(a.orders, "auctions")
  BY <1>2 DEF Counted
<1>7. /\ SumOf(a.orders, "bids") \in Nat /\ SumOf(a.orders, "orders") \in Nat
      /\ SumOf(a.orders, "auctions") \in Nat
  BY <1>2, SumOfIsNat DEF Parts
<1>8. a \in Account
  <2>1. a.bids \in Nat /\ a.posOrders \in Nat /\ a.openOrders \in Nat /\ a.auctions \in Nat
    BY <1>6, <1>7
  <2> QED
    BY <1>2, <2>1 DEF AccountType, Account
<1>9. a.asks = -OnSide(a, S, FALSE)
  BY <1>5, <1>6
<1> QED
  BY <1>5, <1>6, <1>8, <1>9 DEF S

LEMMA InvariantTypes == IInv => TypeOK
<1> SUFFICES ASSUME IInv PROVE TypeOK
  OBVIOUS
<1>1. WorldOK(world) /\ Books(world)
  BY DEF IInv, Good
<1>2. world \in WorldType /\ \A u \in Users : world.acct[u] \in Account
  BY <1>1, AccountOf, SoundAccount DEF WorldOK
<1>3. world.earned \in Nat
  <2>1. QuoteHeld(world) \in Int /\ world.vault["quote"] \in Int
    BY <1>1, <1>2, HeldIsInt, WorldFields DEF Tokens
  <2> QED
    BY <1>1, <1>2, <2>1, WorldFields DEF Books
<1>4. world.acct \in [Users -> Account]
  <2>1. world.acct = [u \in Users |-> world.acct[u]]
    BY <1>2, WorldFields
  <2> QED
    BY <1>2, <2>1
<1>5. world \in [acct : [Users -> Account], vault : [Tokens -> Int],
                 pool : Nat, earned : Nat, owed : Nat]
  BY <1>2, <1>3, <1>4 DEF WorldType
<1>6. \A u \in Users, i \in Slots : Unfilled(world.acct[u].orders[i]) >= 0
  BY <1>1, AccountOf DEF OrderOK
<1> QED
  BY <1>5, <1>6 DEF TypeOK, IInv

(* Placing, filling, triggering, expiring and cancelling spot orders in any *)
(* order keep the counts of open orders and auctions and the open bids and *)
(* asks of every account equal to what its order array says.               *)
THEOREM CountersCorrect == Spec => []CountersMatchOrders
<1>1. IInv => CountersMatchOrders
  <2> SUFFICES ASSUME IInv PROVE CountersMatchOrders
    OBVIOUS
  <2>1. \A u \in Users : AccountOK(world.acct[u])
    BY AccountOf DEF IInv, Good
  <2> QED
    BY <2>1, InvariantTypes, SoundAccount DEF CountersMatchOrders
<1> QED
  BY <1>1, Invariance, PTL

(* After matches, fills on an exchange and orders it did not fill alike,   *)
(* the vaults with what the exchanges owe are what the accounts hold and   *)
(* the market earned, and cover what accounts and fee pool claim.          *)
THEOREM BooksCorrect == Spec => []BooksBalance
<1>1. IInv => BooksBalance
  <2> SUFFICES ASSUME IInv PROVE BooksBalance
    OBVIOUS
  <2>1. Books(world)
    BY DEF IInv, Good
  <2>2. Holdings("base") = BaseHeld(world) /\ Holdings("quote") = QuoteHeld(world)
    BY DEF Holdings, BaseHeld, QuoteHeld
  <2> QED
    BY <2>1, <2>2 DEF BooksBalance, Books
<1> QED
  BY <1>1, Invariance, PTL
=============================================================================
