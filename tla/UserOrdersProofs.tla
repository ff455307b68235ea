-------------------------- MODULE UserOrdersProofs --------------------------
(***************************************************************************)
(* For any markets, requests, changes and number of slots: the orders of   *)
(* an account are well formed, the counters beside them count them, their  *)
(* ids are unique, a user's own id leads to the open order that carries    *)
(* it, and no fill is larger or later than the order allows.               *)
(***************************************************************************)
EXTENDS UserOrders, SignedMsgOrders, SumTheorems

(* The invariant, of any account: an instruction takes the account through *)
(* several of them.                                                        *)
WellFormed(u) ==
  /\ u.nextId \in Nat
  /\ u.orders \in [Slots -> Order]
  /\ \A i \in Slots : OrderOK(u.orders[i])
  /\ u.base \in [Markets -> Int]

Resolves(u) ==
  /\ \A i \in Slots : u.orders[i].id < u.nextId
  /\ \A i, j \in OpenSlots(u) : u.orders[i].id = u.orders[j].id => i = j
  /\ \A i \in OpenSlots(u) : u.orders[i].userId > 0 =>
       \A j \in Slots : u.orders[j].userId = u.orders[i].userId => i <= j

Good(u) == WellFormed(u) /\ Resolves(u)

(* Orders may change and close in their slots.                             *)
LEMMA ChangedInPlace ==
  ASSUME NEW u, NEW v, Resolves(u), v.nextId = u.nextId,
         \A i \in Slots : /\ v.orders[i].id = u.orders[i].id
                          /\ v.orders[i].userId = u.orders[i].userId
                          /\ IsOpen(v.orders[i]) => IsOpen(u.orders[i])
  PROVE  Resolves(v)
<1>1. OpenSlots(v) \subseteq OpenSlots(u)
  BY DEF OpenSlots
<1>2. OpenSlots(u) \subseteq Slots
  BY DEF OpenSlots
<1> QED
  BY <1>1, <1>2 DEF Resolves

(* cancel_order keeps the invariant, for any set of slots.                 *)
LEMMA CancelKeepsGood ==
  ASSUME NEW u, Good(u), NEW S
  PROVE  Good(CancelOrders(S, u))
<1> DEFINE v == CancelOrders(S, u)
<1>1. /\ v.nextId = u.nextId /\ v.base = u.base
      /\ v.orders = [i \in Slots |-> IF i \in S
                       THEN [u.orders[i] EXCEPT !.status = "canceled"]
                       ELSE u.orders[i]]
  BY DEF CancelOrders
<1> HIDE DEF v
<1>2. ASSUME NEW i \in Slots
      PROVE  /\ v.orders[i] \in Order /\ OrderOK(v.orders[i])
             /\ v.orders[i].id = u.orders[i].id
             /\ v.orders[i].userId = u.orders[i].userId
             /\ IsOpen(v.orders[i]) => IsOpen(u.orders[i])
  <2>1. u.orders[i] \in Order /\ OrderOK(u.orders[i])
    BY DEF Good, WellFormed
  <2>2. CASE i \in S
    <3>1. v.orders[i] = [u.orders[i] EXCEPT !.status = "canceled"]
      BY <1>1, <2>2
    <3> QED
      BY <2>1, <3>1 DEF Order, OrderOK, IsOpen, Live
  <2>3. CASE i \notin S
    BY <1>1, <2>1, <2>3
  <2> QED
    BY <2>2, <2>3
<1>3. WellFormed(v)
  BY <1>1, <1>2 DEF Good, WellFormed
<1>4. Resolves(v)
  BY <1>1, <1>2, ChangedInPlace DEF Good
<1> QED
  BY <1>3, <1>4 DEF Good, v

(* A new order in the first free slot, under the next id, with a user's id *)
(* no open order has.                                                      *)
LEMMA AddKeepsGood ==
  ASSUME NEW u, Good(u), NEW i \in FirstFree(u), NEW o \in Order,
         OrderOK(o), o.id = u.nextId,
         o.userId > 0 => ~UserIdUsed(o.userId, u)
  PROVE  Good(AddOrder(i, o, u))
<1> DEFINE v == AddOrder(i, o, u)
<1>1. v.nextId = u.nextId + 1 /\ v.base = u.base
      /\ v.orders = [u.orders EXCEPT ![i] = o]
  BY DEF AddOrder, NextId
<1> HIDE DEF v
<1>2. i \in Slots /\ ~IsOpen(u.orders[i])
      /\ \A j \in Slots : ~IsOpen(u.orders[j]) => i <= j
  BY DEF FirstFree, FreeSlots, OpenSlots
<1>3. /\ u.nextId \in Nat /\ u.orders \in [Slots -> Order]
      /\ \A j \in Slots : OrderOK(u.orders[j])
      /\ u.base \in [Markets -> Int]
  BY DEF Good, WellFormed
<1>4. v.orders \in [Slots -> Order] /\ v.orders[i] = o
      /\ \A j \in Slots : j # i => v.orders[j] = u.orders[j]
  BY <1>1, <1>2, <1>3
<1>5. WellFormed(v)
  BY <1>1, <1>3, <1>4 DEF WellFormed
<1>6. \A j \in Slots : u.orders[j].id \in Nat /\ u.orders[j].userId \in Nat
  BY <1>3 DEF Order
<1>7. o.id \in Nat /\ o.userId \in Nat
  BY DEF Order
<1>8. \A j \in Slots : u.orders[j].id < u.nextId
  BY DEF Good, Resolves
<1>9. \A j \in Slots : v.orders[j].id < v.nextId
  BY <1>1, <1>3, <1>4, <1>6, <1>7, <1>8
<1>10. ASSUME NEW j \in OpenSlots(v), NEW k \in OpenSlots(v),
              v.orders[j].id = v.orders[k].id
       PROVE  j = k
  <2>1. j \in Slots /\ k \in Slots
    BY DEF OpenSlots
  <2>2. CASE j = i \/ k = i
    BY <1>3, <1>4, <1>6, <1>8, <1>10, <2>1, <2>2
  <2>3. CASE j # i /\ k # i
    <3>1. j \in OpenSlots(u) /\ k \in OpenSlots(u)
      BY <1>4, <2>1, <2>3 DEF OpenSlots
    <3> QED
      BY <1>4, <1>10, <2>1, <2>3, <3>1 DEF Good, Resolves
  <2> QED
    BY <2>2, <2>3
<1>11. ASSUME NEW j \in OpenSlots(v), v.orders[j].userId > 0,
              NEW k \in Slots, v.orders[k].userId = v.orders[j].userId
       PROVE  j <= k
  <2>1. j \in Slots /\ IsOpen(v.orders[j])
    BY DEF OpenSlots
  <2>2. CASE j = i
    <3>1. CASE k = i
      BY <1>2, <2>2, <3>1 DEF Slots
    <3>2. CASE k # i
      <4>1. u.orders[k].userId = o.userId /\ o.userId > 0
        BY <1>4, <1>11, <2>2, <3>2
      <4>2. ~IsOpen(u.orders[k])
        BY <4>1 DEF UserIdUsed, OpenSlots
      <4> QED
        BY <1>2, <2>2, <4>2
    <3> QED
      BY <3>1, <3>2
  <2>3. CASE j # i
    <3>1. j \in OpenSlots(u) /\ u.orders[j].userId = v.orders[j].userId
      BY <1>4, <2>1, <2>3 DEF OpenSlots
    <3>2. CASE k = i
      BY <1>4, <1>11, <3>1, <3>2 DEF UserIdUsed
    <3>3. CASE k # i
      BY <1>4, <1>11, <3>1, <3>3 DEF Good, Resolves
    <3> QED
      BY <3>2, <3>3
  <2> QED
    BY <2>2, <2>3
<1>12. Resolves(v)
  BY <1>9, <1>10, <1>11 DEF Resolves
<1> QED
  BY <1>5, <1>12 DEF Good, v

LEMMA SkipKeepsGood ==
  ASSUME NEW u, Good(u)
  PROVE  Good(SkipId(u))
<1> DEFINE v == SkipId(u)
<1>1. v.nextId = u.nextId + 1 /\ v.base = u.base /\ v.orders = u.orders
  BY DEF SkipId, NextId
<1> HIDE DEF v
<1>2. OpenSlots(v) = OpenSlots(u)
  BY <1>1 DEF OpenSlots
<1>3. WellFormed(v)
  BY <1>1 DEF Good, WellFormed
<1>4. \A j \in Slots : u.orders[j].id \in Nat
  BY DEF Good, WellFormed, Order
<1>5. \A j \in Slots : u.orders[j].id < u.nextId + 1
  BY <1>4 DEF Good, WellFormed, Resolves
<1>6. Resolves(v)
  BY <1>1, <1>2, <1>5 DEF Good, Resolves
<1> QED
  BY <1>3, <1>6 DEF Good, v

(* What may still be filled is never more than what is unfilled.           *)
LEMMA FillableIsBounded ==
  ASSUME NEW o \in Order, NEW base \in Int,
         NEW a \in 1 .. Fillable(o, base)
  PROVE  a \in Nat /\ a > 0 /\ a <= Unfilled(o)
<1>1. o.size \in Nat /\ o.filled \in Nat
  BY DEF Order
<1>2. Unfilled(o) \in Int
  BY <1>1 DEF Unfilled
<1>3. Abs(base) \in Nat
  BY DEF Abs
<1>4. \/ Fillable(o, base) = Unfilled(o)
      \/ Fillable(o, base) = Abs(base) /\ ~(Unfilled(o) < Abs(base))
      \/ Fillable(o, base) = 0
  BY DEF Fillable
<1> QED
  BY <1>2, <1>3, <1>4

LEMMA FillKeepsGood ==
  ASSUME NEW u, Good(u), NEW i \in Slots, IsOpen(u.orders[i]),
         Live(u.orders[i]),
         NEW a \in 1 .. Fillable(u.orders[i], u.base[u.orders[i].market])
  PROVE  Good(FillOrder(i, a, u))
<1> DEFINE o == u.orders[i]
           v == FillOrder(i, a, u)
           st == IF FillsUp(o, a) THEN "filled" ELSE "open"
           n == [o EXCEPT !.filled = o.filled + a, !.status = st]
<1>1. v.nextId = u.nextId /\ v.orders = [u.orders EXCEPT ![i] = n]
      /\ v.base = Plus(u.base, o.market, Side(o.long) * a)
  BY DEF FillOrder
<1> HIDE DEF v
<1>2. o \in Order /\ OrderOK(o) /\ o.market \in Markets
      /\ u.orders \in [Slots -> Order] /\ u.base \in [Markets -> Int]
  BY DEF Good, WellFormed, Order
<1>3. o.size \in Nat /\ o.filled \in Nat /\ u.base[o.market] \in Int
  BY <1>2 DEF Order
<1>4. IsOpen(o) /\ Live(o) /\ a \in 1 .. Fillable(o, u.base[o.market])
  OBVIOUS
<1> HIDE DEF o
<1>5. a \in Nat /\ a > 0 /\ a <= Unfilled(o)
  BY <1>2, <1>3, <1>4, FillableIsBounded
<1>6. a <= o.size - o.filled
  BY <1>5 DEF Unfilled
<1>6a. st \in {"open", "filled"} /\ o.filled + a \in Nat
  BY <1>3, <1>5
<1> HIDE DEF st
<1>7. n \in Order /\ n.id = o.id /\ n.userId = o.userId
      /\ n.filled = o.filled + a /\ n.size = o.size /\ n.trigger = o.trigger
      /\ n.status = st
      /\ n.auction = o.auction
  BY <1>2, <1>6a DEF Order
<1> HIDE DEF n
<1>8. OrderOK(n)
  BY <1>3, <1>4, <1>5, <1>6, <1>7 DEF OrderOK, IsOpen, Live, FillsUp, st
<1>9. v.base \in [Markets -> Int]
  <2>1. Side(o.long) * a \in Int
    BY <1>5 DEF Side
  <2> QED
    BY <1>1, <1>2, <2>1 DEF Plus
<1>10. v.orders \in [Slots -> Order] /\ v.orders[i] = n
       /\ \A j \in Slots : j # i => v.orders[j] = u.orders[j]
  BY <1>1, <1>2, <1>7
<1>11. WellFormed(v)
  BY <1>1, <1>8, <1>9, <1>10 DEF Good, WellFormed
<1>12. Resolves(v)
  <2>1. ASSUME NEW j \in Slots
        PROVE  /\ v.orders[j].id = u.orders[j].id
               /\ v.orders[j].userId = u.orders[j].userId
               /\ IsOpen(v.orders[j]) => IsOpen(u.orders[j])
    BY <1>4, <1>7, <1>10 DEF o
  <2> QED
    BY <1>1, <2>1, ChangedInPlace DEF Good
<1> QED
  BY <1>11, <1>12 DEF Good, v

(* The parameters a modification places instead of the order.              *)
LEMMA MergedIsParams ==
  ASSUME NEW o \in Order, OrderOK(o), NEW c \in ModifyOrderParams,
         IsOpen(o), NewSize(o, c) # 0
  PROVE  MergedParams(o, c) \in OrderParams
<1>1. NewSize(o, c) \in Nat \ {0}
  <2>1. o.size \in Nat /\ o.filled \in Nat /\ o.filled < o.size
        /\ c.size \in Nat \cup {Keep}
    BY DEF Order, ModifyOrderParams, OrderOK
  <2> QED
    BY <2>1 DEF NewSize, Unfilled, Without, Keep
<1>2. /\ o.userId \in Nat /\ o.market \in Markets /\ o.long \in BOOLEAN
      /\ o.limit \in BOOLEAN /\ o.reduceOnly \in BOOLEAN /\ o.maxTs \in Nat
      /\ c.maxTs \in Nat \cup {Keep}
  BY DEF Order, ModifyOrderParams
<1>3. /\ (IF c.flip THEN ~o.long ELSE o.long) \in BOOLEAN
      /\ (IF MustBeTriggered(o) THEN "waiting" ELSE "none")
            \in {"none", "waiting"}
      /\ (IF o.post THEN "must" ELSE "none") \in {"none", "must", "try"}
      /\ (IF c.maxTs = Keep THEN o.maxTs ELSE c.maxTs) \in Nat
  BY <1>2
<1> QED
  BY <1>1, <1>2, <1>3 DEF MergedParams, OrderParams

LEMMA TriggerKeepsGood ==
  ASSUME NEW u, Good(u), NEW i \in Slots, IsOpen(u.orders[i]),
         ~Live(u.orders[i])
  PROVE  Good(TriggeredOrder(i, u))
<1> DEFINE o == u.orders[i]
           v == TriggeredOrder(i, u)
           n == [o EXCEPT !.trigger = "fired", !.auction = TRUE]
<1>1. v.nextId = u.nextId /\ v.orders = [u.orders EXCEPT ![i] = n]
      /\ v.base = u.base
  BY DEF TriggeredOrder
<1> HIDE DEF v
<1>2. o \in Order /\ OrderOK(o) /\ u.orders \in [Slots -> Order]
  BY DEF Good, WellFormed
<1>3. n \in Order /\ n.id = o.id /\ n.userId = o.userId
      /\ n.filled = o.filled /\ n.size = o.size /\ n.status = o.status
      /\ n.trigger = "fired"
  BY <1>2 DEF Order
<1> HIDE DEF n
<1>4. OrderOK(n)
  BY <1>2, <1>3 DEF OrderOK, IsOpen, Live
<1>5. v.orders \in [Slots -> Order] /\ v.orders[i] = n
      /\ \A j \in Slots : j # i => v.orders[j] = u.orders[j]
  BY <1>1, <1>2, <1>3
<1>6. WellFormed(v)
  BY <1>1, <1>4, <1>5 DEF Good, WellFormed
<1>7. Resolves(v)
  <2>1. ASSUME NEW j \in Slots
        PROVE  /\ v.orders[j].id = u.orders[j].id
               /\ v.orders[j].userId = u.orders[j].userId
               /\ IsOpen(v.orders[j]) => IsOpen(u.orders[j])
    BY <1>3, <1>5
  <2> QED
    BY <1>1, <2>1, ChangedInPlace DEF Good
<1> QED
  BY <1>6, <1>7 DEF Good, v
-----------------------------------------------------------------------------
(* Counting.  Every counter of the account is a sum over its slots of what *)
(* the order in the slot counts for.                                       *)
Counted(u) ==
  /\ u.openOrders = Cardinality(OpenSlots(u))
  /\ u.openAuctions = Cardinality(OpenAuctions(u))
  /\ \A m \in Markets :
       /\ u.posOrders[m] = Cardinality(OpenIn(u, m))
       /\ u.bids[m] = OnSide(u, OpenSlots(u), m, TRUE)
       /\ u.asks[m] = -OnSide(u, OpenSlots(u), m, FALSE)

OneOpen(o) == IF IsOpen(o) THEN 1 ELSE 0
OneAuction(o) == IF IsOpen(o) /\ o.auction THEN 1 ELSE 0
OneIn(o, m) == IF IsOpen(o) /\ o.market = m THEN 1 ELSE 0
Amount(o, m, long) ==
  IF IsOpen(o) /\ o.market = m /\ o.long = long /\ Live(o)
  THEN Unfilled(o) ELSE 0

Opens(u) == [i \in Slots |-> OneOpen(u.orders[i])]
Auctioned(u) == [i \in Slots |-> OneAuction(u.orders[i])]
InMarket(u, m) == [i \in Slots |-> OneIn(u.orders[i], m)]
Amounts(u, m, long) == [i \in Slots |-> Amount(u.orders[i], m, long)]

Tallied(u) ==
  /\ u.openOrders = SumFunctionOnSet(Opens(u), Slots)
  /\ u.openAuctions = SumFunctionOnSet(Auctioned(u), Slots)
  /\ \A m \in Markets :
       /\ u.posOrders[m] = SumFunctionOnSet(InMarket(u, m), Slots)
       /\ u.bids[m] = SumFunctionOnSet(Amounts(u, m, TRUE), Slots)
       /\ u.asks[m] = -SumFunctionOnSet(Amounts(u, m, FALSE), Slots)

LEMMA SlotsFinite == IsFiniteSet(Slots)
<1>1. MaxOrders \in Int
  BY OrdersAssumption
<1> QED
  BY <1>1, FS_Interval DEF Slots

LEMMA CountsTyped ==
  ASSUME NEW u, WellFormed(u), NEW i \in Slots
  PROVE  /\ Opens(u)[i] = OneOpen(u.orders[i]) /\ Opens(u)[i] \in Nat
         /\ Auctioned(u)[i] = OneAuction(u.orders[i]) /\ Auctioned(u)[i] \in Nat
         /\ \A m \in Markets : /\ InMarket(u, m)[i] = OneIn(u.orders[i], m)
                               /\ InMarket(u, m)[i] \in Nat
         /\ \A m \in Markets, long \in BOOLEAN :
              /\ Amounts(u, m, long)[i] = Amount(u.orders[i], m, long)
              /\ Amounts(u, m, long)[i] \in Nat
<1>1. u.orders[i] \in Order /\ OrderOK(u.orders[i])
  BY DEF WellFormed
<1>2. \A m \in Markets, long \in BOOLEAN : Amount(u.orders[i], m, long) \in Nat
  BY <1>1 DEF Amount, Unfilled, Order, OrderOK
<1>3. \A m \in Markets : OneIn(u.orders[i], m) \in Nat
  BY DEF OneIn
<1> QED
  BY <1>2, <1>3 DEF Opens, Auctioned, InMarket, Amounts, OneOpen, OneAuction

(* Counting a set of slots is summing ones over all of them.               *)
LEMMA CountIsSum ==
  ASSUME NEW F, F = [i \in Slots |-> F[i]], NEW T \in SUBSET Slots,
         \A i \in Slots : F[i] = IF i \in T THEN 1 ELSE 0
  PROVE  Cardinality(T) = SumFunctionOnSet(F, Slots)
<1>1. F = [i \in Slots |-> IF i \in T THEN 1 ELSE 0]
  OBVIOUS
<1> QED
  BY <1>1, SlotsFinite, SumOnes

(* The amount a set of open slots holds on one side of a market.           *)
LEMMA OnSideIsSum ==
  ASSUME NEW u, WellFormed(u), NEW S \in SUBSET OpenSlots(u),
         NEW m \in Markets, NEW long \in BOOLEAN
  PROVE  OnSide(u, S, m, long) = SumFunctionOnSet(Amounts(u, m, long), S)
<1> DEFINE F == [i \in Slots |-> Unfilled(u.orders[i])]
           T == {i \in S : /\ u.orders[i].market = m /\ u.orders[i].long = long
                           /\ Live(u.orders[i])}
           G == [i \in S |-> IF i \in T THEN F[i] ELSE 0]
<1>1. S \subseteq Slots /\ \A i \in S : IsOpen(u.orders[i])
  BY DEF OpenSlots
<1>2. IsFiniteSet(S)
  BY <1>1, SlotsFinite, FS_Subset
<1>3. T \subseteq S /\ \A i \in T : F[i] \in Int
  <2>1. ASSUME NEW i \in Slots PROVE F[i] \in Int
    BY DEF WellFormed, Order, Unfilled
  <2> QED
    BY <1>1, <2>1
<1>4. SumFunctionOnSet(F, T) = SumFunctionOnSet(G, S)
  <2> HIDE DEF F, T
  <2> QED
    BY <1>2, <1>3, SumFilter
<1>5. \A i \in S : G[i] = Amounts(u, m, long)[i]
  BY <1>1 DEF Amounts, Amount
<1>6. OnSide(u, S, m, long) = SumFunctionOnSet(F, T)
  BY DEF OnSide
<1> HIDE DEF F, T, G
<1> QED
  BY <1>2, <1>4, <1>5, <1>6, SumSame

LEMMA OpenCounts ==
  ASSUME NEW u, WellFormed(u)
  PROVE  /\ Cardinality(OpenSlots(u)) = SumFunctionOnSet(Opens(u), Slots)
         /\ Cardinality(OpenAuctions(u)) = SumFunctionOnSet(Auctioned(u), Slots)
         /\ \A m \in Markets : Cardinality(OpenIn(u, m))
                                 = SumFunctionOnSet(InMarket(u, m), Slots)
<1>1. Cardinality(OpenSlots(u)) = SumFunctionOnSet(Opens(u), Slots)
  <2>1. OpenSlots(u) \subseteq Slots /\ \A i \in Slots : Opens(u)[i] = IF i \in OpenSlots(u) THEN 1 ELSE 0
    BY DEF Opens, OneOpen, OpenSlots
  <2>2. Opens(u) = [i \in Slots |-> Opens(u)[i]]
    BY DEF Opens
  <2> QED
    BY <2>1, <2>2, CountIsSum
<1>2. Cardinality(OpenAuctions(u)) = SumFunctionOnSet(Auctioned(u), Slots)
  <2>1. OpenAuctions(u) \subseteq Slots /\ \A i \in Slots : Auctioned(u)[i] = IF i \in OpenAuctions(u) THEN 1 ELSE 0
    BY DEF Auctioned, OneAuction, OpenAuctions, OpenSlots
  <2>2. Auctioned(u) = [i \in Slots |-> Auctioned(u)[i]]
    BY DEF Auctioned
  <2> QED
    BY <2>1, <2>2, CountIsSum
<1>3. ASSUME NEW m \in Markets
      PROVE  Cardinality(OpenIn(u, m)) = SumFunctionOnSet(InMarket(u, m), Slots)
  <2>1. OpenIn(u, m) \subseteq Slots /\ \A i \in Slots : InMarket(u, m)[i] = IF i \in OpenIn(u, m) THEN 1 ELSE 0
    BY DEF InMarket, OneIn, OpenIn, OpenSlots
  <2>2. InMarket(u, m) = [i \in Slots |-> InMarket(u, m)[i]]
    BY DEF InMarket
  <2> QED
    BY <2>1, <2>2, CountIsSum
<1> QED
  BY <1>1, <1>2, <1>3

(* Slots that are not open add nothing.                                    *)
LEMMA OpenAmounts ==
  ASSUME NEW u, WellFormed(u), NEW m \in Markets, NEW long \in BOOLEAN
  PROVE  OnSide(u, OpenSlots(u), m, long)
           = SumFunctionOnSet(Amounts(u, m, long), Slots)
<1> DEFINE A == Amounts(u, m, long)
           R == OpenSlots(u)
<1>1. R \subseteq Slots
  BY DEF OpenSlots
<1>2. \A i \in Slots : A[i] \in Int
  BY CountsTyped
<1>3. \A i \in Slots \ R : A[i] = 0
  BY DEF Amounts, Amount, OpenSlots
<1>4. OnSide(u, R, m, long) = SumFunctionOnSet(A, R)
  BY OnSideIsSum
<1> HIDE DEF A, R
<1>5. SumFunctionOnSet(A, Slots)
        = SumFunctionOnSet(A, R) + SumFunctionOnSet(A, Slots \ R)
  BY <1>1, <1>2, SlotsFinite, SumSplit
<1>6. SumFunctionOnSet(A, Slots \ R) = 0
  <2>1. IsFiniteSet(Slots \ R)
    BY SlotsFinite, FS_Subset
  <2> QED
    BY <1>3, <2>1, SumZero
<1>7. SumFunctionOnSet(A, R) \in Int
  <2>1. IsFiniteSet(R)
    BY <1>1, SlotsFinite, FS_Subset
  <2> QED
    BY <1>1, <1>2, <2>1, SumIsInt
<1> QED
  BY <1>4, <1>5, <1>6, <1>7 DEF A, R

LEMMA CountedIsTallied ==
  ASSUME NEW u, WellFormed(u)
  PROVE  Counted(u) <=> Tallied(u)
BY OpenCounts, OpenAmounts DEF Counted, Tallied

LEMMA AmountsTyped ==
  ASSUME NEW u, WellFormed(u), NEW m \in Markets, NEW long \in BOOLEAN
  PROVE  /\ SumFunctionOnSet(Amounts(u, m, long), Slots) \in Int
         /\ \A i \in Slots : Amount(u.orders[i], m, long) \in Int
<1>1. \A i \in Slots : Amounts(u, m, long)[i] \in Int
  BY CountsTyped
<1>2. \A i \in Slots : Amount(u.orders[i], m, long) \in Int
  BY CountsTyped
<1> QED
  BY <1>1, <1>2, SlotsFinite, SumIsInt

(* A change of one slot that changes the counters by what the order counts *)
(* for before and after.                                                   *)
FollowsSlot(u, v, o, n) ==
  /\ v.openOrders = u.openOrders + (OneOpen(n) - OneOpen(o))
  /\ v.openAuctions = u.openAuctions + (OneAuction(n) - OneAuction(o))
  /\ \A m \in Markets :
       /\ v.posOrders[m] = u.posOrders[m] + (OneIn(n, m) - OneIn(o, m))
       /\ v.bids[m] = u.bids[m] + (Amount(n, m, TRUE) - Amount(o, m, TRUE))
       /\ v.asks[m] = u.asks[m] - (Amount(n, m, FALSE) - Amount(o, m, FALSE))

LEMMA OneSlotTallied ==
  ASSUME NEW u, WellFormed(u), Tallied(u), NEW v, WellFormed(v),
         NEW i \in Slots, FollowsSlot(u, v, u.orders[i], v.orders[i]),
         \A j \in Slots : j # i => v.orders[j] = u.orders[j]
  PROVE  Tallied(v)
<1> DEFINE o == u.orders[i]
           n == v.orders[i]
<1>0. /\ v.openOrders = u.openOrders + (OneOpen(n) - OneOpen(o))
      /\ v.openAuctions = u.openAuctions + (OneAuction(n) - OneAuction(o))
      /\ \A m \in Markets :
           /\ v.posOrders[m] = u.posOrders[m] + (OneIn(n, m) - OneIn(o, m))
           /\ v.bids[m] = u.bids[m] + (Amount(n, m, TRUE) - Amount(o, m, TRUE))
           /\ v.asks[m] = u.asks[m] - (Amount(n, m, FALSE) - Amount(o, m, FALSE))
  BY DEF FollowsSlot
<1>1. v.openOrders = SumFunctionOnSet(Opens(v), Slots)
  <2>1. \A j \in Slots : j # i => Opens(u)[j] = Opens(v)[j]
    BY DEF Opens
  <2>2. \A j \in Slots : Opens(u)[j] \in Int /\ Opens(v)[j] \in Int
    BY CountsTyped
  <2>3. Opens(v)[i] = OneOpen(n) /\ Opens(u)[i] = OneOpen(o)
    BY CountsTyped
  <2>4. SumFunctionOnSet(Opens(v), Slots)
          = SumFunctionOnSet(Opens(u), Slots) + (Opens(v)[i] - Opens(u)[i])
    BY <2>1, <2>2, SlotsFinite, SumUpdate
  <2> QED
    BY <1>0, <2>3, <2>4 DEF Tallied
<1>2. v.openAuctions = SumFunctionOnSet(Auctioned(v), Slots)
  <2>1. \A j \in Slots : j # i => Auctioned(u)[j] = Auctioned(v)[j]
    BY DEF Auctioned
  <2>2. \A j \in Slots : Auctioned(u)[j] \in Int /\ Auctioned(v)[j] \in Int
    BY CountsTyped
  <2>3. Auctioned(v)[i] = OneAuction(n) /\ Auctioned(u)[i] = OneAuction(o)
    BY CountsTyped
  <2>4. SumFunctionOnSet(Auctioned(v), Slots)
          = SumFunctionOnSet(Auctioned(u), Slots) + (Auctioned(v)[i] - Auctioned(u)[i])
    BY <2>1, <2>2, SlotsFinite, SumUpdate
  <2> QED
    BY <1>0, <2>3, <2>4 DEF Tallied
<1>3. ASSUME NEW m \in Markets
      PROVE  v.posOrders[m] = SumFunctionOnSet(InMarket(v, m), Slots)
  <2> DEFINE A == InMarket(u, m)
             B == InMarket(v, m)
  <2>1. \A j \in Slots : j # i => A[j] = B[j]
    BY DEF InMarket
  <2>2. \A j \in Slots : A[j] \in Int /\ B[j] \in Int
    BY CountsTyped
  <2>3. B[i] = OneIn(n, m) /\ A[i] = OneIn(o, m)
    BY CountsTyped
  <2>4. u.posOrders[m] = SumFunctionOnSet(A, Slots)
    BY DEF Tallied
  <2> HIDE DEF A, B
  <2>5. SumFunctionOnSet(B, Slots) = SumFunctionOnSet(A, Slots) + (B[i] - A[i])
    BY <2>1, <2>2, SlotsFinite, SumUpdate
  <2> QED
    BY <1>0, <2>3, <2>4, <2>5 DEF B
<1>4. ASSUME NEW m \in Markets, NEW long \in BOOLEAN
      PROVE  SumFunctionOnSet(Amounts(v, m, long), Slots)
               = SumFunctionOnSet(Amounts(u, m, long), Slots)
                   + (Amount(n, m, long) - Amount(o, m, long))
  <2> DEFINE A == Amounts(u, m, long)
             B == Amounts(v, m, long)
  <2>1. \A j \in Slots : j # i => A[j] = B[j]
    BY DEF Amounts
  <2>2. \A j \in Slots : A[j] \in Int /\ B[j] \in Int
    BY CountsTyped
  <2>3. B[i] = Amount(n, m, long) /\ A[i] = Amount(o, m, long)
    BY CountsTyped
  <2> HIDE DEF A, B
  <2>5. SumFunctionOnSet(B, Slots) = SumFunctionOnSet(A, Slots) + (B[i] - A[i])
    BY <2>1, <2>2, SlotsFinite, SumUpdate
  <2> QED
    BY <2>3, <2>5 DEF A, B
<1>5. ASSUME NEW m \in Markets
      PROVE  v.bids[m] = SumFunctionOnSet(Amounts(v, m, TRUE), Slots)
  BY <1>0, <1>4 DEF Tallied
<1>6. ASSUME NEW m \in Markets
      PROVE  v.asks[m] = -SumFunctionOnSet(Amounts(v, m, FALSE), Slots)
  <2> DEFINE a == SumFunctionOnSet(Amounts(u, m, FALSE), Slots)
             b == SumFunctionOnSet(Amounts(v, m, FALSE), Slots)
             d == Amount(n, m, FALSE) - Amount(o, m, FALSE)
  <2>1. a \in Int
    BY AmountsTyped
  <2>2. d \in Int
    <3> DEFINE x == Amount(n, m, FALSE)
               y == Amount(o, m, FALSE)
    <3>1. x \in Int
      BY AmountsTyped
    <3>2. y \in Int
      BY AmountsTyped
    <3> HIDE DEF x, y
    <3>3. x - y \in Int
      BY <3>1, <3>2
    <3> QED
      BY <3>3 DEF x, y
  <2>3. v.asks[m] = -a - d
    BY <1>0 DEF Tallied
  <2>4. b = a + d
    BY <1>4
  <2> HIDE DEF a, b, d
  <2>5. v.asks[m] = -b
    BY <2>1, <2>2, <2>3, <2>4
  <2> QED
    BY <2>5 DEF b
<1> QED
  BY <1>1, <1>2, <1>3, <1>5, <1>6 DEF Tallied

(* The saturating subtractions do not saturate.                            *)
LEMMA CountersCover ==
  ASSUME NEW u, WellFormed(u), Tallied(u), NEW i \in Slots
  PROVE  /\ u.openOrders \in Nat /\ OneOpen(u.orders[i]) <= u.openOrders
         /\ u.openAuctions \in Nat /\ OneAuction(u.orders[i]) <= u.openAuctions
         /\ \A m \in Markets : /\ u.posOrders[m] \in Int
                               /\ u.bids[m] \in Int /\ u.asks[m] \in Int
<1>1. \A j \in Slots : Opens(u)[j] \in Nat /\ Auctioned(u)[j] \in Nat
  BY CountsTyped
<1>2. /\ SumFunctionOnSet(Opens(u), Slots) \in Nat
      /\ SumFunctionOnSet(Auctioned(u), Slots) \in Nat
  BY <1>1, SlotsFinite, SumIsNat
<1>3. /\ Opens(u)[i] <= SumFunctionOnSet(Opens(u), Slots)
      /\ Auctioned(u)[i] <= SumFunctionOnSet(Auctioned(u), Slots)
  BY <1>1, SlotsFinite, SumAtLeastMember
<1>4. Opens(u)[i] = OneOpen(u.orders[i]) /\ Auctioned(u)[i] = OneAuction(u.orders[i])
  BY CountsTyped
<1>5. ASSUME NEW m \in Markets
      PROVE  /\ u.posOrders[m] \in Int /\ u.bids[m] \in Int /\ u.asks[m] \in Int
  <2>1. \A j \in Slots : InMarket(u, m)[j] \in Int
    BY CountsTyped
  <2>2. SumFunctionOnSet(InMarket(u, m), Slots) \in Int
    BY <2>1, SlotsFinite, SumIsInt
  <2> DEFINE a == SumFunctionOnSet(Amounts(u, m, TRUE), Slots)
             b == SumFunctionOnSet(Amounts(u, m, FALSE), Slots)
  <2>3. a \in Int
    BY AmountsTyped
  <2>4. b \in Int
    BY AmountsTyped
  <2>5. /\ u.posOrders[m] = SumFunctionOnSet(InMarket(u, m), Slots)
        /\ u.bids[m] = a /\ u.asks[m] = -b
    BY DEF Tallied
  <2> HIDE DEF a, b
  <2> QED
    BY <2>2, <2>3, <2>4, <2>5
<1> QED
  BY <1>2, <1>3, <1>4, <1>5 DEF Tallied

(* Cancelling any set of open orders: what the counters give back is what  *)
(* those orders counted for.                                               *)
LEMMA SumWithout ==
  ASSUME NEW F, NEW G, NEW S \in SUBSET Slots,
         \A i \in Slots : F[i] \in Int,
         \A i \in Slots : G[i] = IF i \in S THEN 0 ELSE F[i]
  PROVE  /\ SumFunctionOnSet(F, S) \in Int /\ SumFunctionOnSet(F, Slots) \in Int
         /\ SumFunctionOnSet(G, Slots)
              = SumFunctionOnSet(F, Slots) - SumFunctionOnSet(F, S)
<1>1. IsFiniteSet(S) /\ IsFiniteSet(Slots \ S) /\ IsFiniteSet(Slots)
  BY SlotsFinite, FS_Subset
<1>2. \A i \in Slots : G[i] \in Int
  OBVIOUS
<1>3. SumFunctionOnSet(F, Slots)
        = SumFunctionOnSet(F, S) + SumFunctionOnSet(F, Slots \ S)
  BY <1>1, SumSplit
<1>4. SumFunctionOnSet(G, Slots)
        = SumFunctionOnSet(G, S) + SumFunctionOnSet(G, Slots \ S)
  BY <1>1, <1>2, SumSplit
<1>5. SumFunctionOnSet(G, S) = 0
  BY <1>1, SumZero
<1>6. SumFunctionOnSet(G, Slots \ S) = SumFunctionOnSet(F, Slots \ S)
  <2>1. \A i \in Slots \ S : G[i] = F[i]
    OBVIOUS
  <2> QED
    BY <1>1, <2>1, SumSame
<1>7. /\ SumFunctionOnSet(F, S) \in Int
      /\ SumFunctionOnSet(F, Slots \ S) \in Int
  BY <1>1, SumIsInt
<1> QED
  BY <1>3, <1>4, <1>5, <1>6, <1>7

LEMMA CountInPart ==
  ASSUME NEW F, NEW S \in SUBSET Slots, \A i \in Slots : F[i] \in {0, 1},
         NEW T, T = {i \in S : F[i] = 1}
  PROVE  Cardinality(T) = SumFunctionOnSet(F, S)
<1>1. T \subseteq Slots /\ IsFiniteSet(S) /\ T \subseteq S
  BY SlotsFinite, FS_Subset
<1>2. Cardinality(T) = SumFunctionOnSet([i \in S |-> IF i \in T THEN 1 ELSE 0], S)
  BY <1>1, SumOnes
<1>3. \A i \in S : F[i] = [j \in S |-> IF j \in T THEN 1 ELSE 0][i]
  OBVIOUS
<1> QED
  BY <1>1, <1>2, <1>3, SumSame

LEMMA CancelKeepsTallied ==
  ASSUME NEW u, WellFormed(u), Tallied(u), NEW S \in SUBSET OpenSlots(u)
  PROVE  Tallied(CancelOrders(S, u))
<1> DEFINE v == CancelOrders(S, u)
<1>1. /\ v.orders = [i \in Slots |-> IF i \in S
                       THEN [u.orders[i] EXCEPT !.status = "canceled"]
                       ELSE u.orders[i]]
      /\ v.openOrders = Without(u.openOrders, Cardinality(S))
      /\ v.openAuctions = Without(u.openAuctions,
                            Cardinality({i \in S : u.orders[i].auction}))
      /\ \A m \in Markets :
           /\ v.posOrders[m] = u.posOrders[m]
                - Cardinality({i \in S : u.orders[i].market = m})
           /\ v.bids[m] = u.bids[m] - OnSide(u, S, m, TRUE)
           /\ v.asks[m] = u.asks[m] + OnSide(u, S, m, FALSE)
  BY DEF CancelOrders, Released
<1> HIDE DEF v
<1>2. S \subseteq Slots /\ \A i \in S : IsOpen(u.orders[i])
  BY DEF OpenSlots
<1>3. ASSUME NEW i \in Slots
      PROVE  /\ i \notin S => v.orders[i] = u.orders[i]
             /\ i \in S => ~IsOpen(v.orders[i])
  BY <1>1, <1>2 DEF WellFormed, Order, IsOpen
<1>4. \A i \in Slots : /\ Opens(u)[i] = OneOpen(u.orders[i])
                       /\ Opens(u)[i] \in {0, 1}
                       /\ Auctioned(u)[i] = OneAuction(u.orders[i])
                       /\ Auctioned(u)[i] \in {0, 1}
                       /\ Opens(u)[i] \in Nat /\ Auctioned(u)[i] \in Nat
  BY DEF Opens, OneOpen, Auctioned, OneAuction
<1>5. v.openOrders = SumFunctionOnSet(Opens(v), Slots)
  <2> DEFINE F == Opens(u)
             G == Opens(v)
  <2>1. \A i \in Slots : G[i] = IF i \in S THEN 0 ELSE F[i]
    BY <1>3 DEF Opens, OneOpen
  <2>2. S = {i \in S : F[i] = 1}
    BY <1>2, <1>4 DEF OneOpen
  <2>3. u.openOrders = SumFunctionOnSet(F, Slots)
    BY DEF Tallied
  <2> HIDE DEF F, G
  <2>4. \A i \in Slots : F[i] \in {0, 1} /\ F[i] \in Int /\ F[i] \in Nat
    BY <1>4 DEF F
  <2>5. Cardinality(S) = SumFunctionOnSet(F, S)
    BY <1>2, <2>2, <2>4, CountInPart
  <2>6. /\ SumFunctionOnSet(F, S) \in Int /\ SumFunctionOnSet(F, Slots) \in Int
        /\ SumFunctionOnSet(G, Slots) = SumFunctionOnSet(F, Slots) - SumFunctionOnSet(F, S)
    BY <1>2, <2>1, <2>4, SumWithout
  <2>7. SumFunctionOnSet(F, S) <= SumFunctionOnSet(F, Slots)
    BY <1>2, <2>4, SlotsFinite, SumAtLeastPart
  <2> QED
    BY <1>1, <2>3, <2>5, <2>6, <2>7 DEF Without, G
<1>6. v.openAuctions = SumFunctionOnSet(Auctioned(v), Slots)
  <2> DEFINE F == Auctioned(u)
             G == Auctioned(v)
             T == {i \in S : u.orders[i].auction}
  <2>1. \A i \in Slots : G[i] = IF i \in S THEN 0 ELSE F[i]
    BY <1>3 DEF Auctioned, OneAuction
  <2>2. T = {i \in S : F[i] = 1}
    BY <1>2, <1>4 DEF OneAuction
  <2>3. u.openAuctions = SumFunctionOnSet(F, Slots)
    BY DEF Tallied
  <2> HIDE DEF F, G, T
  <2>4. \A i \in Slots : F[i] \in {0, 1} /\ F[i] \in Int /\ F[i] \in Nat
    BY <1>4 DEF F
  <2>5. Cardinality(T) = SumFunctionOnSet(F, S)
    BY <1>2, <2>2, <2>4, CountInPart
  <2>6. /\ SumFunctionOnSet(F, S) \in Int /\ SumFunctionOnSet(F, Slots) \in Int
        /\ SumFunctionOnSet(G, Slots) = SumFunctionOnSet(F, Slots) - SumFunctionOnSet(F, S)
    BY <1>2, <2>1, <2>4, SumWithout
  <2>7. SumFunctionOnSet(F, S) <= SumFunctionOnSet(F, Slots)
    BY <1>2, <2>4, SlotsFinite, SumAtLeastPart
  <2> QED
    BY <1>1, <2>3, <2>5, <2>6, <2>7 DEF Without, G, T
<1>7. ASSUME NEW m \in Markets
      PROVE  v.posOrders[m] = SumFunctionOnSet(InMarket(v, m), Slots)
  <2> DEFINE F == InMarket(u, m)
             G == InMarket(v, m)
             T == {i \in S : u.orders[i].market = m}
  <2>1. \A i \in Slots : G[i] = IF i \in S THEN 0 ELSE F[i]
    BY <1>3 DEF InMarket, OneIn
  <2>2. T = {i \in S : F[i] = 1}
    BY <1>2 DEF InMarket, OneIn
  <2>3. u.posOrders[m] = SumFunctionOnSet(F, Slots)
    BY DEF Tallied
  <2>4. \A i \in Slots : F[i] \in {0, 1} /\ F[i] \in Int
    BY DEF InMarket, OneIn
  <2> HIDE DEF F, G, T
  <2>5. Cardinality(T) = SumFunctionOnSet(F, S)
    BY <1>2, <2>2, <2>4, CountInPart
  <2>6. /\ SumFunctionOnSet(F, S) \in Int /\ SumFunctionOnSet(F, Slots) \in Int
        /\ SumFunctionOnSet(G, Slots) = SumFunctionOnSet(F, Slots) - SumFunctionOnSet(F, S)
    BY <1>2, <2>1, <2>4, SumWithout
  <2> QED
    BY <1>1, <2>3, <2>5, <2>6 DEF G, T
<1>8. ASSUME NEW m \in Markets, NEW long \in BOOLEAN
      PROVE  /\ OnSide(u, S, m, long) \in Int
             /\ SumFunctionOnSet(Amounts(u, m, long), Slots) \in Int
             /\ SumFunctionOnSet(Amounts(v, m, long), Slots)
                  = SumFunctionOnSet(Amounts(u, m, long), Slots)
                      - OnSide(u, S, m, long)
  <2> DEFINE F == Amounts(u, m, long)
             G == Amounts(v, m, long)
  <2>1. \A i \in Slots : G[i] = IF i \in S THEN 0 ELSE F[i]
    BY <1>3 DEF Amounts, Amount
  <2>2. OnSide(u, S, m, long) = SumFunctionOnSet(F, S)
    BY OnSideIsSum
  <2>3. \A i \in Slots : F[i] \in Int
    BY CountsTyped
  <2> HIDE DEF F, G
  <2>4. /\ SumFunctionOnSet(F, S) \in Int /\ SumFunctionOnSet(F, Slots) \in Int
        /\ SumFunctionOnSet(G, Slots) = SumFunctionOnSet(F, Slots) - SumFunctionOnSet(F, S)
    BY <1>2, <2>1, <2>3, SumWithout
  <2> QED
    BY <2>2, <2>4 DEF F, G
<1>9. ASSUME NEW m \in Markets
      PROVE  v.bids[m] = SumFunctionOnSet(Amounts(v, m, TRUE), Slots)
  <2>1. u.bids[m] = SumFunctionOnSet(Amounts(u, m, TRUE), Slots)
    BY DEF Tallied
  <2>2. v.bids[m] = u.bids[m] - OnSide(u, S, m, TRUE)
    BY <1>1
  <2> QED
    BY <1>8, <2>1, <2>2
<1>10. ASSUME NEW m \in Markets
       PROVE  v.asks[m] = -SumFunctionOnSet(Amounts(v, m, FALSE), Slots)
  <2> DEFINE a == SumFunctionOnSet(Amounts(u, m, FALSE), Slots)
             b == SumFunctionOnSet(Amounts(v, m, FALSE), Slots)
             s == OnSide(u, S, m, FALSE)
  <2>1. u.asks[m] = -a
    BY DEF Tallied
  <2>2. v.asks[m] = u.asks[m] + s
    BY <1>1
  <2>3. a \in Int
    BY <1>8
  <2>4. s \in Int
    BY <1>8
  <2>5. b = a - s
    BY <1>8
  <2> HIDE DEF a, b, s
  <2>6. v.asks[m] = -b
    BY <2>1, <2>2, <2>3, <2>4, <2>5
  <2> QED
    BY <2>6 DEF b
<1> QED
  BY <1>5, <1>6, <1>7, <1>9, <1>10 DEF Tallied, v

(* An account in good order whose counters are right.                      *)
Sound(u) == Good(u) /\ Tallied(u)

LEMMA CancelKeepsSound ==
  ASSUME NEW u, Sound(u), NEW S \in SUBSET OpenSlots(u)
  PROVE  Sound(CancelOrders(S, u))
BY CancelKeepsGood, CancelKeepsTallied DEF Sound, Good

LEMMA CancelOneKeepsSound ==
  ASSUME NEW u, Sound(u), NEW i \in Slots, IsOpen(u.orders[i])
  PROVE  Sound(CancelOrder(i, u))
<1>1. {i} \in SUBSET OpenSlots(u)
  BY DEF OpenSlots
<1> QED
  BY <1>1, CancelKeepsSound DEF CancelOrder

LEMMA ExpireKeepsSound ==
  ASSUME NEW u, Sound(u)
  PROVE  Sound(ExpireOrders(u))
<1>1. {i \in Slots : ShouldExpire(u.orders[i], now)} \in SUBSET OpenSlots(u)
  BY DEF ShouldExpire, OpenSlots
<1> QED
  BY <1>1, CancelKeepsSound DEF ExpireOrders

LEMMA AmountOfOpen ==
  ASSUME NEW o \in Order, IsOpen(o), NEW m
  PROVE  /\ Amount(o, m, TRUE) = IF o.market = m /\ o.long /\ Live(o)
                                 THEN Unfilled(o) ELSE 0
         /\ Amount(o, m, FALSE) = IF o.market = m /\ ~o.long /\ Live(o)
                                  THEN Unfilled(o) ELSE 0
<1>1. o.long \in BOOLEAN
  BY DEF Order
<1> QED
  BY <1>1 DEF Amount

LEMMA AddKeepsSound ==
  ASSUME NEW u, Sound(u), NEW i \in FirstFree(u), NEW o \in Order,
         OrderOK(o), o.id = u.nextId, IsOpen(o), o.filled = 0,
         o.userId > 0 => ~UserIdUsed(o.userId, u)
  PROVE  Sound(AddOrder(i, o, u))
<1> DEFINE v == AddOrder(i, o, u)
           e == u.orders[i]
<1>1. Good(v)
  BY AddKeepsGood DEF Sound
<1>2. /\ v.orders = [u.orders EXCEPT ![i] = o]
      /\ v.openOrders = u.openOrders + 1
      /\ v.openAuctions = u.openAuctions + (IF o.auction THEN 1 ELSE 0)
      /\ v.posOrders = Plus(u.posOrders, o.market, 1)
      /\ v.bids = IF Live(o) /\ o.long THEN Plus(u.bids, o.market, o.size) ELSE u.bids
      /\ v.asks = IF Live(o) /\ ~o.long THEN Plus(u.asks, o.market, -o.size) ELSE u.asks
  BY DEF AddOrder
<1> HIDE DEF v
<1>3. i \in Slots /\ ~IsOpen(e)
  BY DEF FirstFree, FreeSlots, OpenSlots
<1>4. WellFormed(u) /\ WellFormed(v) /\ Tallied(u)
  BY <1>1 DEF Sound, Good
<1>5. v.orders[i] = o /\ \A j \in Slots : j # i => v.orders[j] = u.orders[j]
  BY <1>2, <1>3, <1>4 DEF WellFormed
<1>6. /\ u.openOrders \in Nat /\ u.openAuctions \in Nat
      /\ \A m \in Markets : /\ u.posOrders[m] \in Int
                            /\ u.bids[m] \in Int /\ u.asks[m] \in Int
  BY <1>3, <1>4, CountersCover
<1>7. OneOpen(e) = 0 /\ OneAuction(e) = 0 /\ OneOpen(o) = 1
      /\ OneAuction(o) = (IF o.auction THEN 1 ELSE 0)
  BY <1>3 DEF OneOpen, OneAuction
<1>8. \A m \in Markets : OneIn(e, m) = 0 /\ OneIn(o, m) = IF o.market = m THEN 1 ELSE 0
  BY <1>3 DEF OneIn
<1>9. o.size \in Nat /\ Unfilled(o) = o.size /\ o.market \in Markets
  BY DEF Order, Unfilled
<1>10. ASSUME NEW m \in Markets
       PROVE  /\ v.posOrders[m] = u.posOrders[m] + (OneIn(o, m) - OneIn(e, m))
              /\ v.bids[m] = u.bids[m] + (Amount(o, m, TRUE) - Amount(e, m, TRUE))
              /\ v.asks[m] = u.asks[m] - (Amount(o, m, FALSE) - Amount(e, m, FALSE))
  <2> DEFINE ot == Amount(o, m, TRUE)
             of == Amount(o, m, FALSE)
             et == Amount(e, m, TRUE)
             ef == Amount(e, m, FALSE)
  <2>1. v.posOrders[m] = u.posOrders[m] + (OneIn(o, m) - OneIn(e, m))
    BY <1>2, <1>6, <1>8 DEF Plus
  <2>2. /\ ot = IF o.market = m /\ o.long /\ Live(o) THEN o.size ELSE 0
        /\ of = IF o.market = m /\ ~o.long /\ Live(o) THEN o.size ELSE 0
    BY <1>9, AmountOfOpen
  <2>3. et = 0 /\ ef = 0
    BY <1>3 DEF Amount
  <2> HIDE DEF ot, of, et, ef
  <2>4. v.bids[m] = IF o.market = m /\ o.long /\ Live(o)
                    THEN u.bids[m] + o.size ELSE u.bids[m]
    BY <1>2 DEF Plus
  <2>5. v.asks[m] = IF o.market = m /\ ~o.long /\ Live(o)
                    THEN u.asks[m] + (-o.size) ELSE u.asks[m]
    BY <1>2 DEF Plus
  <2>6. v.bids[m] = u.bids[m] + (ot - et)
    BY <1>6, <1>9, <2>2, <2>3, <2>4
  <2>7. v.asks[m] = u.asks[m] - (of - ef)
    BY <1>6, <1>9, <2>2, <2>3, <2>5
  <2> QED
    BY <2>1, <2>6, <2>7 DEF ot, of, et, ef
<1>11. /\ v.openOrders = u.openOrders + (OneOpen(o) - OneOpen(e))
       /\ v.openAuctions = u.openAuctions + (OneAuction(o) - OneAuction(e))
  BY <1>2, <1>6, <1>7
<1>12. Tallied(v)
  <2>1. FollowsSlot(u, v, e, o)
    BY <1>10, <1>11 DEF FollowsSlot
  <2> QED
    BY <1>3, <1>4, <1>5, <2>1, OneSlotTallied
<1> QED
  BY <1>1, <1>12 DEF Sound, v

LEMMA SkipKeepsSound ==
  ASSUME NEW u, Sound(u)
  PROVE  Sound(SkipId(u))
<1> DEFINE v == SkipId(u)
<1>1. /\ v.orders = u.orders /\ v.bids = u.bids /\ v.asks = u.asks
      /\ v.posOrders = u.posOrders /\ v.openOrders = u.openOrders
      /\ v.openAuctions = u.openAuctions
  BY DEF SkipId
<1>2. Good(v)
  BY SkipKeepsGood DEF Sound
<1> HIDE DEF v
<1>3. /\ Opens(v) = Opens(u) /\ Auctioned(v) = Auctioned(u)
      /\ \A m \in Markets : InMarket(v, m) = InMarket(u, m)
      /\ \A m \in Markets, long \in BOOLEAN : Amounts(v, m, long) = Amounts(u, m, long)
  BY <1>1 DEF Opens, Auctioned, InMarket, Amounts
<1>4. Tallied(v)
  BY <1>1, <1>3 DEF Sound, Tallied
<1> QED
  BY <1>2, <1>4 DEF Sound, v

LEMMA FillKeepsSound ==
  ASSUME NEW u, Sound(u), NEW i \in Slots, IsOpen(u.orders[i]),
         Live(u.orders[i]),
         NEW a \in 1 .. Fillable(u.orders[i], u.base[u.orders[i].market])
  PROVE  Sound(FillOrder(i, a, u))
<1> DEFINE o == u.orders[i]
           v == FillOrder(i, a, u)
           done == FillsUp(o, a)
           n == [o EXCEPT !.filled = o.filled + a,
                          !.status = IF done THEN "filled" ELSE "open"]
<1>1. Good(v)
  BY FillKeepsGood DEF Sound
<1>2. /\ v.orders = [u.orders EXCEPT ![i] = n]
      /\ v.openOrders = IF done THEN Without(u.openOrders, 1) ELSE u.openOrders
      /\ v.openAuctions = IF done /\ o.auction THEN Without(u.openAuctions, 1)
                                               ELSE u.openAuctions
      /\ v.posOrders = IF done THEN Plus(u.posOrders, o.market, -1) ELSE u.posOrders
      /\ v.bids = IF o.long THEN Plus(u.bids, o.market, -a) ELSE u.bids
      /\ v.asks = IF o.long THEN u.asks ELSE Plus(u.asks, o.market, a)
  BY DEF FillOrder
<1> HIDE DEF v
<1>3. WellFormed(u) /\ WellFormed(v) /\ Tallied(u)
  BY <1>1 DEF Sound, Good
<1>4. /\ o \in Order /\ o.market \in Markets /\ u.orders \in [Slots -> Order]
      /\ u.base[o.market] \in Int /\ IsOpen(o) /\ Live(o)
      /\ a \in 1 .. Fillable(o, u.base[o.market])
  BY <1>3 DEF WellFormed, Order
<1>5. /\ OneOpen(o) <= u.openOrders /\ OneAuction(o) <= u.openAuctions
      /\ u.openOrders \in Nat /\ u.openAuctions \in Nat
      /\ \A m \in Markets : /\ u.posOrders[m] \in Int
                            /\ u.bids[m] \in Int /\ u.asks[m] \in Int
  BY <1>3, CountersCover
<1>6. v.orders[i] = n /\ \A j \in Slots : j # i => v.orders[j] = u.orders[j]
  BY <1>2, <1>4
<1> HIDE DEF o
<1>7. a \in Nat /\ a > 0 /\ a <= Unfilled(o)
  BY <1>4, FillableIsBounded
<1>8. o.size \in Nat /\ o.filled \in Nat /\ o.auction \in BOOLEAN
  BY <1>4 DEF Order
<1>9. /\ n.market = o.market /\ n.long = o.long /\ n.auction = o.auction
      /\ n.trigger = o.trigger /\ n.size = o.size /\ n.filled = o.filled + a
      /\ n.status = IF done THEN "filled" ELSE "open"
  BY <1>4 DEF Order
<1>9a. n \in Order
  BY <1>3, <1>6 DEF WellFormed
<1> HIDE DEF n
<1>10. /\ done <=> a = Unfilled(o)
       /\ IsOpen(n) <=> ~done
       /\ Live(n)
       /\ Unfilled(n) = Unfilled(o) - a
       /\ Unfilled(o) \in Int
  BY <1>4, <1>7, <1>8, <1>9 DEF FillsUp, Unfilled, IsOpen, Live
<1> HIDE DEF done
<1>11. /\ v.openOrders = u.openOrders + (OneOpen(n) - OneOpen(o))
       /\ v.openAuctions = u.openAuctions + (OneAuction(n) - OneAuction(o))
  <2>1. OneOpen(o) = 1 /\ OneOpen(n) = IF done THEN 0 ELSE 1
    BY <1>4, <1>10 DEF OneOpen
  <2>2. /\ OneAuction(o) = IF o.auction THEN 1 ELSE 0
        /\ OneAuction(n) = IF o.auction /\ ~done THEN 1 ELSE 0
    BY <1>4, <1>9, <1>10 DEF OneAuction
  <2> QED
    BY <1>2, <1>5, <2>1, <2>2 DEF Without
<1>12. ASSUME NEW m \in Markets
       PROVE  /\ v.posOrders[m] = u.posOrders[m] + (OneIn(n, m) - OneIn(o, m))
              /\ v.bids[m] = u.bids[m] + (Amount(n, m, TRUE) - Amount(o, m, TRUE))
              /\ v.asks[m] = u.asks[m] - (Amount(n, m, FALSE) - Amount(o, m, FALSE))
  <2> DEFINE ot == Amount(o, m, TRUE)
             of == Amount(o, m, FALSE)
             nt == Amount(n, m, TRUE)
             nf == Amount(n, m, FALSE)
             r  == Unfilled(o)
  <2>1. /\ OneIn(o, m) = IF o.market = m THEN 1 ELSE 0
        /\ OneIn(n, m) = IF o.market = m /\ ~done THEN 1 ELSE 0
    BY <1>4, <1>9, <1>10 DEF OneIn
  <2>2. /\ ot = IF o.market = m /\ o.long THEN r ELSE 0
        /\ of = IF o.market = m /\ ~o.long THEN r ELSE 0
    BY <1>4, AmountOfOpen
  <2>3. /\ nt = IF o.market = m /\ o.long THEN r - a ELSE 0
        /\ nf = IF o.market = m /\ ~o.long THEN r - a ELSE 0
    <3>1. CASE done
      <4>1. nt = 0 /\ nf = 0
        BY <1>10, <3>1 DEF Amount
      <4>2. r - a = 0
        BY <1>7, <1>10, <3>1
      <4> QED
        BY <4>1, <4>2
    <3>2. CASE ~done
      <4>1. /\ nt = IF n.market = m /\ n.long /\ Live(n) THEN Unfilled(n) ELSE 0
            /\ nf = IF n.market = m /\ ~n.long /\ Live(n) THEN Unfilled(n) ELSE 0
        BY <1>9a, <1>10, <3>2, AmountOfOpen
      <4> QED
        BY <1>9, <1>10, <4>1
    <3> QED
      BY <3>1, <3>2
  <2> HIDE DEF ot, of, nt, nf, r
  <2>4. v.posOrders[m] = u.posOrders[m] + (OneIn(n, m) - OneIn(o, m))
    BY <1>2, <1>5, <2>1 DEF Plus
  <2>5. v.bids[m] = IF o.market = m /\ o.long THEN u.bids[m] + (-a) ELSE u.bids[m]
    BY <1>2 DEF Plus
  <2>6. v.asks[m] = IF o.market = m /\ ~o.long THEN u.asks[m] + a ELSE u.asks[m]
    BY <1>2 DEF Plus
  <2>7. r \in Int
    BY <1>10 DEF r
  <2>8. v.bids[m] = u.bids[m] + (nt - ot)
    BY <1>5, <1>7, <2>2, <2>3, <2>5, <2>7
  <2>9. v.asks[m] = u.asks[m] - (nf - of)
    BY <1>5, <1>7, <2>2, <2>3, <2>6, <2>7
  <2> QED
    BY <2>4, <2>8, <2>9 DEF ot, of, nt, nf
<1>13. Tallied(v)
  <2>1. FollowsSlot(u, v, o, n)
    BY <1>11, <1>12 DEF FollowsSlot
  <2> QED
    BY <1>3, <1>6, <2>1, OneSlotTallied DEF o
<1> QED
  BY <1>1, <1>13 DEF Sound, v

LEMMA TriggerKeepsSound ==
  ASSUME NEW u, Sound(u), NEW i \in Slots, IsOpen(u.orders[i]),
         ~Live(u.orders[i])
  PROVE  /\ Sound(TriggeredOrder(i, u))
         /\ IsOpen(TriggeredOrder(i, u).orders[i])
<1> DEFINE o == u.orders[i]
           v == TriggeredOrder(i, u)
           n == [o EXCEPT !.trigger = "fired", !.auction = TRUE]
<1>1. Good(v)
  BY TriggerKeepsGood DEF Sound
<1>2. /\ v.orders = [u.orders EXCEPT ![i] = n]
      /\ v.openOrders = u.openOrders /\ v.openAuctions = u.openAuctions + 1
      /\ v.posOrders = u.posOrders
      /\ v.bids = IF o.long THEN Plus(u.bids, o.market, o.size) ELSE u.bids
      /\ v.asks = IF o.long THEN u.asks ELSE Plus(u.asks, o.market, -o.size)
  BY DEF TriggeredOrder
<1> HIDE DEF v
<1>3. WellFormed(u) /\ WellFormed(v) /\ Tallied(u)
  BY <1>1 DEF Sound, Good
<1>4. /\ o \in Order /\ OrderOK(o) /\ u.orders \in [Slots -> Order]
      /\ IsOpen(o) /\ ~Live(o)
  BY <1>3 DEF WellFormed
<1>5. /\ u.openOrders \in Nat /\ u.openAuctions \in Nat
      /\ \A m \in Markets : /\ u.posOrders[m] \in Int
                            /\ u.bids[m] \in Int /\ u.asks[m] \in Int
  BY <1>3, CountersCover
<1>6. v.orders[i] = n /\ \A j \in Slots : j # i => v.orders[j] = u.orders[j]
  BY <1>2, <1>4
<1> HIDE DEF o
<1>7. o.size \in Nat /\ o.filled = 0 /\ o.auction = FALSE /\ o.market \in Markets
  BY <1>4 DEF Order, OrderOK
<1>8. /\ n.market = o.market /\ n.long = o.long /\ n.auction = TRUE
      /\ n.trigger = "fired" /\ n.size = o.size /\ n.filled = 0
      /\ n.status = o.status
  BY <1>4, <1>7 DEF Order
<1>9. n \in Order
  BY <1>3, <1>6 DEF WellFormed
<1> HIDE DEF n
<1>10. IsOpen(n) /\ Live(n) /\ Unfilled(n) = o.size
  BY <1>4, <1>7, <1>8 DEF IsOpen, Live, Unfilled
<1>11. /\ v.openOrders = u.openOrders + (OneOpen(n) - OneOpen(o))
       /\ v.openAuctions = u.openAuctions + (OneAuction(n) - OneAuction(o))
  BY <1>2, <1>4, <1>5, <1>7, <1>8, <1>10 DEF OneOpen, OneAuction
<1>12. ASSUME NEW m \in Markets
       PROVE  /\ v.posOrders[m] = u.posOrders[m] + (OneIn(n, m) - OneIn(o, m))
              /\ v.bids[m] = u.bids[m] + (Amount(n, m, TRUE) - Amount(o, m, TRUE))
              /\ v.asks[m] = u.asks[m] - (Amount(n, m, FALSE) - Amount(o, m, FALSE))
  <2> DEFINE ot == Amount(o, m, TRUE)
             of == Amount(o, m, FALSE)
             nt == Amount(n, m, TRUE)
             nf == Amount(n, m, FALSE)
  <2>1. OneIn(o, m) = OneIn(n, m) /\ OneIn(o, m) \in Int
    BY <1>4, <1>8, <1>10 DEF OneIn
  <2>2. ot = 0 /\ of = 0
    BY <1>4 DEF Amount
  <2>3. /\ nt = IF o.market = m /\ o.long THEN o.size ELSE 0
        /\ nf = IF o.market = m /\ ~o.long THEN o.size ELSE 0
    BY <1>8, <1>9, <1>10, AmountOfOpen
  <2> HIDE DEF ot, of, nt, nf
  <2>4. v.posOrders[m] = u.posOrders[m] + (OneIn(n, m) - OneIn(o, m))
    BY <1>2, <1>5, <2>1
  <2>5. v.bids[m] = IF o.market = m /\ o.long THEN u.bids[m] + o.size ELSE u.bids[m]
    BY <1>2 DEF Plus
  <2>6. v.asks[m] = IF o.market = m /\ ~o.long THEN u.asks[m] + (-o.size) ELSE u.asks[m]
    BY <1>2 DEF Plus
  <2>7. v.bids[m] = u.bids[m] + (nt - ot)
    BY <1>5, <1>7, <2>2, <2>3, <2>5
  <2>8. v.asks[m] = u.asks[m] - (nf - of)
    BY <1>5, <1>7, <2>2, <2>3, <2>6
  <2> QED
    BY <2>4, <2>7, <2>8 DEF ot, of, nt, nf
<1>13. Tallied(v)
  <2>1. FollowsSlot(u, v, o, n)
    BY <1>11, <1>12 DEF FollowsSlot
  <2> QED
    BY <1>3, <1>6, <2>1, OneSlotTallied DEF o
<1> QED
  BY <1>1, <1>6, <1>10, <1>13 DEF Sound, v

(* Every account an instruction may leave is sound.                        *)
LEMMA PlaceKeepsSound ==
  ASSUME NEW before, Sound(before), NEW p \in OrderParams,
         NEW v \in PlacePerpOrder(p, before)
  PROVE  Sound(v)
<1> DEFINE u == ExpireOrders(before)
<1>1. Sound(u)
  BY ExpireKeepsSound
<1>2. u.nextId \in Nat
  BY <1>1 DEF Sound, Good, WellFormed
<1>3. ASSUME NEW a \in Auctions(p)
      PROVE  LET o == NewOrder(p, u.nextId, a)
             IN  o \in Order /\ OrderOK(o) /\ o.id = u.nextId
                 /\ o.userId = p.userId /\ IsOpen(o) /\ o.filled = 0
  <2>1. a \in BOOLEAN /\ (p.trigger # "none" => a = FALSE)
    BY DEF Auctions
  <2> HIDE DEF u
  <2> QED
    BY <1>2, <2>1 DEF NewOrder, Order, OrderOK, OrderParams, IsOpen, Live
<1>4. \/ v = u
      \/ v = SkipId(u)
      \/ /\ ~(p.userId > 0 /\ UserIdUsed(p.userId, u))
         /\ \E i \in FirstFree(u), a \in Auctions(p) :
              v = AddOrder(i, NewOrder(p, u.nextId, a), u)
  <2> HIDE DEF u
  <2>1. v \in (IF FreeSlots(u) = {} \/ (p.userId > 0 /\ UserIdUsed(p.userId, u))
               THEN {}
               ELSE IF p.maxTs # 0 /\ p.maxTs < now
                    THEN {u}
                    ELSE {AddOrder(i, NewOrder(p, u.nextId, a), u) :
                            i \in FirstFree(u), a \in Auctions(p)}
                           \cup (IF p.post = "try" THEN {SkipId(u)} ELSE {}))
    BY DEF PlacePerpOrder, u
  <2> QED
    BY <2>1
<1> HIDE DEF u
<1>5. CASE v = u
  BY <1>1, <1>5
<1>6. CASE v = SkipId(u)
  BY <1>1, <1>6, SkipKeepsSound
<1>7. ASSUME ~(p.userId > 0 /\ UserIdUsed(p.userId, u)),
             NEW i \in FirstFree(u), NEW a \in Auctions(p),
             v = AddOrder(i, NewOrder(p, u.nextId, a), u)
      PROVE  Sound(v)
  <2> DEFINE o == NewOrder(p, u.nextId, a)
  <2>1. /\ o \in Order /\ OrderOK(o) /\ o.id = u.nextId
        /\ o.userId = p.userId /\ IsOpen(o) /\ o.filled = 0
    BY <1>3
  <2>2. v = AddOrder(i, o, u)
    BY <1>7
  <2> HIDE DEF o
  <2> QED
    BY <1>1, <1>7, <2>1, <2>2, AddKeepsSound
<1> QED
  BY <1>4, <1>5, <1>6, <1>7

LEMMA SettleKeepsSound ==
  ASSUME NEW u, Sound(u), NEW i \in Slots
  PROVE  Sound(SettleReduceOnly(i, u))
BY CancelOneKeepsSound DEF SettleReduceOnly, ShouldCancelReduceOnly

LEMMA TakeKeepsSound ==
  ASSUME NEW u, Sound(u), NEW i \in Slots, NEW v \in FillPerpOrder(i, u)
  PROVE  Sound(v)
<1> DEFINE o == u.orders[i]
           amounts == 1 .. Fillable(o, u.base[o.market])
<1>1. \/ v = u
      \/ IsOpen(o) /\ v = CancelOrder(i, u)
      \/ /\ IsOpen(o) /\ Live(o)
         /\ \E a \in amounts : v = SettleReduceOnly(i, FillOrder(i, a, u))
  BY DEF FillPerpOrder
<1>2. ASSUME IsOpen(o), Live(o), NEW a \in amounts
      PROVE  Sound(SettleReduceOnly(i, FillOrder(i, a, u)))
  BY <1>2, FillKeepsSound, SettleKeepsSound
<1> QED
  BY <1>1, <1>2, CancelOneKeepsSound

LEMMA MakeKeepsSound ==
  ASSUME NEW u, Sound(u), NEW i \in Slots, NEW v \in MakeOrder(i, u)
  PROVE  Sound(v)
<1> DEFINE o == u.orders[i]
           amounts == 1 .. Fillable(o, u.base[o.market])
<1>1. IsOpen(o) /\ Live(o)
  BY DEF MakeOrder
<1>2. \/ v = CancelOrder(i, u)
      \/ \E a \in amounts : v = FillOrder(i, a, u)
  BY DEF MakeOrder
<1>3. ASSUME NEW a \in amounts
      PROVE  Sound(FillOrder(i, a, u))
  BY <1>1, FillKeepsSound
<1> QED
  BY <1>1, <1>2, <1>3, CancelOneKeepsSound

LEMMA CancelIfOpenKeepsSound ==
  ASSUME NEW u, Sound(u), NEW i \in Slots
  PROVE  Sound(CancelIfOpen(i, u))
BY CancelOneKeepsSound DEF CancelIfOpen

LEMMA ModifyKeepsSound ==
  ASSUME NEW u, Sound(u), NEW i \in Slots, IsOpen(u.orders[i]),
         NEW c \in ModifyOrderParams, NEW v \in ModifyOrderAt(i, c, u)
  PROVE  Sound(v)
<1> DEFINE o == u.orders[i]
<1>1. Sound(CancelOrder(i, u))
  BY CancelOneKeepsSound
<1>2. o \in Order /\ OrderOK(o)
  BY DEF Sound, Good, WellFormed
<1>3. CASE NewSize(o, c) = 0
  BY <1>1, <1>3 DEF ModifyOrderAt
<1>4. CASE NewSize(o, c) # 0
  <2>1. MergedParams(o, c) \in OrderParams
    BY <1>2, <1>4, MergedIsParams
  <2>2. v \in PlacePerpOrder(MergedParams(o, c), CancelOrder(i, u))
    BY <1>4 DEF ModifyOrderAt
  <2> HIDE DEF o
  <2> QED
    BY <1>1, <2>1, <2>2, PlaceKeepsSound
<1> QED
  BY <1>3, <1>4
-----------------------------------------------------------------------------
(* The inductive invariant of the specification.                           *)
IInv == now \in Nat /\ Sound(user)

(* It is the conjunction of the invariants that the runs check.            *)
LEMMA IInvIsProperties ==
  IInv <=> TypeOK /\ CountersMatchOrders /\ OrderIdsResolve /\ UserOrderIdResolves
<1>1. Good(user) /\ now \in Nat <=> TypeOK /\ OrderIdsResolve /\ UserOrderIdResolves
  BY DEF Good, WellFormed, Resolves, TypeOK, OrderIdsResolve, UserOrderIdResolves
<1>2. Counted(user) <=> CountersMatchOrders
  BY DEF Counted, CountersMatchOrders
<1>3. Good(user) => (Counted(user) <=> Tallied(user))
  BY CountedIsTallied DEF Good
<1> QED
  BY <1>1, <1>2, <1>3 DEF IInv, Sound

(* The invariant holds of new accounts.                                    *)
LEMMA InitEstablishesIInv ==
  ASSUME Init
  PROVE  IInv
<1> DEFINE m == CHOOSE x \in Markets : TRUE
<1>1. m \in Markets
  BY OrdersAssumption
<1>2. now = 0 /\ user.nextId = 1 /\ user.base = [x \in Markets |-> 0]
      /\ user.orders = [i \in Slots |-> EmptyOrder(m)]
  BY DEF Init
<1> HIDE DEF m
<1>3. EmptyOrder(m) \in Order /\ OrderOK(EmptyOrder(m))
      /\ ~IsOpen(EmptyOrder(m)) /\ EmptyOrder(m).id = 0
  BY <1>1 DEF EmptyOrder, Order, OrderOK, IsOpen, Live
<1>4. WellFormed(user)
  BY <1>2, <1>3 DEF WellFormed
<1>5. OpenSlots(user) = {}
  BY <1>2, <1>3 DEF OpenSlots
<1>6. Resolves(user)
  BY <1>2, <1>3, <1>5 DEF Resolves
<1>7. Tallied(user)
  <2>1. /\ user.openOrders = 0 /\ user.openAuctions = 0
        /\ \A x \in Markets : /\ user.posOrders[x] = 0 /\ user.bids[x] = 0
                              /\ user.asks[x] = 0
    BY DEF Init
  <2>2. \A i \in Slots : /\ Opens(user)[i] = 0 /\ Auctioned(user)[i] = 0
                         /\ \A x \in Markets : InMarket(user, x)[i] = 0
                         /\ \A x \in Markets, long \in BOOLEAN :
                              Amounts(user, x, long)[i] = 0
    BY <1>2, <1>3 DEF Opens, Auctioned, InMarket, Amounts, OneOpen, OneAuction,
                      OneIn, Amount
  <2>3. /\ SumFunctionOnSet(Opens(user), Slots) = 0
        /\ SumFunctionOnSet(Auctioned(user), Slots) = 0
        /\ \A x \in Markets : SumFunctionOnSet(InMarket(user, x), Slots) = 0
    BY <2>2, SlotsFinite, SumZero
  <2>4. ASSUME NEW x \in Markets, NEW long \in BOOLEAN
        PROVE  SumFunctionOnSet(Amounts(user, x, long), Slots) = 0
    BY <2>2, SlotsFinite, SumZero
  <2>5. ASSUME NEW x \in Markets
        PROVE  /\ user.bids[x] = SumFunctionOnSet(Amounts(user, x, TRUE), Slots)
               /\ user.asks[x] = -SumFunctionOnSet(Amounts(user, x, FALSE), Slots)
    <3> DEFINE a == SumFunctionOnSet(Amounts(user, x, TRUE), Slots)
               b == SumFunctionOnSet(Amounts(user, x, FALSE), Slots)
    <3>1. a = 0
      BY <2>4
    <3>2. b = 0
      BY <2>4
    <3> HIDE DEF a, b
    <3>3. user.bids[x] = a /\ user.asks[x] = -b
      BY <2>1, <3>1, <3>2
    <3> QED
      BY <3>3 DEF a, b
  <2> QED
    BY <2>1, <2>3, <2>5 DEF Tallied
<1> QED
  BY <1>2, <1>4, <1>6, <1>7 DEF IInv, Good, Sound

(* Every step keeps it: one case per action of Next.                       *)
LEMMA NextKeepsIInv ==
  ASSUME IInv, [Next]_vars
  PROVE  IInv'
<1>1. now \in Nat /\ Sound(user)
  BY DEF IInv
<1>2. IInv' <=> now' \in Nat /\ Sound(user')
  BY DEF IInv, Sound, Good, WellFormed, Resolves, OpenSlots, Tallied, Opens,
         Auctioned, InMarket, Amounts, OneOpen, OneAuction, OneIn, Amount
<1>3. CASE Tick
  <2>1. now' = now + 1 /\ user' = user
    BY <1>3 DEF Tick
  <2> QED
    BY <1>1, <1>2, <2>1
<1>4. ASSUME NEW p \in OrderRequests, Place(p)
      PROVE  IInv'
  <2>1. user' \in PlacePerpOrder(p, user) /\ now' = now /\ p \in OrderParams
    BY <1>4, OrdersAssumption DEF Place
  <2> QED
    BY <1>1, <1>2, <2>1, PlaceKeepsSound
<1>5. ASSUME NEW p \in OrderRequests, NEW ioc \in BOOLEAN,
             PlaceAndTake(p, ioc)
      PROVE  IInv'
  <2>1. p \in OrderParams /\ now' = now
    BY <1>5, OrdersAssumption DEF PlaceAndTake
  <2>2. PICK u \in PlacePerpOrder(p, user) : \E i \in LastPlaced(u) :
          \E filled \in FillPerpOrder(i, u) :
            user' = IF ioc THEN CancelIfOpen(i, filled) ELSE filled
    BY <1>5 DEF PlaceAndTake
  <2>3. PICK i \in LastPlaced(u) : \E filled \in FillPerpOrder(i, u) :
          user' = IF ioc THEN CancelIfOpen(i, filled) ELSE filled
    BY <2>2
  <2>4. PICK filled \in FillPerpOrder(i, u) :
          user' = IF ioc THEN CancelIfOpen(i, filled) ELSE filled
    BY <2>3
  <2>5. Sound(u)
    BY <1>1, <2>1, PlaceKeepsSound
  <2>6. i \in Slots
    BY DEF LastPlaced, OpenSlots
  <2>7. Sound(filled)
    BY <2>5, <2>6, TakeKeepsSound
  <2> QED
    BY <1>1, <1>2, <2>1, <2>4, <2>6, <2>7, CancelIfOpenKeepsSound
<1>6. ASSUME NEW p \in OrderRequests, PlaceAndMake(p)
      PROVE  IInv'
  <2>1. p \in OrderParams /\ now' = now
    BY <1>6, OrdersAssumption DEF PlaceAndMake
  <2>2. PICK u \in PlacePerpOrder(p, user) :
          \/ user' = u
          \/ \E i \in LastPlaced(u) :
               \E made \in {u} \cup (IF u.orders[i].market = p.market
                                   THEN MakeOrder(i, u) ELSE {}) :
                 user' = CancelIfOpen(i, made)
    BY <1>6 DEF PlaceAndMake
  <2>3. Sound(u)
    BY <1>1, <2>1, PlaceKeepsSound
  <2>4. ASSUME NEW i \in LastPlaced(u),
               NEW made \in {u} \cup (IF u.orders[i].market = p.market
                                    THEN MakeOrder(i, u) ELSE {})
        PROVE  Sound(CancelIfOpen(i, made))
    <3>1. i \in Slots
      BY DEF LastPlaced, OpenSlots
    <3>2. made = u \/ made \in MakeOrder(i, u)
      OBVIOUS
    <3>3. Sound(made)
      BY <2>3, <3>1, <3>2, MakeKeepsSound
    <3> QED
      BY <3>1, <3>3, CancelIfOpenKeepsSound
  <2>5. Sound(user')
    BY <2>2, <2>3, <2>4
  <2> QED
    BY <1>1, <1>2, <2>1, <2>5
<1>7. ASSUME NEW id \in 1 .. MaxOrderId, CancelById(id)
      PROVE  IInv'
  BY <1>1, <1>2, <1>7, CancelKeepsSound DEF CancelById, CancelOrder
<1>8. ASSUME NEW n, CancelByUserId(n)
      PROVE  IInv'
  BY <1>1, <1>2, <1>8, CancelOneKeepsSound DEF CancelByUserId, SlotOfUserId
<1>9. ASSUME NEW markets, NEW sides, CancelFiltered(markets, sides)
      PROVE  IInv'
  BY <1>1, <1>2, <1>9, CancelKeepsSound DEF CancelFiltered
<1>10. ASSUME NEW i \in Slots, NEW c \in OrderChanges, ModifyOrder(i, c)
       PROVE  IInv'
  <2>1. /\ IsOpen(user.orders[i]) /\ user' \in ModifyOrderAt(i, c, user)
        /\ now' = now /\ c \in ModifyOrderParams
    BY <1>10, OrdersAssumption DEF ModifyOrder
  <2> QED
    BY <1>1, <1>2, <2>1, ModifyKeepsSound
<1>11. ASSUME NEW i \in Slots, FillAsTaker(i)
       PROVE  IInv'
  BY <1>1, <1>2, <1>11, TakeKeepsSound DEF FillAsTaker
<1>12. ASSUME NEW i \in Slots, FillAsMaker(i)
       PROVE  IInv'
  BY <1>1, <1>2, <1>12, MakeKeepsSound DEF FillAsMaker
<1>13. ASSUME NEW i \in Slots, TriggerOrder(i)
       PROVE  IInv'
  <2> DEFINE u == TriggeredOrder(i, user)
  <2>1. Sound(u) /\ IsOpen(u.orders[i]) /\ now' = now
    BY <1>1, <1>13, TriggerKeepsSound DEF TriggerOrder
  <2>2. user' = u \/ user' = CancelOrder(i, u)
    BY <1>13 DEF TriggerOrder
  <2> HIDE DEF u
  <2> QED
    BY <1>1, <1>2, <2>1, <2>2, CancelOneKeepsSound
<1>14. CASE ForceCancelOrders
  BY <1>1, <1>2, <1>14, CancelKeepsSound DEF ForceCancelOrders
<1>15. ASSUME NEW m \in Markets, NEW b \in -MaxBase .. MaxBase,
              MovePosition(m, b)
       PROVE  IInv'
  <2>1. /\ user'.nextId = user.nextId /\ user'.orders = user.orders
        /\ user'.base = [user.base EXCEPT ![m] = b] /\ now' = now
        /\ user'.bids = user.bids /\ user'.asks = user.asks
        /\ user'.posOrders = user.posOrders
        /\ user'.openOrders = user.openOrders
        /\ user'.openAuctions = user.openAuctions
    BY <1>15 DEF MovePosition
  <2>2. b \in Int
    BY OrdersAssumption
  <2>3. user'.base \in [Markets -> Int]
    BY <1>1, <2>1, <2>2 DEF Sound, Good, WellFormed
  <2>4. WellFormed(user')
    BY <1>1, <2>1, <2>3 DEF Sound, Good, WellFormed
  <2>5. Resolves(user')
    BY <1>1, <2>1 DEF Sound, Good, Resolves, OpenSlots
  <2>6. Tallied(user')
    BY <1>1, <2>1, ZenonT(60) DEF Sound, Tallied, Opens, Auctioned, InMarket, Amounts
  <2> QED
    BY <1>1, <1>2, <2>1, <2>4, <2>5, <2>6 DEF Sound, Good
<1>16. CASE UNCHANGED vars
  BY <1>1, <1>2, <1>16 DEF vars
<1> QED
  BY <1>3, <1>4, <1>5, <1>6, <1>7, <1>8, <1>9, <1>10, <1>11, <1>12, <1>13,
     <1>14, <1>15, <1>16 DEF Next

(* The inductive invariant of the specification.                           *)
THEOREM OrdersInvariantHolds == Spec => []IInv
<1>1. Init => IInv
  BY InitEstablishesIInv
<1>2. IInv /\ [Next]_vars => IInv'
  BY NextKeepsIInv
<1> QED
  BY <1>1, <1>2, PTL DEF Spec

(* Orders stay well formed: no fill, of any amount on any path, leaves an  *)
(* open order with nothing to fill or fills more than its size.            *)
THEOREM OrdersStayWellFormed == Spec => []TypeOK
<1>1. IInv => TypeOK
  BY IInvIsProperties
<1> QED
  BY <1>1, OrdersInvariantHolds, PTL

(* The counters beside the orders count and sum exactly the open orders,   *)
(* after any instructions: no cancellation, fill or trigger loses or       *)
(* invents one, and the saturating subtractions never saturate.            *)
THEOREM CountersStayExact == Spec => []CountersMatchOrders
<1>1. IInv => CountersMatchOrders
  BY IInvIsProperties
<1> QED
  BY <1>1, OrdersInvariantHolds, PTL

(* An order id names at most one open order, for any number of slots.      *)
THEOREM OrderIdsStayUnique == Spec => []OrderIdsResolve
<1>1. IInv => OrderIdsResolve
  BY IInvIsProperties
<1> QED
  BY <1>1, OrdersInvariantHolds, PTL

(* cancel_order_by_user_order_id always reaches the open order with the    *)
(* user's id, whatever stale copies closed orders left in other slots.     *)
THEOREM UserOrderIdsStayResolved == Spec => []UserOrderIdResolves
<1>1. IInv => UserOrderIdResolves
  BY IInvIsProperties
<1> QED
  BY <1>1, OrdersInvariantHolds, PTL

(* Together: an id of either kind leads to the order it was given to.      *)
THEOREM IdsStayResolved == Spec => []IdsResolve
<1>1. OrderIdsResolve /\ UserOrderIdResolves <=> IdsResolve
  BY DEF IdsResolve
<1> QED BY <1>1, OrderIdsStayUnique, UserOrderIdsStayResolved, PTL
-----------------------------------------------------------------------------
(* What a fill may never do.  Delta is FilledBy between any two accounts.  *)
Delta(u, v, i) ==
  v.orders[i].filled -
    (IF v.orders[i].id = u.orders[i].id THEN u.orders[i].filled ELSE 0)

Due(u, v) ==
  \A i \in Slots :
    LET o == v.orders[i]
        b == u.base[o.market]
        c == v.base[o.market]
    IN  Delta(u, v, i) > 0 =>
          /\ (o.reduceOnly /\ ~o.post) => /\ Abs(c) = Abs(b) - Delta(u, v, i)
                                         /\ c * b >= 0
          /\ (o.maxTs # 0 /\ ~MustBeTriggered(o)) => now <= o.maxTs

(* Nothing was filled: a slot keeps its order's id and fills or holds an   *)
(* order placed since.                                                     *)
Unfilling(u, v) ==
  \A i \in Slots :
    \/ v.orders[i].id = u.orders[i].id /\ v.orders[i].filled = u.orders[i].filled
    \/ v.orders[i].id >= u.nextId /\ v.orders[i].filled = 0

(* Only the status of orders changed.                                      *)
Closing(u, v) ==
  /\ v.base = u.base
  /\ \A i \in Slots :
       LET o == u.orders[i]
           n == v.orders[i]
       IN  /\ n.id = o.id /\ n.filled = o.filled /\ n.market = o.market
           /\ n.reduceOnly = o.reduceOnly /\ n.post = o.post
           /\ n.maxTs = o.maxTs /\ n.trigger = o.trigger

LEMMA UnfillingIsDue ==
  ASSUME NEW u, WellFormed(u), NEW v, Unfilling(u, v)
  PROVE  Due(u, v)
<1>1. ASSUME NEW i \in Slots
      PROVE  ~(Delta(u, v, i) > 0)
  <2>1. u.orders[i].filled \in Nat
    BY DEF WellFormed, Order
  <2> QED
    BY <2>1 DEF Unfilling, Delta
<1> QED
  BY <1>1 DEF Due

LEMMA CancelIsClosing ==
  ASSUME NEW u, WellFormed(u), NEW S
  PROVE  Closing(u, CancelOrders(S, u)) /\ Unfilling(u, CancelOrders(S, u))
<1> DEFINE v == CancelOrders(S, u)
<1>1. /\ v.base = u.base
      /\ v.orders = [i \in Slots |-> IF i \in S
                       THEN [u.orders[i] EXCEPT !.status = "canceled"]
                       ELSE u.orders[i]]
  BY DEF CancelOrders
<1> HIDE DEF v
<1>2. ASSUME NEW i \in Slots
      PROVE  LET o == u.orders[i]
                 n == v.orders[i]
             IN  /\ n.id = o.id /\ n.filled = o.filled /\ n.market = o.market
                 /\ n.reduceOnly = o.reduceOnly /\ n.post = o.post
                 /\ n.maxTs = o.maxTs /\ n.trigger = o.trigger
  <2>1. u.orders[i] \in Order
    BY DEF WellFormed
  <2>2. CASE i \in S
    <3>1. v.orders[i] = [u.orders[i] EXCEPT !.status = "canceled"]
      BY <1>1, <2>2
    <3> QED
      BY <2>1, <3>1 DEF Order
  <2>3. CASE i \notin S
    BY <1>1, <2>3
  <2> QED
    BY <2>2, <2>3
<1> QED
  BY <1>1, <1>2 DEF Closing, Unfilling, v

(* Placing fills nothing and moves no position.                            *)
LEMMA PlaceIsUnfilling ==
  ASSUME NEW before, Good(before), NEW p \in OrderParams,
         NEW v \in PlacePerpOrder(p, before)
  PROVE  Unfilling(before, v) /\ v.base = before.base
<1> DEFINE u == ExpireOrders(before)
<1>1. Unfilling(before, u) /\ u.base = before.base /\ u.nextId = before.nextId
  <2>1. u = CancelOrders({i \in Slots : ShouldExpire(before.orders[i], now)}, before)
    BY DEF ExpireOrders
  <2>2. u.base = before.base /\ u.nextId = before.nextId
    BY <2>1 DEF CancelOrders
  <2> QED
    BY <2>1, <2>2, CancelIsClosing DEF Good
<1>2. Good(u)
  BY CancelKeepsGood DEF ExpireOrders
<1>3. u.nextId \in Nat /\ u.orders \in [Slots -> Order]
  BY <1>2 DEF Good, WellFormed
<1>4. \/ v = u
      \/ v = SkipId(u)
      \/ \E i \in FirstFree(u), a \in Auctions(p) :
           v = AddOrder(i, NewOrder(p, u.nextId, a), u)
  <2> HIDE DEF u
  <2>1. v \in (IF FreeSlots(u) = {} \/ (p.userId > 0 /\ UserIdUsed(p.userId, u))
               THEN {}
               ELSE IF p.maxTs # 0 /\ p.maxTs < now
                    THEN {u}
                    ELSE {AddOrder(i, NewOrder(p, u.nextId, a), u) :
                            i \in FirstFree(u), a \in Auctions(p)}
                           \cup (IF p.post = "try" THEN {SkipId(u)} ELSE {}))
    BY DEF PlacePerpOrder, u
  <2> QED
    BY <2>1
<1> HIDE DEF u
<1>5. CASE v = u
  BY <1>1, <1>5
<1>6. CASE v = SkipId(u)
  BY <1>1, <1>6 DEF SkipId, Unfilling
<1>7. ASSUME NEW i \in FirstFree(u), NEW a \in Auctions(p),
             v = AddOrder(i, NewOrder(p, u.nextId, a), u)
      PROVE  Unfilling(before, v) /\ v.base = before.base
  <2> DEFINE o == NewOrder(p, u.nextId, a)
  <2>1. o.id = u.nextId /\ o.filled = 0
    BY DEF NewOrder
  <2>2. v.orders = [u.orders EXCEPT ![i] = o] /\ v.base = u.base
    BY <1>7 DEF AddOrder
  <2> HIDE DEF o
  <2>3. i \in Slots
    BY DEF FirstFree, FreeSlots
  <2>4. v.orders[i] = o /\ \A j \in Slots : j # i => v.orders[j] = u.orders[j]
    BY <1>3, <2>2, <2>3
  <2> QED
    BY <1>1, <1>3, <2>1, <2>2, <2>4 DEF Unfilling
<1> QED
  BY <1>4, <1>5, <1>6, <1>7

LEMMA SignsAgree ==
  ASSUME NEW x \in Int, NEW y \in Int, (x <= 0 /\ y <= 0) \/ (x >= 0 /\ y >= 0)
  PROVE  x * y >= 0
OBVIOUS

(* A fill, after any placement and before any cancellation.                *)
LEMMA FillIsDue ==
  ASSUME now \in Nat, NEW before, Good(before), NEW u, Good(u), Unfilling(before, u),
         u.base = before.base,
         NEW i \in Slots, IsOpen(u.orders[i]), ~ShouldExpire(u.orders[i], now),
         NEW a \in 1 .. Fillable(u.orders[i], u.base[u.orders[i].market]),
         NEW w, Closing(FillOrder(i, a, u), w)
  PROVE  Due(before, w)
<1> DEFINE o == u.orders[i]
           v == FillOrder(i, a, u)
           b == u.base[o.market]
<1>1. /\ u.orders \in [Slots -> Order] /\ u.base \in [Markets -> Int]
      /\ before.orders \in [Slots -> Order]
      /\ o \in Order /\ o.market \in Markets /\ b \in Int
      /\ \A j \in Slots : before.orders[j].id < before.nextId
      /\ before.nextId \in Nat
  BY DEF Good, WellFormed, Resolves, Order
<1>2. /\ v.base = Plus(u.base, o.market, Side(o.long) * a)
      /\ v.orders[i].filled = o.filled + a /\ v.orders[i].id = o.id
      /\ v.orders[i].market = o.market /\ v.orders[i].reduceOnly = o.reduceOnly
      /\ v.orders[i].post = o.post /\ v.orders[i].maxTs = o.maxTs
      /\ v.orders[i].trigger = o.trigger
      /\ \A j \in Slots : j # i => v.orders[j] = u.orders[j]
  BY <1>1 DEF FillOrder, Order
<1>3. w.base = v.base
  BY DEF Closing
<1>4. ASSUME NEW j \in Slots
      PROVE  /\ w.orders[j].id = v.orders[j].id
             /\ w.orders[j].filled = v.orders[j].filled
             /\ w.orders[j].market = v.orders[j].market
             /\ w.orders[j].reduceOnly = v.orders[j].reduceOnly
             /\ w.orders[j].post = v.orders[j].post
             /\ w.orders[j].maxTs = v.orders[j].maxTs
             /\ w.orders[j].trigger = v.orders[j].trigger
  BY DEF Closing
<1>5. \A j \in Slots : /\ u.orders[j].filled \in Nat /\ u.orders[j].id \in Nat
                       /\ before.orders[j].filled \in Nat
                       /\ before.orders[j].id \in Nat
  BY <1>1 DEF Order
<1>6. /\ IsOpen(o) /\ ~ShouldExpire(o, now) /\ a \in 1 .. Fillable(o, b)
  OBVIOUS
<1> HIDE DEF v
<1>7. ASSUME NEW j \in Slots, j # i
      PROVE  ~(Delta(before, w, j) > 0)
  <2>1. /\ w.orders[j].id = u.orders[j].id
        /\ w.orders[j].filled = u.orders[j].filled
    BY <1>2, <1>4, <1>7
  <2> QED
    BY <1>5, <2>1 DEF Unfilling, Delta
<1>8. Delta(before, w, i) = a
  <2>1. w.orders[i].id = o.id /\ w.orders[i].filled = o.filled + a
    BY <1>2, <1>4
  <2>2. a \in Int
    OBVIOUS
  <2>3. CASE o.id = before.orders[i].id /\ o.filled = before.orders[i].filled
    BY <1>5, <2>1, <2>2, <2>3 DEF Delta
  <2>4. CASE o.id >= before.nextId /\ o.filled = 0
    <3>1. o.id # before.orders[i].id
      BY <1>1, <1>5, <2>4
    <3> QED
      BY <1>5, <2>1, <2>2, <2>4, <3>1 DEF Delta
  <2> QED
    BY <2>3, <2>4 DEF Unfilling
<1> HIDE DEF o
<1>9. o.maxTs # 0 /\ ~MustBeTriggered(o) => now <= o.maxTs
  <2>1. o.maxTs \in Nat
    BY <1>1 DEF Order
  <2> QED
    BY <1>6, <2>1 DEF ShouldExpire
<1>10. ASSUME o.reduceOnly, ~o.post
       PROVE  LET c == b + Side(o.long) * a
              IN  c \in Int /\ Abs(c) = Abs(b) - a /\ c * b >= 0
  <2>1. o.long = (b < 0) /\ b # 0 /\ a <= Abs(b) /\ a \in Nat /\ a > 0
    <3>1. o.size \in Nat /\ o.filled \in Nat
      BY <1>1 DEF Order
    <3> QED
      BY <1>1, <1>6, <1>10, <3>1 DEF Fillable, Unfilled, Abs
  <2>2. CASE b < 0
    <3>0. Side(o.long) = 1
      BY <2>1, <2>2 DEF Side
    <3>1. Side(o.long) * a = a
      BY <2>1, <3>0
    <3>2. b + a <= 0 /\ b + a \in Int
      BY <1>1, <2>1, <2>2 DEF Abs
    <3>3. (b + a) * b >= 0
      BY <1>1, <2>2, <3>2, SignsAgree
    <3>4. Abs(b + a) = Abs(b) - a
      BY <1>1, <2>1, <2>2, <3>2 DEF Abs
    <3> QED
      BY <3>1, <3>2, <3>3, <3>4
  <2>3. CASE b > 0
    <3>0. Side(o.long) = -1
      <4>1. ~(b < 0)
        BY <1>1, <2>3
      <4> QED
        BY <2>1, <4>1 DEF Side
    <3>1. Side(o.long) * a = -a
      BY <2>1, <3>0
    <3>2. b + (-a) >= 0 /\ b + (-a) \in Int
      BY <1>1, <2>1, <2>3 DEF Abs
    <3>3. (b + (-a)) * b >= 0
      BY <1>1, <2>3, <3>2, SignsAgree
    <3>4. Abs(b + (-a)) = Abs(b) - a
      BY <1>1, <2>1, <2>3, <3>2 DEF Abs
    <3> QED
      BY <3>1, <3>2, <3>3, <3>4
  <2> QED
    BY <1>1, <2>1, <2>2, <2>3
<1>11. w.base[o.market] = b + Side(o.long) * a
  BY <1>1, <1>2, <1>3 DEF Plus, o
<1>12. b = before.base[o.market]
  BY DEF o
<1>13. /\ w.orders[i].market = o.market /\ w.orders[i].reduceOnly = o.reduceOnly
       /\ w.orders[i].post = o.post /\ w.orders[i].maxTs = o.maxTs
       /\ w.orders[i].trigger = o.trigger
  BY <1>2, <1>4 DEF o
<1> HIDE DEF b
<1> QED
  BY <1>7, <1>8, <1>9, <1>10, <1>11, <1>12, <1>13 DEF Due, MustBeTriggered

LEMMA ClosingStaysUnfilling ==
  ASSUME NEW before, NEW u, Unfilling(before, u), NEW v, Closing(u, v)
  PROVE  Unfilling(before, v)
BY DEF Unfilling, Closing

LEMMA ClosingComposes ==
  ASSUME NEW u, NEW v, Closing(u, v), NEW w, Closing(v, w)
  PROVE  Closing(u, w)
BY DEF Closing

LEMMA CancelIfOpenIsClosing ==
  ASSUME NEW u, WellFormed(u), NEW i
  PROVE  Closing(u, CancelIfOpen(i, u))
BY CancelIsClosing DEF CancelIfOpen, CancelOrder, Closing

LEMMA SettleIsClosing ==
  ASSUME NEW u, WellFormed(u), NEW i
  PROVE  Closing(u, SettleReduceOnly(i, u))
BY CancelIsClosing DEF SettleReduceOnly, CancelOrder, Closing

(* A take: the order may just have been placed, and what is left of it may *)
(* be cancelled in the same instruction.                                   *)
LEMMA TakeIsDue ==
  ASSUME now \in Nat, NEW before, Good(before), NEW u, Good(u),
         Unfilling(before, u), u.base = before.base,
         NEW i \in Slots, NEW v \in FillPerpOrder(i, u), NEW w, Closing(v, w)
  PROVE  Due(before, w)
<1> DEFINE o == u.orders[i]
           amounts == 1 .. Fillable(o, u.base[o.market])
<1>1. \/ v = u
      \/ v = CancelOrder(i, u)
      \/ /\ IsOpen(o) /\ Live(o) /\ ~ShouldExpire(o, now)
         /\ \E a \in amounts : v = SettleReduceOnly(i, FillOrder(i, a, u))
  BY DEF FillPerpOrder
<1>2. WellFormed(u) /\ WellFormed(before)
  BY DEF Good
<1>3. CASE v = u
  BY <1>2, <1>3, ClosingStaysUnfilling, UnfillingIsDue
<1>4. CASE v = CancelOrder(i, u)
  <2>1. Closing(u, v)
    BY <1>2, <1>4, CancelIsClosing DEF CancelOrder
  <2> QED
    BY <1>2, <2>1, ClosingComposes, ClosingStaysUnfilling, UnfillingIsDue
<1>5. ASSUME IsOpen(o), Live(o), ~ShouldExpire(o, now), NEW a \in amounts,
             v = SettleReduceOnly(i, FillOrder(i, a, u))
      PROVE  Due(before, w)
  <2>1. WellFormed(FillOrder(i, a, u))
    BY <1>5, FillKeepsGood DEF Good
  <2>2. Closing(FillOrder(i, a, u), v)
    BY <1>5, <2>1, SettleIsClosing
  <2>3. Closing(FillOrder(i, a, u), w)
    BY <2>2, ClosingComposes
  <2> QED
    BY <1>5, <2>3, FillIsDue
<1> QED
  BY <1>1, <1>3, <1>4, <1>5

LEMMA MakeIsDue ==
  ASSUME now \in Nat, NEW before, Good(before), NEW u, Good(u),
         Unfilling(before, u), u.base = before.base,
         NEW i \in Slots, NEW v \in MakeOrder(i, u), NEW w, Closing(v, w)
  PROVE  Due(before, w)
<1> DEFINE o == u.orders[i]
           amounts == 1 .. Fillable(o, u.base[o.market])
<1>1. \/ v = CancelOrder(i, u)
      \/ /\ IsOpen(o) /\ Live(o) /\ ~ShouldExpire(o, now)
         /\ \E a \in amounts : v = FillOrder(i, a, u)
  BY DEF MakeOrder
<1>2. WellFormed(u) /\ WellFormed(before)
  BY DEF Good
<1>3. CASE v = CancelOrder(i, u)
  <2>1. Closing(u, v)
    BY <1>2, <1>3, CancelIsClosing DEF CancelOrder
  <2> QED
    BY <1>2, <2>1, ClosingComposes, ClosingStaysUnfilling, UnfillingIsDue
<1>4. ASSUME IsOpen(o), Live(o), ~ShouldExpire(o, now), NEW a \in amounts,
             v = FillOrder(i, a, u)
      PROVE  Due(before, w)
  BY <1>4, FillIsDue
<1> QED
  BY <1>1, <1>3, <1>4

(* Every step fills only what is due: one case per action of Next.         *)
LEMMA NextIsDue ==
  ASSUME IInv, [Next]_vars
  PROVE  Due(user, user')
<1>1. now \in Nat /\ Good(user) /\ WellFormed(user)
  BY DEF IInv, Sound, Good
<1>2. /\ Unfilling(user, user) /\ Closing(user, user)
  BY DEF Unfilling, Closing
<1>3. ASSUME Unfilling(user, user')
      PROVE  Due(user, user')
  BY <1>1, <1>3, UnfillingIsDue
<1>4. ASSUME NEW S, user' = CancelOrders(S, user)
      PROVE  Due(user, user')
  BY <1>1, <1>3, <1>4, CancelIsClosing
<1>5. CASE Tick \/ UNCHANGED vars
  BY <1>2, <1>3, <1>5 DEF Tick, vars
<1>6. ASSUME NEW p \in OrderRequests, Place(p)
      PROVE  Due(user, user')
  <2>1. user' \in PlacePerpOrder(p, user) /\ p \in OrderParams
    BY <1>6, OrdersAssumption DEF Place
  <2> QED
    BY <1>1, <1>3, <2>1, PlaceIsUnfilling
<1>7. ASSUME NEW p \in OrderRequests, NEW ioc \in BOOLEAN,
             PlaceAndTake(p, ioc)
      PROVE  Due(user, user')
  <2>1. p \in OrderParams
    BY OrdersAssumption
  <2>2. PICK u \in PlacePerpOrder(p, user) : \E i \in LastPlaced(u) :
          \E filled \in FillPerpOrder(i, u) :
            user' = IF ioc THEN CancelIfOpen(i, filled) ELSE filled
    BY <1>7 DEF PlaceAndTake
  <2>3. PICK i \in LastPlaced(u) : \E filled \in FillPerpOrder(i, u) :
          user' = IF ioc THEN CancelIfOpen(i, filled) ELSE filled
    BY <2>2
  <2>4. PICK filled \in FillPerpOrder(i, u) :
          user' = IF ioc THEN CancelIfOpen(i, filled) ELSE filled
    BY <2>3
  <2>5. Sound(u)
    BY <2>1, PlaceKeepsSound DEF IInv
  <2>6. Unfilling(user, u) /\ u.base = user.base
    BY <1>1, <2>1, PlaceIsUnfilling
  <2>7. i \in Slots
    BY DEF LastPlaced, OpenSlots
  <2>8. WellFormed(filled)
    BY <2>5, <2>7, TakeKeepsSound DEF Sound, Good
  <2>9. Closing(filled, user')
    <3>1. Closing(filled, filled)
      BY DEF Closing
    <3> QED
      BY <2>4, <2>8, <3>1, CancelIfOpenIsClosing
  <2> QED
    BY <1>1, <2>5, <2>6, <2>7, <2>9, TakeIsDue DEF Sound
<1>8. ASSUME NEW p \in OrderRequests, PlaceAndMake(p)
      PROVE  Due(user, user')
  <2>1. p \in OrderParams
    BY OrdersAssumption
  <2>2. PICK u \in PlacePerpOrder(p, user) :
          \/ user' = u
          \/ \E i \in LastPlaced(u) :
               \E made \in {u} \cup (IF u.orders[i].market = p.market
                                   THEN MakeOrder(i, u) ELSE {}) :
                 user' = CancelIfOpen(i, made)
    BY <1>8 DEF PlaceAndMake
  <2>3. Sound(u) /\ Good(u) /\ WellFormed(u)
    BY <2>1, PlaceKeepsSound DEF IInv, Sound, Good
  <2>4. Unfilling(user, u) /\ u.base = user.base
    BY <1>1, <2>1, PlaceIsUnfilling
  <2>5. ASSUME NEW i \in LastPlaced(u), user' = CancelIfOpen(i, u)
        PROVE  Due(user, user')
    <3>1. Closing(u, user')
      BY <2>3, <2>5, CancelIfOpenIsClosing
    <3> QED
      BY <1>3, <2>4, <3>1, ClosingStaysUnfilling
  <2>6. ASSUME NEW i \in LastPlaced(u), NEW made \in MakeOrder(i, u),
               user' = CancelIfOpen(i, made)
        PROVE  Due(user, user')
    <3>1. i \in Slots
      BY DEF LastPlaced, OpenSlots
    <3>2. WellFormed(made)
      BY <2>3, <3>1, MakeKeepsSound DEF Sound, Good
    <3>3. Closing(made, user')
      BY <2>6, <3>2, CancelIfOpenIsClosing
    <3> QED
      BY <1>1, <2>3, <2>4, <3>1, <3>3, MakeIsDue
  <2>7. CASE user' = u
    BY <1>3, <2>4, <2>7
  <2> QED
    BY <2>2, <2>5, <2>6, <2>7
<1>9. ASSUME NEW id, CancelById(id)
      PROVE  Due(user, user')
  BY <1>4, <1>9 DEF CancelById, CancelOrder
<1>10. ASSUME NEW n, CancelByUserId(n)
       PROVE  Due(user, user')
  BY <1>4, <1>10 DEF CancelByUserId, CancelOrder
<1>11. ASSUME NEW markets, NEW sides, CancelFiltered(markets, sides)
       PROVE  Due(user, user')
  BY <1>4, <1>11 DEF CancelFiltered
<1>12. ASSUME NEW i \in Slots, NEW c \in OrderChanges, ModifyOrder(i, c)
       PROVE  Due(user, user')
  <2> DEFINE o == user.orders[i]
             u == CancelOrder(i, user)
  <2>1. /\ IsOpen(o) /\ user' \in ModifyOrderAt(i, c, user)
        /\ c \in ModifyOrderParams
    BY <1>12, OrdersAssumption DEF ModifyOrder
  <2>2. Unfilling(user, u) /\ u.nextId = user.nextId /\ Good(u)
    BY <1>1, CancelIsClosing, CancelKeepsGood DEF CancelOrder, CancelOrders
  <2>3. \/ user' = u
        \/ NewSize(o, c) # 0 /\ user' \in PlacePerpOrder(MergedParams(o, c), u)
    BY <2>1 DEF ModifyOrderAt
  <2>4. o \in Order /\ OrderOK(o)
    BY <1>1 DEF WellFormed
  <2> HIDE DEF o, u
  <2>5. ASSUME NewSize(o, c) # 0, user' \in PlacePerpOrder(MergedParams(o, c), u)
        PROVE  Unfilling(user, user')
    <3>1. MergedParams(o, c) \in OrderParams
      BY <2>1, <2>4, <2>5, MergedIsParams
    <3>2. Unfilling(u, user')
      BY <2>2, <2>5, <3>1, PlaceIsUnfilling
    <3> QED
      BY <2>2, <3>2 DEF Unfilling
  <2> QED
    BY <1>3, <2>2, <2>3, <2>5
<1>13. ASSUME NEW i \in Slots, FillAsTaker(i)
       PROVE  Due(user, user')
  <2>1. user' \in FillPerpOrder(i, user) /\ Closing(user', user')
    BY <1>13 DEF FillAsTaker, Closing
  <2> QED
    BY <1>1, <1>2, <2>1, TakeIsDue
<1>14. ASSUME NEW i \in Slots, FillAsMaker(i)
       PROVE  Due(user, user')
  <2>1. user' \in MakeOrder(i, user) /\ Closing(user', user')
    BY <1>14 DEF FillAsMaker, Closing
  <2> QED
    BY <1>1, <1>2, <2>1, MakeIsDue
<1>15. ASSUME NEW i \in Slots, TriggerOrder(i)
       PROVE  Due(user, user')
  <2> DEFINE u == TriggeredOrder(i, user)
  <2>1. IsOpen(user.orders[i]) /\ ~Live(user.orders[i])
    BY <1>15 DEF TriggerOrder
  <2>2. user' = u \/ user' = CancelOrder(i, u)
    BY <1>15 DEF TriggerOrder
  <2>3. WellFormed(u)
    BY <1>1, <2>1, TriggerKeepsGood DEF Good
  <2>4. Unfilling(user, u)
    <3>1. u.orders = [user.orders EXCEPT ![i] =
                        [user.orders[i] EXCEPT !.trigger = "fired",
                                               !.auction = TRUE]]
      BY DEF TriggeredOrder
    <3>2. user.orders \in [Slots -> Order]
      BY <1>1 DEF WellFormed
    <3> QED
      BY <3>1, <3>2 DEF Unfilling, Order
  <2> HIDE DEF u
  <2>5. CASE user' = CancelOrder(i, u)
    BY <1>3, <2>3, <2>4, <2>5, CancelIsClosing, ClosingStaysUnfilling
       DEF CancelOrder
  <2> QED
    BY <1>3, <2>2, <2>4, <2>5
<1>16. CASE ForceCancelOrders
  BY <1>4, <1>16 DEF ForceCancelOrders
<1>17. ASSUME NEW m, NEW b, MovePosition(m, b)
       PROVE  Due(user, user')
  BY <1>3, <1>17 DEF MovePosition, Unfilling
<1> QED
  BY <1>5, <1>6, <1>7, <1>8, <1>9, <1>10, <1>11, <1>12, <1>13, <1>14, <1>15,
     <1>16, <1>17 DEF Next

(* A reduce-only order that takes brings the position closer to zero by    *)
(* exactly what it fills and no order is filled after its max_ts, whatever *)
(* moved the position since the order was placed.                          *)
THEOREM FillsStayDue == Spec => FillsAreDue
<1>1. ASSUME IInv, [Next]_vars
      PROVE  /\ [ \A i \in Slots :
                    LET o == user'.orders[i]
                    IN  (o.reduceOnly /\ ~o.post /\ FilledBy(i) > 0) =>
                          /\ Abs(user'.base[o.market])
                               = Abs(user.base[o.market]) - FilledBy(i)
                          /\ user'.base[o.market] * user.base[o.market] >= 0 ]_vars
             /\ [ \A i \in Slots :
                    LET o == user'.orders[i]
                    IN  (FilledBy(i) > 0 /\ o.maxTs # 0 /\ ~MustBeTriggered(o))
                          => now <= o.maxTs ]_vars
  <2>1. Due(user, user')
    BY <1>1, NextIsDue
  <2>2. \A i \in Slots : FilledBy(i) = Delta(user, user', i)
    BY DEF FilledBy, Delta
  <2> QED
    BY <2>1, <2>2 DEF Due
<1>2. Spec => [][Next]_vars
  BY PTL DEF Spec
<1> QED
  BY <1>1, <1>2, OrdersInvariantHolds, PTL
     DEF FillsAreDue, ReduceOnlyReduces, NoFillAfterExpiry
-----------------------------------------------------------------------------
(* Signed messages.  The invariant says that the entry of a placed message *)
(* stays in the table until the message itself is out of time or its owner *)
(* throws it away.                                                         *)

EntryOK(e) == e = Free \/ ( /\ e.uuid # NoUuid /\ e.maxSlot > 0
                            /\ e.orderId > 0 )

Remembered(k, t) == \E i \in DOMAIN t : EntryKey(t[i]) = k

\* The time of a placed message is over, or its entry is still there.
OrdersRemembered ==
  \A r \in placed :
    \/ AuctionEnd(r.msg) + EvictionBuffer < slot
    \/ KeyOf(r.msg) \in forgotten
    \/ Remembered(KeyOf(r.msg), table)

TableInv == TableTypeOK /\ UuidsUnique /\ OrdersRemembered /\ PlacedOnce

(* What the assumption says of one message.                                *)
LEMMA MessageType ==
  ASSUME NEW m \in Messages
  PROVE  /\ m.uuid # NoUuid /\ m.account \in Accounts /\ m.slot \in Nat
         /\ m.duration \in Nat /\ m.maxTs \in Nat /\ m.brackets \in Nat
         /\ AuctionEnd(m) \in Nat
BY SignedMsgAssumption DEF AuctionEnd

(* Entries, and tables of them.                                            *)
LEMMA EntryFields ==
  ASSUME NEW e \in Entry
  PROVE  e.maxSlot \in Nat /\ e.orderId \in Nat
BY DEF Entry

LEMMA FreeIsEntry == Free \in Entry /\ EntryOK(Free)
BY DEF Free, Entry, EntryOK

LEMMA TableIndex ==
  ASSUME TableTypeOK
  PROVE  /\ Len(table) \in Nat /\ Len(table) <= MaxTable
         /\ Entries = 1..Len(table)
BY DEF TableTypeOK, Entries

LEMMA EntryType ==
  ASSUME TableTypeOK, NEW i \in Entries
  PROVE  /\ table[i] \in Entry /\ EntryOK(table[i])
         /\ table[i].maxSlot \in Nat /\ table[i].orderId \in Nat
<1>1. table \in Seq(Entry) /\ i \in 1..Len(table)
  BY TableIndex DEF TableTypeOK
<1>2. table[i] \in Entry
  BY <1>1
<1> QED
  BY <1>2, EntryFields DEF TableTypeOK, EntryOK

LEMMA IsTable ==
  ASSUME NEW n \in Nat, NEW t, t = [i \in 1..n |-> t[i]],
         \A i \in 1..n : t[i] \in Entry
  PROVE  t \in Seq(Entry) /\ Len(t) = n /\ DOMAIN t = 1..n
OBVIOUS

(* Pruning keeps exactly the entries that are in their time.               *)
LEMMA PrunedType ==
  ASSUME TableTypeOK
  PROVE  /\ Pruned = [i \in 1..Len(table) |-> Pruned[i]]
         /\ DOMAIN Pruned = Entries
         /\ \A i \in Entries :
              /\ Pruned[i] \in Entry /\ EntryOK(Pruned[i])
              /\ ~Stale(table[i]) => Pruned[i] = table[i]
              /\ Stale(table[i]) => Pruned[i] = Free
BY EntryType, TableIndex, FreeIsEntry DEF Pruned

(* A placed message whose uuid is not in the table is over or forgotten.   *)
LEMMA UuidIsOver ==
  ASSUME TableTypeOK, OrdersRemembered, NEW m \in Messages, ~Exists(m),
         NEW s \in placed, s.msg.uuid = m.uuid, KeyOf(s.msg) \notin forgotten
  PROVE  AuctionEnd(s.msg) + EvictionBuffer < slot
<1> SUFFICES ASSUME Remembered(KeyOf(s.msg), table)
             PROVE  AuctionEnd(s.msg) + EvictionBuffer < slot
  BY DEF OrdersRemembered
<1>1. PICK i \in Entries : EntryKey(table[i]) = KeyOf(s.msg)
  BY DEF Remembered, Entries
<1>2. table[i].uuid = m.uuid /\ table[i].maxSlot = AuctionEnd(s.msg)
  BY <1>1 DEF EntryKey, KeyOf
<1>3. Stale(table[i])
  BY <1>2 DEF Exists
<1> QED
  BY <1>2, <1>3 DEF Stale

(* While time passes and what was forgotten stays forgotten, orders stay   *)
(* remembered if their entries do, until they are over.                    *)
LEMMA StillRemembered ==
  ASSUME TableTypeOK, OrdersRemembered, slot' \in Nat, slot <= slot',
         forgotten \subseteq forgotten',
         \A r \in placed' \ placed : Remembered(KeyOf(r.msg), table'),
         \A i \in Entries :
           \/ Stale(table[i])
           \/ table[i] = Free
           \/ EntryKey(table[i]) \in forgotten'
           \/ Remembered(EntryKey(table[i]), table')
  PROVE  OrdersRemembered'
<1> SUFFICES ASSUME NEW r \in placed, Remembered(KeyOf(r.msg), table)
             PROVE  \/ AuctionEnd(r.msg) + EvictionBuffer < slot'
                    \/ KeyOf(r.msg) \in forgotten'
                    \/ Remembered(KeyOf(r.msg), table')
  <2>1. ASSUME NEW r \in placed, AuctionEnd(r.msg) + EvictionBuffer < slot
        PROVE  AuctionEnd(r.msg) + EvictionBuffer < slot'
    <3>1. r.msg \in Messages
      BY DEF TableTypeOK
    <3> QED
      BY <2>1, <3>1, MessageType, SignedMsgAssumption DEF TableTypeOK
  <2> QED
    BY <2>1 DEF OrdersRemembered, KeyOf, AuctionEnd, Remembered
<1>1. r.msg \in Messages
  BY DEF TableTypeOK
<1>2. PICK i \in Entries : EntryKey(table[i]) = KeyOf(r.msg)
  BY DEF Remembered, Entries
<1>3. table[i].uuid = r.msg.uuid /\ table[i].maxSlot = AuctionEnd(r.msg)
  BY <1>2 DEF EntryKey, KeyOf
<1>4. table[i] # Free
  BY <1>1, <1>3, MessageType DEF Free
<1>5. CASE Stale(table[i])
  <2>1. AuctionEnd(r.msg) + EvictionBuffer < slot
    BY <1>3, <1>5 DEF Stale
  <2> QED
    BY <1>1, <2>1, MessageType, SignedMsgAssumption DEF TableTypeOK
<1>6. CASE EntryKey(table[i]) \in forgotten' \/ Remembered(EntryKey(table[i]), table')
  BY <1>2, <1>6
<1> QED
  BY <1>4, <1>5, <1>6

(* The table after a pruning, after a new entry and after a resizing.      *)
LEMMA PruneKeepsTable ==
  ASSUME TableInv, table' = Pruned, slot' = slot, forgotten' = forgotten,
         placed' = placed, nextId' = nextId
  PROVE  TableInv'
<1>1. TableTypeOK /\ UuidsUnique /\ OrdersRemembered /\ PlacedOnce
  BY DEF TableInv
<1>2. Entries' = Entries /\ Entries = 1..Len(table) /\ Len(table) \in Nat
      /\ Len(table) <= MaxTable
  BY <1>1, PrunedType, TableIndex DEF Entries
<1>3. ASSUME NEW i \in Entries
      PROVE  /\ table'[i] \in Entry /\ EntryOK(table'[i])
             /\ \/ table'[i] = table[i]
                \/ Stale(table[i]) /\ table'[i] = Free
  BY <1>1, PrunedType
<1>4. TableTypeOK'
  <2>1. table' \in Seq(Entry) /\ Len(table') = Len(table)
    <3>1. table' = [i \in 1..Len(table) |-> table'[i]]
      BY <1>1, PrunedType
    <3> QED
      BY <1>2, <1>3, <3>1, IsTable
  <2> QED
    BY <1>1, <1>2, <1>3, <2>1 DEF TableTypeOK, EntryOK
<1>5. UuidsUnique'
  BY <1>1, <1>2, <1>3 DEF UuidsUnique, Free
<1>6. OrdersRemembered'
  <2>1. ASSUME NEW i \in Entries, ~Stale(table[i])
        PROVE  Remembered(EntryKey(table[i]), table')
    BY <1>2, <1>3, <2>1 DEF Remembered, EntryKey, Entries
  <2> QED
    BY <1>1, <2>1, StillRemembered DEF TableTypeOK
<1>7. PlacedOnce'
  BY <1>1 DEF PlacedOnce, KeyOf, AuctionEnd
<1> QED
  BY <1>4, <1>5, <1>6, <1>7 DEF TableInv

(* A new entry in a free place: its uuid was not in the table.             *)
LEMMA AddKeepsTableInv ==
  ASSUME TableInv, NEW m \in Messages, PlaceSigned(m)
  PROVE  TableInv'
<1>1. TableTypeOK /\ UuidsUnique /\ OrdersRemembered /\ PlacedOnce
  BY DEF TableInv
<1>2. /\ slot' = slot /\ forgotten' = forgotten
      /\ Placeable(m) /\ ~Exists(m) /\ AuctionEnd(m) > 0
  BY DEF PlaceSigned, FindsRoom
<1>3. m.account \in Accounts /\ nextId[m.account] \in Nat \ {0}
      /\ m.brackets \in Nat
  BY <1>1, MessageType DEF TableTypeOK
<1>4. IdAfterBrackets(m) \in Nat \ {0} /\ OrderIdToUse(m) \in Nat \ {0}
  BY <1>3 DEF IdAfterBrackets, OrderIdToUse
<1> DEFINE e == [uuid |-> m.uuid, maxSlot |-> AuctionEnd(m),
                 orderId |-> OrderIdToUse(m)]
           r == [msg |-> m, id |-> IdAfterBrackets(m)]
<1>5. e \in Entry /\ EntryOK(e) /\ e.uuid = m.uuid /\ EntryKey(e) = KeyOf(m)
  <2>1. e \in Entry
    BY <1>4, MessageType DEF Entry
  <2>2. EntryOK(e)
    BY <1>2, <1>4, MessageType DEF EntryOK
  <2> QED
    BY <2>1, <2>2 DEF EntryKey, KeyOf
<1>6. r \in [msg : Messages, id : Nat] /\ r.msg = m
  BY <1>4
<1>7. PICK i \in FirstFreeEntry(Pruned) : table' = [Pruned EXCEPT ![i] = e]
  BY DEF PlaceSigned, FindsRoom
<1>8. /\ nextId' \in [Accounts -> Nat \ {0}]
      /\ placed' = placed \/ placed' = placed \union {r}
  BY <1>1, <1>3, <1>4 DEF PlaceSigned, FindsRoom, TableTypeOK
<1> HIDE DEF e, r
<1>9. i \in Entries /\ Pruned[i].maxSlot = 0
  BY <1>1, PrunedType DEF FirstFreeEntry
<1>10. /\ DOMAIN Pruned = Entries /\ DOMAIN table' = Entries
       /\ table' = [j \in 1..Len(table) |-> table'[j]]
       /\ table'[i] = e /\ \A j \in Entries : j # i => table'[j] = Pruned[j]
       /\ Len(table) \in Nat /\ Len(table) <= MaxTable
       /\ Entries = 1..Len(table)
  BY <1>1, <1>7, <1>9, PrunedType, TableIndex
<1>11. ASSUME NEW j \in Entries
       PROVE  table'[j] \in Entry /\ EntryOK(table'[j])
  BY <1>1, <1>5, <1>10, PrunedType
<1>12. ASSUME NEW j \in Entries, j # i
       PROVE  \/ table'[j] = table[j] /\ ~Stale(table[j])
              \/ table'[j] = Free
  BY <1>1, <1>10, <1>12, PrunedType
<1>13. Stale(table[i]) \/ table[i] = Free
  <2>1. EntryOK(Pruned[i]) /\ Pruned[i] = Free
    BY <1>1, <1>9, PrunedType DEF EntryOK
  <2> QED
    BY <1>1, <1>9, <2>1, PrunedType
<1>14. TableTypeOK'
  <2>1. table' \in Seq(Entry) /\ Len(table') = Len(table)
    BY <1>10, <1>11, IsTable
  <2>2. Entries' = Entries
    BY <1>10 DEF Entries
  <2>3. placed' \subseteq [msg : Messages, id : Nat]
    BY <1>1, <1>6, <1>8 DEF TableTypeOK
  <2> QED
    BY <1>1, <1>2, <1>8, <1>10, <1>11, <2>1, <2>2, <2>3 DEF TableTypeOK, EntryOK
<1>15. UuidsUnique'
  <2>1. Entries' = Entries
    BY <1>10 DEF Entries
  <2>2. ASSUME NEW j \in Entries, j # i
        PROVE  table'[j].uuid # m.uuid
    <3>1. CASE table'[j] = table[j] /\ ~Stale(table[j])
      BY <1>2, <3>1 DEF Exists
    <3>2. CASE table'[j] = Free
      BY <3>2, MessageType DEF Free
    <3> QED
      BY <1>12, <2>2, <3>1, <3>2
  <2>3. ASSUME NEW j \in Entries, NEW k \in Entries, j # i, k # i,
               table'[j].uuid = table'[k].uuid, table'[j].uuid # NoUuid
        PROVE  j = k
    BY <1>1, <1>12, <2>3 DEF UuidsUnique, Free
  <2> QED
    BY <1>5, <1>10, <2>1, <2>2, <2>3 DEF UuidsUnique
<1>16. OrdersRemembered'
  <2>1. Remembered(KeyOf(m), table')
    BY <1>5, <1>9, <1>10 DEF Remembered
  <2>2. ASSUME NEW j \in Entries, ~Stale(table[j]), table[j] # Free
        PROVE  Remembered(EntryKey(table[j]), table')
    <3>1. j # i
      BY <1>13, <2>2
    <3>2. table'[j] = table[j]
      BY <1>1, <1>10, <2>2, <3>1, PrunedType
    <3> QED
      BY <1>10, <3>2 DEF Remembered
  <2>3. \A x \in placed' \ placed : Remembered(KeyOf(x.msg), table')
    BY <1>6, <1>8, <2>1
  <2> QED
    BY <1>1, <1>2, <2>2, <2>3, StillRemembered DEF TableTypeOK
<1>17. PlacedOnce'
  <2>1. ASSUME NEW s \in placed, s.msg = m, KeyOf(m) \notin forgotten
        PROVE  FALSE
    <3>1. AuctionEnd(m) + EvictionBuffer < slot
      BY <1>1, <1>2, <2>1, UuidIsOver
    <3>2. slot <= AuctionEnd(m)
      BY <1>2 DEF Placeable
    <3> QED
      BY <1>1, <3>1, <3>2, MessageType, SignedMsgAssumption DEF TableTypeOK
  <2> QED
    BY <1>1, <1>2, <1>6, <1>8, <2>1 DEF PlacedOnce, KeyOf, AuctionEnd
<1> QED
  BY <1>14, <1>15, <1>16, <1>17 DEF TableInv

(* A table resized, cut or deleted: what is dropped is forgotten.          *)
LEMMA ResizeKeepsTableInv ==
  ASSUME TableInv, NEW n \in 0..MaxTable,
         table' = [i \in 1..n |-> IF i \in Entries THEN table[i] ELSE Free],
         forgotten' = forgotten \union
                        {EntryKey(table[i]) : i \in {j \in Entries : j > n}},
         slot' = slot, nextId' = nextId, placed' = placed
  PROVE  TableInv'
<1>1. TableTypeOK /\ UuidsUnique /\ OrdersRemembered /\ PlacedOnce
  BY DEF TableInv
<1>2. n \in Nat /\ n <= MaxTable /\ Entries = 1..Len(table)
      /\ Len(table) \in Nat
  BY <1>1, TableIndex, SignedMsgAssumption
<1>3. ASSUME NEW i \in 1..n
      PROVE  /\ table'[i] \in Entry /\ EntryOK(table'[i])
             /\ \/ i \in Entries /\ table'[i] = table[i]
                \/ table'[i] = Free
  BY <1>1, EntryType, FreeIsEntry
<1>4. table' \in Seq(Entry) /\ Len(table') = n /\ DOMAIN table' = 1..n
      /\ Entries' = 1..n
  <2>1. table' = [i \in 1..n |-> table'[i]]
    OBVIOUS
  <2> QED
    BY <1>2, <1>3, <2>1, IsTable DEF Entries
<1>5. TableTypeOK'
  BY <1>1, <1>2, <1>3, <1>4 DEF TableTypeOK, EntryOK
<1>6. UuidsUnique'
  BY <1>1, <1>3, <1>4 DEF UuidsUnique, Free
<1>7. OrdersRemembered'
  <2>1. ASSUME NEW i \in Entries, EntryKey(table[i]) \notin forgotten'
        PROVE  Remembered(EntryKey(table[i]), table')
    <3>1. i \in 1..n
      BY <1>2, <2>1
    <3>2. table'[i] = table[i]
      BY <3>1
    <3> QED
      BY <1>4, <3>1, <3>2 DEF Remembered
  <2>2. forgotten \subseteq forgotten' /\ slot' \in Nat /\ slot <= slot'
        /\ placed' \ placed = {}
    BY <1>1 DEF TableTypeOK
  <2> QED
    BY <1>1, <2>1, <2>2, StillRemembered
<1>8. PlacedOnce'
  BY <1>1 DEF PlacedOnce, KeyOf, AuctionEnd
<1> QED
  BY <1>5, <1>6, <1>7, <1>8 DEF TableInv

(* No instruction breaks the invariant.                                    *)
LEMMA StepKeepsTableInv ==
  ASSUME TableInv, [TableNext]_tableVars
  PROVE  TableInv'
<1>1. TableTypeOK /\ UuidsUnique /\ OrdersRemembered /\ PlacedOnce
  BY DEF TableInv
<1>2. CASE UNCHANGED tableVars
  <2>1. TableTypeOK' /\ UuidsUnique'
    BY <1>1, <1>2 DEF tableVars, TableTypeOK, UuidsUnique, Entries
  <2>2. OrdersRemembered' /\ PlacedOnce'
    BY <1>1, <1>2 DEF tableVars, OrdersRemembered, PlacedOnce, KeyOf, AuctionEnd
  <2> QED
    BY <2>1, <2>2 DEF TableInv
<1>3. CASE NextSlot
  <2>1. /\ slot' = slot + 1 /\ table' = table /\ nextId' = nextId
        /\ placed' = placed /\ forgotten' = forgotten
    BY <1>3 DEF NextSlot
  <2>2. TableTypeOK' /\ UuidsUnique' /\ PlacedOnce'
    BY <1>1, <2>1 DEF TableTypeOK, UuidsUnique, Entries, PlacedOnce, KeyOf,
                      AuctionEnd
  <2>3. \A i \in Entries : Remembered(EntryKey(table[i]), table')
    BY <2>1 DEF Remembered, Entries
  <2>4. slot' \in Nat /\ slot <= slot'
    BY <1>1, <2>1 DEF TableTypeOK
  <2>5. OrdersRemembered'
    BY <1>1, <2>1, <2>3, <2>4, StillRemembered
  <2> QED
    BY <2>2, <2>5 DEF TableInv
<1>4. ASSUME NEW a \in Accounts, PlaceOwn(a)
      PROVE  TableInv'
  <2>1. /\ nextId' = [nextId EXCEPT ![a] = @ + 1] /\ slot' = slot
        /\ table' = table /\ placed' = placed /\ forgotten' = forgotten
    BY <1>4 DEF PlaceOwn
  <2>2. nextId' \in [Accounts -> Nat \ {0}]
    BY <1>1, <2>1 DEF TableTypeOK
  <2>3. TableTypeOK' /\ UuidsUnique'
    BY <1>1, <2>1, <2>2 DEF TableTypeOK, UuidsUnique, Entries
  <2>4. OrdersRemembered' /\ PlacedOnce'
    BY <1>1, <2>1 DEF OrdersRemembered, PlacedOnce, KeyOf, AuctionEnd
  <2> QED
    BY <2>3, <2>4 DEF TableInv
<1>5. ASSUME NEW m \in Messages, PlaceAgain(m)
      PROVE  TableInv'
  BY <1>5, PruneKeepsTable DEF PlaceAgain
<1>6. ASSUME NEW m \in Messages, PlaceSigned(m)
      PROVE  TableInv'
  BY <1>6, AddKeepsTableInv
<1>7. ASSUME NEW n \in 1..MaxTable, Initialize(n)
      PROVE  TableInv'
  <2>1. Entries = {} /\ n \in 0..MaxTable
    BY <1>7, SignedMsgAssumption DEF Initialize, Entries
  <2>2. /\ table' = [i \in 1..n |-> IF i \in Entries THEN table[i] ELSE Free]
        /\ forgotten' = forgotten \union
                         {EntryKey(table[i]) : i \in {j \in Entries : j > n}}
    BY <1>7, <2>1 DEF Initialize
  <2> QED
    BY <1>7, <2>1, <2>2, ResizeKeepsTableInv DEF Initialize
<1>8. ASSUME NEW n \in 1..MaxTable, NEW byOwner \in BOOLEAN, Resize(n, byOwner)
      PROVE  TableInv'
  <2>1. n \in 0..MaxTable
    BY SignedMsgAssumption
  <2> QED
    BY <1>8, <2>1, ResizeKeepsTableInv DEF Resize, Forget
<1>9. CASE Delete
  <2>1. /\ Entries = 1..Len(table) /\ 0 \in 0..MaxTable
        /\ {j \in Entries : j > 0} = Entries
    BY <1>1, TableIndex, SignedMsgAssumption
  <2>2. /\ table' = [i \in 1..0 |-> IF i \in Entries THEN table[i] ELSE Free]
        /\ forgotten' = forgotten \union
                         {EntryKey(table[i]) : i \in {j \in Entries : j > 0}}
    BY <1>9, <2>1 DEF Delete, Forget
  <2> QED
    BY <1>9, <2>1, <2>2, ResizeKeepsTableInv DEF Delete
<1> QED
  BY <1>2, <1>3, <1>4, <1>5, <1>6, <1>7, <1>8, <1>9 DEF TableNext

LEMMA InitEstablishesTableInv == TableInit => TableInv
<1> SUFFICES ASSUME TableInit PROVE TableInv
  OBVIOUS
<1>1. /\ table = <<>> /\ placed = {} /\ slot = 1
      /\ nextId = [a \in Accounts |-> 1]
  BY DEF TableInit
<1>2. Entries = {} /\ Len(table) = 0 /\ table \in Seq(Entry)
  BY <1>1 DEF Entries
<1>3. TableTypeOK
  BY <1>1, <1>2, SignedMsgAssumption DEF TableTypeOK
<1>4. UuidsUnique /\ OrdersRemembered /\ PlacedOnce
  BY <1>1, <1>2 DEF UuidsUnique, OrdersRemembered, PlacedOnce
<1> QED
  BY <1>3, <1>4 DEF TableInv

(* The strengthened invariant.                                             *)
THEOREM SignedOrdersInvariantHolds == TableSpec => []TableInv
BY InitEstablishesTableInv, StepKeepsTableInv, PTL DEF TableSpec

(* place_signed_msg_taker_order never places a message twice, whatever     *)
(* keepers submit, unless its entry was removed by the authority.          *)
THEOREM MessagesArePlacedOnce == TableSpec => []PlacedOnce
<1>1. TableInv => PlacedOnce
  BY DEF TableInv
<1> QED
  BY <1>1, SignedOrdersInvariantHolds, PTL

(* The first entry with a uuid, which place_and_make takes, is the only    *)
(* one.                                                                    *)
THEOREM UuidsStayUnique == TableSpec => []UuidsUnique
<1>1. TableInv => UuidsUnique
  BY DEF TableInv
<1> QED
  BY <1>1, SignedOrdersInvariantHolds, PTL

(* Entries stay free or complete.                                          *)
THEOREM TableStaysWellFormed == TableSpec => []TableTypeOK
<1>1. TableInv => TableTypeOK
  BY DEF TableInv
<1> QED
  BY <1>1, SignedOrdersInvariantHolds, PTL

(* A uuid is not used again before its auction and the buffer are over.    *)
THEOREM UuidsBlockForLife == TableSpec => UuidBlocksForLife
<1> DEFINE Blocks ==
      \A r \in placed' \ placed, s \in placed :
        s.msg.uuid = r.msg.uuid /\ KeyOf(s.msg) \notin forgotten
          => AuctionEnd(s.msg) + EvictionBuffer < slot
<1>1. ASSUME TableInv, TableNext
      PROVE  Blocks
  <2> SUFFICES ASSUME NEW r \in placed' \ placed, NEW s \in placed,
                      s.msg.uuid = r.msg.uuid, KeyOf(s.msg) \notin forgotten
               PROVE  AuctionEnd(s.msg) + EvictionBuffer < slot
    OBVIOUS
  <2>1. placed' # placed
    OBVIOUS
  <2>2. PICK m \in Messages : PlaceSigned(m)
    BY <1>1, <2>1 DEF TableNext, NextSlot, Delete, PlaceOwn, PlaceAgain, Initialize, Resize
  <2>3. r = [msg |-> m, id |-> IdAfterBrackets(m)]
    BY <2>2 DEF PlaceSigned, FindsRoom
  <2>4. r.msg = m
    BY <2>3
  <2>5. ~Exists(m)
    BY <2>2 DEF PlaceSigned, FindsRoom
  <2> QED
    BY <1>1, <2>4, <2>5, UuidIsOver DEF TableInv
<1>2. ASSUME TableInv, [TableNext]_tableVars
      PROVE  [Blocks]_tableVars
  BY <1>1, <1>2
<1> QED
  BY <1>2, SignedOrdersInvariantHolds, PTL DEF TableSpec, UuidBlocksForLife

(* Entries of messages without a max_ts keep the id of their order.        *)
LEMMA StepKeepsNames ==
  ASSUME TableInv, UndatedEntriesNamed, [TableNext]_tableVars
  PROVE  UndatedEntriesNamed'
<1> DEFINE Undated(k) == \A m \in Messages : KeyOf(m) = k => m.maxTs = 0
<1>1. TableTypeOK
  BY DEF TableInv
<1>2. placed \subseteq placed'
  BY DEF TableNext, NextSlot, Delete, PlaceOwn, PlaceAgain, PlaceSigned, FindsRoom, Initialize,
         Resize, tableVars
<1>3. ASSUME NEW i \in Entries, table[i] # Free,
             Undated(EntryKey(table[i]))
      PROVE  \E r \in placed' : /\ KeyOf(r.msg) = EntryKey(table[i])
                                /\ r.id = table[i].orderId
  BY <1>2, <1>3 DEF UndatedEntriesNamed, Named
<1>4. ASSUME \A i \in Entries' : \/ table'[i] = Free
                                 \/ i \in Entries /\ table'[i] = table[i]
      PROVE  UndatedEntriesNamed'
  BY <1>3, <1>4 DEF UndatedEntriesNamed, Named, KeyOf, EntryKey, AuctionEnd
<1>5. ASSUME NEW m \in Messages, PlaceSigned(m)
      PROVE  UndatedEntriesNamed'
  <2> DEFINE e == [uuid |-> m.uuid, maxSlot |-> AuctionEnd(m),
                   orderId |-> OrderIdToUse(m)]
             r == [msg |-> m, id |-> IdAfterBrackets(m)]
  <2>1. PICK i \in FirstFreeEntry(Pruned) : table' = [Pruned EXCEPT ![i] = e]
    BY <1>5 DEF PlaceSigned, FindsRoom
  <2>2. m.maxTs = 0 => r \in placed'
    BY <1>5 DEF PlaceSigned, FindsRoom, Skipped
  <2>3. r.msg = m /\ KeyOf(m) = EntryKey(e) /\ r.id = e.orderId
    BY DEF KeyOf, EntryKey, IdAfterBrackets, OrderIdToUse
  <2> HIDE DEF e, r
  <2>4. DOMAIN Pruned = Entries /\ i \in Entries
    BY <1>1, PrunedType DEF FirstFreeEntry
  <2>5. Entries' = Entries /\ table'[i] = e
        /\ \A j \in Entries : j # i => table'[j] = Pruned[j]
    BY <2>1, <2>4 DEF Entries
  <2>6. ASSUME NEW j \in Entries, table'[j] # Free,
               Undated(EntryKey(table'[j]))
        PROVE  \E x \in placed' : /\ KeyOf(x.msg) = EntryKey(table'[j])
                                  /\ x.id = table'[j].orderId
    <3>1. CASE j = i
      <4>1. m.maxTs = 0
        BY <2>3, <2>5, <2>6, <3>1
      <4> QED
        BY <2>2, <2>3, <2>5, <3>1, <4>1
    <3>2. CASE j # i
      <4>1. table'[j] = table[j]
        BY <1>1, <2>5, <2>6, <3>2, PrunedType
      <4> QED
        BY <1>3, <2>6, <4>1
    <3> QED
      BY <3>1, <3>2
  <2> QED
    BY <2>5, <2>6 DEF UndatedEntriesNamed, Named, KeyOf, EntryKey, AuctionEnd
<1>6. CASE UNCHANGED tableVars \/ NextSlot \/ \E a \in Accounts : PlaceOwn(a)
  <2>1. table' = table
    BY <1>6 DEF tableVars, NextSlot, PlaceOwn
  <2> QED
    BY <1>4, <2>1 DEF Entries
<1>7. ASSUME NEW m \in Messages, PlaceAgain(m)
      PROVE  UndatedEntriesNamed'
  <2>1. table' = Pruned /\ Entries' = Entries
    BY <1>1, <1>7, PrunedType DEF PlaceAgain, Entries
  <2> QED
    BY <1>1, <1>4, <2>1, PrunedType
<1>8. CASE Delete
  BY <1>4, <1>8 DEF Delete, Entries
<1>9. ASSUME NEW n \in 1..MaxTable, Initialize(n)
      PROVE  UndatedEntriesNamed'
  BY <1>4, <1>9 DEF Initialize, Entries
<1>10. ASSUME NEW n \in 1..MaxTable, NEW byOwner \in BOOLEAN, Resize(n, byOwner)
       PROVE  UndatedEntriesNamed'
  <2>1. table' = [i \in 1..n |-> IF i \in Entries THEN table[i] ELSE Free]
        /\ Entries' = 1..n
    BY <1>10 DEF Resize, Entries
  <2> QED
    BY <1>4, <2>1
<1> QED
  BY <1>5, <1>6, <1>7, <1>8, <1>9, <1>10 DEF TableNext

(* Makers who look up the uuid of a message without max_ts fill the order  *)
(* that was placed for it.                                                 *)
THEOREM EntriesNameTheirOrders == TableSpec => []UndatedEntriesNamed
<1>1. TableInit => UndatedEntriesNamed
  BY DEF TableInit, UndatedEntriesNamed, Entries
<1>2. TableInv /\ UndatedEntriesNamed /\ [TableNext]_tableVars => UndatedEntriesNamed'
  BY StepKeepsNames
<1> QED
  BY <1>1, <1>2, SignedOrdersInvariantHolds, PTL DEF TableSpec

\* Together: a uuid leads to one entry, and an undated one to its order.
THEOREM EntriesStaySound == TableSpec => []EntriesSound
<1>1. UuidsUnique /\ UndatedEntriesNamed <=> EntriesSound
  BY DEF EntriesSound
<1> QED BY <1>1, UuidsStayUnique, EntriesNameTheirOrders, PTL

(* A set of places of a table that is not empty has a first one.           *)
LEMMA FirstPlace ==
  ASSUME NEW n \in Nat, NEW I \in SUBSET (1..n), I # {}
  PROVE  \E i \in I : \A j \in I : i <= j
<1> SUFFICES ASSUME \A i \in I : \E j \in I : j < i PROVE FALSE
  OBVIOUS
<1> DEFINE P == {k \in 0..n : \A j \in I : k < j}
<1>1. 0 \in P
  OBVIOUS
<1>2. ASSUME NEW k \in 0..n - 1, k \in P PROVE k + 1 \in P
  <2>1. k + 1 \notin I
    BY <1>2
  <2>2. \A j \in I : k < j /\ j # k + 1 /\ j \in Int
    BY <1>2, <2>1
  <2> QED
    BY <2>2
<1> HIDE DEF P
<1>3. n \in P
  BY <1>1, <1>2, UpToInduction
<1>4. PICK j \in I : TRUE
  OBVIOUS
<1>5. n < j
  BY <1>3, <1>4 DEF P
<1> QED
  BY <1>4, <1>5

(* A stale entry is enough for a fresh message to find room.               *)
LEMMA StaleEntriesMakeRoom == TableTypeOK => TableNotClogged
<1> SUFFICES ASSUME TableTypeOK, NEW m \in Messages, Placeable(m), ~Exists(m),
                    IdAfterBrackets(m) < MaxSignedId,
                    NEW e \in Entries, Stale(table[e])
             PROVE  FindsRoom(m)
  BY DEF TableNotClogged
<1> DEFINE I == {i \in DOMAIN Pruned : Pruned[i].maxSlot = 0}
<1>1. AuctionEnd(m) > 0
  BY MessageType DEF Placeable, TableTypeOK
<1>2. Len(table) \in Nat /\ I \in SUBSET (1..Len(table))
  BY TableIndex, PrunedType
<1>3. e \in I
  BY PrunedType DEF Free
<1>4. PICK i \in I : \A j \in I : i <= j
  <2> HIDE DEF I
  <2> QED
    BY <1>2, <1>3, FirstPlace
<1>5. i \in FirstFreeEntry(Pruned)
  BY <1>4 DEF FirstFreeEntry
<1> QED
  BY <1>1, <1>5 DEF FindsRoom

(* Entries of messages long over never keep a fresh message out.           *)
THEOREM TableNeverClogs == TableSpec => []TableNotClogged
<1>1. TableTypeOK => TableNotClogged
  BY StaleEntriesMakeRoom
<1> QED
  BY <1>1, TableStaysWellFormed, PTL
=============================================================================
