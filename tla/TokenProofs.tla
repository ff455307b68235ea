---------------------------- MODULE TokenProofs ----------------------------
(***************************************************************************)
(* Where the tokens are.  PerpPools: for any prices, fees, limits and      *)
(* deposits the flows of a perp market stay bounded, no token gets lost    *)
(* but in two known places, and an expired market is settled within its    *)
(* pools.  SpotLedger: for any accounts, markets, rate curves and amounts  *)
(* the totals of a spot market are the balances of its accounts and its    *)
(* revenue pool, but for what balances below a token leave behind.         *)
(***************************************************************************)
EXTENDS PerpPools, SpotLedger, SumTheorems

(* A market and its tokens before the bounds of the model are applied.     *)
RawMarket ==
  [status : {"active", "settlement", "delisted"},
   pnlPool : Int, feePool : Int, surplus : Int, netRevenue : Int,
   exchangeFee : Int, liquidationFee : Int, feeWithdrawn : Int,
   socialLoss : Int, moved : Int, periodOver : BOOLEAN, insured : Int,
   limits : [imbalance : Nat, withdraw : Nat, insurance : Nat],
   base : Int, quote : Int, funding : Int, expiryPrice : Int]
RawSpot == [vault : Int, insuranceVault : Int, revenuePool : Int, users : Int]

(* The bounds on flows of a market, and the tokens nobody owns.            *)
Flows(m) ==
  /\ m.feeWithdrawn \in Nat /\ m.insured \in Nat
  /\ m.feeWithdrawn <= TotalFeeLowerBound(m) + m.liquidationFee
  /\ -m.limits.withdraw <= m.moved /\ m.moved <= m.limits.withdraw
  /\ m.insured <= m.limits.insurance
Lost(m, s) == s.vault - (m.pnlPool + m.feePool + s.revenuePool + s.users)

Sound(m, s) ==
  /\ m \in RawMarket /\ s \in RawSpot
  /\ Flows(m) /\ s.vault \in Nat /\ Lost(m, s) >= 0

IInv == TypeOK /\ FlowsBounded /\ Stranded >= 0
-----------------------------------------------------------------------------
(* Arithmetic. *)

LEMMA LeastMost ==
  ASSUME NEW x \in Int, NEW y \in Int
  PROVE  /\ Least(x, y) \in Int /\ Least(x, y) <= x /\ Least(x, y) <= y
         /\ Most(x, y) \in Int /\ x <= Most(x, y) /\ y <= Most(x, y)
         /\ Least(x, y) \in {x, y} /\ Most(x, y) \in {x, y}
BY DEF Least, Most

LEMMA HalfGrows ==
  ASSUME NEW a \in Int, NEW b \in Nat
  PROVE  a \div 2 \in Int /\ a \div 2 <= (a + b) \div 2
OBVIOUS

LEMMA DivTruncType ==
  ASSUME NEW n \in Int, NEW d \in Int, d # 0
  PROVE  DivTrunc(n, d) \in Int
<1>1. Abs(n) \in Nat /\ Abs(d) \in Nat \ {0} BY DEF Abs
<1>2. Abs(n) \div Abs(d) \in Int BY <1>1
<1> QED BY <1>2 DEF DivTrunc

LEMMA DivBounds ==
  ASSUME NEW a \in Nat, NEW b \in Nat \ {0}
  PROVE  b * (a \div b) <= a /\ a < b * (a \div b) + b /\ a \div b \in Nat
OBVIOUS

LEMMA Negated ==
  ASSUME NEW x \in Int, NEW y \in Int
  PROVE  x * (-y) = -(x * y) /\ (-x) * y = -(x * y)
OBVIOUS

LEMMA Monotone ==
  ASSUME NEW d \in Nat, NEW a \in Int, NEW b \in Int, a <= b
  PROVE  d * a <= d * b
OBVIOUS

(* What truncation loses is less than the divisor.                         *)
LEMMA DivTruncBounds ==
  ASSUME NEW n \in Int, NEW d \in Int, d # 0
  PROVE  /\ d * DivTrunc(n, d) < n + Abs(d)
         /\ n - Abs(d) < d * DivTrunc(n, d)
<1> DEFINE q == Abs(n) \div Abs(d)
<1>1. Abs(n) \in Nat /\ Abs(d) \in Nat \ {0} BY DEF Abs
<1>2. /\ q \in Nat /\ Abs(d) * q <= Abs(n) /\ Abs(n) < Abs(d) * q + Abs(d)
  BY <1>1, DivBounds
<1>3. DivTrunc(n, d) = IF (n < 0) = (d < 0) THEN q ELSE -q BY DEF DivTrunc
<1> HIDE DEF q
<1>4. (-d) * q = -(d * q) /\ d * (-q) = -(d * q) /\ d * q \in Int
  BY <1>2, Negated
<1>5. CASE n < 0 /\ d < 0
  BY <1>2, <1>3, <1>4, <1>5 DEF Abs
<1>6. CASE n < 0 /\ d > 0
  BY <1>2, <1>3, <1>4, <1>6 DEF Abs
<1>7. CASE n >= 0 /\ d < 0
  BY <1>2, <1>3, <1>4, <1>7 DEF Abs
<1>8. CASE n >= 0 /\ d > 0
  BY <1>2, <1>3, <1>4, <1>8 DEF Abs
<1> QED BY <1>5, <1>6, <1>7, <1>8

-----------------------------------------------------------------------------
(* The operators on markets. *)

LEMMA InvIsSound ==
  ASSUME IInv
  PROVE  /\ market \in PerpMarket /\ spot \in SpotMarket
         /\ Sound(market, spot) /\ market.limits.withdraw \in Nat
BY DEF IInv, TypeOK, FlowsBounded, Stranded, Lost, Sound, Flows, Abs,
       PerpMarket, SpotMarket, RawMarket, RawSpot

LEMMA CommitKeeps ==
  ASSUME IInv, NEW m, NEW s, Sound(m, s), Commit(m, s)
  PROVE  IInv'
<1> USE PoolsAssumption
<1>1. market' = m /\ spot' = s /\ WithinBounds(m, s)
  BY DEF Commit
<1>2. m \in RawMarket /\ s \in RawSpot /\ Flows(m) /\ s.vault \in Nat
  BY DEF Sound
<1>3. /\ m.pnlPool \in Nat /\ m.feePool \in Nat /\ s.revenuePool \in Nat
      /\ s.insuranceVault \in Nat /\ m.exchangeFee \in Nat
      /\ m.liquidationFee \in Nat /\ m.socialLoss \in Nat
  BY <1>1 DEF WithinBounds
<1>4. m \in PerpMarket
  BY <1>2, <1>3 DEF RawMarket, PerpMarket, Flows
<1>5. s \in SpotMarket
  BY <1>2, <1>3 DEF RawSpot, SpotMarket
<1>6. FlowsBounded' /\ (Stranded >= 0)'
  BY <1>1, <1>2 DEF Sound, Flows, FlowsBounded, Stranded, Lost, Abs, RawMarket
<1> QED BY <1>1, <1>4, <1>5, <1>6 DEF IInv, TypeOK

LEMMA CollectedSound ==
  ASSUME NEW m, NEW s, Sound(m, s), NEW n \in Int
  PROVE  /\ Sound(Collected(m, n), s)
         /\ Lost(Collected(m, n), s) = Lost(m, s)
         /\ CostBasis(Collected(m, n)) = CostBasis(m)
<1> DEFINE c == Collected(m, n)
           q == m.quote + n
           f == m.funding - n
<1>1. m \in RawMarket /\ s \in RawSpot /\ Flows(m) BY DEF Sound
<1>2. c = [m EXCEPT !.quote = q, !.funding = f] BY DEF Collected
<1>3. q \in Int /\ f \in Int /\ q + f = m.quote + m.funding
  BY <1>1 DEF RawMarket
<1> HIDE DEF q, f, c
<1>8. c \in RawMarket /\ c.quote = q /\ c.funding = f
  BY <1>1, <1>2, <1>3 DEF RawMarket
<1>4. /\ c.pnlPool = m.pnlPool /\ c.feePool = m.feePool
      /\ c.exchangeFee = m.exchangeFee /\ c.moved = m.moved
      /\ c.liquidationFee = m.liquidationFee /\ c.insured = m.insured
      /\ c.feeWithdrawn = m.feeWithdrawn /\ c.limits = m.limits
  BY <1>1, <1>2 DEF RawMarket
<1>5. Flows(c) /\ Lost(c, s) = Lost(m, s)
  BY <1>1, <1>4 DEF Flows, Lost, TotalFeeLowerBound
<1>6. CostBasis(c) = CostBasis(m)
  BY <1>3, <1>8 DEF CostBasis
<1>7. Sound(c, s)
  BY <1>1, <1>8, <1>5, Zenon DEF Sound
<1> QED BY <1>5, <1>6, <1>7 DEF c

LEMMA BalancedKeeps ==
  ASSUME NEW m \in RawMarket
  PROVE  \E f \in Int, p \in Int :
           /\ f + p = m.feePool + m.pnlPool
           /\ PoolsBalanced(m) = [m EXCEPT !.feePool = f, !.pnlPool = p]
<1> DEFINE fee  == IF FeePoolFull(m) THEN Most(0, FeePoolTarget(m))
                                     ELSE m.feePool
           pnl  == m.pnlPool + m.feePool - fee
           need == Least(Most(0, Reserved(m) - fee), pnl)
<1>1. FeePoolTarget(m) \in Int /\ Reserved(m) \in Int /\ m.feePool \in Int
      /\ m.pnlPool \in Int
  BY DEF FeePoolTarget, Reserved, TotalFeeLowerBound, RawMarket
<1>2. fee \in Int /\ pnl \in Int
  <2>1. Most(0, FeePoolTarget(m)) \in Int BY <1>1, LeastMost
  <2>2. fee \in Int BY <1>1, <2>1, Zenon
  <2> HIDE DEF fee
  <2> QED BY <1>1, <2>2
<1>3. need \in Int
  <2> HIDE DEF fee, pnl
  <2>1. Most(0, Reserved(m) - fee) \in Int BY <1>1, <1>2, LeastMost
  <2> QED BY <2>1, <1>2, LeastMost
<1>4. PoolsBalanced(m)
        = [m EXCEPT !.feePool = fee + need, !.pnlPool = pnl - need]
  BY DEF PoolsBalanced
<1>5. (fee + need) + (pnl - need) = m.feePool + m.pnlPool
  <2> HIDE DEF need, fee
  <2> QED BY <1>1, <1>2, <1>3
<1>6. fee + need \in Int /\ pnl - need \in Int
  <2> HIDE DEF need, fee, pnl
  <2> QED BY <1>2, <1>3
<1> QED BY <1>4, <1>5, <1>6

(* Revenue moves out of what was earned and within the period's limit, in  *)
(* either direction.                                                       *)
LEMMA TransferBounded ==
  ASSUME NEW m \in RawMarket, NEW s \in RawSpot, s.revenuePool >= 0, Flows(m)
  PROVE  /\ RevenueTransfer(m, s) \in Int
         /\ RevenueTransfer(m, s) > 0 =>
              m.feeWithdrawn + RevenueTransfer(m, s)
                <= TotalFeeLowerBound(m) + m.liquidationFee
         /\ -m.limits.withdraw <= m.moved - RevenueTransfer(m, s)
         /\ m.moved - RevenueTransfer(m, s) <= m.limits.withdraw
<1> USE PoolsAssumption
<1> DEFINE gap    == m.surplus - m.feeWithdrawn - Threshold
           low    == TotalFeeLowerBound(m)
           earned == low + Least(m.liquidationFee,
                                 m.insured + m.limits.insurance)
                       - m.feeWithdrawn
           spare  == Most(0, m.feePool - (Threshold + m.socialLoss))
           out    == Most(0, Least(m.moved + m.limits.withdraw, m.netRevenue))
           in     == Least(Least(m.limits.withdraw - m.moved,
                                 m.limits.withdraw), s.revenuePool)
           up     == Least(Least(Most(0, earned), spare), out)
           down   == Least(-gap, in)
<1>1. RevenueTransfer(m, s) = IF gap > 0 THEN up
                              ELSE IF gap < 0 THEN -down ELSE 0
  BY DEF RevenueTransfer
<1>2. /\ gap \in Int /\ low \in Int /\ m.moved \in Int
      /\ m.limits.withdraw \in Nat /\ m.feeWithdrawn \in Nat
      /\ m.liquidationFee \in Int /\ s.revenuePool \in Nat
      /\ m.feeWithdrawn <= low + m.liquidationFee
      /\ -m.limits.withdraw <= m.moved /\ m.moved <= m.limits.withdraw
  BY DEF RawMarket, RawSpot, Flows, TotalFeeLowerBound
<1>3. earned \in Int /\ earned <= low + m.liquidationFee - m.feeWithdrawn
  <2> HIDE DEF low
  <2>1. m.insured + m.limits.insurance \in Int BY DEF RawMarket
  <2>2. Least(m.liquidationFee, m.insured + m.limits.insurance) \in Int
        /\ Least(m.liquidationFee, m.insured + m.limits.insurance)
             <= m.liquidationFee
    BY <1>2, <2>1, LeastMost
  <2> QED BY <1>2, <2>2
<1>4. spare \in Int /\ spare >= 0
  BY DEF RawMarket, Most
<1>5. out \in Int /\ out >= 0 /\ out <= m.moved + m.limits.withdraw
  BY <1>2 DEF RawMarket, Most, Least
<1>6. /\ in \in Int /\ in >= 0 /\ in <= m.limits.withdraw - m.moved
  BY <1>2 DEF Least
<1>7. up \in Int /\ up >= 0 /\ up <= out
      /\ up <= Most(0, low + m.liquidationFee - m.feeWithdrawn)
  <2> HIDE DEF earned, spare, out, low
  <2> QED BY <1>2, <1>3, <1>4, <1>5 DEF Least, Most
<1>8. gap < 0 => down \in Int /\ down >= 0 /\ down <= in
  <2> HIDE DEF gap, in
  <2> QED BY <1>2, <1>6 DEF Least
<1>9. up > 0 => m.feeWithdrawn + up <= low + m.liquidationFee
  <2> HIDE DEF up, low
  <2> QED BY <1>2, <1>7 DEF Most
<1>10. CASE gap > 0
  <2> HIDE DEF gap, up, low, out
  <2>1. RevenueTransfer(m, s) = up BY <1>1, <1>10
  <2>2. -m.limits.withdraw <= m.moved - up /\ m.moved - up <= m.limits.withdraw
    BY <1>2, <1>5, <1>7
  <2> QED BY <2>1, <2>2, <1>7, <1>9 DEF low
<1>11. CASE gap < 0
  <2> HIDE DEF gap, down, low, in
  <2>1. RevenueTransfer(m, s) = -down BY <1>1, <1>2, <1>11
  <2>2. -m.limits.withdraw <= m.moved + down
        /\ m.moved + down <= m.limits.withdraw /\ down \in Int /\ down >= 0
    BY <1>2, <1>6, <1>8, <1>11
  <2> QED BY <2>1, <2>2, <1>2
<1>12. CASE gap = 0
  <2> HIDE DEF gap, up, down
  <2>1. RevenueTransfer(m, s) = 0 BY <1>1, <1>12
  <2> QED BY <2>1, <1>2
<1> QED
  <2> HIDE DEF gap
  <2> QED BY <1>2, <1>10, <1>11, <1>12

(* The rest of the period's revenue and what is paid of a gain or loss     *)
(* move between the pools, the revenue pool and the user; no token is made.*)
LEMMA PeriodKeeps ==
  ASSUME NEW m \in RawMarket, Flows(m)
  PROVE  LET c == IF m.periodOver THEN [m EXCEPT !.moved = 0] ELSE m
         IN  c \in RawMarket /\ Flows(c)
             /\ c.pnlPool = m.pnlPool /\ c.feePool = m.feePool
<1> DEFINE d == [m EXCEPT !.moved = 0]
<1>1. d \in RawMarket BY DEF RawMarket
<1>2. /\ d.moved = 0 /\ d.pnlPool = m.pnlPool /\ d.feePool = m.feePool
      /\ d.exchangeFee = m.exchangeFee /\ d.limits = m.limits
      /\ d.liquidationFee = m.liquidationFee /\ d.insured = m.insured
      /\ d.feeWithdrawn = m.feeWithdrawn /\ m.limits.withdraw \in Nat
  BY DEF RawMarket
<1> HIDE DEF d
<1>3. Flows(d) BY <1>2 DEF Flows, TotalFeeLowerBound
<1>4. CASE m.periodOver
  BY <1>1, <1>2, <1>3, <1>4 DEF d
<1>5. CASE ~m.periodOver
  BY <1>5
<1> QED BY <1>4, <1>5

LEMMA RevenueRecord ==
  ASSUME NEW m \in RawMarket, NEW fee \in Int, NEW out \in Int, NEW plus \in Int,
         NEW moved \in Int, NEW over \in BOOLEAN
  PROVE  [m EXCEPT !.feePool = fee, !.feeWithdrawn = out, !.surplus = plus,
                   !.moved = moved, !.periodOver = over] \in RawMarket
BY DEF RawMarket

LEMMA RevenueMovedKeeps ==
  ASSUME NEW m \in RawMarket, Flows(m), NEW n \in Int,
         n > 0 => m.feeWithdrawn + n <= TotalFeeLowerBound(m) + m.liquidationFee,
         -m.limits.withdraw <= m.moved - n, m.moved - n <= m.limits.withdraw
  PROVE  LET d == RevenueMoved(m, n)
         IN  d \in RawMarket /\ Flows(d)
             /\ d.pnlPool = m.pnlPool /\ d.feePool = m.feePool - n
<1> DEFINE d == RevenueMoved(m, n)
           fee == m.feePool - n
           out == m.feeWithdrawn + Most(0, n)
           plus == m.surplus - n
           moved == m.moved - n
           over == m.periodOver /\ n = 0
<1>1. d = [m EXCEPT !.feePool = fee, !.feeWithdrawn = out, !.surplus = plus,
                    !.moved = moved, !.periodOver = over]
  BY DEF RevenueMoved
<1>2. m.feePool \in Int /\ m.surplus \in Int /\ m.moved \in Int
      /\ m.feeWithdrawn \in Nat /\ m.liquidationFee \in Int
      /\ TotalFeeLowerBound(m) \in Int
  BY DEF RawMarket, Flows, TotalFeeLowerBound
<1>3. fee \in Int /\ plus \in Int /\ moved \in Int BY <1>2
<1>4. out \in Nat /\ out <= TotalFeeLowerBound(m) + m.liquidationFee
  BY <1>2 DEF Most, Flows
<1>5. over \in BOOLEAN BY Zenon
<1> HIDE DEF d, fee, out, plus, moved, over
<1>6. d \in RawMarket
  <2>1. out \in Int BY <1>4
  <2> QED BY <1>1, <1>3, <1>5, <2>1, RevenueRecord, Zenon
<1>7. /\ d.moved = moved /\ d.feePool = fee /\ d.feeWithdrawn = out
      /\ d.pnlPool = m.pnlPool
      /\ d.exchangeFee = m.exchangeFee /\ d.limits = m.limits
      /\ d.liquidationFee = m.liquidationFee /\ d.insured = m.insured
  BY <1>1 DEF RawMarket
<1>8. -d.limits.withdraw <= d.moved /\ d.moved <= d.limits.withdraw
  BY <1>7 DEF moved
<1>9. Flows(d) BY <1>4, <1>7, <1>8 DEF Flows, TotalFeeLowerBound
<1> QED BY <1>6, <1>7, <1>9 DEF d, fee

LEMMA PnlSettledKeeps ==
  ASSUME NEW m \in RawMarket, Flows(m), NEW paid \in Int, NEW full
  PROVE  LET d == PnlSettled(m, paid, full)
         IN  d \in RawMarket /\ Flows(d)
             /\ d.pnlPool + d.feePool = m.pnlPool + m.feePool - paid
<1> USE PoolsAssumption
<1> DEFINE d == PnlSettled(m, paid, full)
           amm == IF full \/ paid >= 0 THEN 0 ELSE DivTrunc(paid, Fraction)
           fee == m.feePool - amm
           pnl == m.pnlPool - (paid - amm)
<1>1. d = [m EXCEPT !.feePool = fee, !.pnlPool = pnl] BY DEF PnlSettled
<1>2. DivTrunc(paid, Fraction) \in Int BY DivTruncType
<1>3. amm \in Int
  <2>1. amm = 0 \/ amm = DivTrunc(paid, Fraction) OBVIOUS
  <2> HIDE DEF amm
  <2> QED BY <2>1, <1>2
<1> HIDE DEF amm, d
<1>4. fee \in Int /\ pnl \in Int /\ fee + pnl = m.pnlPool + m.feePool - paid
  BY <1>3 DEF RawMarket
<1> HIDE DEF fee, pnl
<1>5. d \in RawMarket /\ d.feePool = fee /\ d.pnlPool = pnl
  BY <1>1, <1>4 DEF RawMarket
<1>6. /\ d.exchangeFee = m.exchangeFee /\ d.limits = m.limits
      /\ d.liquidationFee = m.liquidationFee /\ d.insured = m.insured
      /\ d.feeWithdrawn = m.feeWithdrawn /\ d.moved = m.moved
  BY <1>1 DEF RawMarket
<1>7. Flows(d) BY <1>6 DEF Flows, TotalFeeLowerBound
<1> QED BY <1>4, <1>5, <1>7 DEF d

(* update_pool_balances keeps the flows bounded and every token in a pool, *)
(* the revenue pool or with the user.                                      *)
LEMMA UpdatePoolBalancesKeeps ==
  ASSUME NEW m \in RawMarket, NEW s \in RawSpot, s.revenuePool >= 0, Flows(m),
         NEW pnl \in Int
  PROVE  LET r == UpdatePoolBalances(m, s, pnl)
         IN  /\ r.market \in RawMarket /\ Flows(r.market)
             /\ r.paid \in Int /\ r.revenue \in Int
             /\ r.market.pnlPool + r.market.feePool + r.revenue + r.paid
                  = m.pnlPool + m.feePool
<1> DEFINE b == PoolsBalanced(m)
           c == IF b.periodOver THEN [b EXCEPT !.moved = 0] ELSE b
           n == RevenueTransfer(c, s)
           d == RevenueMoved(c, n)
           paid == IF pnl > 0 THEN Least(pnl, d.pnlPool) ELSE pnl
           e == PnlSettled(d, paid, FeePoolFull(m))
           r == UpdatePoolBalances(m, s, pnl)
<1>1. b \in RawMarket /\ Flows(b)
      /\ b.pnlPool + b.feePool = m.pnlPool + m.feePool
      /\ b.periodOver = m.periodOver
  <2>1. PICK f \in Int, p \in Int :
          /\ f + p = m.feePool + m.pnlPool
          /\ PoolsBalanced(m) = [m EXCEPT !.feePool = f, !.pnlPool = p]
    BY BalancedKeeps
  <2>2. b = [m EXCEPT !.feePool = f, !.pnlPool = p] BY <2>1
  <2> HIDE DEF b
  <2>3. b \in RawMarket /\ b.feePool = f /\ b.pnlPool = p
    BY <2>2 DEF RawMarket
  <2>4. /\ b.exchangeFee = m.exchangeFee /\ b.limits = m.limits
        /\ b.liquidationFee = m.liquidationFee /\ b.insured = m.insured
        /\ b.feeWithdrawn = m.feeWithdrawn /\ b.moved = m.moved
        /\ b.periodOver = m.periodOver
    BY <2>2 DEF RawMarket
  <2>5. Flows(b) BY <2>4 DEF Flows, TotalFeeLowerBound
  <2>6. b.pnlPool + b.feePool = m.pnlPool + m.feePool
    BY <2>1, <2>3 DEF RawMarket
  <2> QED BY <2>3, <2>4, <2>5, <2>6, Zenon
<1>2. r = [market |-> e, paid |-> paid, revenue |-> n]
  BY <1>1 DEF UpdatePoolBalances
<1> HIDE DEF b, r
<1>3. c \in RawMarket /\ Flows(c)
      /\ c.pnlPool = b.pnlPool /\ c.feePool = b.feePool
  BY <1>1, PeriodKeeps
<1> HIDE DEF c
<1>4. /\ n \in Int
      /\ n > 0 => c.feeWithdrawn + n <= TotalFeeLowerBound(c) + c.liquidationFee
      /\ -c.limits.withdraw <= c.moved - n /\ c.moved - n <= c.limits.withdraw
  BY <1>3, TransferBounded
<1> HIDE DEF n
<1>5. d \in RawMarket /\ Flows(d)
      /\ d.pnlPool = c.pnlPool /\ d.feePool = c.feePool - n
  BY <1>3, <1>4, RevenueMovedKeeps
<1> HIDE DEF d
<1>6. paid \in Int
  <2>1. d.pnlPool \in Int BY <1>5 DEF RawMarket
  <2>2. Least(pnl, d.pnlPool) \in Int BY <2>1, LeastMost
  <2>3. paid = pnl \/ paid = Least(pnl, d.pnlPool) BY Zenon
  <2> HIDE DEF paid
  <2> QED BY <2>2, <2>3
<1> HIDE DEF paid
<1>7. e \in RawMarket /\ Flows(e)
      /\ e.pnlPool + e.feePool = d.pnlPool + d.feePool - paid
  BY <1>5, <1>6, PnlSettledKeeps
<1> HIDE DEF e
<1>8. r.market = e /\ r.paid = paid /\ r.revenue = n BY <1>2
<1>9. e.pnlPool + e.feePool + n + paid = m.pnlPool + m.feePool
  <2>1. {b.pnlPool, b.feePool, c.pnlPool, c.feePool, d.pnlPool, d.feePool,
         e.pnlPool, e.feePool, m.pnlPool, m.feePool} \subseteq Int
    BY <1>1, <1>3, <1>5, <1>7 DEF RawMarket
  <2> QED BY <2>1, <1>1, <1>3, <1>4, <1>5, <1>6, <1>7
<1> QED BY <1>4, <1>6, <1>7, <1>8, <1>9 DEF r
-----------------------------------------------------------------------------
(* The instructions: each keeps the invariant, and all but two the tokens. *)

LEMMA Committed ==
  ASSUME IInv, NEW m, NEW s, Sound(m, s), Commit(m, s),
         Lost(m, s) = Lost(market, spot)
  PROVE  IInv' /\ Stranded' = Stranded
<1>1. market' = m /\ spot' = s BY DEF Commit
<1>2. IInv' BY CommitKeeps
<1> QED BY <1>1, <1>2 DEF Stranded, Lost

(* A change of what was traded, earned or is owed, but of no pool.         *)
SameFlows(m) ==
  /\ m \in RawMarket
  /\ m.pnlPool = market.pnlPool /\ m.feePool = market.feePool
  /\ m.feeWithdrawn = market.feeWithdrawn /\ m.moved = market.moved
  /\ m.insured = market.insured /\ m.limits = market.limits
  /\ m.exchangeFee >= market.exchangeFee
  /\ m.liquidationFee >= market.liquidationFee

LEMMA CountersKeep ==
  ASSUME IInv, NEW m, SameFlows(m), Commit(m, spot)
  PROVE  IInv' /\ Stranded' = Stranded
<1>1. /\ market \in RawMarket /\ spot \in RawSpot /\ Flows(market)
      /\ spot.vault \in Nat /\ Lost(market, spot) >= 0
  BY InvIsSound DEF Sound
<1>2. m \in RawMarket BY DEF SameFlows
<1>3. TotalFeeLowerBound(market) <= TotalFeeLowerBound(m)
  <2>1. market.exchangeFee \in Int /\ m.exchangeFee \in Int
        /\ m.exchangeFee >= market.exchangeFee
    BY <1>1, <1>2 DEF RawMarket, SameFlows
  <2> DEFINE d == m.exchangeFee - market.exchangeFee
  <2>2. d \in Nat /\ m.exchangeFee = market.exchangeFee + d BY <2>1
  <2> HIDE DEF d
  <2> QED BY <2>1, <2>2, HalfGrows DEF TotalFeeLowerBound
<1>4. {TotalFeeLowerBound(m), TotalFeeLowerBound(market), m.liquidationFee,
       market.liquidationFee, market.feeWithdrawn} \subseteq Int
  BY <1>1, <1>2 DEF TotalFeeLowerBound, RawMarket
<1>5. market.feeWithdrawn <= TotalFeeLowerBound(m) + m.liquidationFee
  BY <1>1, <1>3, <1>4 DEF Flows, SameFlows
<1>6. Flows(m) BY <1>1, <1>5 DEF Flows, SameFlows
<1>7. Lost(m, spot) = Lost(market, spot) BY DEF Lost, SameFlows
<1>8. Sound(m, spot) BY <1>1, <1>2, <1>6, <1>7 DEF Sound
<1> QED BY <1>7, <1>8, Committed

LEMMA PendingIsInt == ASSUME IInv PROVE Pending \subseteq Int
BY InvIsSound DEF PerpMarket, Pending

LEMMA CollectedSame ==
  ASSUME IInv, NEW n \in Pending
  PROVE  SameFlows(Collected(market, n))
<1>1. n \in Int BY PendingIsInt
<1>2. Sound(market, spot) /\ market \in RawMarket BY InvIsSound DEF Sound
<1>3. Collected(market, n) \in RawMarket BY <1>1, <1>2, CollectedSound DEF Sound
<1> DEFINE q == market.quote + n
           f == market.funding - n
<1>4. Collected(market, n) = [market EXCEPT !.quote = q, !.funding = f]
  BY DEF Collected
<1> HIDE DEF q, f
<1> QED BY <1>2, <1>3, <1>4 DEF SameFlows, RawMarket

LEMMA FillWithAmmKeeps ==
  ASSUME IInv, FillWithAmm
  PROVE  IInv' /\ Stranded' = Stranded
<1> USE PoolsAssumption
<1>1. PICK price \in Prices, fee \in Fees, spread \in Fees, base \in {-1, 1},
           n \in Pending :
        \E reward \in 0 .. fee + spread :
          LET income == fee + spread - reward
              m == Collected(market, n)
          IN /\ Trading
             /\ Commit([m EXCEPT !.base = @ + base,
                                 !.quote = @ - base * price - (fee - reward),
                                 !.exchangeFee = @ + fee,
                                 !.surplus = @ + income,
                                 !.netRevenue = @ + income], spot)
  BY DEF FillWithAmm
<1>7. PICK reward \in 0 .. fee + spread :
          Commit([Collected(market, n) EXCEPT
                    !.base = @ + base,
                    !.quote = @ - base * price - (fee - reward),
                    !.exchangeFee = @ + fee,
                    !.surplus = @ + (fee + spread - reward),
                    !.netRevenue = @ + (fee + spread - reward)], spot)
  BY <1>1
<1> DEFINE c == Collected(market, n)
           b == c.base + base
           q == c.quote - base * price - (fee - reward)
           e == c.exchangeFee + fee
           u == c.surplus + (fee + spread - reward)
           v == c.netRevenue + (fee + spread - reward)
           m == [c EXCEPT !.base = b, !.quote = q, !.exchangeFee = e,
                          !.surplus = u, !.netRevenue = v]
<1>2. Commit(m, spot) BY <1>7
<1>3. SameFlows(c) BY CollectedSame
<1>4. /\ price \in Int /\ fee \in Nat /\ spread \in Nat /\ base \in Int
      /\ reward \in Int /\ base * price \in Int
  BY <1>1
<1> HIDE DEF c
<1>5. {b, q, e, u, v} \subseteq Int /\ e >= c.exchangeFee
  <2>1. c.base \in Int /\ c.quote \in Int /\ c.exchangeFee \in Int
        /\ c.surplus \in Int /\ c.netRevenue \in Int
    BY <1>3 DEF SameFlows, RawMarket
  <2> QED BY <1>4, <2>1
<1> HIDE DEF b, q, e, u, v
<1>6. SameFlows(m)
  <2>1. m \in RawMarket /\ m.exchangeFee = e
    BY <1>3, <1>5 DEF SameFlows, RawMarket
  <2>2. /\ m.pnlPool = c.pnlPool /\ m.feePool = c.feePool
        /\ m.feeWithdrawn = c.feeWithdrawn /\ m.moved = c.moved
        /\ m.insured = c.insured /\ m.limits = c.limits
        /\ m.liquidationFee = c.liquidationFee
    BY <1>3 DEF SameFlows, RawMarket
  <2>3. {c.exchangeFee, market.exchangeFee} \subseteq Int
    BY <1>3, InvIsSound DEF SameFlows, RawMarket, PerpMarket
  <2> HIDE DEF m
  <2> QED BY <1>3, <1>5, <2>1, <2>2, <2>3 DEF SameFlows
<1> QED BY <1>2, <1>6, CountersKeep

LEMMA MatchKeeps ==
  ASSUME IInv, Match
  PROVE  IInv' /\ Stranded' = Stranded
<1> USE PoolsAssumption
<1>1. PICK fee \in Fees, n \in Pending :
        LET m == Collected(market, n)
        IN /\ Trading
           /\ Commit([m EXCEPT !.quote = @ - fee, !.exchangeFee = @ + fee,
                               !.surplus = @ + fee, !.netRevenue = @ + fee],
                     spot)
  BY DEF Match
<1> DEFINE c == Collected(market, n)
           q == c.quote - fee
           e == c.exchangeFee + fee
           u == c.surplus + fee
           v == c.netRevenue + fee
           m == [c EXCEPT !.quote = q, !.exchangeFee = e, !.surplus = u,
                          !.netRevenue = v]
<1>2. Commit(m, spot) BY <1>1
<1>3. SameFlows(c) BY CollectedSame
<1> HIDE DEF c
<1>4. {q, e, u, v} \subseteq Int /\ e >= c.exchangeFee
  <2>1. {c.quote, c.exchangeFee, c.surplus, c.netRevenue} \subseteq Int
    BY <1>3 DEF SameFlows, RawMarket
  <2> QED BY <2>1
<1> HIDE DEF q, e, u, v
<1>5. SameFlows(m)
  <2>1. m \in RawMarket /\ m.exchangeFee = e
    BY <1>3, <1>4 DEF SameFlows, RawMarket
  <2>2. /\ m.pnlPool = c.pnlPool /\ m.feePool = c.feePool
        /\ m.feeWithdrawn = c.feeWithdrawn /\ m.moved = c.moved
        /\ m.insured = c.insured /\ m.limits = c.limits
        /\ m.liquidationFee = c.liquidationFee
    BY <1>3 DEF SameFlows, RawMarket
  <2>3. {c.exchangeFee, market.exchangeFee} \subseteq Int
    BY <1>3, InvIsSound DEF SameFlows, RawMarket, PerpMarket
  <2> HIDE DEF m
  <2> QED BY <1>3, <1>4, <2>1, <2>2, <2>3 DEF SameFlows
<1> QED BY <1>2, <1>5, CountersKeep

LEMMA LiquidateKeeps ==
  ASSUME IInv, Liquidate
  PROVE  IInv' /\ Stranded' = Stranded
<1> USE PoolsAssumption
<1>1. PICK fee \in Fees, n \in Pending :
        LET m == Collected(market, n)
        IN Commit([m EXCEPT !.quote = @ - fee, !.liquidationFee = @ + fee], spot)
  BY DEF Liquidate
<1> DEFINE c == Collected(market, n)
           q == c.quote - fee
           l == c.liquidationFee + fee
           m == [c EXCEPT !.quote = q, !.liquidationFee = l]
<1>2. Commit(m, spot) BY <1>1
<1>3. SameFlows(c) BY CollectedSame
<1> HIDE DEF c
<1>4. {q, l} \subseteq Int /\ l >= c.liquidationFee
  <2>1. {c.quote, c.liquidationFee} \subseteq Int
    BY <1>3 DEF SameFlows, RawMarket
  <2> QED BY <2>1
<1> HIDE DEF q, l
<1>5. SameFlows(m)
  <2>1. m \in RawMarket /\ m.liquidationFee = l
    BY <1>3, <1>4 DEF SameFlows, RawMarket
  <2>2. /\ m.pnlPool = c.pnlPool /\ m.feePool = c.feePool
        /\ m.feeWithdrawn = c.feeWithdrawn /\ m.moved = c.moved
        /\ m.insured = c.insured /\ m.limits = c.limits
        /\ m.exchangeFee = c.exchangeFee
    BY <1>3 DEF SameFlows, RawMarket
  <2>3. {c.liquidationFee, market.liquidationFee} \subseteq Int
    BY <1>3, InvIsSound DEF SameFlows, RawMarket, PerpMarket
  <2> HIDE DEF m
  <2> QED BY <1>3, <1>4, <2>1, <2>2, <2>3 DEF SameFlows
<1> QED BY <1>2, <1>5, CountersKeep

LEMMA SettleFundingKeeps ==
  ASSUME IInv, SettleFunding
  PROVE  IInv' /\ Stranded' = Stranded
BY CollectedSame, CountersKeep DEF SettleFunding

(* A change of the surplus, the period's revenue and the unsettled funding *)
(* alone: of a funding update, a curve change or an admin's correction.    *)
LEMMA BookingKeeps ==
  ASSUME IInv, NEW surplus \in Int, NEW revenue \in Int, NEW funding \in Int,
         NEW m, m = [market EXCEPT !.surplus = surplus, !.netRevenue = revenue,
                                   !.funding = funding],
         Commit(m, spot)
  PROVE  IInv' /\ Stranded' = Stranded
<1>1. market \in RawMarket BY InvIsSound DEF Sound
<1>2. m \in RawMarket BY <1>1 DEF RawMarket
<1>3. SameFlows(m) BY <1>1, <1>2 DEF SameFlows, RawMarket
<1> QED BY <1>3, CountersKeep

LEMMA UpdateFundingRateKeeps ==
  ASSUME IInv, UpdateFundingRate
  PROVE  IInv' /\ Stranded' = Stranded
<1> USE PoolsAssumption
<1>1. PICK owed \in Costs :
        \E gain \in (IF owed < 0 THEN owed .. 0 ELSE {owed}) :
          Commit([market EXCEPT !.surplus = @ + gain, !.netRevenue = 0,
                                !.funding = @ - owed], spot)
  BY DEF UpdateFundingRate
<1>2. PICK gain \in (IF owed < 0 THEN owed .. 0 ELSE {owed}) :
        Commit([market EXCEPT !.surplus = @ + gain, !.netRevenue = 0,
                              !.funding = @ - owed], spot)
  BY <1>1
<1>3. gain \in Int /\ market.surplus \in Int /\ market.funding \in Int
  BY InvIsSound DEF PerpMarket
<1> DEFINE u == market.surplus + gain
           f == market.funding - owed
           m == [market EXCEPT !.surplus = u, !.netRevenue = 0, !.funding = f]
<1>4. Commit(m, spot) BY <1>2
<1>5. u \in Int /\ f \in Int BY <1>3
<1> DEFINE v == 0
<1>6. m = [market EXCEPT !.surplus = u, !.netRevenue = v, !.funding = f]
      /\ v \in Int
  OBVIOUS
<1> HIDE DEF u, f, v, m
<1> QED BY <1>4, <1>5, <1>6, BookingKeeps

LEMMA UpdateAmmKeeps ==
  ASSUME IInv, UpdateAmm
  PROVE  IInv' /\ Stranded' = Stranded
<1> USE PoolsAssumption
<1>1. PICK cost \in Costs : Commit(CostApplied(market, cost), spot)
  BY DEF UpdateAmm
<1> DEFINE u == market.surplus - cost
           v == market.netRevenue - cost
           m == [market EXCEPT !.surplus = u, !.netRevenue = v,
                               !.funding = market.funding]
<1>2. market \in RawMarket BY InvIsSound DEF Sound
<1>3. u \in Int /\ v \in Int /\ market.funding \in Int
  BY <1>2 DEF RawMarket
<1>4. m = CostApplied(market, cost) BY <1>2 DEF CostApplied, RawMarket
<1>5. Commit(m, spot) BY <1>1, <1>4
<1> DEFINE f == market.funding
<1>6. m = [market EXCEPT !.surplus = u, !.netRevenue = v, !.funding = f]
  OBVIOUS
<1> HIDE DEF u, v, f, m
<1>7. f \in Int BY <1>3 DEF f
<1> QED BY <1>3, <1>5, <1>6, <1>7, BookingKeeps

LEMMA UpdateAmmSummaryStatsKeeps ==
  ASSUME IInv, UpdateAmmSummaryStats
  PROVE  IInv' /\ Stranded' = Stranded
<1> USE PoolsAssumption
<1>1. market \in RawMarket BY InvIsSound DEF Sound
<1>2. PICK price \in Prices, funding \in {0, market.funding},
           withoutFee \in BOOLEAN :
        LET m == [market EXCEPT !.funding = funding]
            surplus == m.pnlPool + m.feePool - NetUserPnl(m, price)
                         - IF withoutFee THEN m.liquidationFee ELSE 0
        IN /\ Listed
           /\ \/ Commit(m, spot)
              \/ Commit([m EXCEPT !.surplus = surplus], spot)
  BY DEF UpdateAmmSummaryStats
<1> DEFINE m == [market EXCEPT !.funding = funding]
           fee == IF withoutFee THEN m.liquidationFee ELSE 0
           surplus == m.pnlPool + m.feePool - NetUserPnl(m, price) - fee
           revenue == market.netRevenue
           k == [market EXCEPT !.surplus = market.surplus,
                               !.netRevenue = revenue, !.funding = funding]
           l == [market EXCEPT !.surplus = surplus,
                               !.netRevenue = revenue, !.funding = funding]
<1>3. funding \in Int /\ revenue \in Int /\ market.surplus \in Int
  BY <1>1 DEF RawMarket
<1>4. m \in RawMarket BY <1>1, <1>3 DEF RawMarket
<1>5. fee \in Int
  <2>1. m.liquidationFee \in Int BY <1>4 DEF RawMarket
  <2>2. fee = 0 \/ fee = m.liquidationFee BY Zenon
  <2> HIDE DEF fee, m
  <2> QED BY <2>1, <2>2
<1>6. NetUserPnl(m, price) \in Int
  <2> HIDE DEF m
  <2>1. m.base \in Int /\ price \in Int /\ CostBasis(m) \in Int
    BY <1>4 DEF RawMarket, CostBasis
  <2> QED BY <2>1 DEF NetUserPnl
<1>7. surplus \in Int
  <2> HIDE DEF m, fee
  <2>1. m.pnlPool \in Int /\ m.feePool \in Int BY <1>4 DEF RawMarket
  <2> QED BY <2>1, <1>5, <1>6
<1>8. m = k /\ [m EXCEPT !.surplus = surplus] = l
  <2> HIDE DEF surplus
  <2> QED BY <1>1 DEF RawMarket
<1>9. Commit(k, spot) \/ Commit(l, spot)
  <2>1. Commit(m, spot) \/ Commit([m EXCEPT !.surplus = surplus], spot)
    BY <1>2
  <2> HIDE DEF m, k, l, surplus
  <2> QED BY <2>1, <1>8
<1> HIDE DEF surplus, revenue, m
<1> QED BY <1>3, <1>7, <1>9, BookingKeeps

LEMMA UpdateMaxImbalancesKeeps ==
  ASSUME IInv, UpdateMaxImbalances
  PROVE  IInv' /\ Stranded' = Stranded
<1> USE PoolsAssumption
<1>1. PICK limits \in Limits :
        /\ market.insured <= limits.insurance
        /\ Abs(market.moved) <= limits.withdraw
        /\ Commit([market EXCEPT !.limits = limits], spot)
  BY DEF UpdateMaxImbalances
<1> DEFINE m == [market EXCEPT !.limits = limits]
<1>2. limits \in [imbalance : Nat, withdraw : Nat, insurance : Nat] OBVIOUS
<1>3. Sound(market, spot) /\ market \in RawMarket BY InvIsSound DEF Sound
<1>4. m \in RawMarket BY <1>2, <1>3 DEF RawMarket
<1>5. /\ m.pnlPool = market.pnlPool /\ m.feePool = market.feePool
      /\ m.feeWithdrawn = market.feeWithdrawn /\ m.moved = market.moved
      /\ m.insured = market.insured /\ m.exchangeFee = market.exchangeFee
      /\ m.liquidationFee = market.liquidationFee /\ m.limits = limits
  BY <1>3 DEF RawMarket
<1> HIDE DEF m
<1>6. -limits.withdraw <= market.moved /\ market.moved <= limits.withdraw
  BY <1>1, <1>2, <1>3 DEF Abs, RawMarket
<1>7. Flows(m)
  BY <1>1, <1>3, <1>5, <1>6 DEF Flows, Sound, TotalFeeLowerBound
<1>8. Lost(m, spot) = Lost(market, spot) BY <1>5 DEF Lost
<1>9. Sound(m, spot) BY <1>3, <1>4, <1>7, <1>8 DEF Sound
<1> QED BY <1>1, <1>8, <1>9, Committed DEF m

(* Tokens that move between the pools of a market, the revenue pool, the   *)
(* vaults and the users, with a surplus that may change.                   *)
LEMMA MoveKeeps ==
  ASSUME IInv, NEW m, NEW s, m \in RawMarket, s \in RawSpot, Commit(m, s),
         m.exchangeFee = market.exchangeFee, m.insured = market.insured,
         m.liquidationFee = market.liquidationFee, m.moved = market.moved,
         m.feeWithdrawn = market.feeWithdrawn, m.limits = market.limits,
         s.vault \in Nat, Lost(m, s) = Lost(market, spot)
  PROVE  IInv' /\ Stranded' = Stranded
<1>1. Flows(market) /\ Lost(market, spot) >= 0 BY InvIsSound DEF Sound
<1>2. Flows(m) BY <1>1 DEF Flows, TotalFeeLowerBound
<1>3. Sound(m, s) BY <1>1, <1>2 DEF Sound
<1> QED BY <1>3, Committed

LEMMA DepositIntoFeePoolKeeps ==
  ASSUME IInv, DepositIntoFeePool
  PROVE  IInv' /\ Stranded' = Stranded
<1> USE PoolsAssumption
<1>1. PICK n \in Pnls :
        /\ n > 0
        /\ Commit([market EXCEPT !.surplus = @ + n, !.feePool = @ + n],
                  [spot EXCEPT !.vault = @ + n])
  BY DEF DepositIntoFeePool
<1> DEFINE u == market.surplus + n
           f == market.feePool + n
           v == spot.vault + n
           m == [market EXCEPT !.surplus = u, !.feePool = f]
           s == [spot EXCEPT !.vault = v]
<1>2. Commit(m, s) BY <1>1
<1>3. market \in RawMarket /\ spot \in RawSpot /\ spot.vault \in Nat
  BY InvIsSound DEF Sound
<1>4. u \in Int /\ f \in Int /\ v \in Nat BY <1>1, <1>3 DEF RawMarket
<1> HIDE DEF u
<1>5. Lost(m, s) = Lost(market, spot)
  <2>1. m.pnlPool = market.pnlPool /\ m.feePool = f /\ s.vault = v
        /\ s.revenuePool = spot.revenuePool /\ s.users = spot.users
    BY <1>3 DEF RawMarket, RawSpot
  <2>2. {market.pnlPool, market.feePool, spot.revenuePool, spot.users, n}
          \subseteq Int
    BY <1>3 DEF RawMarket, RawSpot
  <2> HIDE DEF m, s
  <2> QED BY <1>3, <2>1, <2>2 DEF Lost
<1> HIDE DEF f, v
<1>6. m \in RawMarket BY <1>3, <1>4 DEF RawMarket
<1>8. s \in RawSpot /\ s.vault = v
  <2>1. v \in Int BY <1>4
  <2>2. s \in RawSpot BY <1>3, <2>1 DEF RawSpot
  <2> QED BY <1>3, <2>2 DEF RawSpot
<1>7. /\ m.exchangeFee = market.exchangeFee /\ m.insured = market.insured
      /\ m.liquidationFee = market.liquidationFee /\ m.moved = market.moved
      /\ m.feeWithdrawn = market.feeWithdrawn /\ m.limits = market.limits
  BY <1>3 DEF RawMarket
<1> HIDE DEF m, s
<1> QED BY <1>2, <1>4, <1>5, <1>6, <1>7, <1>8, MoveKeeps

LEMMA SettleRevenueKeeps ==
  ASSUME IInv, SettleRevenue
  PROVE  IInv' /\ Stranded' = Stranded
<1>1. market \in PerpMarket /\ market \in RawMarket /\ spot \in RawSpot
      /\ spot \in SpotMarket
  BY InvIsSound DEF Sound
<1>2. PICK n \in 0 .. Least(spot.revenuePool, spot.vault),
           over \in {market.periodOver, TRUE} :
        Commit([market EXCEPT !.periodOver = over],
               [spot EXCEPT !.vault = @ - n, !.insuranceVault = @ + n,
                            !.revenuePool = @ - n])
  BY Zenon DEF SettleRevenue
<1> DEFINE v == spot.vault - n
           i == spot.insuranceVault + n
           r == spot.revenuePool - n
           m == [market EXCEPT !.periodOver = over]
           s == [spot EXCEPT !.vault = v, !.insuranceVault = i,
                             !.revenuePool = r]
<1>3. Commit(m, s) BY <1>2
<1>4. n \in Int /\ n <= spot.vault /\ spot.vault \in Nat
      /\ spot.insuranceVault \in Int /\ spot.revenuePool \in Int
  BY <1>1, LeastMost DEF SpotMarket, Least
<1>5. v \in Nat /\ i \in Int /\ r \in Int BY <1>4
<1>6. m \in RawMarket
  <2>1. over \in BOOLEAN
    <3>1. market.periodOver \in BOOLEAN BY <1>1 DEF RawMarket
    <3> QED BY <3>1, Zenon
  <2> QED BY <1>1, <2>1 DEF RawMarket
<1>7. Lost(m, s) = Lost(market, spot)
  <2>1. m.pnlPool = market.pnlPool /\ m.feePool = market.feePool
        /\ s.vault = v /\ s.revenuePool = r /\ s.users = spot.users
    BY <1>1 DEF RawMarket, RawSpot
  <2>2. {market.pnlPool, market.feePool, spot.users} \subseteq Int
    BY <1>1 DEF RawMarket, RawSpot
  <2> HIDE DEF m, s
  <2> QED BY <1>4, <2>1, <2>2 DEF Lost
<1> HIDE DEF v, i, r
<1>8. s \in RawSpot /\ s.vault = v
  <2>1. v \in Int BY <1>5
  <2>2. s \in RawSpot BY <1>1, <1>5, <2>1 DEF RawSpot
  <2> QED BY <1>1, <2>2 DEF RawSpot
<1>9. /\ m.exchangeFee = market.exchangeFee /\ m.insured = market.insured
      /\ m.liquidationFee = market.liquidationFee /\ m.moved = market.moved
      /\ m.feeWithdrawn = market.feeWithdrawn /\ m.limits = market.limits
  BY <1>1 DEF RawMarket
<1> HIDE DEF m, s
<1>10. s.vault \in Nat BY <1>5, <1>8
<1> QED BY <1>3, <1>6, <1>7, <1>8, <1>9, <1>10, MoveKeeps

(* A settlement that pays, or refuses a loss of nothing, keeps every token *)
(* in a pool or with a user; a refusal of a gain in trial mode does not.   *)
LEMMA SettlePnlKeeps ==
  ASSUME IInv, NEW trial \in BOOLEAN, NEW own \in BOOLEAN,
         SettlePnlMarket(trial, own)
  PROVE  IInv' /\ (Stranded' = Stranded \/ (trial /\ ~own))
<1> USE PoolsAssumption
<1>1. PICK price \in Prices, pnl \in Pnls, n \in Pending :
        \E realized \in {0, Most(0, pnl)}, limit \in {0, Most(0, -pnl)} :
          LET m      == Collected(market, n)
              tokens == m.pnlPool + m.feePool \div ExcessPart
              owed    == NetUserPnl(m, price)
              excess == IF owed < tokens THEN tokens - Most(0, owed) ELSE 0
              claim  == IF pnl > 0 THEN Least(pnl, realized + excess)
                                   ELSE Most(pnl, -limit)
              r      == UpdatePoolBalances(m, spot, claim)
              s      == [spot EXCEPT !.revenuePool = @ + r.revenue]
              refused == r.paid = 0 \/ (r.paid > 0 /\ excess <= 0 /\ ~own)
          IN /\ Trading /\ Reserved(m) >= 0
             /\ IF refused
                THEN trial /\ Commit(r.market, s)
                ELSE Commit([r.market EXCEPT !.quote = @ - r.paid],
                            [s EXCEPT !.users = @ + r.paid])
  BY DEF SettlePnlMarket
<1>2. PICK realized \in {0, Most(0, pnl)}, limit \in {0, Most(0, -pnl)} :
          LET m      == Collected(market, n)
              tokens == m.pnlPool + m.feePool \div ExcessPart
              owed    == NetUserPnl(m, price)
              excess == IF owed < tokens THEN tokens - Most(0, owed) ELSE 0
              claim  == IF pnl > 0 THEN Least(pnl, realized + excess)
                                   ELSE Most(pnl, -limit)
              r      == UpdatePoolBalances(m, spot, claim)
              s      == [spot EXCEPT !.revenuePool = @ + r.revenue]
              refused == r.paid = 0 \/ (r.paid > 0 /\ excess <= 0 /\ ~own)
          IN /\ Trading /\ Reserved(m) >= 0
             /\ IF refused
                THEN trial /\ Commit(r.market, s)
                ELSE Commit([r.market EXCEPT !.quote = @ - r.paid],
                            [s EXCEPT !.users = @ + r.paid])
  BY <1>1
<1> DEFINE m      == Collected(market, n)
           tokens == m.pnlPool + m.feePool \div ExcessPart
           owed    == NetUserPnl(m, price)
           excess == IF owed < tokens THEN tokens - Most(0, owed) ELSE 0
           claim  == IF pnl > 0 THEN Least(pnl, realized + excess)
                                ELSE Most(pnl, -limit)
           r      == UpdatePoolBalances(m, spot, claim)
           pool   == spot.revenuePool + r.revenue
           users  == spot.users + r.paid
           quote  == r.market.quote - r.paid
           s      == [spot EXCEPT !.revenuePool = pool]
           t      == [s EXCEPT !.users = users]
           k      == [r.market EXCEPT !.quote = quote]
           refused == r.paid = 0 \/ (r.paid > 0 /\ excess <= 0 /\ ~own)
<1>3. IF refused THEN trial /\ Commit(r.market, s) ELSE Commit(k, t)
  BY <1>2
<1>4. n \in Int BY PendingIsInt
<1>5. /\ m \in RawMarket /\ Flows(m) /\ spot \in RawSpot
      /\ Lost(m, spot) = Lost(market, spot) /\ Lost(market, spot) >= 0
      /\ spot.revenuePool >= 0 /\ spot.vault \in Nat
  <2>1. Sound(market, spot) /\ spot \in SpotMarket BY InvIsSound
  <2> HIDE DEF m
  <2>2. Sound(m, spot) /\ Lost(m, spot) = Lost(market, spot)
    BY <1>4, <2>1, CollectedSound DEF m
  <2> QED BY <2>1, <2>2 DEF Sound, SpotMarket
<1> HIDE DEF m
<1>6. claim \in Int
  <2>1. /\ m.pnlPool \in Int /\ m.feePool \in Int /\ m.base \in Int
        /\ CostBasis(m) \in Int
    BY <1>5 DEF RawMarket, CostBasis
  <2>2. tokens \in Int BY <2>1
  <2>3. owed \in Int BY <2>1 DEF NetUserPnl
  <2> HIDE DEF tokens, owed
  <2>4. excess \in Int BY <2>2, <2>3 DEF Most
  <2>5. realized \in Int /\ limit \in Int BY DEF Most
  <2> HIDE DEF excess
  <2> QED BY <2>4, <2>5 DEF Least, Most
<1> HIDE DEF claim, excess
<1>7. /\ r.market \in RawMarket /\ Flows(r.market)
      /\ r.paid \in Int /\ r.revenue \in Int
      /\ r.market.pnlPool + r.market.feePool + r.revenue + r.paid
           = m.pnlPool + m.feePool
  BY <1>5, <1>6, UpdatePoolBalancesKeeps
<1> HIDE DEF r
<1>8. pool \in Int /\ users \in Int /\ quote \in Int
  BY <1>5, <1>7 DEF RawSpot, RawMarket
<1>9. {spot.revenuePool, spot.users, spot.vault, r.market.pnlPool,
       r.market.feePool, m.pnlPool, m.feePool, r.revenue, r.paid} \subseteq Int
  BY <1>5, <1>7 DEF RawSpot, RawMarket
<1>10. ASSUME refused PROVE r.paid >= 0 /\ (r.paid # 0 => ~own)
  BY <1>10, <1>7
<1> HIDE DEF refused
<1>11. CASE refused
  <2>1. trial /\ Commit(r.market, s) BY <1>3, <1>11
  <2>2. Lost(r.market, s) = Lost(m, spot) + r.paid
    <3>1. s.vault = spot.vault /\ s.revenuePool = pool /\ s.users = spot.users
      BY <1>5 DEF RawSpot
    <3> HIDE DEF s
    <3> QED BY <1>7, <1>9, <3>1 DEF Lost
  <2> HIDE DEF pool
  <2>3. s \in RawSpot /\ s.vault = spot.vault BY <1>5, <1>8 DEF RawSpot
  <2> HIDE DEF s
  <2>4. Lost(m, spot) \in Int BY <1>9 DEF Lost
  <2>5. Sound(r.market, s)
    BY <1>5, <1>7, <1>10, <1>11, <2>2, <2>3, <2>4 DEF Sound
  <2>6. IInv' BY <2>1, <2>5, CommitKeeps
  <2>7. market' = r.market /\ spot' = s BY <2>1 DEF Commit
  <2>8. Stranded' = Stranded + r.paid
    BY <1>5, <2>2, <2>7 DEF Stranded, Lost
  <2>9. Stranded \in Int BY <1>5, <2>4 DEF Stranded, Lost
  <2> QED BY <1>7, <1>10, <1>11, <2>1, <2>6, <2>8, <2>9
<1>12. CASE ~refused
  <2>1. Commit(k, t) BY <1>3, <1>12
  <2>2. t.vault = spot.vault /\ t.revenuePool = pool /\ t.users = users
    BY <1>5 DEF RawSpot
  <2>3. /\ k.pnlPool = r.market.pnlPool /\ k.feePool = r.market.feePool
        /\ k.feeWithdrawn = r.market.feeWithdrawn /\ k.moved = r.market.moved
        /\ k.insured = r.market.insured /\ k.limits = r.market.limits
        /\ k.exchangeFee = r.market.exchangeFee
        /\ k.liquidationFee = r.market.liquidationFee
    BY <1>7 DEF RawMarket
  <2>4. Lost(k, t) = Lost(m, spot)
    <3> HIDE DEF k, t
    <3> QED BY <1>7, <1>9, <2>2, <2>3 DEF Lost
  <2> HIDE DEF pool, users, quote
  <2>5. k \in RawMarket BY <1>7, <1>8 DEF RawMarket
  <2>6. t \in RawSpot BY <1>5, <1>8 DEF RawSpot
  <2> HIDE DEF k, t
  <2>7. Flows(k) BY <1>7, <2>3 DEF Flows, TotalFeeLowerBound
  <2>8. Sound(k, t) BY <1>5, <2>2, <2>4, <2>5, <2>6, <2>7 DEF Sound
  <2> QED BY <1>5, <2>1, <2>4, <2>8, Committed
<1> QED BY <1>11, <1>12

LEMMA ResolvePnlDeficitKeeps ==
  ASSUME IInv, ResolvePnlDeficit
  PROVE  IInv' /\ Stranded' = Stranded
<1> USE PoolsAssumption
<1>1. PICK price \in Prices :
        LET pay == DeficitPayment(market, spot.insuranceVault, price)
        IN /\ pay > 0
           /\ Commit([market EXCEPT !.surplus = @ + pay, !.moved = @ + pay,
                                    !.insured = @ + pay, !.periodOver = FALSE,
                                    !.pnlPool = @ + pay],
                     [spot EXCEPT !.insuranceVault = @ - pay, !.vault = @ + pay])
  BY DEF ResolvePnlDeficit
<1> DEFINE pay == DeficitPayment(market, spot.insuranceVault, price)
           u == market.surplus + pay
           o == market.moved + pay
           i == market.insured + pay
           p == market.pnlPool + pay
           w == spot.insuranceVault - pay
           v == spot.vault + pay
           m == [market EXCEPT !.surplus = u, !.moved = o, !.insured = i,
                               !.periodOver = FALSE, !.pnlPool = p]
           s == [spot EXCEPT !.insuranceVault = w, !.vault = v]
<1>2. Commit(m, s) /\ pay > 0 BY <1>1
<1>3. /\ market \in RawMarket /\ spot \in RawSpot /\ Flows(market)
      /\ spot.vault \in Nat /\ Lost(market, spot) >= 0
  BY InvIsSound DEF Sound
<1>4. /\ {market.surplus, market.moved, market.insured, market.pnlPool,
          market.feePool, spot.insuranceVault, spot.vault, spot.revenuePool,
          spot.users} \subseteq Int
      /\ market.limits.withdraw \in Nat /\ market.limits.insurance \in Nat
      /\ market.limits.imbalance \in Nat
  BY <1>3 DEF RawMarket, RawSpot
<1>5. NetUserPnl(market, price) \in Int
  BY <1>3 DEF NetUserPnl, CostBasis, RawMarket
<1>6. /\ pay \in Int /\ pay <= market.limits.withdraw - market.moved
      /\ pay <= market.limits.insurance - market.insured
  BY <1>4, <1>5 DEF DeficitPayment, Least
<1> HIDE DEF pay
<1>7. {u, o, i, p, w, v} \subseteq Int BY <1>4, <1>6
<1>8. Lost(m, s) = Lost(market, spot)
  <2>1. m.pnlPool = p /\ m.feePool = market.feePool /\ s.vault = v
        /\ s.revenuePool = spot.revenuePool /\ s.users = spot.users
    BY <1>3 DEF RawMarket, RawSpot
  <2> HIDE DEF m, s
  <2> QED BY <1>4, <1>6, <2>1 DEF Lost
<1>9. -market.limits.withdraw <= o /\ o <= market.limits.withdraw
      /\ i \in Nat /\ i <= market.limits.insurance /\ v \in Nat
  BY <1>2, <1>3, <1>4, <1>6 DEF Flows
<1> HIDE DEF u, o, i, p, w, v
<1>10. m \in RawMarket BY <1>3, <1>7 DEF RawMarket
<1>11. s \in RawSpot /\ s.vault = v BY <1>3, <1>7 DEF RawSpot
<1>12. /\ m.exchangeFee = market.exchangeFee /\ m.insured = i
       /\ m.liquidationFee = market.liquidationFee /\ m.moved = o
       /\ m.feeWithdrawn = market.feeWithdrawn /\ m.limits = market.limits
  BY <1>3 DEF RawMarket
<1> HIDE DEF m, s
<1>13. Flows(m) BY <1>3, <1>9, <1>12 DEF Flows, TotalFeeLowerBound
<1>14. Sound(m, s) BY <1>3, <1>8, <1>9, <1>10, <1>11, <1>13 DEF Sound
<1> QED BY <1>2, <1>8, <1>14, Committed

LEMMA ResolvePerpBankruptcyKeeps ==
  ASSUME IInv, ResolvePerpBankruptcy
  PROVE  IInv'
<1> USE PoolsAssumption
<1>1. PICK pnl \in Pnls :
    LET debt == -pnl
        paid == Least(debt, Least(Most(0, spot.insuranceVault - 1),
                                  market.limits.insurance - market.insured))
        fees == Least(debt - paid, market.feePool)
    IN /\ debt > 0
       /\ Commit([market EXCEPT !.insured = @ + paid,
                                !.pnlPool = @ + paid,
                                !.feePool = @ - fees,
                                !.socialLoss = @ + debt - paid - fees,
                                !.quote = @ + debt],
                 [spot EXCEPT !.insuranceVault = @ - paid,
                              !.vault = @ + paid])
  BY DEF ResolvePerpBankruptcy
<1> DEFINE debt == -pnl
           most == Most(0, spot.insuranceVault - 1)
           left == market.limits.insurance - market.insured
           paid == Least(debt, Least(most, left))
           fees == Least(debt - paid, market.feePool)
           i == market.insured + paid
           p == market.pnlPool + paid
           f == market.feePool - fees
           l == market.socialLoss + debt - paid - fees
           q == market.quote + debt
           w == spot.insuranceVault - paid
           v == spot.vault + paid
           m == [market EXCEPT !.insured = i, !.pnlPool = p, !.feePool = f,
                               !.socialLoss = l, !.quote = q]
           s == [spot EXCEPT !.insuranceVault = w, !.vault = v]
<1>2. Commit(m, s) /\ debt > 0 BY <1>1
<1>3. /\ market \in RawMarket /\ spot \in RawSpot /\ Flows(market)
      /\ spot.vault \in Nat /\ Lost(market, spot) >= 0
      /\ market \in PerpMarket
  BY InvIsSound DEF Sound
<1>4. /\ {market.insured, market.pnlPool, market.socialLoss, market.quote,
          spot.insuranceVault, spot.vault, spot.revenuePool, spot.users,
          debt} \subseteq Int
      /\ market.feePool \in Nat /\ market.limits.insurance \in Nat
  BY <1>3 DEF RawMarket, RawSpot, PerpMarket
<1>5. most \in Nat /\ left \in Nat BY <1>3, <1>4 DEF Flows, Most
<1> HIDE DEF most, debt
<1>6. paid \in Nat /\ paid <= left /\ paid <= debt
  <2> HIDE DEF left
  <2> QED BY <1>2, <1>4, <1>5 DEF Least
<1> HIDE DEF paid
<1>7. fees \in Nat BY <1>4, <1>6 DEF Least
<1> HIDE DEF fees
<1>8. {i, p, f, l, q, w, v} \subseteq Int BY <1>4, <1>6, <1>7
<1>9. i \in Nat /\ i <= market.limits.insurance /\ v \in Nat
  BY <1>3, <1>4, <1>6 DEF Flows
<1>10. Lost(m, s) = Lost(market, spot) + fees
  <2>1. m.pnlPool = p /\ m.feePool = f /\ s.vault = v
        /\ s.revenuePool = spot.revenuePool /\ s.users = spot.users
    BY <1>3 DEF RawMarket, RawSpot
  <2> HIDE DEF m, s
  <2> QED BY <1>4, <1>6, <1>7, <2>1 DEF Lost
<1>11. Lost(market, spot) \in Int BY <1>4 DEF Lost
<1> HIDE DEF i, p, f, l, q, w, v
<1>12. m \in RawMarket BY <1>3, <1>8 DEF RawMarket
<1>13. s \in RawSpot /\ s.vault = v BY <1>3, <1>8 DEF RawSpot
<1>14. /\ m.exchangeFee = market.exchangeFee /\ m.insured = i
       /\ m.liquidationFee = market.liquidationFee /\ m.moved = market.moved
       /\ m.feeWithdrawn = market.feeWithdrawn /\ m.limits = market.limits
  BY <1>3 DEF RawMarket
<1> HIDE DEF m, s
<1>15. Flows(m) BY <1>3, <1>9, <1>14 DEF Flows, TotalFeeLowerBound
<1>16. Sound(m, s)
  BY <1>3, <1>7, <1>9, <1>10, <1>11, <1>12, <1>13, <1>15 DEF Sound
<1> QED BY <1>2, <1>16, CommitKeeps

LEMMA ClosedRecord ==
  ASSUME NEW m \in RawMarket, NEW fee \in Int, NEW pnl \in Int,
         NEW status \in {"active", "settlement", "delisted"}
  PROVE  [m EXCEPT !.status = status, !.feePool = fee, !.pnlPool = pnl]
           \in RawMarket
BY DEF RawMarket

LEMMA SettlePoolsToRevenuePoolKeeps ==
  ASSUME IInv, SettlePoolsToRevenuePool
  PROVE  IInv' /\ Stranded' = Stranded
<1> DEFINE r == spot.revenuePool + market.pnlPool + market.feePool
           m == PoolsReleased(market)
           s == [spot EXCEPT !.revenuePool = r]
<1>1. Commit(m, s) BY DEF SettlePoolsToRevenuePool
<1>2. market \in RawMarket /\ spot \in RawSpot /\ spot.vault \in Nat
  BY InvIsSound DEF Sound
<1>3. m = [market EXCEPT !.status = "delisted", !.feePool = 0, !.pnlPool = 0]
  BY DEF PoolsReleased
<1>4. {market.pnlPool, market.feePool, spot.revenuePool, spot.users, spot.vault,
       r} \subseteq Int
  BY <1>2 DEF RawMarket, RawSpot
<1> HIDE DEF m
<1>5. m \in RawMarket
  <2>1. "delisted" \in {"active", "settlement", "delisted"} /\ 0 \in Int
    OBVIOUS
  <2> QED BY <1>2, <1>3, <2>1, ClosedRecord, Zenon
<1>6. /\ m.exchangeFee = market.exchangeFee /\ m.insured = market.insured
      /\ m.liquidationFee = market.liquidationFee /\ m.moved = market.moved
      /\ m.feeWithdrawn = market.feeWithdrawn /\ m.limits = market.limits
      /\ m.feePool = 0 /\ m.pnlPool = 0
  BY <1>2, <1>3 DEF RawMarket
<1>7. s.vault = spot.vault /\ s.users = spot.users /\ s.revenuePool = r
  BY <1>2 DEF RawSpot
<1>8. Lost(m, s) = Lost(market, spot)
  <2> HIDE DEF s
  <2> QED BY <1>4, <1>6, <1>7 DEF Lost
<1> HIDE DEF r
<1>9. s \in RawSpot BY <1>2, <1>4 DEF RawSpot
<1> HIDE DEF s
<1> QED BY <1>1, <1>2, <1>5, <1>6, <1>7, <1>8, <1>9, MoveKeeps

ShortfallOf(m) ==
  NetUserPnl(m, m.expiryPrice) - (m.pnlPool + m.feePool)

LEMMA ShortfallStep ==
  ASSUME NEW m, NEW s, Commit(m, s)
  PROVE  Shortfall' = ShortfallOf(m) /\ Shortfall = ShortfallOf(market)
<1>1. market' = m BY DEF Commit
<1> QED BY <1>1, Zenon DEF Shortfall, ShortfallOf, NetUserPnl, CostBasis

LEMMA SettleExpiredPositionKeeps ==
  ASSUME IInv, SettleExpiredPosition
  PROVE  IInv' /\ Stranded' = Stranded /\ Shortfall' <= Shortfall
<1> USE PoolsAssumption
<1>1. PICK base \in Bases, quote \in Pnls, fee \in Fees \cup {0}, n \in Pending :
        LET m   == Collected(market, n)
            pnl == ExpiredPnl(m, base, quote, fee)
        IN Commit([m EXCEPT !.base = @ - base, !.quote = @ - quote,
                            !.pnlPool = @ - pnl],
                  [spot EXCEPT !.users = @ + pnl])
  BY DEF SettleExpiredPosition
<1> DEFINE c   == Collected(market, n)
           pnl == ExpiredPnl(c, base, quote, fee)
           b == c.base - base
           q == c.quote - quote
           p == c.pnlPool - pnl
           users == spot.users + pnl
           m == [c EXCEPT !.base = b, !.quote = q, !.pnlPool = p]
           s == [spot EXCEPT !.users = users]
<1>2. Commit(m, s) BY <1>1
<1>3. n \in Int BY PendingIsInt
<1>4. /\ market \in RawMarket /\ spot \in RawSpot /\ spot.vault \in Nat
      /\ Sound(market, spot)
  BY InvIsSound DEF Sound
<1>5. SameFlows(c) /\ CostBasis(c) = CostBasis(market)
      /\ c.base = market.base /\ c.expiryPrice = market.expiryPrice
      /\ c.exchangeFee = market.exchangeFee
      /\ c.liquidationFee = market.liquidationFee
  <2>1. SameFlows(c) BY CollectedSame
  <2> HIDE DEF c
  <2>2. CostBasis(c) = CostBasis(market)
    BY <1>3, <1>4, CollectedSound DEF c
  <2> DEFINE quote1 == market.quote + n
             funding1 == market.funding - n
  <2>3. c = [market EXCEPT !.quote = quote1, !.funding = funding1]
    BY DEF c, Collected
  <2> HIDE DEF quote1, funding1
  <2>4. /\ c.base = market.base /\ c.expiryPrice = market.expiryPrice
        /\ c.exchangeFee = market.exchangeFee
        /\ c.liquidationFee = market.liquidationFee
    BY <1>4, <2>3 DEF RawMarket
  <2> QED BY <2>1, <2>2, <2>4
<1> HIDE DEF c
<1>6. {c.base, c.quote, c.pnlPool, c.feePool, c.funding, c.expiryPrice,
       spot.users, spot.revenuePool, spot.vault, base, quote, fee} \subseteq Int
      /\ fee >= 0
  BY <1>4, <1>5 DEF SameFlows, RawMarket, RawSpot
<1>7. pnl = c.expiryPrice * base + quote - fee /\ c.expiryPrice * base \in Int
  BY <1>6 DEF ExpiredPnl
<1> HIDE DEF pnl
<1>8. pnl \in Int BY <1>6, <1>7
<1>9. {b, q, p, users} \subseteq Int BY <1>6, <1>8
<1>10. /\ m.base = b /\ m.quote = q /\ m.pnlPool = p
       /\ m.feePool = c.feePool /\ m.funding = c.funding
       /\ m.expiryPrice = c.expiryPrice
       /\ m.exchangeFee = c.exchangeFee /\ m.insured = c.insured
       /\ m.liquidationFee = c.liquidationFee /\ m.moved = c.moved
       /\ m.feeWithdrawn = c.feeWithdrawn /\ m.limits = c.limits
  BY <1>5 DEF SameFlows, RawMarket
<1>11. s.vault = spot.vault /\ s.users = users
       /\ s.revenuePool = spot.revenuePool
  BY <1>4 DEF RawSpot
<1> HIDE DEF m, s
<1>12. Lost(m, s) = Lost(market, spot)
  BY <1>5, <1>6, <1>8, <1>10, <1>11 DEF Lost, SameFlows
<1>13. Shortfall' <= Shortfall
  <2>1. b * c.expiryPrice + c.expiryPrice * base = c.base * c.expiryPrice
        /\ b * c.expiryPrice \in Int /\ c.base * c.expiryPrice \in Int
    BY <1>6
  <2>2. Shortfall' = ShortfallOf(m) /\ Shortfall = ShortfallOf(market)
    BY <1>2, ShortfallStep
  <2>3. ShortfallOf(m)
          = (b * c.expiryPrice + (q + c.funding)) - (p + c.feePool)
    <3> HIDE DEF b, q, p
    <3>1. ShortfallOf(m) = (m.base * m.expiryPrice + (m.quote + m.funding))
                             - (m.pnlPool + m.feePool)
      BY Zenon DEF ShortfallOf, NetUserPnl, CostBasis
    <3>2. m.base * m.expiryPrice = b * c.expiryPrice
      BY <1>10, Zenon
    <3> QED BY <1>10, <3>1, <3>2
  <2>4. ShortfallOf(market) = (c.base * c.expiryPrice + (c.quote + c.funding))
                                - (c.pnlPool + c.feePool)
    <3>1. CostBasis(market) = c.quote + c.funding BY <1>5, Zenon DEF CostBasis
    <3>2. c.pnlPool = market.pnlPool /\ c.feePool = market.feePool
      BY <1>5 DEF SameFlows
    <3>3. ShortfallOf(market) = (market.base * market.expiryPrice
                                   + CostBasis(market))
                                  - (market.pnlPool + market.feePool)
      BY Zenon DEF ShortfallOf, NetUserPnl
    <3>4. market.base * market.expiryPrice = c.base * c.expiryPrice
      BY <1>5, Zenon
    <3> QED BY <3>1, <3>2, <3>3, <3>4
  <2> DEFINE x == b * c.expiryPrice
             y == c.expiryPrice * base
             z == c.base * c.expiryPrice
  <2>5. x + y = z /\ x \in Int /\ y \in Int /\ z \in Int BY <1>7, <2>1
  <2>6. p = c.pnlPool - (y + quote - fee) BY <1>7
  <2> HIDE DEF x, y, z, p
  <2>7. Shortfall' = (x + (q + c.funding)) - (p + c.feePool) BY <2>2, <2>3, Zenon DEF x
  <2>8. Shortfall = (z + (c.quote + c.funding)) - (c.pnlPool + c.feePool)
    BY <2>2, <2>4, Zenon DEF z
  <2> QED BY <1>6, <2>5, <2>6, <2>7, <2>8
<1> HIDE DEF b, q, p, users
<1>14. m \in RawMarket
  BY <1>5, <1>9 DEF m, SameFlows, RawMarket
<1>15. s \in RawSpot BY <1>4, <1>9 DEF s, RawSpot
<1> QED
  BY <1>2, <1>4, <1>5, <1>10, <1>11, <1>12, <1>13, <1>14, <1>15, MoveKeeps
  DEF SameFlows

(* At the expiry price the users' base is worth no more than the pools     *)
(* hold beyond what the users owe or have coming.                          *)
LEMMA ExpiryPriceCovered ==
  ASSUME NEW m \in RawMarket, NEW target \in Int, m.base # 0
  PROVE  /\ ExpiryPrice(m, target) \in Int
         /\ m.base * ExpiryPrice(m, target) <= (m.pnlPool + m.feePool) - m.quote
<1> DEFINE x == m.quote - (m.pnlPool + m.feePool)
           q == DivTrunc(x, m.base)
           e == ExpiryPrice(m, target)
<1>1. x \in Int /\ m.base \in Int BY DEF RawMarket
<1>2. x = -((m.pnlPool + m.feePool) - m.quote)
      /\ (m.pnlPool + m.feePool) - m.quote \in Int
  BY DEF RawMarket
<1> HIDE DEF x
<1>3. q \in Int /\ x - Abs(m.base) < m.base * q /\ m.base * q \in Int
      /\ Abs(m.base) \in Int
  <2>1. q \in Int BY <1>1, DivTruncType
  <2>2. x - Abs(m.base) < m.base * q BY <1>1, DivTruncBounds
  <2> QED BY <1>1, <2>1, <2>2 DEF Abs
<1>4. e = IF m.base > 0 THEN Least(-q, target) - 1 ELSE Most(-q, target) + 1
  BY DEF ExpiryPrice, x
<1> HIDE DEF q, e
<1>5. e \in Int BY <1>1, <1>3, <1>4 DEF Least, Most
<1>6. m.base * e <= -x
  <2>1. CASE m.base > 0
    <3>1. e <= -q - 1 BY <1>3, <1>4, <2>1 DEF Least
    <3>2. m.base * e <= m.base * (-q - 1) BY <1>1, <1>3, <1>5, <2>1, <3>1, Monotone
    <3>3. m.base * (-q - 1) = -(m.base * q) - m.base BY <1>1, <1>3
    <3>4. m.base * e \in Int BY <1>1, <1>5
    <3> QED BY <1>1, <1>3, <2>1, <3>2, <3>3, <3>4 DEF Abs
  <2>2. CASE m.base < 0
    <3> DEFINE d == -m.base
    <3>1. -e <= q - 1 /\ d \in Nat BY <1>1, <1>3, <1>4, <1>5, <2>2 DEF Most
    <3>2. d * (-e) <= d * (q - 1) BY <1>3, <1>5, <3>1, Monotone
    <3>3. d * (-e) = m.base * e BY <1>1, <1>5
    <3>4. d * (q - 1) = -(m.base * q) - d
      <4>1. d * (q - 1) = d * q - d /\ d \in Int BY <1>1, <1>3
      <4>2. d * q = -(m.base * q) BY <1>1, <1>3, Negated
      <4> QED BY <4>1, <4>2
    <3>5. m.base * e \in Int BY <1>1, <1>5
    <3>6. Abs(m.base) = d BY <1>1, <2>2 DEF Abs
    <3> HIDE DEF d
    <3> QED BY <1>1, <1>3, <3>1, <3>2, <3>3, <3>4, <3>5, <3>6
  <2> QED BY <1>1, <2>1, <2>2
<1> QED BY <1>1, <1>2, <1>5, <1>6 DEF e

LEMMA ExpiredRecord ==
  ASSUME NEW m \in RawMarket, NEW fee \in Int, NEW pnl \in Int,
         NEW surplus \in Int, NEW revenue \in Int, NEW price \in Int,
         NEW status \in {"active", "settlement", "delisted"}
  PROVE  [m EXCEPT !.feePool = fee, !.pnlPool = pnl, !.surplus = surplus,
                   !.netRevenue = revenue, !.status = status,
                   !.expiryPrice = price] \in RawMarket
BY DEF RawMarket

LEMMA SettleExpiredMarketKeeps ==
  ASSUME IInv, SettleExpiredMarket
  PROVE  /\ IInv' /\ Stranded' = Stranded
         /\ market.base # 0 => Shortfall' <= market.funding
<1> USE PoolsAssumption
<1> DEFINE keep   == Reserved(market)
           budget == Most(0, market.surplus - keep)
           n      == Least(budget, Most(0, market.feePool - keep))
           fee    == market.feePool - n
           pnl    == market.pnlPool + n
<1>1. PICK target \in Prices, cost \in 0 .. budget :
        LET m == CostApplied([market EXCEPT !.feePool = @ - n,
                                            !.pnlPool = @ + n], cost)
        IN Commit([m EXCEPT !.status = "settlement",
                            !.expiryPrice = ExpiryPrice(m, target)], spot)
  BY DEF SettleExpiredMarket
<1>2. Sound(market, spot) /\ market \in RawMarket /\ spot \in RawSpot
      /\ spot.vault \in Nat
  BY InvIsSound DEF Sound
<1>3. {market.surplus, market.feePool, market.pnlPool, keep, market.quote,
       market.netRevenue, market.base, market.funding} \subseteq Int
  BY <1>2 DEF RawMarket, Reserved, TotalFeeLowerBound
<1>4. budget \in Int /\ n \in Int
  <2> HIDE DEF keep
  <2>1. budget \in Int BY <1>3 DEF Most
  <2> HIDE DEF budget
  <2> QED BY <1>3, <2>1 DEF Most, Least
<1> HIDE DEF budget, n
<1>5. cost \in Int /\ target \in Int BY <1>4
<1> DEFINE surplus == market.surplus - cost
           revenue == market.netRevenue - cost
           c == [market EXCEPT !.feePool = fee, !.pnlPool = pnl,
                               !.surplus = surplus, !.netRevenue = revenue]
           price == ExpiryPrice(c, target)
           m == [market EXCEPT !.feePool = fee, !.pnlPool = pnl,
                               !.surplus = surplus, !.netRevenue = revenue,
                               !.status = "settlement",
                               !.expiryPrice = price]
<1>6. fee \in Int /\ pnl \in Int /\ surplus \in Int /\ revenue \in Int
      /\ fee + pnl = market.feePool + market.pnlPool
  BY <1>3, <1>4, <1>5
<1>7. CostApplied([market EXCEPT !.feePool = @ - n, !.pnlPool = @ + n], cost) = c
  BY <1>2 DEF CostApplied, RawMarket
<1> HIDE DEF fee, pnl, surplus, revenue
<1>8. Commit(m, spot)
  <2>1. Commit([c EXCEPT !.status = "settlement", !.expiryPrice = price], spot)
    BY <1>1, <1>7
  <2> HIDE DEF price
  <2>2. [c EXCEPT !.status = "settlement", !.expiryPrice = price] = m
    OBVIOUS
  <2> HIDE DEF c, m
  <2> QED BY <2>1, <2>2
<1>9. c \in RawMarket BY <1>2, <1>6 DEF RawMarket
<1>10. c.base = market.base /\ c.quote = market.quote /\ c.pnlPool = pnl
       /\ c.feePool = fee
  BY <1>2 DEF RawMarket
<1> HIDE DEF c
<1>11. price \in Int
  <2>1. CASE c.base = 0 BY <1>5, <2>1 DEF ExpiryPrice
  <2>2. CASE c.base # 0 BY <1>5, <1>9, <2>2, ExpiryPriceCovered
  <2> QED BY <2>1, <2>2
<1>12. market.base # 0 =>
         market.base * price <= (market.pnlPool + market.feePool) - market.quote
  <2> SUFFICES ASSUME market.base # 0
               PROVE  market.base * price
                        <= (market.pnlPool + market.feePool) - market.quote
    OBVIOUS
  <2>1. c.base * price <= (c.pnlPool + c.feePool) - c.quote
    BY <1>5, <1>9, <1>10, ExpiryPriceCovered
  <2>2. pnl + fee = market.pnlPool + market.feePool BY <1>3, <1>6
  <2> HIDE DEF price
  <2> QED BY <1>10, <2>1, <2>2
<1> HIDE DEF price
<1>13. m \in RawMarket
  <2>1. "settlement" \in {"active", "settlement", "delisted"} OBVIOUS
  <2> QED BY <1>2, <1>6, <1>11, <2>1, ExpiredRecord
<1>14. /\ m.exchangeFee = market.exchangeFee /\ m.insured = market.insured
       /\ m.liquidationFee = market.liquidationFee /\ m.moved = market.moved
       /\ m.feeWithdrawn = market.feeWithdrawn /\ m.limits = market.limits
       /\ m.feePool = fee /\ m.pnlPool = pnl /\ m.expiryPrice = price
       /\ m.base = market.base /\ m.quote = market.quote
       /\ m.funding = market.funding
  BY <1>2 DEF RawMarket
<1> HIDE DEF m
<1>15. Lost(m, spot) = Lost(market, spot)
  <2>1. {spot.vault, spot.users, spot.revenuePool} \subseteq Int
    BY <1>2 DEF RawSpot
  <2> QED BY <1>3, <1>6, <1>14, <2>1 DEF Lost
<1>16. IInv' /\ Stranded' = Stranded
  BY <1>2, <1>8, <1>13, <1>14, <1>15, MoveKeeps
<1>17. ASSUME market.base # 0 PROVE Shortfall' <= market.funding
  <2>1. Shortfall' = ShortfallOf(m) BY <1>8, ShortfallStep
  <2>2. ShortfallOf(m) = (m.base * m.expiryPrice + (m.quote + m.funding))
                           - (m.pnlPool + m.feePool)
    BY DEF ShortfallOf, NetUserPnl, CostBasis
  <2> DEFINE x == market.base * price
  <2>3. m.base * m.expiryPrice = x BY <1>14, Zenon
  <2>4. x \in Int /\ x <= (market.pnlPool + market.feePool) - market.quote
    BY <1>3, <1>11, <1>12, <1>17
  <2> HIDE DEF x
  <2> QED BY <1>3, <1>6, <1>14, <2>1, <2>2, <2>3, <2>4
<1> QED BY <1>16, <1>17
-----------------------------------------------------------------------------
(* What a market in settlement still owes at its expiry price. *)

(* A step that neither trades nor changes the price, adds no claim and     *)
(* takes nothing from the pools.                                           *)
LEMMA CalmStep ==
  ASSUME IInv, NEW m \in RawMarket, NEW s, Commit(m, s),
         m.base = market.base, m.expiryPrice = market.expiryPrice,
         CostBasis(m) <= CostBasis(market),
         m.pnlPool = market.pnlPool, m.feePool >= market.feePool
  PROVE  Shortfall' <= Shortfall
<1>1. market \in RawMarket BY InvIsSound DEF Sound
<1>2. {CostBasis(m), CostBasis(market), m.pnlPool, m.feePool, market.feePool,
       market.base, market.expiryPrice} \subseteq Int
  BY <1>1 DEF RawMarket, CostBasis
<1> DEFINE x == market.base * market.expiryPrice
<1>3. m.base * m.expiryPrice = x BY Zenon
<1>4. x \in Int BY <1>2
<1>5. ShortfallOf(m) = (m.base * m.expiryPrice + CostBasis(m))
                         - (m.pnlPool + m.feePool)
  BY Zenon DEF ShortfallOf, NetUserPnl
<1>6. ShortfallOf(market) = (x + CostBasis(market))
                              - (market.pnlPool + market.feePool)
  BY Zenon DEF ShortfallOf, NetUserPnl
<1> HIDE DEF x
<1>7. ShortfallOf(m) <= ShortfallOf(market)
  BY <1>2, <1>3, <1>4, <1>5, <1>6
<1> QED BY <1>7, ShortfallStep

LEMMA CollectedFields ==
  ASSUME NEW m \in RawMarket, NEW n \in Int
  PROVE  /\ Collected(m, n).base = m.base
         /\ Collected(m, n).expiryPrice = m.expiryPrice
<1> DEFINE q == m.quote + n
           f == m.funding - n
<1>1. Collected(m, n) = [m EXCEPT !.quote = q, !.funding = f] BY DEF Collected
<1> HIDE DEF q, f
<1> QED BY <1>1 DEF RawMarket

LEMMA LiquidateCalm ==
  ASSUME IInv, Liquidate
  PROVE  Shortfall' <= Shortfall
<1> USE PoolsAssumption
<1>1. PICK fee \in Fees, n \in Pending :
        LET m == Collected(market, n)
        IN Commit([m EXCEPT !.quote = @ - fee, !.liquidationFee = @ + fee], spot)
  BY DEF Liquidate
<1> DEFINE c == Collected(market, n)
           q == c.quote - fee
           l == c.liquidationFee + fee
           m == [c EXCEPT !.quote = q, !.liquidationFee = l]
<1>2. Commit(m, spot) BY <1>1
<1>3. n \in Int /\ Sound(market, spot) /\ market \in RawMarket
  BY PendingIsInt, InvIsSound DEF Sound
<1>4. SameFlows(c) /\ c \in RawMarket
  <2>1. SameFlows(c) BY CollectedSame
  <2> QED BY <2>1 DEF SameFlows
<1>5. CostBasis(c) = CostBasis(market) BY <1>3, CollectedSound
<1>6. c.base = market.base /\ c.expiryPrice = market.expiryPrice
  BY <1>3, CollectedFields
<1> HIDE DEF c
<1>7. q \in Int /\ l \in Int /\ q <= c.quote /\ c.quote \in Int
      /\ c.funding \in Int
  BY <1>4 DEF RawMarket
<1> HIDE DEF q, l
<1>8. m \in RawMarket BY <1>4, <1>7 DEF RawMarket
<1>9. m.base = c.base /\ m.expiryPrice = c.expiryPrice
      /\ m.pnlPool = c.pnlPool /\ m.feePool = c.feePool
      /\ m.quote = q /\ m.funding = c.funding
  BY <1>4 DEF RawMarket
<1> HIDE DEF m
<1>10. CostBasis(m) <= CostBasis(c) BY <1>7, <1>9 DEF CostBasis
<1>11. m.pnlPool = market.pnlPool /\ m.feePool = market.feePool
       /\ market.feePool \in Int
  BY <1>3, <1>4, <1>9 DEF SameFlows, RawMarket
<1> QED BY <1>2, <1>5, <1>6, <1>8, <1>9, <1>10, <1>11, CalmStep

LEMMA SettleFundingCalm ==
  ASSUME IInv, SettleFunding
  PROVE  Shortfall' <= Shortfall
<1>1. PICK n \in Pending : Commit(Collected(market, n), spot)
  BY DEF SettleFunding
<1>2. n \in Int /\ Sound(market, spot) /\ market \in RawMarket
  BY PendingIsInt, InvIsSound DEF Sound
<1>3. SameFlows(Collected(market, n)) BY CollectedSame
<1>4. CostBasis(Collected(market, n)) = CostBasis(market)
  BY <1>2, CollectedSound
<1>5. CostBasis(market) \in Int /\ market.feePool \in Int
  BY <1>2 DEF CostBasis, RawMarket
<1> QED BY <1>1, <1>2, <1>3, <1>4, <1>5, CollectedFields, CalmStep DEF SameFlows

LEMMA TransfersCalm ==
  ASSUME IInv, DepositIntoFeePool \/ SettleRevenue \/ UpdateMaxImbalances
  PROVE  Shortfall' <= Shortfall
<1> USE PoolsAssumption
<1>1. market \in RawMarket /\ {CostBasis(market), market.feePool} \subseteq Int
  BY InvIsSound DEF Sound, RawMarket, CostBasis
<1>2. CASE DepositIntoFeePool
  <2>1. PICK n \in Pnls :
          /\ n > 0
          /\ Commit([market EXCEPT !.surplus = @ + n, !.feePool = @ + n],
                    [spot EXCEPT !.vault = @ + n])
    BY <1>2 DEF DepositIntoFeePool
  <2> DEFINE u == market.surplus + n
             f == market.feePool + n
             m == [market EXCEPT !.surplus = u, !.feePool = f]
  <2>2. u \in Int /\ f \in Int /\ f >= market.feePool
    BY <1>1, <2>1 DEF RawMarket
  <2>3. \E s : Commit(m, s) BY <2>1
  <2> HIDE DEF u, f
  <2>4. m \in RawMarket BY <1>1, <2>2 DEF RawMarket
  <2>5. m.base = market.base /\ m.expiryPrice = market.expiryPrice
        /\ m.pnlPool = market.pnlPool /\ m.feePool = f
        /\ m.quote = market.quote /\ m.funding = market.funding
    BY <1>1 DEF RawMarket
  <2> HIDE DEF m
  <2>6. CostBasis(m) = CostBasis(market) BY <2>5 DEF CostBasis
  <2> QED BY <1>1, <2>2, <2>3, <2>4, <2>5, <2>6, CalmStep
<1>3. CASE SettleRevenue
  <2>1. PICK over \in {market.periodOver, TRUE} :
          \E s : Commit([market EXCEPT !.periodOver = over], s)
    BY <1>3, Zenon DEF SettleRevenue
  <2> DEFINE m == [market EXCEPT !.periodOver = over]
  <2>2. over \in BOOLEAN
    <3>1. market.periodOver \in BOOLEAN BY <1>1 DEF RawMarket
    <3> QED BY <3>1, Zenon
  <2>3. m \in RawMarket BY <1>1, <2>2 DEF RawMarket
  <2>4. m.base = market.base /\ m.expiryPrice = market.expiryPrice
        /\ m.pnlPool = market.pnlPool /\ m.feePool = market.feePool
        /\ m.quote = market.quote /\ m.funding = market.funding
    BY <1>1 DEF RawMarket
  <2>5. \E s : Commit(m, s) BY <2>1
  <2> HIDE DEF m
  <2>6. CostBasis(m) = CostBasis(market) BY <2>4 DEF CostBasis
  <2> QED BY <1>1, <2>3, <2>4, <2>5, <2>6, CalmStep
<1>4. CASE UpdateMaxImbalances
  <2>1. PICK limits \in Limits : Commit([market EXCEPT !.limits = limits], spot)
    BY <1>4 DEF UpdateMaxImbalances
  <2> DEFINE m == [market EXCEPT !.limits = limits]
  <2>2. limits \in [imbalance : Nat, withdraw : Nat, insurance : Nat] OBVIOUS
  <2>3. m \in RawMarket BY <1>1, <2>2 DEF RawMarket
  <2>4. m.base = market.base /\ m.expiryPrice = market.expiryPrice
        /\ m.pnlPool = market.pnlPool /\ m.feePool = market.feePool
        /\ m.quote = market.quote /\ m.funding = market.funding
    BY <1>1 DEF RawMarket
  <2>5. Commit(m, spot) BY <2>1
  <2> HIDE DEF m
  <2>6. CostBasis(m) = CostBasis(market) BY <2>4 DEF CostBasis
  <2> QED BY <1>1, <2>3, <2>4, <2>5, <2>6, CalmStep
<1> QED BY <1>2, <1>3, <1>4
-----------------------------------------------------------------------------
(* The theorems. *)

LEMMA InitSound == ASSUME Init PROVE IInv
<1> USE PoolsAssumption
<1>1. PICK limits \in Limits :
        market = [status |-> "active", pnlPool |-> 0, feePool |-> 0,
                  surplus |-> 0, netRevenue |-> 0, exchangeFee |-> 0,
                  liquidationFee |-> 0, feeWithdrawn |-> 0, socialLoss |-> 0,
                  moved |-> 0, periodOver |-> FALSE, insured |-> 0,
                  limits |-> limits, base |-> 0, quote |-> 0, funding |-> 0,
                  expiryPrice |-> 0]
  BY DEF Init
<1>2. spot = [vault |-> Deposits, insuranceVault |-> Insurance,
              revenuePool |-> 0, users |-> Deposits]
  BY DEF Init
<1>3. limits \in [imbalance : Nat, withdraw : Nat, insurance : Nat] OBVIOUS
<1>4. market \in PerpMarket BY <1>1, <1>3 DEF PerpMarket
<1>5. spot \in SpotMarket BY <1>2 DEF SpotMarket
<1>6. FlowsBounded
  BY <1>1, <1>3 DEF FlowsBounded, TotalFeeLowerBound, Abs
<1>7. Stranded >= 0 BY <1>1, <1>2 DEF Stranded
<1> QED BY <1>4, <1>5, <1>6, <1>7 DEF IInv, TypeOK

(* A step keeps the invariant; it strands tokens only where the fee pool   *)
(* pays for a bankruptcy or a trial settlement refuses a gain; and it      *)
(* leaves a market in settlement no worse covered.                         *)
StrandsKnown == Stranded' # Stranded
                  => ResolvePerpBankruptcy \/ SettlePnlMarket(TRUE, FALSE)
ExpiryStep ==
  /\ SettleExpiredMarket /\ market.base # 0 => Shortfall' <= market.funding
  /\ market.status = "settlement" /\ market'.status = "settlement"
       => \/ Shortfall' <= Shortfall
          \/ SettleExpiredMarket \/ ResolvePerpBankruptcy
          \/ UpdateAmmSummaryStats

LEMMA StepKeeps ==
  ASSUME IInv, Next
  PROVE  IInv' /\ StrandsKnown
<1>1. CASE FillWithAmm BY <1>1, FillWithAmmKeeps DEF StrandsKnown
<1>2. CASE Match BY <1>2, MatchKeeps DEF StrandsKnown
<1>3. CASE Liquidate BY <1>3, LiquidateKeeps DEF StrandsKnown
<1>4. CASE SettleFunding BY <1>4, SettleFundingKeeps DEF StrandsKnown
<1>5. CASE UpdateFundingRate BY <1>5, UpdateFundingRateKeeps DEF StrandsKnown
<1>6. CASE UpdateAmm BY <1>6, UpdateAmmKeeps DEF StrandsKnown
<1>7. CASE UpdateAmmSummaryStats
  BY <1>7, UpdateAmmSummaryStatsKeeps DEF StrandsKnown
<1>8. CASE UpdateMaxImbalances
  BY <1>8, UpdateMaxImbalancesKeeps DEF StrandsKnown
<1>9. CASE DepositIntoFeePool BY <1>9, DepositIntoFeePoolKeeps DEF StrandsKnown
<1>10. CASE SettleRevenue BY <1>10, SettleRevenueKeeps DEF StrandsKnown
<1>11. CASE SettlePnl
  <2>1. PICK trial \in BOOLEAN, own \in BOOLEAN : SettlePnlMarket(trial, own)
    BY <1>11, Zenon DEF SettlePnl
  <2>2. IInv' /\ (Stranded' = Stranded \/ (trial /\ ~own))
    BY <2>1, SettlePnlKeeps, Zenon
  <2>3. trial /\ ~own => trial = TRUE /\ own = FALSE BY Zenon
  <2> QED BY <2>1, <2>2, <2>3, Zenon DEF StrandsKnown
<1>12. CASE ResolvePnlDeficit BY <1>12, ResolvePnlDeficitKeeps DEF StrandsKnown
<1>13. CASE ResolvePerpBankruptcy
  BY <1>13, ResolvePerpBankruptcyKeeps DEF StrandsKnown
<1>14. CASE SettleExpiredMarket
  BY <1>14, SettleExpiredMarketKeeps DEF StrandsKnown
<1>15. CASE SettleExpiredPosition
  BY <1>15, SettleExpiredPositionKeeps DEF StrandsKnown
<1>16. CASE SettlePoolsToRevenuePool
  BY <1>16, SettlePoolsToRevenuePoolKeeps DEF StrandsKnown
<1> QED
  BY <1>1, <1>2, <1>3, <1>4, <1>5, <1>6, <1>7, <1>8, <1>9, <1>10, <1>11,
     <1>12, <1>13, <1>14, <1>15, <1>16, Zenon DEF Next

LEMMA StepIsFair ==
  ASSUME IInv, Next
  PROVE  ExpiryStep
<1>1. ASSUME SettleExpiredMarket, market.base # 0
      PROVE  Shortfall' <= market.funding
  BY <1>1, SettleExpiredMarketKeeps
<1>2. ASSUME market.status = "settlement", market'.status = "settlement"
      PROVE  \/ Shortfall' <= Shortfall
             \/ SettleExpiredMarket \/ ResolvePerpBankruptcy
             \/ UpdateAmmSummaryStats
  <2>1. ~Trading BY <1>2 DEF Trading
  <2>2. ~FillWithAmm /\ ~Match /\ ~UpdateFundingRate /\ ~UpdateAmm
        /\ ~SettlePnl /\ ~ResolvePnlDeficit
    <3>1. ~FillWithAmm BY <2>1 DEF FillWithAmm
    <3>2. ~Match BY <2>1 DEF Match
    <3>3. ~UpdateFundingRate BY <2>1 DEF UpdateFundingRate
    <3>4. ~UpdateAmm BY <2>1 DEF UpdateAmm
    <3>5. ~SettlePnl
      <4>1. ASSUME NEW trial \in BOOLEAN, NEW own \in BOOLEAN,
                   SettlePnlMarket(trial, own)
            PROVE  Trading
        BY <4>1, SMTT(40) DEF SettlePnlMarket
      <4> QED BY <2>1, <4>1, Zenon DEF SettlePnl
    <3>6. ~ResolvePnlDeficit BY <2>1 DEF ResolvePnlDeficit
    <3> QED BY <3>1, <3>2, <3>3, <3>4, <3>5, <3>6, ZenonT(30)
  <2>3. ~SettlePoolsToRevenuePool
    <3>1. ASSUME SettlePoolsToRevenuePool PROVE market'.status = "delisted"
      <4>1. market' = PoolsReleased(market) BY <3>1 DEF SettlePoolsToRevenuePool, Commit
      <4>2. market \in RawMarket BY InvIsSound DEF Sound
      <4> QED BY <4>1, <4>2 DEF PoolsReleased, RawMarket
    <3> QED BY <1>2, <3>1
  <2>4. CASE Liquidate BY <2>4, LiquidateCalm
  <2>5. CASE SettleFunding BY <2>5, SettleFundingCalm
  <2>6. CASE DepositIntoFeePool \/ SettleRevenue \/ UpdateMaxImbalances
    BY <2>6, TransfersCalm
  <2>7. CASE SettleExpiredPosition BY <2>7, SettleExpiredPositionKeeps
  <2> QED BY <2>2, <2>3, <2>4, <2>5, <2>6, <2>7, Zenon DEF Next
<1> QED BY <1>1, <1>2, Zenon DEF ExpiryStep

LEMMA InvStutters == ASSUME IInv, UNCHANGED vars PROVE IInv'
BY DEF IInv, vars, TypeOK, FlowsBounded, Stranded, TotalFeeLowerBound

(* The inductive invariant: types, bounded flows and no token too many.    *)
THEOREM PoolsInvariant == Spec => []IInv
<1>1. Init => IInv BY InitSound
<1>2. IInv /\ [Next]_vars => IInv' BY StepKeeps, InvStutters
<1> QED BY <1>1, <1>2, PTL DEF Spec

(* Revenue withdrawn was earned, and the market moves and draws insurance  *)
(* within its limits, for any limits, fees and order of instructions: no   *)
(* checked subtraction of update_pool_balances gets stuck.                 *)
THEOREM FlowsStayBounded == Spec => []FlowsBounded
<1>1. IInv => FlowsBounded BY DEF IInv
<1> QED BY <1>1, PoolsInvariant, PTL

(* The vault has all tokens of pools and users, and only a bankruptcy paid *)
(* from the fee pool and a refusal in trial mode (pnl.rs:302) leave tokens *)
(* without an owner, for any deposits, prices and limits.                  *)
THEOREM TokensStayAccounted == Spec => TokensAccounted
<1>1. IInv => TypeOK /\ Stranded >= 0 BY DEF IInv
<1>2. IInv /\ [Next]_vars
        => [Stranded' # Stranded => ResolvePerpBankruptcy
                                      \/ SettlePnlMarket(TRUE, FALSE)]_vars
  BY StepKeeps, Zenon DEF StrandsKnown
<1> QED BY <1>1, <1>2, PoolsInvariant, PTL DEF Spec, TokensAccounted

(* calculate_expiry_price leaves users no more than both pools hold but    *)
(* for uncollected funding, and settling a position at that price leaves   *)
(* the rest no worse covered, whatever the positions and prices.           *)
THEOREM ExpirySettlesFairly == Spec => ExpiryFair
<1>1. IInv /\ [Next]_vars => [ExpiryStep]_vars BY StepIsFair, Zenon
<1> QED BY <1>1, PoolsInvariant, PTL DEF Spec, ExpiryFair, ExpiryStep
-----------------------------------------------------------------------------
(* Spot balances.  What an account has deposited of a market, and what all *)
(* of them have, and hold on either side.                                  *)

Owned(b) == IF b.owed THEN 0 ELSE b.n

OwnedIn(p, m) == SumFunctionOnSet([u \in Users |-> Owned(p[u][m])], Users)
HeldIn(p, m) == SumFunctionOnSet([u \in Users |-> p[u][m].n], Users)

\* Within an instruction a total may be anything: it is checked at the end.
UncheckedMarket ==
  [deposits : Int, borrows : Int, depositIndex : Nat, borrowIndex : Nat,
   revenue : Nat, interestTs : Nat,
   depositTwap : Nat, borrowTwap : Nat, utilTwap : Nat, twapTs : Nat,
   status : {"Active", "ReduceOnly"}]

IndicesGrow(mk) == mk.depositIndex >= One /\ mk.borrowIndex >= One

\* A market whose totals agree with the balances p, but for k at most.
AddsUp(mk, p, m, k) ==
  /\ mk \in UncheckedMarket /\ IndicesGrow(mk)
  /\ mk.deposits + mk.borrows = HeldIn(p, m) + mk.revenue
  /\ mk.deposits - OwnedIn(p, m) - mk.revenue \in 0..k
Agrees(mk, p, m, k) == mk \in Market /\ AddsUp(mk, p, m, k)

LedgerInv ==
  /\ SpotTypeOK
  /\ \A m \in SpotMarkets :
       Agrees(spotMarket[m], pos, m, instructions * BelowToken)

Retotalled(mk, d, b) == [mk EXCEPT !.deposits = d, !.borrows = b]

\* What an update of a balance does to it and to the totals of its market:
\* they move together, but for what a deposit below a token leaves behind.
Booked(mk, b, r, k) ==
  /\ r.mk \in UncheckedMarket /\ r.b \in Balance
  /\ r.mk = Retotalled(mk, r.mk.deposits, r.mk.borrows)
  /\ r.mk.deposits + r.mk.borrows - r.b.n = mk.deposits + mk.borrows - b.n
  /\ r.mk.deposits - Owned(r.b) - (mk.deposits - Owned(b)) \in 0..k

LEMMA MarketIsRaw ==
  ASSUME NEW mk \in Market
  PROVE  mk \in UncheckedMarket
BY DEF Market, UncheckedMarket

LEMMA SpotConstants ==
  /\ One \in Nat \ {0} /\ Precision \in Nat \ {0} /\ BelowToken \in Nat
<1>1. One \in Nat \ {0} /\ Precision \in Nat \ {0}
  BY SpotLedgerAssumption
<1> QED
  BY <1>1, DivBounds DEF BelowToken
-----------------------------------------------------------------------------
(* Arithmetic of scaled balances.                                          *)

LEMMA ProductOrder ==
  ASSUME NEW a \in Nat, NEW b \in Nat, NEW c \in Nat, a <= b
  PROVE  a * c <= b * c /\ a * c \in Nat /\ b * c \in Nat
OBVIOUS

LEMMA ProductCancels ==
  ASSUME NEW a \in Nat, NEW b \in Nat, NEW c \in Nat, c * a < c * b
  PROVE  a < b
<1>1. CASE b <= a
  BY <1>1, ProductOrder
<1> QED
  BY <1>1

LEMMA DivAtLeast ==
  ASSUME NEW a \in Nat, NEW n \in Nat, NEW d \in Nat \ {0}, n * d <= a
  PROVE  n <= a \div d
<1>1. a < d * (a \div d) + d /\ a \div d \in Nat
  BY DivBounds
<1> DEFINE q == a \div d
<1> HIDE DEF q
<1>2. d * n < d * (q + 1)
  BY <1>1 DEF q
<1>3. n < q + 1
  BY <1>1, <1>2, ProductCancels DEF q
<1> QED
  BY <1>1, <1>3 DEF q

\* Tokens of n scaled units, rounded down or up, and the units of fewer.
LEMMA FewerTokensFewerUnits ==
  ASSUME NEW n \in Nat, NEW x \in Nat \ {0}, NEW P \in Nat \ {0}, NEW t \in Nat,
         t < (n * x) \div P \/ t < UpDiv(n * x, P)
  PROVE  (t * P) \div x + 1 <= n /\ (t * P) \div x \in Nat
<1> DEFINE nx == n * x
           s  == (t * P) \div x
<1>1. nx \in Nat /\ nx + P - 1 \in Nat /\ t * P \in Nat
  OBVIOUS
<1>2. x * s <= t * P /\ s \in Nat
  BY <1>1, DivBounds
<1>3. P * (t + 1) <= nx + P - 1
  <2>1. CASE t < nx \div P
    <3> DEFINE h == nx \div P
    <3>1. P * h <= nx /\ h \in Nat
      BY <1>1, DivBounds
    <3>2. t + 1 <= h
      BY <2>1, <3>1
    <3> HIDE DEF h, nx
    <3>3. (t + 1) * P <= h * P
      BY <3>1, <3>2, ProductOrder
    <3> QED
      BY <1>1, <3>1, <3>3
  <2>2. CASE t < UpDiv(nx, P)
    <3> DEFINE h == (nx + P - 1) \div P
    <3>1. P * h <= nx + P - 1 /\ h \in Nat
      BY <1>1, DivBounds
    <3>2. t + 1 <= h
      BY <2>2, <3>1 DEF UpDiv
    <3> HIDE DEF h, nx
    <3>3. (t + 1) * P <= h * P
      BY <3>1, <3>2, ProductOrder
    <3> QED
      BY <1>1, <3>1, <3>3
  <2> QED
    BY <2>1, <2>2
<1>4. x * s < x * n
  <2>1. P * (t + 1) = t * P + P /\ x * n = nx
    OBVIOUS
  <2> HIDE DEF s, nx
  <2>2. x * s \in Nat
    BY <1>2
  <2> QED
    BY <1>1, <1>2, <1>3, <2>1, <2>2
<1> HIDE DEF s
<1>5. s < n
  BY <1>2, <1>4, ProductCancels
<1> QED
  BY <1>2, <1>5 DEF s

LEMMA HeldType ==
  ASSUME NEW mk \in UncheckedMarket, NEW b \in Balance
  PROVE  Held(mk, b) \in Nat
<1>1. Precision \in Nat \ {0} /\ mk.borrowIndex \in Nat /\ mk.depositIndex \in Nat
      /\ b.n \in Nat
  BY SpotConstants DEF UncheckedMarket, Balance
<1>2. b.n * mk.borrowIndex \in Nat /\ b.n * mk.depositIndex \in Nat
  BY <1>1
<1>3. b.n * mk.borrowIndex + Precision - 1 \in Nat
  BY <1>1, <1>2
<1> QED
  BY <1>1, <1>2, <1>3, DivBounds DEF Held, Tokens, UpDiv

LEMMA ScaledType ==
  ASSUME NEW mk \in UncheckedMarket, IndicesGrow(mk), NEW owed \in BOOLEAN,
         NEW tokens \in Nat, NEW up \in BOOLEAN
  PROVE  Scaled(mk, owed, tokens, up) \in Nat
<1> DEFINE x == Index(mk, owed)
<1>1. x \in Nat \ {0} /\ Precision \in Nat
  BY SpotConstants DEF Index, IndicesGrow, UncheckedMarket
<1> HIDE DEF x
<1>2. tokens * Precision \in Nat
  BY <1>1
<1>3. (tokens * Precision) \div x \in Nat
  BY <1>1, <1>2, DivBounds
<1> QED
  BY <1>3 DEF Scaled, x

\* Paying off less than what is held never takes more units than there are.
LEMMA ScaledFits ==
  ASSUME NEW mk \in UncheckedMarket, IndicesGrow(mk), NEW b \in Balance,
         NEW tokens \in Nat, tokens < Held(mk, b), NEW up \in BOOLEAN
  PROVE  Scaled(mk, b.owed, tokens, up) <= b.n
<1> DEFINE x == Index(mk, b.owed)
<1>1. x \in Nat \ {0} /\ Precision \in Nat \ {0} /\ b.n \in Nat /\ b.owed \in BOOLEAN
  BY SpotConstants DEF Index, IndicesGrow, UncheckedMarket, Balance
<1>2. tokens < (b.n * x) \div Precision \/ tokens < UpDiv(b.n * x, Precision)
  BY DEF Held, Tokens, Index
<1> HIDE DEF x
<1>3. (tokens * Precision) \div x + 1 <= b.n /\ (tokens * Precision) \div x \in Nat
  BY <1>1, <1>2, FewerTokensFewerUnits
<1> QED
  BY <1>1, <1>3 DEF Scaled, x

\* A balance of no tokens is empty, or a deposit that is below a token.
LEMMA HeldNothing ==
  ASSUME NEW mk \in UncheckedMarket, IndicesGrow(mk), NEW b \in Balance, Held(mk, b) = 0
  PROVE  b.n <= BelowToken /\ (b.owed => b.n = 0)
<1>1. /\ Precision \in Nat \ {0} /\ One \in Nat \ {0} /\ BelowToken \in Nat
      /\ mk.borrowIndex \in Nat \ {0} /\ mk.depositIndex \in Nat
      /\ mk.depositIndex >= One /\ b.n \in Nat /\ b.owed \in BOOLEAN
  BY SpotConstants DEF UncheckedMarket, Balance, IndicesGrow
<1>2. CASE b.owed
  <2> DEFINE nx == b.n * mk.borrowIndex
  <2>1. nx \in Nat
    BY <1>1
  <2>2. (nx + Precision - 1) \div Precision = 0
    BY <1>2 DEF Held, Tokens, UpDiv
  <2>3. nx = 0
    <3> HIDE DEF nx
    <3>1. nx + Precision - 1 \in Nat
      BY <1>1, <2>1
    <3>2. nx + Precision - 1 < Precision * 0 + Precision
      BY <1>1, <2>2, <3>1, DivBounds
    <3> QED
      BY <1>1, <2>1, <3>2
  <2>4. b.n = 0
    BY <1>1, <2>3
  <2> QED
    BY <1>1, <2>4
<1>3. CASE ~b.owed
  <2> DEFINE nx == b.n * mk.depositIndex
  <2>1. nx \in Nat
    BY <1>1
  <2>2. nx \div Precision = 0
    BY <1>3 DEF Held, Tokens
  <2>3. nx <= Precision - 1
    <3> HIDE DEF nx
    <3>1. nx < Precision * 0 + Precision
      BY <1>1, <2>1, <2>2, DivBounds
    <3> QED
      BY <1>1, <2>1, <3>1
  <2>4. One * b.n <= mk.depositIndex * b.n
    BY <1>1, ProductOrder
  <2>5. b.n * One <= Precision - 1 /\ Precision - 1 \in Nat
    BY <1>1, <2>1, <2>3, <2>4
  <2>6. b.n <= BelowToken
    BY <1>1, <2>5, DivAtLeast DEF BelowToken
  <2> QED
    BY <1>3, <2>6
<1> QED
  BY <1>2, <1>3
-----------------------------------------------------------------------------
(* One balance moves, and its market with it.                              *)

LEMMA GrownIs ==
  ASSUME NEW mk \in UncheckedMarket, NEW b \in Balance, NEW owed \in BOOLEAN,
         NEW d \in Int, b.n + d >= 0, NEW r, r = Grown(mk, b, owed, d)
  PROVE  /\ r.mk \in UncheckedMarket /\ r.b \in Balance
         /\ r.mk = Retotalled(mk, r.mk.deposits, r.mk.borrows)
         /\ owed => /\ r.mk.deposits = mk.deposits
                    /\ r.mk.borrows = mk.borrows + d
         /\ ~owed => /\ r.mk.deposits = mk.deposits + d
                     /\ r.mk.borrows = mk.borrows
         /\ r.b.owed = owed /\ r.b.n = b.n + d
<1>1. mk.deposits + d \in Int /\ mk.borrows + d \in Int /\ mk.deposits \in Int
      /\ mk.borrows \in Int /\ b.n + d \in Nat
  BY DEF UncheckedMarket, Balance
<1>2. [mk EXCEPT !.deposits = @ + d] \in UncheckedMarket
      /\ [mk EXCEPT !.borrows = @ + d] \in UncheckedMarket
  BY <1>1 DEF UncheckedMarket
<1>3. [b EXCEPT !.owed = owed, !.n = @ + d] \in Balance
  BY <1>1 DEF Balance
<1>4. /\ r.b = [b EXCEPT !.owed = owed, !.n = @ + d]
      /\ owed => r.mk = [mk EXCEPT !.borrows = @ + d]
      /\ ~owed => r.mk = [mk EXCEPT !.deposits = @ + d]
  BY DEF Grown
<1>5. [b EXCEPT !.owed = owed, !.n = @ + d].owed = owed
      /\ [b EXCEPT !.owed = owed, !.n = @ + d].n = b.n + d
  BY DEF Balance
<1>8. r.b.owed = owed /\ r.b.n = b.n + d /\ r.b \in Balance
  BY <1>3, <1>4, <1>5
<1>6. CASE owed
  <2>1. [mk EXCEPT !.borrows = @ + d]
          = Retotalled(mk, mk.deposits, mk.borrows + d)
        /\ [mk EXCEPT !.borrows = @ + d].deposits = mk.deposits
        /\ [mk EXCEPT !.borrows = @ + d].borrows = mk.borrows + d
    BY DEF UncheckedMarket, Retotalled
  <2> QED
    BY <1>2, <1>4, <1>6, <1>8, <2>1
<1>7. CASE ~owed
  <2>1. [mk EXCEPT !.deposits = @ + d]
          = Retotalled(mk, mk.deposits + d, mk.borrows)
        /\ [mk EXCEPT !.deposits = @ + d].deposits = mk.deposits + d
        /\ [mk EXCEPT !.deposits = @ + d].borrows = mk.borrows
    BY DEF UncheckedMarket, Retotalled
  <2> QED
    BY <1>2, <1>4, <1>7, <1>8, <2>1
<1> QED
  BY <1>6, <1>7

\* A balance that stays on its side, or comes to it from nothing.
LEMMA GrownBooks ==
  ASSUME NEW mk \in UncheckedMarket, NEW b \in Balance, NEW owed \in BOOLEAN,
         NEW d \in Int, b.n + d >= 0, NEW k \in Nat,
         (owed <=> b.owed) \/ b.n = 0 \/ (owed /\ b.n <= k),
         NEW r, r = Grown(mk, b, owed, d)
  PROVE  Booked(mk, b, r, k)
<1>1. /\ r.mk \in UncheckedMarket /\ r.b \in Balance
      /\ r.mk = Retotalled(mk, r.mk.deposits, r.mk.borrows)
      /\ owed => r.mk.deposits = mk.deposits /\ r.mk.borrows = mk.borrows + d
      /\ ~owed => r.mk.deposits = mk.deposits + d /\ r.mk.borrows = mk.borrows
      /\ r.b.owed = owed /\ r.b.n = b.n + d
  BY GrownIs
<1>2. mk.deposits \in Int /\ mk.borrows \in Int /\ b.n \in Nat /\ b.owed \in BOOLEAN
  BY DEF UncheckedMarket, Balance
<1>3. r.mk.deposits + r.mk.borrows - r.b.n = mk.deposits + mk.borrows - b.n
  BY <1>1, <1>2
<1>4. r.mk.deposits - Owned(r.b) - (mk.deposits - Owned(b)) \in 0..k
  <2>1. CASE owed
    <3>1. r.mk.deposits = mk.deposits /\ Owned(r.b) = 0
      BY <1>1, <2>1 DEF Owned
    <3>2. Owned(b) \in 0..k
      <4>1. CASE b.owed
        BY <4>1 DEF Owned
      <4>2. CASE ~b.owed
        <5>1. b.n <= k
          BY <1>2, <2>1, <4>2
        <5> QED
          BY <1>2, <4>2, <5>1 DEF Owned
      <4> QED
        BY <4>1, <4>2
    <3> QED
      BY <1>2, <3>1, <3>2
  <2>2. CASE ~owed
    BY <1>1, <1>2, <2>2 DEF Owned
  <2> QED
    BY <2>1, <2>2
<1> QED
  BY <1>1, <1>3, <1>4 DEF Booked

LEMMA BookedTwice ==
  ASSUME NEW mk \in UncheckedMarket, NEW b \in Balance, NEW r, NEW s, NEW j \in Nat,
         NEW k \in Nat, Booked(mk, b, r, j), Booked(r.mk, r.b, s, k)
  PROVE  Booked(mk, b, s, j + k)
<1>1. r.mk \in UncheckedMarket /\ r.b \in Balance /\ s.mk \in UncheckedMarket /\ s.b \in Balance
  BY DEF Booked
<1>2. /\ \A x \in {mk, r.mk, s.mk} : x.deposits \in Int /\ x.borrows \in Int
      /\ \A x \in {b, r.b, s.b} : x.n \in Nat /\ Owned(x) \in Nat
  BY <1>1 DEF UncheckedMarket, Balance, Owned
<1>3. s.mk = Retotalled(mk, s.mk.deposits, s.mk.borrows)
  <2> DEFINE x == r.mk.deposits
             y == r.mk.borrows
             v == s.mk.deposits
             w == s.mk.borrows
  <2>1. r.mk = Retotalled(mk, x, y) /\ s.mk = Retotalled(r.mk, v, w)
    BY DEF Booked
  <2> HIDE DEF x, y, v, w
  <2>2. Retotalled(Retotalled(mk, x, y), v, w) = Retotalled(mk, v, w)
    BY DEF UncheckedMarket, Retotalled
  <2> QED
    BY <2>1, <2>2 DEF v, w
<1>4. s.mk.deposits + s.mk.borrows - s.b.n = mk.deposits + mk.borrows - b.n
  BY <1>2 DEF Booked
<1>5. s.mk.deposits - Owned(s.b) - (mk.deposits - Owned(b)) \in 0..(j + k)
  BY <1>2 DEF Booked
<1> QED
  BY <1>1, <1>3, <1>4, <1>5 DEF Booked

LEMMA BookedGrows ==
  ASSUME NEW mk \in UncheckedMarket, IndicesGrow(mk), NEW b, NEW r, NEW k,
         Booked(mk, b, r, k)
  PROVE  IndicesGrow(r.mk)
<1>1. r.mk.depositIndex = mk.depositIndex /\ r.mk.borrowIndex = mk.borrowIndex
  BY DEF Booked, UncheckedMarket, Retotalled
<1> QED
  BY <1>1 DEF IndicesGrow

\* What a deposit below a token leaves when it turns into a borrow.
Left(owed) == IF owed THEN BelowToken ELSE 0

\* Paying off leaves nothing, or nothing to extend, or less than a token.
LEMMA PaidOffBooks ==
  ASSUME NEW mk \in UncheckedMarket, IndicesGrow(mk), NEW b \in Balance,
         NEW tokens \in Nat, NEW leaving \in BOOLEAN
  PROVE  LET r == PaidOff(mk, b, Held(mk, b), tokens, leaving)
         IN  /\ Booked(mk, b, r, 0) /\ r.b.owed = b.owed
             /\ tokens < Held(mk, b) \/ r.b.n = 0
                  \/ (Held(mk, b) = 0 /\ r.b.n = b.n)
<1> DEFINE held == Held(mk, b)
           d == IF held = 0 THEN 0
                ELSE IF held > tokens THEN Scaled(mk, b.owed, tokens, leaving \/ b.owed)
                ELSE b.n
           r == Grown(mk, b, b.owed, -d)
<1>1. PaidOff(mk, b, held, tokens, leaving) = r
  BY DEF PaidOff
<1>2. held \in Nat /\ b.n \in Nat /\ b.owed \in BOOLEAN
  BY HeldType DEF Balance
<1>3. d \in Nat /\ d <= b.n
  <2>1. held > tokens => /\ Scaled(mk, b.owed, tokens, leaving \/ b.owed) \in Nat
                         /\ Scaled(mk, b.owed, tokens, leaving \/ b.owed) <= b.n
    BY <1>2, ScaledType, ScaledFits
  <2> QED
    BY <1>2, <2>1
<1>4. (held = 0 => d = 0) /\ (held # 0 /\ held <= tokens => d = b.n)
  BY <1>2
<1>8. r = Grown(mk, b, b.owed, -d)
  OBVIOUS
<1> HIDE DEF d, r
<1>5. -d \in Int /\ b.n + (-d) >= 0
  BY <1>2, <1>3
<1>6. Booked(mk, b, r, 0)
  BY <1>2, <1>5, <1>8, GrownBooks
<1>7. r.b.owed = b.owed /\ r.b.n = b.n + (-d)
  BY <1>2, <1>5, <1>8, GrownIs
<1> HIDE DEF held
<1> QED
  BY <1>1, <1>2, <1>3, <1>4, <1>6, <1>7 DEF held

LEMMA UpdateBooks ==
  ASSUME NEW mk \in UncheckedMarket, IndicesGrow(mk), NEW b \in Balance,
         NEW owed \in BOOLEAN, NEW tokens \in Nat, NEW leaving \in BOOLEAN
  PROVE  Booked(mk, b, UpdateSpotBalances(mk, b, owed, tokens, leaving), Left(owed))
<1>1. BelowToken \in Nat /\ Left(owed) \in Nat /\ b.n \in Nat /\ b.owed \in BOOLEAN
  BY SpotConstants DEF Left, Balance
<1>2. CASE owed = b.owed
  <2> DEFINE d == Scaled(mk, owed, tokens, owed)
  <2>1. d \in Nat
    BY ScaledType
  <2> HIDE DEF d
  <2>2. Booked(mk, b, Grown(mk, b, owed, d), Left(owed))
    BY <1>1, <1>2, <2>1, GrownBooks
  <2> QED
    BY <1>2, <2>2 DEF UpdateSpotBalances, d
<1>3. CASE owed # b.owed
  <2> DEFINE held == Held(mk, b)
             r == PaidOff(mk, b, held, tokens, leaving)
             rest == Floored(tokens - held)
             s == Extended(r, owed, rest)
  <2>1. UpdateSpotBalances(mk, b, owed, tokens, leaving) = s
    BY <1>3 DEF UpdateSpotBalances
  <2>2. /\ Booked(mk, b, r, 0) /\ r.b.owed = b.owed
        /\ tokens < held \/ r.b.n = 0 \/ (held = 0 /\ r.b.n = b.n)
    BY PaidOffBooks
  <2>3. held \in Nat /\ rest \in Nat /\ (tokens < held => rest = 0)
    BY HeldType DEF Floored, Larger
  <2>4. held = 0 => b.n <= BelowToken /\ (b.owed => b.n = 0)
    BY HeldNothing
  <2>5. r.mk \in UncheckedMarket /\ r.b \in Balance /\ IndicesGrow(r.mk)
    BY <2>2, BookedGrows DEF Booked
  <2> HIDE DEF held, r, rest
  <2>6. CASE rest = 0
    <3>1. s = r
      BY <2>6 DEF Extended
    <3>2. Booked(mk, b, r, Left(owed))
      BY <1>1, <2>2 DEF Booked
    <3> QED
      BY <2>1, <3>1, <3>2
  <2>7. CASE rest # 0
    <3> DEFINE d == Scaled(r.mk, owed, rest, owed)
    <3>1. s = Grown(r.mk, r.b, owed, d)
      BY <2>7 DEF Extended
    <3>2. d \in Nat /\ r.b.n \in Nat
      BY <2>3, <2>5, ScaledType DEF Balance
    <3>3. r.b.n = 0 \/ (owed /\ r.b.n <= Left(owed))
      BY <1>1, <1>3, <2>2, <2>3, <2>4, <2>7 DEF Left
    <3> HIDE DEF d
    <3>4. Booked(r.mk, r.b, s, Left(owed))
      BY <1>1, <2>5, <3>1, <3>2, <3>3, GrownBooks
    <3> HIDE DEF s
    <3>5. Booked(mk, b, s, 0 + Left(owed))
      BY <1>1, <2>2, <3>4, BookedTwice
    <3>6. 0 + Left(owed) = Left(owed)
      BY <1>1
    <3> QED
      BY <2>1, <3>5, <3>6
  <2> QED
    BY <2>6, <2>7
<1> QED
  BY <1>2, <1>3

LEMMA MoveBooks ==
  ASSUME NEW mk \in UncheckedMarket, IndicesGrow(mk), NEW b \in Balance,
         NEW owed \in BOOLEAN, NEW tokens \in Nat, NEW leaving \in BOOLEAN
  PROVE  Booked(mk, b, Move(mk, b, owed, tokens, leaving), Left(owed))
<1> DEFINE c == [b EXCEPT !.net = IF owed THEN @ - tokens ELSE @ + tokens]
<1>1. c \in Balance /\ c.n = b.n /\ c.owed = b.owed
  BY DEF Balance
<1>2. Move(mk, b, owed, tokens, leaving) = UpdateSpotBalances(mk, c, owed, tokens, leaving)
  BY DEF Move
<1> HIDE DEF c
<1>3. Booked(mk, c, Move(mk, b, owed, tokens, leaving), Left(owed))
  BY <1>1, <1>2, UpdateBooks
<1> QED
  BY <1>1, <1>3 DEF Booked, Owned
-----------------------------------------------------------------------------
(* The balances of a market.                                               *)

Positions == [Users -> [SpotMarkets -> Balance]]

LEMMA BalanceParts ==
  ASSUME NEW b \in Balance
  PROVE  b.n \in Nat /\ Owned(b) \in Nat /\ b.owed \in BOOLEAN
BY DEF Balance, Owned

LEMMA ColumnSame ==
  ASSUME NEW p \in Positions, NEW q, NEW m \in SpotMarkets,
         \A u \in Users : q[u][m] = p[u][m]
  PROVE  OwnedIn(q, m) = OwnedIn(p, m) /\ HeldIn(q, m) = HeldIn(p, m)
<1> DEFINE F == [u \in Users |-> Owned(p[u][m])]
           G == [u \in Users |-> Owned(q[u][m])]
           H == [u \in Users |-> p[u][m].n]
           J == [u \in Users |-> q[u][m].n]
<1>1. F = G /\ H = J
  OBVIOUS
<1> QED
  BY <1>1 DEF OwnedIn, HeldIn

LEMMA ColumnType ==
  ASSUME NEW p \in Positions, NEW m \in SpotMarkets
  PROVE  OwnedIn(p, m) \in Nat /\ HeldIn(p, m) \in Nat
<1> DEFINE F == [u \in Users |-> Owned(p[u][m])]
           H == [u \in Users |-> p[u][m].n]
<1>1. \A u \in Users : F[u] \in Nat /\ H[u] \in Nat
  BY BalanceParts DEF Positions
<1>2. IsFiniteSet(Users)
  BY SpotLedgerAssumption
<1> HIDE DEF F, H
<1>3. SumFunctionOnSet(F, Users) \in Nat
  BY <1>1, <1>2, SumIsNat
<1>4. SumFunctionOnSet(H, Users) \in Nat
  BY <1>1, <1>2, SumIsNat
<1> QED
  BY <1>3, <1>4 DEF F, H, OwnedIn, HeldIn

LEMMA ColumnMoves ==
  ASSUME NEW p \in Positions, NEW q \in Positions, NEW m \in SpotMarkets,
         NEW u \in Users, \A v \in Users : v # u => q[v][m] = p[v][m]
  PROVE  /\ OwnedIn(q, m) = OwnedIn(p, m) + (Owned(q[u][m]) - Owned(p[u][m]))
         /\ HeldIn(q, m) = HeldIn(p, m) + (q[u][m].n - p[u][m].n)
<1> DEFINE F == [v \in Users |-> Owned(p[v][m])]
           G == [v \in Users |-> Owned(q[v][m])]
           H == [v \in Users |-> p[v][m].n]
           J == [v \in Users |-> q[v][m].n]
<1>1. \A v \in Users : F[v] \in Int /\ H[v] \in Int
  BY BalanceParts DEF Positions
<1>2. G[u] \in Int /\ J[u] \in Int
  BY BalanceParts DEF Positions
<1>3. \A v \in Users : v # u => F[v] = G[v] /\ H[v] = J[v]
  OBVIOUS
<1>4. IsFiniteSet(Users)
  BY SpotLedgerAssumption
<1>5. /\ F[u] = Owned(p[u][m]) /\ G[u] = Owned(q[u][m])
      /\ H[u] = p[u][m].n /\ J[u] = q[u][m].n
  OBVIOUS
<1> HIDE DEF F, G, H, J
<1>6. SumFunctionOnSet(G, Users) = SumFunctionOnSet(F, Users) + (G[u] - F[u])
  BY <1>1, <1>2, <1>3, <1>4, SumUpdate
<1>7. SumFunctionOnSet(J, Users) = SumFunctionOnSet(H, Users) + (J[u] - H[u])
  BY <1>1, <1>2, <1>3, <1>4, SumUpdate
<1> QED
  BY <1>5, <1>6, <1>7 DEF F, G, H, J, OwnedIn, HeldIn

LEMMA TotalAdds ==
  ASSUME NEW d \in Int, NEW b \in Int, NEW x \in Int, NEW y \in Int, NEW h \in Int,
         NEW g \in Int, NEW e \in Int, NEW c \in Int, NEW r \in Int,
         e + c - y = d + b - x, d + b = h + r, g = h + (y - x)
  PROVE  e + c = g + r
OBVIOUS

LEMMA DriftAdds ==
  ASSUME NEW d \in Int, NEW x \in Int, NEW y \in Int, NEW h \in Int, NEW g \in Int,
         NEW e \in Int, NEW r \in Int, NEW j \in Nat, NEW k \in Nat,
         e - y - (d - x) \in 0..k, d - h - r \in 0..j, g = h + (y - x)
  PROVE  e - g - r \in 0..(j + k)
OBVIOUS

\* A balance and its market moved together.
LEMMA BookAddsUp ==
  ASSUME NEW p \in Positions, NEW q \in Positions, NEW m \in SpotMarkets,
         NEW u \in Users, \A v \in Users : v # u => q[v][m] = p[v][m],
         NEW mk, NEW j \in Nat, NEW k \in Nat, AddsUp(mk, p, m, j),
         NEW r, Booked(mk, p[u][m], r, k), r.b = q[u][m]
  PROVE  AddsUp(r.mk, q, m, j + k)
<1> DEFINE new == r.mk
<1>1. /\ mk \in UncheckedMarket /\ IndicesGrow(mk) /\ new \in UncheckedMarket
      /\ new = Retotalled(mk, new.deposits, new.borrows)
  BY DEF AddsUp, Booked
<1>2. new.revenue = mk.revenue /\ IndicesGrow(new)
  <2>1. new.revenue = mk.revenue /\ new.depositIndex = mk.depositIndex
        /\ new.borrowIndex = mk.borrowIndex
    BY <1>1 DEF Retotalled, UncheckedMarket
  <2> QED
    BY <1>1, <2>1 DEF IndicesGrow
<1>4. p[u][m] \in Balance /\ q[u][m] \in Balance
  BY DEF Positions
<1>5. /\ p[u][m].n \in Nat /\ Owned(p[u][m]) \in Nat
      /\ q[u][m].n \in Nat /\ Owned(q[u][m]) \in Nat
  BY <1>4, BalanceParts
<1>6. /\ OwnedIn(q, m) = OwnedIn(p, m) + (Owned(q[u][m]) - Owned(p[u][m]))
      /\ HeldIn(q, m) = HeldIn(p, m) + (q[u][m].n - p[u][m].n)
  BY ColumnMoves
<1>7. OwnedIn(p, m) \in Nat /\ HeldIn(p, m) \in Nat /\ HeldIn(q, m) \in Nat
      /\ OwnedIn(q, m) \in Nat
  BY ColumnType
<1>8. /\ new.deposits + new.borrows - q[u][m].n = mk.deposits + mk.borrows - p[u][m].n
      /\ new.deposits - Owned(q[u][m]) - (mk.deposits - Owned(p[u][m])) \in 0..k
  BY DEF Booked
<1>9. /\ mk.deposits \in Int /\ mk.borrows \in Int /\ mk.revenue \in Int
      /\ new.deposits \in Int /\ new.borrows \in Int
  BY <1>1 DEF UncheckedMarket
<1>10. /\ mk.deposits + mk.borrows = HeldIn(p, m) + mk.revenue
       /\ mk.deposits - OwnedIn(p, m) - mk.revenue \in 0..j
  BY DEF AddsUp
<1> DEFINE d == mk.deposits
           b == mk.borrows
           s == mk.revenue
           e == new.deposits
           c == new.borrows
           x == p[u][m].n
           y == q[u][m].n
           ox == Owned(p[u][m])
           oy == Owned(q[u][m])
           h == HeldIn(p, m)
           g == HeldIn(q, m)
           oh == OwnedIn(p, m)
           og == OwnedIn(q, m)
<1>11. /\ d \in Int /\ b \in Int /\ s \in Int /\ e \in Int /\ c \in Int
       /\ x \in Int /\ y \in Int /\ ox \in Int /\ oy \in Int
       /\ h \in Int /\ g \in Int /\ oh \in Int /\ og \in Int
  BY <1>5, <1>7, <1>9
<1>12. /\ e + c - y = d + b - x /\ d + b = h + s /\ g = h + (y - x)
       /\ e - oy - (d - ox) \in 0..k /\ d - oh - s \in 0..j /\ og = oh + (oy - ox)
  BY <1>6, <1>8, <1>10
<1> HIDE DEF d, b, s, e, c, x, y, ox, oy, h, g, oh, og
<1>13. e + c = g + s
  BY <1>11, <1>12, TotalAdds
<1>14. e - og - s \in 0..(j + k)
  BY <1>11, <1>12, DriftAdds
<1>15. new.deposits + new.borrows = HeldIn(q, m) + new.revenue
  BY <1>2, <1>13 DEF e, c, g, s
<1>16. new.deposits - OwnedIn(q, m) - new.revenue \in 0..(j + k)
  BY <1>2, <1>14 DEF e, og, s
<1> QED
  BY <1>1, <1>2, <1>15, <1>16 DEF AddsUp, new

LEMMA CoveredMarket ==
  ASSUME NEW mk \in UncheckedMarket, Covered(mk)
  PROVE  mk \in Market
<1>1. mk.deposits \in Nat /\ mk.borrows \in Nat
  BY DEF UncheckedMarket, Covered
<1> QED
  BY <1>1 DEF UncheckedMarket, Market

LEMMA BookKeepsAgreement ==
  ASSUME NEW p \in Positions, NEW q \in Positions, NEW m \in SpotMarkets,
         NEW u \in Users, \A v \in Users : v # u => q[v][m] = p[v][m],
         NEW mk, NEW j \in Nat, NEW k \in Nat, AddsUp(mk, p, m, j),
         NEW r, Booked(mk, p[u][m], r, k), r.b = q[u][m], Covered(r.mk)
  PROVE  Agrees(r.mk, q, m, j + k)
<1>1. AddsUp(r.mk, q, m, j + k)
  BY BookAddsUp
<1>2. r.mk \in Market
  BY CoveredMarket DEF Booked
<1> QED
  BY <1>1, <1>2 DEF Agrees

LEMMA AgreesLonger ==
  ASSUME NEW mk, NEW p \in Positions, NEW q, NEW m \in SpotMarkets, NEW j \in Nat,
         NEW k \in Nat, j <= k, Agrees(mk, p, m, j), \A u \in Users : q[u][m] = p[u][m]
  PROVE  Agrees(mk, q, m, k)
<1>1. OwnedIn(q, m) = OwnedIn(p, m) /\ HeldIn(q, m) = HeldIn(p, m)
  BY ColumnSame
<1>2. mk.deposits - OwnedIn(p, m) - mk.revenue \in 0..k
  BY DEF Agrees, AddsUp
<1> QED
  BY <1>1, <1>2 DEF Agrees, AddsUp
-----------------------------------------------------------------------------
(* Interest.                                                               *)

LEMMA QuotientIsNat ==
  ASSUME NEW a \in Nat, NEW b \in Nat, NEW c \in Nat \ {0}
  PROVE  (a * b) \div c \in Nat
<1>1. a * b \in Nat
  OBVIOUS
<1> QED
  BY <1>1, DivBounds

LEMMA MarketTokens ==
  ASSUME NEW mk \in Market
  PROVE  DepositTokens(mk) \in Nat /\ BorrowTokens(mk) \in Nat
<1> DEFINE b == [owed |-> FALSE, n |-> mk.deposits, net |-> 0]
           c == [owed |-> TRUE, n |-> mk.borrows, net |-> 0]
<1>1. b \in Balance /\ c \in Balance /\ mk \in UncheckedMarket
  BY DEF Balance, Market, UncheckedMarket
<1>2. DepositTokens(mk) = Held(mk, b) /\ BorrowTokens(mk) = Held(mk, c)
  BY DEF DepositTokens, BorrowTokens, Held
<1> HIDE DEF b, c
<1> QED
  BY <1>1, <1>2, HeldType

LEMMA UtilizationType ==
  ASSUME NEW mk \in Market
  PROVE  Utilization(mk) \in Nat
<1> DEFINE d == DepositTokens(mk)
           b == BorrowTokens(mk)
<1>1. d \in Nat /\ b \in Nat /\ UtilPrecision \in Nat
  BY MarketTokens, SpotLedgerAssumption
<1> HIDE DEF d, b
<1>2. d # 0 => (b * UtilPrecision) \div d \in Nat
  BY <1>1, QuotientIsNat
<1> QED
  BY <1>1, <1>2 DEF Utilization, d, b

LEMMA MemberOfSeq ==
  ASSUME NEW S, NEW s \in Seq(S), NEW i \in 1..Len(s)
  PROVE  s[i] \in S
OBVIOUS

LEMMA BorrowRateType ==
  ASSUME NEW util \in Nat
  PROVE  BorrowRate(util) \in Nat
<1> DEFINE F == [i \in Reached(util) |-> RateWithin(i, util)]
           flat == (util * ((OptimalRate * UtilPrecision) \div OptimalUtil))
                     \div UtilPrecision
           steep == OptimalRate + SumFunctionOnSet(F, Reached(util))
<1>1. /\ OptimalRate \in Nat /\ MaxRate \in Nat /\ MinRate \in Nat
      /\ OptimalRate <= MaxRate /\ OptimalUtil \in Nat \ {0}
      /\ UtilPrecision \in Nat \ {0} /\ WeightTotal \in Nat \ {0}
      /\ Segments \in Seq([upTo : Nat, weight : Nat])
  BY SpotLedgerAssumption
<1>2. flat \in Nat
  <2>1. (OptimalRate * UtilPrecision) \div OptimalUtil \in Nat
    BY <1>1, QuotientIsNat
  <2> QED
    BY <1>1, <2>1, QuotientIsNat
<1>3. ASSUME util > OptimalUtil PROVE steep \in Nat
  <2>1. \A i \in 1..Len(Segments) :
          Segments[i].upTo \in Nat /\ Segments[i].weight \in Nat
    <3>1. \A i \in 1..Len(Segments) : Segments[i] \in [upTo : Nat, weight : Nat]
      BY <1>1, MemberOfSeq
    <3> QED
      BY <3>1
  <2>2. ASSUME NEW i \in Reached(util) PROVE F[i] \in Nat
    <3>1. i \in 1..Len(Segments)
      BY DEF Reached
    <3>2. SegmentStart(i) \in Nat /\ util > SegmentStart(i)
      <4>1. CASE i = 1
        BY <1>1, <1>3, <4>1 DEF SegmentStart
      <4>2. CASE i # 1
        <5>1. i - 1 \in 1..(i - 1) /\ i - 1 \in 1..Len(Segments)
          BY <1>1, <3>1, <4>2
        <5>2. util > Segments[i - 1].upTo
          BY <5>1 DEF Reached
        <5> QED
          BY <2>1, <4>2, <5>1, <5>2 DEF SegmentStart
      <4> QED
        BY <4>1, <4>2
    <3>3. SegmentRate(i) \in Nat
      <4>1. MaxRate - OptimalRate \in Nat /\ Segments[i].weight \in Nat
        BY <1>1, <2>1, <3>1
      <4> QED
        BY <1>1, <4>1, QuotientIsNat DEF SegmentRate
    <3>4. RateWithin(i, util) \in Nat
      <4>1. CASE util > Segments[i].upTo
        BY <3>3, <4>1 DEF RateWithin
      <4>2. CASE ~(util > Segments[i].upTo)
        <5>1. util - SegmentStart(i) \in Nat
              /\ Segments[i].upTo - SegmentStart(i) \in Nat \ {0}
          BY <2>1, <3>1, <3>2, <4>2
        <5> QED
          BY <3>3, <4>2, <5>1, QuotientIsNat DEF RateWithin
      <4> QED
        BY <4>1, <4>2
    <3> QED
      BY <3>4
  <2>3. IsFiniteSet(Reached(util))
    <3>1. Reached(util) \in SUBSET (1..Len(Segments)) /\ IsFiniteSet(1..Len(Segments))
      BY <1>1, FS_Interval DEF Reached
    <3> QED
      BY <3>1, FS_Subset
  <2> HIDE DEF F
  <2>4. SumFunctionOnSet(F, Reached(util)) \in Nat
    BY <2>2, <2>3, SumIsNat
  <2> QED
    BY <1>1, <2>4
<1>4. BorrowRate(util) = Larger(MinRate, IF util <= OptimalUtil THEN flat ELSE steep)
  BY DEF BorrowRate, SumOver
<1> HIDE DEF flat, steep, F
<1> QED
  BY <1>1, <1>2, <1>3, <1>4 DEF Larger

LEMMA AverageType ==
  ASSUME NEW new \in Nat, NEW old \in Nat, NEW since \in Nat, NEW rest \in Nat \ {0}
  PROVE  WeightedAverage(new, old, since, rest) \in Nat
<1> DEFINE a == new * since
           b == old * rest
           avg == (a + b) \div (since + rest)
<1>1. a \in Nat /\ b \in Nat
  OBVIOUS
<1> HIDE DEF a, b
<1>2. avg \in Nat
  BY <1>1, DivBounds
<1>3. WeightedAverage(new, old, since, rest)
        \in {old, 0, avg, avg + 1} \cup (IF avg = 0 THEN {} ELSE {avg - 1})
  <2> DEFINE bias == IF rest <= 1 THEN 0
                     ELSE IF b < a THEN -1 ELSE IF b > a THEN 1 ELSE 0
  <2>1. bias \in {-1, 0, 1}
    OBVIOUS
  <2>2. WeightedAverage(new, old, since, rest)
          = IF since = 0 THEN old
            ELSE IF avg = 0 /\ bias < 0 THEN 0 ELSE avg + bias
    BY DEF WeightedAverage, a, b
  <2> HIDE DEF bias, avg
  <2> QED
    BY <1>2, <2>1, <2>2
<1> HIDE DEF avg
<1> QED
  BY <1>2, <1>3

\* Of the interest the insurance stakers' share becomes revenue, deposited.
LEMMA InterestType ==
  ASSUME NEW mk \in Market, now \in Nat
  PROVE  Interest(mk).borrow \in Nat /\ Interest(mk).deposit \in Nat
<1> DEFINE util == Utilization(mk)
           rate == BorrowRate(util) * (now - mk.interestTs)
<1>1. util \in Nat /\ BorrowRate(util) \in Nat /\ mk.interestTs \in Nat
      /\ mk.borrowIndex \in Nat /\ mk.depositIndex \in Nat
  BY UtilizationType, BorrowRateType DEF Market
<1>2. CASE now <= mk.interestTs \/ util = 0
  BY <1>2 DEF Interest
<1>3. CASE ~(now <= mk.interestTs \/ util = 0)
  <2>1. now - mk.interestTs \in Nat
    BY <1>1, <1>3
  <2>2. rate \in Nat
    BY <1>1, <2>1
  <2>3. Interest(mk) = InterestAt(mk, util, rate)
    BY <1>3 DEF Interest
  <2> HIDE DEF rate, util
  <2>4. /\ Year \in Nat \ {0} /\ RatePrecision \in Nat \ {0}
        /\ UtilPrecision \in Nat \ {0}
    BY SpotLedgerAssumption
  <2>5. (mk.borrowIndex * rate) \div Year \in Nat
    BY <1>1, <2>2, <2>4, QuotientIsNat
  <2>6. (rate * util) \div UtilPrecision \in Nat
    BY <1>1, <2>2, <2>4, QuotientIsNat
  <2>7. (mk.depositIndex * ((rate * util) \div UtilPrecision)) \div Year \in Nat
    BY <1>1, <2>4, <2>6, QuotientIsNat
  <2>8. ((mk.borrowIndex * rate) \div Year) \div RatePrecision \in Nat
        /\ ((mk.depositIndex * ((rate * util) \div UtilPrecision)) \div Year)
              \div RatePrecision \in Nat
    BY <2>4, <2>5, <2>7, DivBounds
  <2> QED
    BY <2>3, <2>8 DEF InterestAt
<1> QED
  BY <1>2, <1>3

\* What an accrual or a gift to the revenue pool leaves of a market.
Enriched(mk, new) ==
  /\ new \in Market /\ IndicesGrow(new) /\ new.borrows = mk.borrows
  /\ new.deposits - new.revenue = mk.deposits - mk.revenue

LEMMA RevenueEnriches ==
  ASSUME NEW mk \in Market, IndicesGrow(mk), NEW tokens \in Nat
  PROVE  Enriched(mk, UpdateRevenuePool(mk, tokens))
<1> DEFINE b == [owed |-> FALSE, n |-> mk.revenue, net |-> 0]
           d == Scaled(mk, FALSE, tokens, FALSE)
           r == Grown(mk, b, FALSE, d)
<1>1. mk \in UncheckedMarket /\ b \in Balance /\ b.owed = FALSE /\ b.n = mk.revenue
  BY DEF Market, UncheckedMarket, Balance
<1>2. d \in Nat
  BY <1>1, ScaledType
<1>3. UpdateRevenuePool(mk, tokens) = [r.mk EXCEPT !.revenue = r.b.n]
  BY DEF UpdateRevenuePool, UpdateSpotBalances
<1>4. r.mk = [mk EXCEPT !.deposits = mk.deposits + d] /\ r.b.n = mk.revenue + d
  BY <1>1 DEF Grown, Balance
<1> HIDE DEF d, b, r
<1>5. mk.deposits + d \in Nat /\ mk.revenue + d \in Nat /\ mk.deposits \in Nat
      /\ mk.revenue \in Nat
  BY <1>2 DEF Market
<1> DEFINE new == [[mk EXCEPT !.deposits = mk.deposits + d] EXCEPT !.revenue = mk.revenue + d]
<1>6. /\ new \in Market /\ new.borrows = mk.borrows
      /\ new.deposits = mk.deposits + d /\ new.revenue = mk.revenue + d
      /\ new.depositIndex = mk.depositIndex /\ new.borrowIndex = mk.borrowIndex
  BY <1>5 DEF Market
<1>7. UpdateRevenuePool(mk, tokens) = new
  BY <1>3, <1>4
<1> HIDE DEF new
<1>8. new.deposits - new.revenue = mk.deposits - mk.revenue
  BY <1>2, <1>5, <1>6
<1> QED
  BY <1>6, <1>7, <1>8 DEF Enriched, IndicesGrow

LEMMA SharingEnriches ==
  ASSUME NEW mk \in Market, IndicesGrow(mk), NEW borrow \in Nat, NEW lenders \in Int,
         NEW stakers \in Nat, now \in Nat
  PROVE  Enriched(mk, Shared(mk, borrow, lenders, stakers))
<1>1. CASE borrow > 1 /\ lenders > 0
  <2> DEFINE grown == [mk EXCEPT !.depositIndex = @ + lenders,
                                 !.borrowIndex = @ + borrow, !.interestTs = now]
             tokens == (mk.deposits * stakers) \div Precision
  <2>1. mk.depositIndex \in Nat /\ mk.borrowIndex \in Nat /\ mk.deposits \in Nat
        /\ One \in Nat /\ Precision \in Nat \ {0}
    BY SpotConstants DEF Market
  <2>2. mk.depositIndex + lenders \in Nat /\ mk.borrowIndex + borrow \in Nat
    BY <1>1, <2>1
  <2>3. /\ grown \in Market /\ grown.depositIndex = mk.depositIndex + lenders
        /\ grown.borrowIndex = mk.borrowIndex + borrow
        /\ grown.deposits = mk.deposits /\ grown.borrows = mk.borrows
        /\ grown.revenue = mk.revenue
    BY <2>2 DEF Market
  <2>4. tokens \in Nat
    BY <2>1, QuotientIsNat
  <2>5. Shared(mk, borrow, lenders, stakers) = UpdateRevenuePool(grown, tokens)
    BY <1>1 DEF Shared
  <2> HIDE DEF grown, tokens
  <2>6. IndicesGrow(grown)
    BY <1>1, <2>1, <2>3 DEF IndicesGrow
  <2>7. Enriched(grown, UpdateRevenuePool(grown, tokens))
    BY <2>3, <2>4, <2>6, RevenueEnriches
  <2> QED
    BY <2>3, <2>5, <2>7 DEF Enriched
<1>2. CASE ~(borrow > 1 /\ lenders > 0)
  BY <1>2 DEF Shared, Enriched
<1> QED
  BY <1>1, <1>2

LEMMA TwapsEnrich ==
  ASSUME NEW mk \in Market, IndicesGrow(mk), now \in Nat
  PROVE  Enriched(mk, Twapped(mk))
<1> DEFINE since == Floored(now - mk.twapTs)
           rest == Larger(1, Window - since)
           d == WeightedAverage(DepositTokens(mk), mk.depositTwap, since, rest)
           b == WeightedAverage(BorrowTokens(mk), mk.borrowTwap, since, rest)
           u == WeightedAverage(Utilization(mk), mk.utilTwap, since, rest)
<1>1. /\ mk.twapTs \in Nat /\ mk.depositTwap \in Nat /\ mk.borrowTwap \in Nat
      /\ mk.utilTwap \in Nat /\ Window \in Nat
  BY SpotLedgerAssumption DEF Market
<1>2. since \in Nat
  BY <1>1 DEF Floored, Larger
<1>3. rest \in Nat \ {0}
  <2> HIDE DEF since
  <2> QED
    BY <1>1, <1>2 DEF Larger
<1>4. DepositTokens(mk) \in Nat /\ BorrowTokens(mk) \in Nat /\ Utilization(mk) \in Nat
  BY MarketTokens, UtilizationType
<1>5. Twapped(mk) = [mk EXCEPT !.depositTwap = d, !.borrowTwap = b, !.utilTwap = u,
                               !.twapTs = now]
  BY DEF Twapped
<1> HIDE DEF since, rest
<1>6. d \in Nat /\ b \in Nat /\ u \in Nat
  BY <1>1, <1>2, <1>3, <1>4, AverageType
<1> HIDE DEF d, b, u
<1>7. [mk EXCEPT !.depositTwap = d, !.borrowTwap = b, !.utilTwap = u, !.twapTs = now]
        \in Market
  BY <1>6 DEF Market
<1>8. /\ Twapped(mk).deposits = mk.deposits /\ Twapped(mk).borrows = mk.borrows
      /\ Twapped(mk).revenue = mk.revenue
      /\ Twapped(mk).depositIndex = mk.depositIndex
      /\ Twapped(mk).borrowIndex = mk.borrowIndex
  BY <1>5 DEF Market
<1> QED
  BY <1>5, <1>7, <1>8 DEF Enriched, IndicesGrow

LEMMA AccrualEnriches ==
  ASSUME NEW mk \in Market, IndicesGrow(mk), now \in Nat
  PROVE  Enriched(mk, Accrued(mk))
<1> DEFINE i == Interest(mk)
           stakers == (i.deposit * StakersFactor) \div FactorPrecision
           shared == Shared(mk, i.borrow, i.deposit - stakers, stakers)
<1>1. i.borrow \in Nat /\ i.deposit \in Nat
  BY InterestType
<1>2. stakers \in Nat
  <2>1. StakersFactor \in Nat /\ FactorPrecision \in Nat \ {0}
    BY SpotLedgerAssumption
  <2> HIDE DEF i
  <2> QED
    BY <1>1, <2>1, QuotientIsNat
<1>3. Accrued(mk) = Twapped(shared)
  BY DEF Accrued
<1> HIDE DEF i, stakers
<1>4. i.deposit - stakers \in Int
  BY <1>1, <1>2
<1>5. Enriched(mk, shared)
  BY <1>1, <1>2, <1>4, SharingEnriches
<1> HIDE DEF shared
<1>6. Enriched(shared, Twapped(shared))
  BY <1>5, TwapsEnrich DEF Enriched
<1> QED
  BY <1>3, <1>5, <1>6 DEF Enriched

LEMMA EnrichedAdds ==
  ASSUME NEW d \in Int, NEW b \in Int, NEW r \in Int, NEW e \in Int, NEW s \in Int,
         NEW h \in Int, NEW g \in Int, NEW k \in Nat,
         e - s = d - r, d + b = h + r, d - g - r \in 0..k
  PROVE  e + b = h + s /\ e - g - s \in 0..k
OBVIOUS

LEMMA EnrichedAgrees ==
  ASSUME NEW p \in Positions, NEW m \in SpotMarkets, NEW mk, NEW new, NEW k \in Nat,
         Agrees(mk, p, m, k), Enriched(mk, new)
  PROVE  Agrees(new, p, m, k)
<1>1. mk \in Market /\ new \in Market
  BY DEF Agrees, Enriched, AddsUp
<1>2. /\ mk.deposits \in Nat /\ mk.borrows \in Nat /\ mk.revenue \in Nat
      /\ new.deposits \in Nat /\ new.borrows \in Nat /\ new.revenue \in Nat
  BY <1>1 DEF Market
<1>3. OwnedIn(p, m) \in Nat /\ HeldIn(p, m) \in Nat
  BY ColumnType
<1>4. /\ new.borrows = mk.borrows
      /\ new.deposits - new.revenue = mk.deposits - mk.revenue
      /\ mk.deposits + mk.borrows = HeldIn(p, m) + mk.revenue
      /\ mk.deposits - OwnedIn(p, m) - mk.revenue \in 0..k
  BY DEF Agrees, Enriched, AddsUp
<1> DEFINE d == mk.deposits
           b == mk.borrows
           r == mk.revenue
           e == new.deposits
           s == new.revenue
           h == HeldIn(p, m)
           g == OwnedIn(p, m)
<1>7. /\ d \in Int /\ b \in Int /\ r \in Int /\ e \in Int /\ s \in Int
      /\ h \in Int /\ g \in Int
      /\ e - s = d - r /\ d + b = h + r /\ d - g - r \in 0..k
  BY <1>2, <1>3, <1>4
<1>8. new.borrows = b
  BY <1>4
<1> HIDE DEF d, b, r, e, s, h, g
<1>9. e + b = h + s /\ e - g - s \in 0..k
  BY <1>7, EnrichedAdds
<1>5. new.deposits + new.borrows = HeldIn(p, m) + new.revenue
  BY <1>8, <1>9 DEF e, h, s
<1>6. new.deposits - OwnedIn(p, m) - new.revenue \in 0..k
  BY <1>9 DEF e, g, s
<1> QED
  BY <1>1, <1>5, <1>6, MarketIsRaw DEF Agrees, Enriched, AddsUp
-----------------------------------------------------------------------------
(* What an account may withdraw.                                           *)

LEMMA MarginConstants ==
  ASSUME NEW m \in SpotMarkets
  PROVE  /\ Price[m] \in Nat \ {0} /\ Scale \in Nat \ {0}
         /\ AssetWeight["Initial"][m] \in Nat /\ LiabilityWeight["Initial"][m] \in Nat
<1>1. m \in Markets /\ "Initial" \in Types
  BY DEF Markets, Types
<1> QED
  BY <1>1, SpotLedgerAssumption, MarginAssumption

LEMMA SpotTerms ==
  ASSUME NEW a, NEW m \in SpotMarkets, a.spot[m] \in Int
  PROVE  SpotCollateral(a, m, Price, "Initial") \in Int
         /\ SpotRequirement(a, m, Price, "Initial") \in Int
<1> DEFINE p == Price[m]
           c == AssetWeight["Initial"][m]
           l == LiabilityWeight["Initial"][m]
           n == a.spot[m]
<1>1. p \in Int /\ c \in Int /\ l \in Int /\ Scale \in Int /\ n \in Int
  BY MarginConstants
<1>2. SpotCollateral(a, m, Price, "Initial")
        = IF n > 0 THEN n * (IF m = Quote THEN Scale ELSE p * c) ELSE 0
  BY DEF SpotCollateral
<1>3. SpotLiability(a, m, Price) = IF n < 0 THEN -n * (IF m = Quote THEN 1 ELSE p) ELSE 0
  BY DEF SpotLiability
<1>4. SpotRequirement(a, m, Price, "Initial")
        = SpotLiability(a, m, Price) * (IF m = Quote THEN Scale ELSE l)
  BY DEF SpotRequirement
<1> HIDE DEF p, c, l, n
<1>5. p * c \in Int /\ n * Scale \in Int /\ -n * p \in Int /\ -n * 1 \in Int
  BY <1>1
<1>6. n * (p * c) \in Int
  BY <1>1, <1>5
<1>7. SpotLiability(a, m, Price) \in Int
  BY <1>3, <1>5
<1>8. SpotLiability(a, m, Price) * Scale \in Int /\ SpotLiability(a, m, Price) * l \in Int
  BY <1>1, <1>7
<1> QED
  BY <1>2, <1>4, <1>5, <1>6, <1>8

LEMMA PerpTerms ==
  ASSUME NEW a, NEW m \in PerpMarkets, a.perp[m] = FlatPerp
  PROVE  WeightedPnl(a.perp[m], m, Price[m], "Initial") \in Int
         /\ PerpRequirement(a, m, Price, "Initial") \in Int
<1>1. m \in Markets /\ "Initial" \in Types
  BY DEF Markets, Types
<1>2. Price[m] \in Int /\ PnlWeight["Initial"][m] \in Int /\ Scale \in Int
      /\ MarginRatio["Initial"][m] \in Int
  BY <1>1, SpotLedgerAssumption, MarginAssumption
<1>3. UnrealizedPnl(FlatPerp, Price[m]) = 0
  BY <1>2 DEF UnrealizedPnl, FlatPerp
<1>4. WorstCaseBase(FlatPerp) = 0
  BY DEF WorstCaseBase, FlatPerp, Larger, Size
<1>5. WeightedPnl(a.perp[m], m, Price[m], "Initial") \in Int
  BY <1>2, <1>3 DEF WeightedPnl
<1>6. 0 * Price[m] = 0 /\ 0 * MarginRatio["Initial"][m] = 0
  BY <1>2
<1>7. PerpRequirement(a, m, Price, "Initial") = 0
  BY <1>4, <1>6 DEF PerpRequirement
<1> QED
  BY <1>5, <1>7

LEMMA CollateralType ==
  ASSUME NEW a, \A m \in SpotMarkets : a.spot[m] \in Int,
         \A m \in PerpMarkets : a.perp[m] = FlatPerp
  PROVE  TotalCollateral(a, Price, "Initial") \in Int
         /\ MarginRequirement(a, Price, "Initial") \in Int
<1> DEFINE F == [m \in SpotMarkets |-> SpotCollateral(a, m, Price, "Initial")]
           G == [m \in PerpMarkets |-> WeightedPnl(a.perp[m], m, Price[m], "Initial")]
           H == [m \in SpotMarkets |-> SpotRequirement(a, m, Price, "Initial")]
           J == [m \in PerpMarkets |-> PerpRequirement(a, m, Price, "Initial")]
<1>1. IsFiniteSet(SpotMarkets) /\ IsFiniteSet(PerpMarkets)
  BY MarginAssumption
<1>2. \A m \in SpotMarkets : F[m] \in Int /\ H[m] \in Int
  BY SpotTerms
<1>3. \A m \in PerpMarkets : G[m] \in Int /\ J[m] \in Int
  BY PerpTerms
<1>4. /\ TotalCollateral(a, Price, "Initial")
           = SumFunctionOnSet(F, SpotMarkets) + SumFunctionOnSet(G, PerpMarkets)
      /\ MarginRequirement(a, Price, "Initial")
           = SumFunctionOnSet(H, SpotMarkets) + SumFunctionOnSet(J, PerpMarkets)
  BY DEF TotalCollateral, MarginRequirement, SumOver
<1> HIDE DEF F, G, H, J
<1>5. /\ SumFunctionOnSet(F, SpotMarkets) \in Int
      /\ SumFunctionOnSet(G, PerpMarkets) \in Int
  BY <1>1, <1>2, <1>3, SumIsInt
<1>6. /\ SumFunctionOnSet(H, SpotMarkets) \in Int
      /\ SumFunctionOnSet(J, PerpMarkets) \in Int
  BY <1>1, <1>2, <1>3, SumIsInt
<1> QED
  BY <1>4, <1>5, <1>6

LEMMA WithdrawableType ==
  ASSUME pos \in Positions, NEW mks \in [SpotMarkets -> Market], NEW u \in Users,
         NEW m \in SpotMarkets
  PROVE  MaxWithdrawable(u, m, mks) \in Nat
<1> DEFINE a == Account(pos, mks, u)
           free == TotalCollateral(a, Price, "Initial") - MarginRequirement(a, Price, "Initial")
           weight == IF m = Quote THEN Scale ELSE AssetWeight["Initial"][m]
<1>1. \A x \in SpotMarkets : a.spot[x] \in Int
  <2> SUFFICES ASSUME NEW x \in SpotMarkets PROVE a.spot[x] \in Int
    OBVIOUS
  <2>1. mks[x] \in UncheckedMarket /\ pos[u][x] \in Balance
    BY DEF Positions, Market, UncheckedMarket
  <2>2. a.spot[x] = Signed(mks[x], pos[u][x])
    BY DEF Account
  <2> QED
    BY <2>1, <2>2, HeldType DEF Signed
<1>2. \A q \in PerpMarkets : a.perp[q] = FlatPerp
  BY DEF Account
<1> HIDE DEF a
<1>3. free \in Int
  BY <1>1, <1>2, CollateralType
<1>4. weight \in Nat /\ Price[m] \in Nat \ {0}
  BY MarginConstants
<1>5. MaxWithdrawable(u, m, mks)
        = IF weight = 0 THEN Unbounded
          ELSE IF \A x \in SpotMarkets : a.spot[x] >= 0 THEN a.spot[m]
          ELSE Floored(free - 1) \div (weight * Price[m])
  BY DEF MaxWithdrawable, a
<1> HIDE DEF free, weight
<1>6. Floored(free - 1) \in Nat
  BY <1>3 DEF Floored, Larger
<1>7. ASSUME weight # 0
      PROVE  Floored(free - 1) \div (weight * Price[m]) \in Nat
  <2>1. weight * Price[m] \in Nat \ {0}
    BY <1>4, <1>7
  <2> QED
    BY <1>6, <2>1, DivBounds
<1> QED
  BY <1>1, <1>5, <1>7 DEF Unbounded
-----------------------------------------------------------------------------
(* Every step keeps the invariant.                                         *)

\* How far the totals of a market may be apart by now.
Slack == instructions * BelowToken

LEMMA LedgerTypes ==
  ASSUME LedgerInv
  PROVE  /\ spotMarket \in [SpotMarkets -> Market] /\ vault \in [SpotMarkets -> Nat]
         /\ pos \in Positions /\ net \in [Users -> Int]
         /\ now \in Nat /\ instructions \in Nat /\ Slack \in Nat /\ BelowToken \in Nat
<1>1. BelowToken \in Nat
  BY SpotConstants
<1>2. instructions \in Nat
  BY DEF LedgerInv, SpotTypeOK
<1>3. instructions * BelowToken \in Nat
  BY <1>1, <1>2
<1> QED
  BY <1>1, <1>3 DEF LedgerInv, SpotTypeOK, Positions, Slack

LEMMA InstructionSlack ==
  ASSUME LedgerInv, Instruction
  PROVE  Slack' = Slack + BelowToken /\ instructions' \in Nat /\ now' \in Nat
<1>1. instructions \in Nat /\ BelowToken \in Nat /\ now \in Nat
  BY LedgerTypes
<1>2. instructions' = instructions + 1 /\ now' = now
  BY DEF Instruction
<1>3. (instructions + 1) * BelowToken = instructions * BelowToken + BelowToken
  BY <1>1
<1> QED
  BY <1>1, <1>2, <1>3 DEF Slack

\* What is left to show of an instruction.
LEMMA InstructionKeeps ==
  ASSUME LedgerInv, Instruction,
         pos' \in Positions, vault' \in [SpotMarkets -> Nat], net' \in [Users -> Int],
         spotMarket' = [m \in SpotMarkets |-> spotMarket'[m]],
         \A m \in SpotMarkets :
           Agrees(spotMarket'[m], pos', m, Slack + BelowToken)
  PROVE  LedgerInv'
<1>1. Slack' = Slack + BelowToken /\ instructions' \in Nat /\ now' \in Nat
  BY InstructionSlack
<1>2. \A m \in SpotMarkets : spotMarket'[m] \in Market
  BY DEF Agrees
<1>3. spotMarket' \in [SpotMarkets -> Market]
  BY <1>2
<1>4. SpotTypeOK'
  BY <1>1, <1>3 DEF SpotTypeOK, Positions
<1>5. Slack' = instructions' * BelowToken
  BY DEF Slack
<1>6. \A m \in SpotMarkets : Agrees(spotMarket'[m], pos', m, instructions' * BelowToken)
  BY <1>1, <1>5
<1> QED
  BY <1>4, <1>6 DEF LedgerInv

LEMMA MarketAgrees ==
  ASSUME LedgerInv, NEW m \in SpotMarkets
  PROVE  /\ Agrees(spotMarket[m], pos, m, Slack)
         /\ spotMarket[m] \in Market /\ IndicesGrow(spotMarket[m])
BY DEF LedgerInv, Agrees, AddsUp, Slack

\* A market no balance of which moves.
LEMMA MarketRests ==
  ASSUME LedgerInv, NEW m \in SpotMarkets, NEW q,
         \A u \in Users : q[u][m] = pos[u][m]
  PROVE  Agrees(spotMarket[m], q, m, Slack + BelowToken)
<1>1. Slack \in Nat /\ BelowToken \in Nat /\ pos \in Positions
  BY LedgerTypes
<1>2. Slack <= Slack + BelowToken /\ Slack + BelowToken \in Nat
  BY <1>1
<1> QED
  BY <1>1, <1>2, MarketAgrees, AgreesLonger

LEMMA AccruedAgrees ==
  ASSUME LedgerInv, NEW m \in SpotMarkets
  PROVE  /\ Agrees(Accrued(spotMarket[m]), pos, m, Slack)
         /\ Accrued(spotMarket[m]) \in Market /\ Accrued(spotMarket[m]) \in UncheckedMarket
         /\ IndicesGrow(Accrued(spotMarket[m]))
<1>1. Enriched(spotMarket[m], Accrued(spotMarket[m]))
  BY LedgerTypes, MarketAgrees, AccrualEnriches
<1>2. Agrees(Accrued(spotMarket[m]), pos, m, Slack)
  BY <1>1, LedgerTypes, MarketAgrees, EnrichedAgrees
<1>3. Accrued(spotMarket[m]) \in Market
  BY <1>1 DEF Enriched
<1>4. Accrued(spotMarket[m]) \in UncheckedMarket
  BY <1>3 DEF Market, UncheckedMarket
<1> QED
  BY <1>1, <1>2, <1>3, <1>4 DEF Enriched

LEMMA PositionType ==
  ASSUME LedgerInv, NEW u \in Users, NEW m \in SpotMarkets
  PROVE  pos[u][m] \in Balance
BY LedgerTypes DEF Positions

LEMMA AccruedMoves ==
  ASSUME LedgerInv, NEW m \in SpotMarkets, NEW u \in Users, NEW owed \in BOOLEAN,
         NEW tokens \in Nat, NEW leaving \in BOOLEAN, NEW r,
         r = Move(Accrued(spotMarket[m]), pos[u][m], owed, tokens, leaving)
  PROVE  /\ Booked(Accrued(spotMarket[m]), pos[u][m], r, Left(owed))
         /\ Booked(Accrued(spotMarket[m]), pos[u][m], r, BelowToken)
         /\ r.b \in Balance
<1>1. Booked(Accrued(spotMarket[m]), pos[u][m], r, Left(owed))
  BY AccruedAgrees, PositionType, MoveBooks
<1>2. BelowToken \in Nat
  BY LedgerTypes
<1> QED
  BY <1>1, <1>2 DEF Booked, Left

\* A market one balance of which moves.
LEMMA MarketMoves ==
  ASSUME LedgerInv, NEW m \in SpotMarkets, NEW u \in Users, NEW r,
         Booked(Accrued(spotMarket[m]), pos[u][m], r, BelowToken), Covered(r.mk),
         NEW q \in Positions, q[u][m] = r.b,
         \A v \in Users : v # u => q[v][m] = pos[v][m]
  PROVE  Agrees(r.mk, q, m, Slack + BelowToken)
BY LedgerTypes, AccruedAgrees, BookKeepsAgreement DEF Agrees

\* One balance of one market moves: the rest is untouched.
LEMMA OneMoves ==
  ASSUME LedgerInv, Instruction, NEW m \in SpotMarkets, NEW u \in Users, NEW r,
         Booked(Accrued(spotMarket[m]), pos[u][m], r, BelowToken), SetPos(u, m, r),
         vault' \in [SpotMarkets -> Nat], net' \in [Users -> Int]
  PROVE  LedgerInv'
<1>1. /\ Covered(r.mk) /\ spotMarket' = [spotMarket EXCEPT ![m] = r.mk]
      /\ pos' = [pos EXCEPT ![u][m] = r.b]
  BY DEF SetPos
<1>2. r.b \in Balance /\ pos \in Positions /\ spotMarket \in [SpotMarkets -> Market]
  BY LedgerTypes DEF Booked
<1>3. /\ pos' \in Positions /\ pos'[u][m] = r.b
      /\ \A v \in Users, x \in SpotMarkets :
           v # u \/ x # m => pos'[v][x] = pos[v][x]
  BY <1>1, <1>2 DEF Positions
<1>4. /\ spotMarket' = [x \in SpotMarkets |-> spotMarket'[x]]
      /\ spotMarket'[m] = r.mk
      /\ \A x \in SpotMarkets : x # m => spotMarket'[x] = spotMarket[x]
  BY <1>1, <1>2
<1>5. ASSUME NEW x \in SpotMarkets
      PROVE  Agrees(spotMarket'[x], pos', x, Slack + BelowToken)
  <2>1. CASE x = m
    <3>1. \A v \in Users : v # u => pos'[v][m] = pos[v][m]
      BY <1>3
    <3>2. Agrees(r.mk, pos', m, Slack + BelowToken)
      BY <1>1, <1>3, <3>1, MarketMoves
    <3> QED
      BY <1>4, <2>1, <3>2
  <2>2. CASE x # m
    BY <1>3, <1>4, <2>2, MarketRests
  <2> QED
    BY <2>1, <2>2
<1> QED
  BY <1>3, <1>4, <1>5, InstructionKeeps

LEMMA WorthType ==
  ASSUME NEW m \in SpotMarkets, NEW t \in Nat
  PROVE  Worth(m, t) \in Int
BY MarginConstants DEF Worth

LEMMA DepositedType ==
  ASSUME LedgerInv, NEW m \in SpotMarkets, NEW u \in Users, NEW wanted \in Nat,
         NEW only \in BOOLEAN
  PROVE  DepositedAmount(Accrued(spotMarket[m]), pos[u][m], wanted, only) \in Nat
BY AccruedAgrees, PositionType, HeldType DEF DepositedAmount, Lesser

LEMMA DepositToKeeps ==
  ASSUME LedgerInv, Instruction, NEW m \in SpotMarkets, NEW u \in Users,
         NEW amount \in Nat, DepositTo(u, m, Accrued(spotMarket[m]), amount),
         net' \in [Users -> Int]
  PROVE  LedgerInv'
<1> DEFINE r == Move(Accrued(spotMarket[m]), pos[u][m], FALSE, amount, FALSE)
<1>1. SetPos(u, m, r) /\ vault' = [vault EXCEPT ![m] = @ + amount]
  BY DEF DepositTo
<1>2. Booked(Accrued(spotMarket[m]), pos[u][m], r, BelowToken)
  BY AccruedMoves
<1>3. vault' \in [SpotMarkets -> Nat]
  BY <1>1, LedgerTypes
<1> HIDE DEF r
<1> QED
  BY <1>1, <1>2, <1>3, OneMoves

LEMMA DepositKeeps ==
  ASSUME LedgerInv, NEW m \in SpotMarkets, NEW u \in Users, NEW wanted \in Nat,
         NEW only \in BOOLEAN, Deposit(u, m, wanted, only)
  PROVE  LedgerInv'
<1> DEFINE amount == DepositedAmount(Accrued(spotMarket[m]), pos[u][m], wanted, only)
<1>1. /\ Instruction /\ DepositTo(u, m, Accrued(spotMarket[m]), amount)
      /\ net' = [net EXCEPT ![u] = @ + Worth(m, amount)]
  BY DEF Deposit
<1>2. amount \in Nat
  BY DepositedType
<1> HIDE DEF amount
<1>3. net' \in [Users -> Int]
  BY <1>1, <1>2, LedgerTypes, WorthType
<1> QED
  BY <1>1, <1>2, <1>3, DepositToKeeps

LEMMA AdminDepositKeeps ==
  ASSUME LedgerInv, NEW m \in SpotMarkets, NEW u \in Users, NEW wanted \in Nat,
         AdminDeposit(u, m, wanted)
  PROVE  LedgerInv'
<1> DEFINE amount == DepositedAmount(Accrued(spotMarket[m]), pos[u][m], wanted, FALSE)
<1>1. Instruction /\ DepositTo(u, m, Accrued(spotMarket[m]), amount) /\ net' = net
  BY DEF AdminDeposit
<1>2. amount \in Nat
  BY DepositedType
<1> HIDE DEF amount
<1> QED
  BY <1>1, <1>2, LedgerTypes, DepositToKeeps

LEMMA WithdrawKeeps ==
  ASSUME LedgerInv, NEW m \in SpotMarkets, NEW u \in Users, NEW wanted \in Nat,
         NEW only \in BOOLEAN, Withdraw(u, m, wanted, only)
  PROVE  LedgerInv'
<1> DEFINE o == only \/ spotMarket[m].status = "ReduceOnly"
           mk == Accrued(spotMarket[m])
           amount == WithdrawnAmount(u, m, mk, wanted, o)
           r == Move(mk, pos[u][m], TRUE, amount, TRUE)
<1>1. /\ Instruction /\ SetPos(u, m, r)
      /\ net' = [net EXCEPT ![u] = @ - Worth(m, amount)]
      /\ amount <= vault[m] /\ vault' = [vault EXCEPT ![m] = @ - amount]
  BY DEF Withdraw
<1>2. amount \in Nat
  <2>1. mk \in Market /\ mk \in UncheckedMarket /\ pos[u][m] \in Balance /\ pos \in Positions
        /\ spotMarket \in [SpotMarkets -> Market]
    BY AccruedAgrees, PositionType, LedgerTypes
  <2> HIDE DEF mk
  <2>2. Held(mk, pos[u][m]) \in Nat
    BY <2>1, HeldType
  <2>3. [spotMarket EXCEPT ![m] = mk] \in [SpotMarkets -> Market]
    BY <2>1
  <2>4. MaxWithdrawable(u, m, [spotMarket EXCEPT ![m] = mk]) \in Nat
    BY <2>1, <2>3, WithdrawableType
  <2> HIDE DEF o
  <2> QED
    BY <2>2, <2>4 DEF WithdrawnAmount, Lesser
<1> HIDE DEF amount
<1>3. Booked(mk, pos[u][m], r, BelowToken)
  BY <1>2, AccruedMoves
<1>4. vault' \in [SpotMarkets -> Nat]
  <2>1. vault[m] - amount \in Nat
    BY <1>1, <1>2, LedgerTypes
  <2> QED
    BY <1>1, <2>1, LedgerTypes
<1>5. net' \in [Users -> Int]
  BY <1>1, <1>2, LedgerTypes, WorthType
<1> HIDE DEF r
<1> QED
  BY <1>1, <1>3, <1>4, <1>5, OneMoves
LEMMA TransferDepositKeeps ==
  ASSUME LedgerInv, NEW m \in SpotMarkets, NEW u \in Users, NEW v \in Users,
         NEW amount \in Nat, TransferDeposit(u, v, m, amount)
  PROVE  LedgerInv'
<1> DEFINE mk   == Accrued(spotMarket[m])
           from == Move(mk, pos[u][m], TRUE, amount, TRUE)
           to   == Move(from.mk, pos[v][m], FALSE, amount, FALSE)
           mid  == [pos EXCEPT ![u][m] = from.b]
<1>1. /\ Instruction /\ u # v /\ Covered(to.mk) /\ vault' = vault
      /\ net' = [net EXCEPT ![u] = @ - Worth(m, amount), ![v] = @ + Worth(m, amount)]
      /\ spotMarket' = [spotMarket EXCEPT ![m] = to.mk]
      /\ pos' = [pos EXCEPT ![u][m] = from.b, ![v][m] = to.b]
  BY DEF TransferDeposit
<1>2. Booked(mk, pos[u][m], from, BelowToken) /\ from.b \in Balance
  BY AccruedMoves
<1>3. /\ AddsUp(mk, pos, m, Slack) /\ Slack \in Nat /\ BelowToken \in Nat
      /\ pos \in Positions /\ pos[v][m] \in Balance
      /\ spotMarket \in [SpotMarkets -> Market] /\ Slack + BelowToken \in Nat
  BY AccruedAgrees, LedgerTypes, PositionType DEF Agrees
<1> HIDE DEF mk, from
<1>4. /\ mid \in Positions /\ mid[u][m] = from.b /\ mid[v][m] = pos[v][m]
      /\ \A x \in Users : x # u => mid[x][m] = pos[x][m]
  BY <1>1, <1>2, <1>3 DEF Positions
<1> HIDE DEF mid
<1>5. AddsUp(from.mk, mid, m, Slack + BelowToken)
  BY <1>2, <1>3, <1>4, BookAddsUp
<1>6. Booked(from.mk, mid[v][m], to, 0)
  <2>1. from.mk \in UncheckedMarket /\ IndicesGrow(from.mk)
    BY <1>5 DEF AddsUp
  <2>2. Booked(from.mk, pos[v][m], to, Left(FALSE))
    BY <1>3, <2>1, MoveBooks
  <2>3. Left(FALSE) = 0
    BY DEF Left
  <2> QED
    BY <1>4, <2>2, <2>3
<1>7. to.b \in Balance
  BY <1>6 DEF Booked
<1> HIDE DEF to
<1>8. /\ pos' \in Positions /\ pos'[v][m] = to.b
      /\ \A x \in Users : x # v => pos'[x][m] = mid[x][m]
      /\ \A x \in Users, y \in SpotMarkets : y # m => pos'[x][y] = pos[x][y]
  BY <1>1, <1>2, <1>3, <1>7 DEF Positions, mid
<1>9. Agrees(to.mk, pos', m, Slack + BelowToken)
  <2>1. Agrees(to.mk, pos', m, (Slack + BelowToken) + 0)
    BY <1>1, <1>3, <1>4, <1>5, <1>6, <1>8, BookKeepsAgreement
  <2>2. (Slack + BelowToken) + 0 = Slack + BelowToken
    BY <1>3
  <2> QED
    BY <2>1, <2>2
<1>10. /\ spotMarket' = [x \in SpotMarkets |-> spotMarket'[x]]
       /\ spotMarket'[m] = to.mk
       /\ \A x \in SpotMarkets : x # m => spotMarket'[x] = spotMarket[x]
  BY <1>1, <1>3
<1>11. ASSUME NEW x \in SpotMarkets
       PROVE  Agrees(spotMarket'[x], pos', x, Slack + BelowToken)
  <2>1. CASE x = m
    BY <1>9, <1>10, <2>1
  <2>2. CASE x # m
    BY <1>8, <1>10, <2>2, MarketRests
  <2> QED
    BY <2>1, <2>2
<1>12. net' \in [Users -> Int] /\ vault' \in [SpotMarkets -> Nat]
  BY <1>1, LedgerTypes, WorthType
<1> QED
  BY <1>1, <1>8, <1>10, <1>11, <1>12, InstructionKeeps

LEMMA BookedNothing ==
  ASSUME NEW mk \in UncheckedMarket, NEW b \in Balance, NEW k \in Nat,
         NEW r, r.mk = mk, r.b = b
  PROVE  Booked(mk, b, r, k)
<1>1. mk = Retotalled(mk, mk.deposits, mk.borrows)
  BY DEF Retotalled, UncheckedMarket
<1>2. mk.deposits \in Int /\ mk.borrows \in Int /\ b.n \in Int /\ Owned(b) \in Int
  BY BalanceParts DEF UncheckedMarket
<1>3. mk.deposits - Owned(b) - (mk.deposits - Owned(b)) \in 0..k
  BY <1>2
<1> QED
  BY <1>1, <1>2, <1>3 DEF Booked

LEMMA LegBooks ==
  ASSUME LedgerInv, NEW m \in SpotMarkets, NEW u \in Users, NEW owed \in BOOLEAN,
         NEW tokens \in Nat, NEW r, r = Leg(u, m, owed, tokens)
  PROVE  Booked(Accrued(spotMarket[m]), pos[u][m], r, BelowToken) /\ r.b \in Balance
<1>1. CASE tokens = 0
  <2>1. r.mk = Accrued(spotMarket[m]) /\ r.b = pos[u][m]
    BY <1>1 DEF Leg
  <2> QED
    BY <2>1, AccruedAgrees, PositionType, LedgerTypes, BookedNothing
<1>2. CASE tokens # 0
  <2>1. r = Move(Accrued(spotMarket[m]), pos[u][m], owed, tokens, TRUE)
    BY <1>2 DEF Leg
  <2> QED
    BY <2>1, AccruedMoves
<1> QED
  BY <1>1, <1>2

\* The four accounts and markets of a transfer between pools are distinct.
LEMMA RouteEnds ==
  ASSUME NEW r \in Routes
  PROVE  /\ r.u \in Users /\ r.v \in Users /\ r.u # r.v
         /\ r.x \in SpotMarkets /\ r.y \in SpotMarkets
         /\ r.z \in SpotMarkets /\ r.w \in SpotMarkets
         /\ r.x # r.y /\ r.x # r.z /\ r.x # r.w /\ r.y # r.z /\ r.y # r.w /\ r.z # r.w
BY DEF Routes, Route

LEMMA TransferPoolsKeeps ==
  ASSUME LedgerInv, NEW r \in Routes, NEW d \in Nat, NEW l \in Nat,
         TransferPools(r, d, l)
  PROVE  LedgerInv'
<1> DEFINE u == r.u
           v == r.v
           x == r.x
           y == r.y
           z == r.z
           w == r.w
           fromD == Leg(u, x, TRUE, d)
           toD   == Leg(v, y, FALSE, d)
           fromB == Leg(u, z, FALSE, l)
           toB   == Leg(v, w, TRUE, l)
<1>1. /\ Instruction
      /\ net' = [net EXCEPT ![u] = @ - Worth(x, d) + Worth(z, l),
                            ![v] = @ + Worth(y, d) - Worth(w, l)]
      /\ spotMarket' = [spotMarket EXCEPT ![x] = fromD.mk, ![y] = toD.mk,
                                          ![z] = fromB.mk, ![w] = toB.mk]
      /\ \A m \in {x, y, z, w} : Covered(spotMarket'[m])
      /\ pos' = [pos EXCEPT ![u] = [@ EXCEPT ![x] = fromD.b, ![z] = fromB.b],
                            ![v] = [@ EXCEPT ![y] = toD.b, ![w] = toB.b]]
      /\ d <= vault[x] /\ l <= vault[w]
      /\ vault' = [vault EXCEPT ![x] = @ - d, ![y] = @ + d,
                                ![w] = @ - l, ![z] = @ + l]
  BY DEF TransferPools
<1>2. /\ u \in Users /\ v \in Users /\ u # v
      /\ x \in SpotMarkets /\ y \in SpotMarkets /\ z \in SpotMarkets /\ w \in SpotMarkets
      /\ x # y /\ x # z /\ x # w /\ y # z /\ y # w /\ z # w
  BY RouteEnds
<1> HIDE DEF u, v, x, y, z, w
<1>3. /\ Booked(Accrued(spotMarket[x]), pos[u][x], fromD, BelowToken)
      /\ fromD.b \in Balance
  BY <1>2, LegBooks
<1>4. /\ Booked(Accrued(spotMarket[y]), pos[v][y], toD, BelowToken)
      /\ toD.b \in Balance
  BY <1>2, LegBooks
<1>5. /\ Booked(Accrued(spotMarket[z]), pos[u][z], fromB, BelowToken)
      /\ fromB.b \in Balance
  BY <1>2, LegBooks
<1>6. /\ Booked(Accrued(spotMarket[w]), pos[v][w], toB, BelowToken)
      /\ toB.b \in Balance
  BY <1>2, LegBooks
<1> HIDE DEF fromD, toD, fromB, toB
<1>7. /\ spotMarket \in [SpotMarkets -> Market] /\ pos \in Positions
      /\ vault \in [SpotMarkets -> Nat] /\ net \in [Users -> Int]
  BY LedgerTypes
<1>8. /\ spotMarket' = [m \in SpotMarkets |-> spotMarket'[m]]
      /\ spotMarket'[x] = fromD.mk /\ spotMarket'[y] = toD.mk
      /\ spotMarket'[z] = fromB.mk /\ spotMarket'[w] = toB.mk
      /\ \A m \in SpotMarkets \ {x, y, z, w} : spotMarket'[m] = spotMarket[m]
  BY <1>1, <1>2, <1>7
<1>9. pos' \in Positions
  BY <1>1, <1>2, <1>3, <1>4, <1>5, <1>6, <1>7 DEF Positions
<1>10. /\ pos'[u][x] = fromD.b /\ pos'[u][z] = fromB.b
       /\ pos'[v][y] = toD.b /\ pos'[v][w] = toB.b
  BY <1>1, <1>2, <1>7 DEF Positions
<1>11. \A a \in Users, m \in SpotMarkets :
         (a = u => m \notin {x, z}) /\ (a = v => m \notin {y, w})
           => pos'[a][m] = pos[a][m]
  BY <1>1, <1>2, <1>7 DEF Positions
<1>12. Agrees(spotMarket'[x], pos', x, Slack + BelowToken)
  <2>1. \A a \in Users : a # u => pos'[a][x] = pos[a][x]
    BY <1>2, <1>11
  <2>2. Covered(fromD.mk)
    BY <1>1, <1>8
  <2> QED
    BY <1>2, <1>3, <1>8, <1>9, <1>10, <2>1, <2>2, MarketMoves
<1>13. Agrees(spotMarket'[y], pos', y, Slack + BelowToken)
  <2>1. \A a \in Users : a # v => pos'[a][y] = pos[a][y]
    BY <1>2, <1>11
  <2>2. Covered(toD.mk)
    BY <1>1, <1>8
  <2> QED
    BY <1>2, <1>4, <1>8, <1>9, <1>10, <2>1, <2>2, MarketMoves
<1>14. Agrees(spotMarket'[z], pos', z, Slack + BelowToken)
  <2>1. \A a \in Users : a # u => pos'[a][z] = pos[a][z]
    BY <1>2, <1>11
  <2>2. Covered(fromB.mk)
    BY <1>1, <1>8
  <2> QED
    BY <1>2, <1>5, <1>8, <1>9, <1>10, <2>1, <2>2, MarketMoves
<1>15. Agrees(spotMarket'[w], pos', w, Slack + BelowToken)
  <2>1. \A a \in Users : a # v => pos'[a][w] = pos[a][w]
    BY <1>2, <1>11
  <2>2. Covered(toB.mk)
    BY <1>1, <1>8
  <2> QED
    BY <1>2, <1>6, <1>8, <1>9, <1>10, <2>1, <2>2, MarketMoves
<1>16. ASSUME NEW m \in SpotMarkets
       PROVE  Agrees(spotMarket'[m], pos', m, Slack + BelowToken)
  <2>1. CASE m \in {x, y, z, w}
    BY <1>12, <1>13, <1>14, <1>15, <2>1
  <2>2. CASE m \notin {x, y, z, w}
    <3>1. \A a \in Users : pos'[a][m] = pos[a][m]
      BY <1>11, <2>2
    <3>2. spotMarket'[m] = spotMarket[m]
      BY <1>8, <2>2
    <3> QED
      BY <3>1, <3>2, MarketRests
  <2> QED
    BY <2>1, <2>2
<1>17. vault' \in [SpotMarkets -> Nat]
  <2>1. /\ vault[x] - d \in Nat /\ vault[y] + d \in Nat
        /\ vault[w] - l \in Nat /\ vault[z] + l \in Nat
    BY <1>1, <1>2, <1>7
  <2> QED
    BY <1>1, <1>2, <1>7, <2>1
<1>18. net' \in [Users -> Int]
  <2>1. /\ Worth(x, d) \in Int /\ Worth(z, l) \in Int
        /\ Worth(y, d) \in Int /\ Worth(w, l) \in Int
    BY <1>2, WorthType
  <2>2. /\ net[u] - Worth(x, d) + Worth(z, l) \in Int
        /\ net[v] + Worth(y, d) - Worth(w, l) \in Int
    BY <1>2, <1>7, <2>1
  <2> QED
    BY <1>1, <1>2, <1>7, <2>2
<1> QED
  BY <1>1, <1>8, <1>9, <1>16, <1>17, <1>18, InstructionKeeps

\* Interest, or a gift to the revenue pool: no balance moves.
LEMMA EnrichedKeeps ==
  ASSUME LedgerInv, Instruction, NEW m \in SpotMarkets, NEW new,
         Enriched(spotMarket[m], new), spotMarket' = [spotMarket EXCEPT ![m] = new],
         pos' = pos, vault' \in [SpotMarkets -> Nat], net' = net
  PROVE  LedgerInv'
<1>1. /\ spotMarket \in [SpotMarkets -> Market] /\ pos \in Positions
      /\ net \in [Users -> Int] /\ Slack \in Nat /\ BelowToken \in Nat
  BY LedgerTypes
<1>2. Agrees(new, pos, m, Slack)
  BY <1>1, MarketAgrees, EnrichedAgrees
<1>3. Slack <= Slack + BelowToken /\ Slack + BelowToken \in Nat
  BY <1>1
<1>4. Agrees(new, pos', m, Slack + BelowToken)
  BY <1>1, <1>2, <1>3, AgreesLonger
<1>5. /\ spotMarket' = [x \in SpotMarkets |-> spotMarket'[x]]
      /\ spotMarket'[m] = new
      /\ \A x \in SpotMarkets : x # m => spotMarket'[x] = spotMarket[x]
  BY <1>1
<1>6. ASSUME NEW x \in SpotMarkets
      PROVE  Agrees(spotMarket'[x], pos', x, Slack + BelowToken)
  <2>1. CASE x = m
    BY <1>4, <1>5, <2>1
  <2>2. CASE x # m
    BY <1>5, <2>2, MarketRests
  <2> QED
    BY <2>1, <2>2
<1> QED
  BY <1>1, <1>5, <1>6, InstructionKeeps

LEMMA RevenueKeeps ==
  ASSUME LedgerInv, NEW m \in SpotMarkets, NEW amount \in Nat,
         DepositIntoRevenuePool(m, amount)
  PROVE  LedgerInv'
<1>1. /\ Instruction /\ pos' = pos /\ net' = net
      /\ spotMarket' = [spotMarket EXCEPT ![m] = UpdateRevenuePool(spotMarket[m], amount)]
      /\ vault' = [vault EXCEPT ![m] = @ + amount]
  BY DEF DepositIntoRevenuePool
<1>2. Enriched(spotMarket[m], UpdateRevenuePool(spotMarket[m], amount))
  BY MarketAgrees, RevenueEnriches
<1>3. vault' \in [SpotMarkets -> Nat]
  BY <1>1, LedgerTypes
<1> QED
  BY <1>1, <1>2, <1>3, EnrichedKeeps

LEMMA CrankKeeps ==
  ASSUME LedgerInv, NEW m \in SpotMarkets, UpdateCumulativeInterest(m)
  PROVE  LedgerInv'
<1>1. /\ Instruction /\ pos' = pos /\ net' = net /\ vault' = vault
      /\ spotMarket' = [spotMarket EXCEPT ![m] = Accrued(spotMarket[m])]
  BY DEF UpdateCumulativeInterest
<1>2. Enriched(spotMarket[m], Accrued(spotMarket[m]))
  BY LedgerTypes, MarketAgrees, AccrualEnriches
<1>3. vault' \in [SpotMarkets -> Nat]
  BY <1>1, LedgerTypes
<1> QED
  BY <1>1, <1>2, <1>3, EnrichedKeeps

LEMMA SetReduceOnlyKeeps ==
  ASSUME LedgerInv, NEW m \in SpotMarkets, SetReduceOnly(m)
  PROVE  LedgerInv'
<1> DEFINE new == [spotMarket[m] EXCEPT !.status = "ReduceOnly"]
<1>1. /\ Instruction /\ pos' = pos /\ net' = net /\ vault' = vault
      /\ spotMarket' = [spotMarket EXCEPT ![m] = new]
  BY DEF SetReduceOnly
<1>2. spotMarket[m] \in Market /\ IndicesGrow(spotMarket[m])
  BY MarketAgrees
<1>3. Enriched(spotMarket[m], new)
  BY <1>2 DEF Enriched, Market, IndicesGrow
<1>4. vault' \in [SpotMarkets -> Nat]
  BY <1>1, LedgerTypes
<1> HIDE DEF new
<1> QED
  BY <1>1, <1>3, <1>4, EnrichedKeeps

LEMMA SwapKeeps ==
  ASSUME LedgerInv, NEW u \in Users, NEW x \in SpotMarkets, NEW y \in SpotMarkets,
         NEW lent \in Nat, NEW back \in Nat, NEW out \in Nat,
         Swap(u, x, y, lent, back, out)
  PROVE  LedgerInv'
<1> DEFINE in   == lent - back
           sold == Move(Accrued(spotMarket[x]), pos[u][x], TRUE, in, TRUE)
           got  == Move(Accrued(spotMarket[y]), pos[u][y], FALSE, out, FALSE)
<1>1. /\ Instruction /\ net' = net /\ x # y /\ lent <= vault[x]
      /\ vault' = [vault EXCEPT ![x] = @ - lent + back, ![y] = @ + out]
      /\ EndSwap(u, x, y, in, out)
  BY DEF Swap, BeginSwap
<1>2. /\ in > 0 /\ Covered(sold.mk) /\ Covered(got.mk)
      /\ spotMarket' = [spotMarket EXCEPT ![x] = sold.mk, ![y] = got.mk]
      /\ pos' = [pos EXCEPT ![u] = [@ EXCEPT ![x] = sold.b, ![y] = got.b]]
  BY <1>1, ZenonT(60) DEF EndSwap
<1>3. in \in Nat
  BY <1>2
<1> HIDE DEF in
<1>4. /\ Booked(Accrued(spotMarket[x]), pos[u][x], sold, BelowToken)
      /\ sold.b \in Balance
  BY <1>3, AccruedMoves
<1>5. /\ Booked(Accrued(spotMarket[y]), pos[u][y], got, BelowToken)
      /\ got.b \in Balance
  BY AccruedMoves
<1> HIDE DEF sold, got
<1>6. /\ spotMarket \in [SpotMarkets -> Market] /\ pos \in Positions
      /\ vault \in [SpotMarkets -> Nat] /\ net \in [Users -> Int]
  BY LedgerTypes
<1>7. /\ spotMarket' = [m \in SpotMarkets |-> spotMarket'[m]]
      /\ spotMarket'[x] = sold.mk /\ spotMarket'[y] = got.mk
      /\ \A m \in SpotMarkets \ {x, y} : spotMarket'[m] = spotMarket[m]
  BY <1>1, <1>2, <1>6
<1>8. /\ pos' \in Positions /\ pos'[u][x] = sold.b /\ pos'[u][y] = got.b
      /\ \A a \in Users, m \in SpotMarkets :
           (a = u => m \notin {x, y}) => pos'[a][m] = pos[a][m]
  BY <1>1, <1>2, <1>4, <1>5, <1>6 DEF Positions
<1>9. Agrees(spotMarket'[x], pos', x, Slack + BelowToken)
  <2>1. \A a \in Users : a # u => pos'[a][x] = pos[a][x]
    BY <1>8
  <2>2. pos' \in Positions /\ pos'[u][x] = sold.b /\ Covered(sold.mk)
    BY <1>2, <1>8
  <2>3. Agrees(sold.mk, pos', x, Slack + BelowToken)
    BY <1>4, <2>1, <2>2, MarketMoves
  <2> QED
    BY <1>7, <2>3
<1>10. Agrees(spotMarket'[y], pos', y, Slack + BelowToken)
  <2>1. \A a \in Users : a # u => pos'[a][y] = pos[a][y]
    BY <1>8
  <2>2. pos' \in Positions /\ pos'[u][y] = got.b /\ Covered(got.mk)
    BY <1>2, <1>8
  <2>3. Agrees(got.mk, pos', y, Slack + BelowToken)
    BY <1>5, <2>1, <2>2, MarketMoves
  <2> QED
    BY <1>7, <2>3
<1>11. ASSUME NEW m \in SpotMarkets
       PROVE  Agrees(spotMarket'[m], pos', m, Slack + BelowToken)
  <2>1. CASE m \in {x, y}
    BY <1>9, <1>10, <2>1
  <2>2. CASE m \notin {x, y}
    <3>1. \A a \in Users : pos'[a][m] = pos[a][m]
      BY <1>8, <2>2
    <3>2. spotMarket'[m] = spotMarket[m]
      BY <1>7, <2>2
    <3> QED
      BY <3>1, <3>2, MarketRests
  <2> QED
    BY <2>1, <2>2
<1>12. vault' \in [SpotMarkets -> Nat]
  <2>1. vault[x] - lent + back \in Nat /\ vault[y] + out \in Nat
    BY <1>1, <1>6
  <2> QED
    BY <1>1, <1>6, <2>1
<1>13. net' \in [Users -> Int]
  BY <1>1, <1>6
<1> QED
  BY <1>1, <1>7, <1>8, <1>11, <1>12, <1>13, InstructionKeeps

LEMMA TickKeeps ==
  ASSUME LedgerInv, UNCHANGED <<spotMarket, vault, pos, net, instructions>>,
         now' \in Nat
  PROVE  LedgerInv'
<1>1. SpotTypeOK'
  BY DEF LedgerInv, SpotTypeOK
<1>2. \A m \in SpotMarkets : Agrees(spotMarket'[m], pos', m, instructions' * BelowToken)
  BY DEF LedgerInv
<1> QED
  BY <1>1, <1>2 DEF LedgerInv

LEMMA OpeningAgrees ==
  ASSUME SpotInit
  PROVE  LedgerInv
<1>1. /\ pos = [u \in Users |-> [m \in SpotMarkets |-> Opened(u, m)]]
      /\ spotMarket = [m \in SpotMarkets |->
           [deposits |-> OpenedIn(m), borrows |-> 0, depositIndex |-> One,
            borrowIndex |-> One, revenue |-> 0, interestTs |-> 0,
            depositTwap |-> SeedIn(m), borrowTwap |-> 0, utilTwap |-> 0,
            twapTs |-> 0, status |-> "Active"]]
      /\ vault = [m \in SpotMarkets |-> SeedIn(m)]
      /\ net = [u \in Users |-> SumOver(SpotMarkets, LAMBDA m : Worth(m, Seed[u][m]))]
      /\ now = 0 /\ instructions = 0
  BY DEF SpotInit
<1>2. IsFiniteSet(Users) /\ IsFiniteSet(SpotMarkets) /\ One \in Nat \ {0}
      /\ BelowToken \in Nat
  BY SpotLedgerAssumption, MarginAssumption, SpotConstants
<1>3. ASSUME NEW u \in Users, NEW m \in SpotMarkets
      PROVE  Seed[u][m] \in Nat /\ Worth(m, Seed[u][m]) \in Int
             /\ Opened(u, m) \in Balance /\ Owned(Opened(u, m)) = Opened(u, m).n
  <2>1. Seed[u][m] \in Nat /\ Precision \div One \in Nat
    BY SpotLedgerAssumption, DivBounds
  <2>2. Seed[u][m] * (Precision \div One) \in Nat
    BY <2>1
  <2> QED
    BY <2>1, <2>2, WorthType DEF Opened, Balance, Owned
<1>4. pos \in Positions
  BY <1>1, <1>3 DEF Positions
<1>5. ASSUME NEW m \in SpotMarkets
      PROVE  SeedIn(m) \in Nat
  <2> DEFINE F == [u \in Users |-> Seed[u][m]]
  <2>1. \A u \in Users : F[u] \in Nat
    BY <1>3
  <2>2. SeedIn(m) = SumFunctionOnSet(F, Users)
    BY DEF SeedIn, SumOver
  <2> HIDE DEF F
  <2> QED
    BY <1>2, <2>1, <2>2, SumIsNat
<1>6. ASSUME NEW m \in SpotMarkets
      PROVE  OpenedIn(m) = HeldIn(pos, m) /\ OpenedIn(m) = OwnedIn(pos, m)
             /\ OpenedIn(m) \in Nat
  <2>1. \A u \in Users : pos[u][m] = Opened(u, m)
    BY <1>1
  <2>2. [u \in Users |-> Opened(u, m).n] = [u \in Users |-> pos[u][m].n]
    BY <2>1
  <2>3. [u \in Users |-> Opened(u, m).n] = [u \in Users |-> Owned(pos[u][m])]
    BY <1>3, <2>1
  <2> QED
    BY <1>4, <2>2, <2>3, ColumnType DEF OpenedIn, SumOver, HeldIn, OwnedIn
<1>7. ASSUME NEW m \in SpotMarkets
      PROVE  Agrees(spotMarket[m], pos, m, 0)
  <2>1. /\ spotMarket[m] \in Market /\ spotMarket[m].deposits = OpenedIn(m)
        /\ spotMarket[m].borrows = 0 /\ spotMarket[m].revenue = 0
        /\ spotMarket[m].depositIndex = One /\ spotMarket[m].borrowIndex = One
    BY <1>1, <1>2, <1>5, <1>6 DEF Market
  <2>2. IndicesGrow(spotMarket[m])
    BY <1>2, <2>1 DEF IndicesGrow
  <2>3. /\ spotMarket[m].deposits + spotMarket[m].borrows
             = HeldIn(pos, m) + spotMarket[m].revenue
        /\ spotMarket[m].deposits - OwnedIn(pos, m) - spotMarket[m].revenue \in 0..0
    BY <1>6, <2>1
  <2> QED
    BY <2>1, <2>2, <2>3, MarketIsRaw DEF Agrees, AddsUp
<1>8. instructions * BelowToken = 0
  BY <1>1, <1>2
<1>9. net \in [Users -> Int]
  <2> SUFFICES ASSUME NEW u \in Users
               PROVE  SumOver(SpotMarkets, LAMBDA m : Worth(m, Seed[u][m])) \in Int
    BY <1>1
  <2> DEFINE F == [m \in SpotMarkets |-> Worth(m, Seed[u][m])]
  <2>1. \A m \in SpotMarkets : F[m] \in Int
    BY <1>3
  <2>2. SumOver(SpotMarkets, LAMBDA m : Worth(m, Seed[u][m]))
          = SumFunctionOnSet(F, SpotMarkets)
    BY DEF SumOver
  <2> HIDE DEF F
  <2> QED
    BY <1>2, <2>1, <2>2, SumIsInt
<1>10. spotMarket \in [SpotMarkets -> Market]
  <2>1. spotMarket = [m \in SpotMarkets |-> spotMarket[m]]
    BY <1>1
  <2> QED
    BY <1>7, <2>1 DEF Agrees
<1>11. vault \in [SpotMarkets -> Nat]
  BY <1>1, <1>5
<1>12. SpotTypeOK
  BY <1>1, <1>4, <1>9, <1>10, <1>11 DEF SpotTypeOK, Positions
<1> QED
  BY <1>7, <1>8, <1>12 DEF LedgerInv

LEMMA StepKeepsLedger ==
  ASSUME LedgerInv, [SpotNext]_spotVars
  PROVE  LedgerInv'
<1>1. Amounts \subseteq Nat /\ Gifts \subseteq Nat
      /\ Swaps \subseteq [lent : Nat, back : Nat, out : Nat]
  BY SpotLedgerAssumption
<1>2. CASE \E u \in Users, m \in SpotMarkets, a \in Amounts, only \in BOOLEAN :
             Deposit(u, m, a, only) \/ Withdraw(u, m, a, only)
  BY <1>1, <1>2, DepositKeeps, WithdrawKeeps
<1>3. CASE \E u \in Users, m \in SpotMarkets, a \in Gifts : AdminDeposit(u, m, a)
  BY <1>1, <1>3, AdminDepositKeeps
<1>4. CASE \E u, v \in Users, m \in SpotMarkets, a \in Amounts :
             TransferDeposit(u, v, m, a)
  BY <1>1, <1>4, TransferDepositKeeps
<1>5. CASE \E r \in Routes, d, l \in Amounts \cup {0} : TransferPools(r, d, l)
  BY <1>1, <1>5, TransferPoolsKeeps
<1>6. CASE \E m \in SpotMarkets, a \in Gifts : DepositIntoRevenuePool(m, a)
  BY <1>1, <1>6, RevenueKeeps
<1>7. CASE \E m \in SpotMarkets : UpdateCumulativeInterest(m) \/ SetReduceOnly(m)
  BY <1>7, CrankKeeps, SetReduceOnlyKeeps
<1>8. CASE \E u \in Users, x, y \in SpotMarkets, s \in Swaps :
             Swap(u, x, y, s.lent, s.back, s.out)
  <2>1. PICK u \in Users, x \in SpotMarkets, y \in SpotMarkets, s \in Swaps :
               Swap(u, x, y, s.lent, s.back, s.out)
    BY <1>8
  <2>2. s.lent \in Nat /\ s.back \in Nat /\ s.out \in Nat
    BY <1>1
  <2> QED
    BY <2>1, <2>2, SwapKeeps
<1>9. CASE Tick
  <2>1. now' \in Nat
    BY <1>9, LedgerTypes DEF Tick
  <2> QED
    BY <1>9, <2>1, TickKeeps DEF Tick
<1>10. CASE UNCHANGED spotVars
  <2>1. now' \in Nat /\ UNCHANGED <<spotMarket, vault, pos, net, instructions>>
    BY <1>10, LedgerTypes DEF spotVars
  <2> QED
    BY <2>1, TickKeeps
<1> QED
  BY <1>2, <1>3, <1>4, <1>5, <1>6, <1>7, <1>8, <1>9, <1>10 DEF SpotNext

\* What the invariant says of the sums the property is about.
LentIn(m) == SumOf(m, FALSE)
BorrowedIn(m) == SumOf(m, TRUE)

LEMMA SumsOfBalances ==
  ASSUME pos \in Positions, NEW m \in SpotMarkets
  PROVE  LentIn(m) = OwnedIn(pos, m) /\ LentIn(m) + BorrowedIn(m) = HeldIn(pos, m)
         /\ LentIn(m) \in Nat /\ BorrowedIn(m) \in Nat
<1> DEFINE F == [u \in Users |-> IF pos[u][m].owed = FALSE THEN pos[u][m].n ELSE 0]
           G == [u \in Users |-> IF pos[u][m].owed = TRUE THEN pos[u][m].n ELSE 0]
           H == [u \in Users |-> pos[u][m].n]
           J == [u \in Users |-> Owned(pos[u][m])]
<1>1. IsFiniteSet(Users)
  BY SpotLedgerAssumption
<1>2. ASSUME NEW u \in Users
      PROVE  F[u] \in Nat /\ G[u] \in Nat /\ H[u] = F[u] + 1 * G[u] /\ F[u] = J[u]
  <2>1. pos[u][m].n \in Nat /\ pos[u][m].owed \in BOOLEAN
    BY BalanceParts DEF Positions
  <2>2. CASE pos[u][m].owed
    BY <2>1, <2>2 DEF Owned
  <2>3. CASE ~pos[u][m].owed
    BY <2>1, <2>3 DEF Owned
  <2> QED
    BY <2>2, <2>3
<1>3. F = J
  BY <1>2
<1>4. /\ LentIn(m) = SumFunctionOnSet(F, Users)
      /\ BorrowedIn(m) = SumFunctionOnSet(G, Users)
      /\ HeldIn(pos, m) = SumFunctionOnSet(H, Users)
      /\ OwnedIn(pos, m) = SumFunctionOnSet(J, Users)
  BY DEF LentIn, BorrowedIn, SumOf, SumOver, HeldIn, OwnedIn
<1> HIDE DEF F, G, H, J
<1>5. SumFunctionOnSet(F, Users) \in Nat /\ SumFunctionOnSet(G, Users) \in Nat
  BY <1>1, <1>2, SumIsNat
<1>6. SumFunctionOnSet(H, Users)
        = SumFunctionOnSet(F, Users) + 1 * SumFunctionOnSet(G, Users)
  BY <1>1, <1>2, SumLinear
<1> QED
  BY <1>3, <1>4, <1>5, <1>6

LEMMA LedgerAgrees ==
  ASSUME LedgerInv
  PROVE  BalancesCounted
<1>1. SpotTypeOK /\ pos \in Positions
  BY LedgerTypes DEF LedgerInv
<1>2. ASSUME NEW m \in SpotMarkets
      PROVE  /\ LentIn(m) + spotMarket[m].revenue <= spotMarket[m].deposits
             /\ spotMarket[m].deposits + spotMarket[m].borrows
                  = LentIn(m) + BorrowedIn(m) + spotMarket[m].revenue
  <2>1. /\ spotMarket[m].deposits \in Nat /\ spotMarket[m].revenue \in Nat
        /\ spotMarket[m].deposits + spotMarket[m].borrows
             = HeldIn(pos, m) + spotMarket[m].revenue
        /\ spotMarket[m].deposits - OwnedIn(pos, m) - spotMarket[m].revenue >= 0
    BY DEF LedgerInv, Agrees, AddsUp, Market
  <2>2. LentIn(m) = OwnedIn(pos, m) /\ LentIn(m) + BorrowedIn(m) = HeldIn(pos, m)
        /\ LentIn(m) \in Nat
    BY <1>1, SumsOfBalances
  <2> QED
    BY <2>1, <2>2
<1> QED
  BY <1>1, <1>2 DEF BalancesCounted, LentIn, BorrowedIn

\* Whatever deposits, withdrawals, transfers within and between pools, swaps,
\* gifts and cranks do to the balances of a market, its accounts and revenue
\* pool hold what its two totals hold together, and no less than all they lent
\* is counted as deposits (increase_spot_balance, decrease_spot_balance,
\* update_spot_balances).
THEOREM BalancesStayCounted == SpotSpec => []BalancesCounted
<1>1. SpotInit => LedgerInv
  BY OpeningAgrees
<1>2. LedgerInv /\ [SpotNext]_spotVars => LedgerInv'
  BY StepKeepsLedger
<1>3. LedgerInv => BalancesCounted
  BY LedgerAgrees
<1> QED
  BY <1>1, <1>2, <1>3, PTL DEF SpotSpec

\* The two totals are exactly the sums the comment on them promises.
TotalsExact ==
  \A m \in SpotMarkets :
    /\ spotMarket[m].deposits = LentIn(m) + spotMarket[m].revenue
    /\ spotMarket[m].borrows = BorrowedIn(m)

LEMMA LedgerExact ==
  ASSUME LedgerInv, Precision <= One
  PROVE  TotalsExact
<1>1. pos \in Positions /\ instructions \in Nat
  BY LedgerTypes
<1>2. BelowToken = 0
  <2>1. One \in Nat \ {0} /\ Precision \in Nat \ {0}
    BY SpotConstants
  <2>2. Precision - 1 \in Nat /\ Precision - 1 < One
    BY <2>1
  <2> QED
    BY <2>1, <2>2 DEF BelowToken
<1>3. instructions * BelowToken = 0
  BY <1>1, <1>2
<1>4. ASSUME NEW m \in SpotMarkets
      PROVE  /\ spotMarket[m].deposits = LentIn(m) + spotMarket[m].revenue
             /\ spotMarket[m].borrows = BorrowedIn(m)
  <2>1. /\ spotMarket[m].deposits \in Nat /\ spotMarket[m].revenue \in Nat
        /\ spotMarket[m].borrows \in Nat
        /\ spotMarket[m].deposits + spotMarket[m].borrows
             = HeldIn(pos, m) + spotMarket[m].revenue
        /\ spotMarket[m].deposits - OwnedIn(pos, m) - spotMarket[m].revenue \in 0..0
    BY <1>3 DEF LedgerInv, Agrees, AddsUp, Market
  <2>2. LentIn(m) = OwnedIn(pos, m) /\ LentIn(m) + BorrowedIn(m) = HeldIn(pos, m)
        /\ LentIn(m) \in Nat /\ BorrowedIn(m) \in Nat
    BY <1>1, SumsOfBalances
  <2> DEFINE d == spotMarket[m].deposits
             b == spotMarket[m].borrows
             r == spotMarket[m].revenue
             x == LentIn(m)
             y == BorrowedIn(m)
  <2>3. /\ d \in Nat /\ b \in Nat /\ r \in Nat /\ x \in Nat /\ y \in Nat
        /\ d + b = x + y + r /\ d - x - r \in 0..0
    BY <2>1, <2>2
  <2> HIDE DEF d, b, r, x, y
  <2>4. d = x + r /\ b = y
    BY <2>3
  <2> QED
    BY <2>4 DEF d, b, r, x, y
<1> QED
  BY <1>4 DEF TotalsExact

\* Of a token of nine decimals, whose scaled balances are no finer than its
\* units, deposit_balance and borrow_balance are exactly the sums of the
\* balances of accounts and revenue pool (state/spot_market.rs:61-67).
THEOREM TotalsExactForNineDecimals ==
  ASSUME Precision <= One
  PROVE  SpotSpec => []TotalsExact
<1>1. SpotInit => LedgerInv
  BY OpeningAgrees
<1>2. LedgerInv /\ [SpotNext]_spotVars => LedgerInv'
  BY StepKeepsLedger
<1>3. LedgerInv => TotalsExact
  BY LedgerExact
<1> QED
  BY <1>1, <1>2, <1>3, PTL DEF SpotSpec
=============================================================================
