------------------------ MODULE InsuranceFundProofs ------------------------
(***************************************************************************)
(* For any number of stakers, any amounts and any radix: the quantities of *)
(* the insurance fund stay unsigned and ordered, the stakes together are   *)
(* never worth more shares than the fund has issued, requests can be       *)
(* cancelled, and only a loss lowers what a share is worth.                *)
(***************************************************************************)
EXTENDS InsuranceFund, SumTheorems
-----------------------------------------------------------------------------
(* What the conversions of FundMath compute, for every input.              *)

(* Division with remainder determines its quotient. *)
LEMMA QuotientUnique ==
  ASSUME NEW a \in Int, NEW d \in Nat \ {0}, NEW q \in Int, NEW r \in Int,
         a = d * q + r, 0 <= r, r < d
  PROVE  a \div d = q
<1>1. a \div d \in Int /\ (a % d) \in 0 .. (d - 1)
  OBVIOUS
<1>2. a = d * (a \div d) + (a % d)
  OBVIOUS
<1> DEFINE e == (a \div d) - q
<1>3. e \in Int /\ d * e = r - (a % d)
  BY <1>1, <1>2
<1> HIDE DEF e
<1>4. ~(e >= 1)
  BY <1>1, <1>3
<1>5. ~(e <= -1)
  BY <1>1, <1>3
<1>6. e = 0
  BY <1>3, <1>4, <1>5
<1> QED
  BY <1>1, <1>6 DEF e

(* Division with remainder exists, in the form the lemmas below use it. *)
LEMMA Division ==
  ASSUME NEW a \in Nat, NEW d \in Nat \ {0}
  PROVE  /\ a \div d \in Nat
         /\ (a % d) \in 0 .. (d - 1)
         /\ a = d * (a \div d) + (a % d)
<1>1. a \div d \in Int /\ (a % d) \in 0 .. (d - 1)
  OBVIOUS
<1>2. a = d * (a \div d) + (a % d)
  OBVIOUS
<1>3. a \div d >= 0
  BY <1>1, <1>2
<1> QED
  BY <1>1, <1>2, <1>3

LEMMA ProductInNat ==
  ASSUME NEW a \in Nat, NEW b \in Nat
  PROVE  a * b \in Nat
OBVIOUS

(* get_proportion_u128 is the rounded-down quotient whichever branch it    *)
(* takes: its comment speaks of a "ceiling division", but that is the      *)
(* ceiling of the complement, which is subtracted.                         *)
THEOREM GetProportionIsFloor ==
  ASSUME NEW value \in Nat, NEW numerator \in Nat, NEW denominator \in Nat \ {0}
  PROVE  GetProportion(value, numerator, denominator)
           = (value * numerator) \div denominator
<1>1. CASE numerator = denominator
  <2>1. value * numerator = denominator * value + 0
    BY <1>1
  <2>2. (value * numerator) \div denominator = value
    BY <2>1, QuotientUnique, ProductInNat
  <2> QED
    BY <1>1, <2>2 DEF GetProportion
<1>2. CASE /\ numerator # denominator
           /\ numerator > denominator \div 2 /\ denominator > numerator
  <2> DEFINE c == value * (denominator - numerator)
             q == c \div denominator
             r == c % denominator
  <2>1. denominator - numerator \in Nat
    BY <1>2
  <2>2. c \in Nat
    BY <2>1, ProductInNat
  <2>3. q \in Nat /\ r \in 0 .. (denominator - 1) /\ c = denominator * q + r
    BY <2>2, Division
  <2>4. value * numerator = value * denominator - c
    BY <1>2
  <2> HIDE DEF c, q, r
  <2>5. value * numerator = denominator * (value - q) - r
    BY <2>2, <2>3, <2>4
  <2>6. CASE r = 0
    <3>1. (value * numerator) \div denominator = value - q
      <4>1. value * numerator = denominator * (value - q) + 0
        BY <2>3, <2>5, <2>6
      <4>2. value - q \in Int
        BY <2>3
      <4> QED
        BY <4>1, <4>2, QuotientUnique, ProductInNat
    <3> QED
      BY <1>2, <2>3, <2>6, <3>1 DEF GetProportion, c, q, r
  <2>7. CASE r # 0
    <3>1. (value * numerator) \div denominator = value - q - 1
      <4>1. value * numerator
              = denominator * (value - q - 1) + (denominator - r)
        BY <2>3, <2>5
      <4>2. /\ value - q - 1 \in Int
            /\ denominator - r \in Int
            /\ 0 <= denominator - r /\ denominator - r < denominator
        BY <2>3, <2>7
      <4> QED
        BY <4>1, <4>2, QuotientUnique, ProductInNat
    <3> QED
      BY <1>2, <2>3, <2>7, <3>1 DEF GetProportion, c, q, r
  <2> QED
    BY <2>6, <2>7
<1>3. CASE /\ numerator # denominator
           /\ ~(numerator > denominator \div 2 /\ denominator > numerator)
  BY <1>3 DEF GetProportion
<1> QED
  BY <1>1, <1>2, <1>3

(* Dividing twice rounds like dividing once by the product: this is why a  *)
(* stake that applies several rebases at once does not depend on when it   *)
(* does.                                                                   *)
LEMMA NestedDivision ==
  ASSUME NEW a \in Nat, NEW b \in Nat \ {0}, NEW c \in Nat \ {0}
  PROVE  /\ b * c \in Nat \ {0}
         /\ (a \div b) \div c = a \div (b * c)
<1> DEFINE q1 == a \div b
           r1 == a % b
           q2 == q1 \div c
           r2 == q1 % c
<1>1. q1 \in Nat /\ r1 \in 0 .. (b - 1) /\ a = b * q1 + r1
  BY Division
<1>2. q2 \in Nat /\ r2 \in 0 .. (c - 1) /\ q1 = c * q2 + r2
  BY <1>1, Division
<1> HIDE DEF q1, r1, q2, r2
<1>3. b * c \in Nat \ {0}
  OBVIOUS
<1>4. a = (b * c) * q2 + (b * r2 + r1)
  BY <1>1, <1>2
<1>5. b * r2 + r1 \in Int /\ 0 <= b * r2 + r1 /\ b * r2 + r1 < b * c
  <2>1. b * r2 <= b * (c - 1)
    BY <1>2
  <2> QED
    BY <1>1, <1>2, <2>1
<1>6. a \div (b * c) = q2
  <2> DEFINE d == b * c
             r == b * r2 + r1
  <2>1. d \in Nat \ {0} /\ r \in Int /\ a = d * q2 + r /\ 0 <= r /\ r < d
    BY <1>3, <1>4, <1>5
  <2> HIDE DEF d, r
  <2>2. a \div d = q2
    BY <1>2, <2>1, QuotientUnique
  <2> QED
    BY <2>2 DEF d
<1> QED
  BY <1>3, <1>6 DEF q1, q2

(* What a quotient rounded down is at most, and what it is not.            *)
LEMMA QuotientBounds ==
  ASSUME NEW a \in Nat, NEW d \in Nat \ {0}
  PROVE  /\ a \div d \in Nat
         /\ d * (a \div d) <= a
         /\ \A q \in Nat : d * q <= a => q <= a \div d
<1> DEFINE p == a \div d
<1>1. p \in Nat /\ d * p <= a /\ a < d * p + d
  BY Division
<1> HIDE DEF p
<1>2. ASSUME NEW q \in Nat, d * q <= a PROVE q <= p
  <2>1. SUFFICES ASSUME q >= p + 1 PROVE FALSE
    BY <1>1
  <2>2. d * q >= d * p + d
    BY <1>1, <2>1
  <2> QED
    BY <1>1, <1>2, <2>2
<1> QED
  BY <1>1, <1>2 DEF p

LEMMA DivideByOne ==
  ASSUME NEW a \in Nat
  PROVE  a \div 1 = a
<1>1. a = 1 * a + 0
  OBVIOUS
<1> QED
  BY <1>1, QuotientUnique

(* Rebases add up: applying two is applying one of the sum of their        *)
(* exponents.                                                              *)
LEMMA PowerOfSum ==
  ASSUME NEW a \in 0 .. MaxExpo, NEW b \in 0 .. MaxExpo - a
  PROVE  /\ Power[a] \in Nat \ {0} /\ Power[b] \in Nat \ {0}
         /\ Power[a + b] = Power[a] * Power[b]
<1> DEFINE n == MaxExpo - a
           P == {k \in 0 .. n : Power[a + k] = Power[a] * Power[k]}
<1>1. MaxExpo \in Nat /\ Radix \in Nat /\ n \in Nat /\ a \in Nat
  BY PowerAssumption
<1>2. \A e \in 0 .. MaxExpo : Power[e] \in Nat \ {0}
  BY PowerAssumption
<1>3. 0 \in P
  <2>1. Power[a] * Power[0] = Power[a]
    BY <1>2, PowerAssumption
  <2> QED
    BY <1>1, <2>1
<1>4. ASSUME NEW k \in 0 .. n - 1, k \in P
      PROVE  k + 1 \in P
  <2> DEFINE x == Power[a]
             y == Power[k]
  <2>1. k + 1 \in 1 .. MaxExpo /\ a + (k + 1) \in 1 .. MaxExpo
        /\ (k + 1) - 1 = k /\ (a + (k + 1)) - 1 = a + k
    BY <1>1
  <2>2. Power[k + 1] = Radix * y
    BY <2>1, PowerAssumption
  <2>3. Power[a + (k + 1)] = Radix * Power[a + k]
    BY <2>1, PowerAssumption
  <2>4. Power[a + k] = x * y
    BY <1>4
  <2>5. x \in Nat /\ y \in Nat
    BY <1>1, <1>2, <1>4
  <2> HIDE DEF x, y
  <2>6. Radix * (x * y) = x * (Radix * y)
    BY <1>1, <2>5
  <2>7. Power[a + (k + 1)] = x * Power[k + 1]
    BY <2>2, <2>3, <2>4, <2>6
  <2> QED
    BY <1>1, <1>4, <2>7 DEF x
<1>5. \A k \in 0 .. n : k \in P
  <2> HIDE DEF P, n
  <2> QED
    BY <1>1, <1>3, <1>4, UpToInduction
<1> QED
  BY <1>1, <1>2, <1>5

LEMMA PowerGrows ==
  ASSUME NEW b \in 0 .. MaxExpo, NEW a \in 0 .. b
  PROVE  Power[a] <= Power[b]
<1> DEFINE x == Power[a]
           y == Power[b - a]
<1>1. MaxExpo \in Nat
  BY PowerAssumption
<1>2. a \in 0 .. MaxExpo /\ b - a \in 0 .. MaxExpo - a /\ a + (b - a) = b
  BY <1>1
<1>3. x \in Nat \ {0} /\ y \in Nat \ {0} /\ Power[a + (b - a)] = x * y
  BY <1>2, PowerOfSum
<1>4. Power[b] = x * y
  BY <1>2, <1>3
<1> HIDE DEF x, y
<1>5. x <= x * y
  BY <1>3
<1> QED
  BY <1>3, <1>4, <1>5 DEF x

LEMMA LogType ==
  ASSUME NEW n \in Nat
  PROVE  Log(n) \in 0 .. MaxExpo
<1>1. IsFiniteSet(1 .. MaxExpo) /\ Cardinality(1 .. MaxExpo) = MaxExpo
  BY FS_Interval, PowerAssumption
<1>2. {e \in 1 .. MaxExpo : Power[e] <= n} \subseteq 1 .. MaxExpo
  OBVIOUS
<1>3. /\ IsFiniteSet({e \in 1 .. MaxExpo : Power[e] <= n})
      /\ Cardinality({e \in 1 .. MaxExpo : Power[e] <= n}) <= MaxExpo
  BY <1>1, <1>2, FS_Subset
<1>4. Cardinality({e \in 1 .. MaxExpo : Power[e] <= n}) \in Nat
  BY <1>3, FS_CardinalityType
<1> QED
  BY <1>3, <1>4 DEF Log

(* A rebase never divides by more than what it was computed from.          *)
LEMMA PowerOfLog ==
  ASSUME NEW n \in Nat, Log(n) > 0
  PROVE  Power[Log(n)] <= n
<1> DEFINE l == Log(n)
           E == {e \in 1 .. MaxExpo : Power[e] <= n}
<1>1. l \in 1 .. MaxExpo /\ MaxExpo \in Nat
  BY LogType, PowerAssumption
<1>2. \A e \in 0 .. MaxExpo : Power[e] \in Nat
  BY PowerAssumption
<1>3. SUFFICES ASSUME Power[l] > n PROVE FALSE
  BY <1>1, <1>2
<1>4. ASSUME NEW e \in E PROVE e \in 1 .. l - 1
  <2>1. SUFFICES ASSUME e >= l PROVE FALSE
    BY <1>1
  <2>2. e \in 0 .. MaxExpo /\ l \in 0 .. e
    BY <1>1, <2>1
  <2>3. Power[l] <= Power[e]
    BY <2>2, PowerGrows
  <2>4. Power[l] \in Nat /\ Power[e] \in Nat /\ Power[e] <= n
    BY <1>1, <1>2, <2>2
  <2> QED
    BY <1>3, <2>3, <2>4
<1>5. E \subseteq 1 .. l - 1
  BY <1>4
<1>6. IsFiniteSet(1 .. l - 1) /\ Cardinality(1 .. l - 1) = l - 1
  <2> DEFINE b == l - 1
  <2>1. b \in Int /\ (1 > b => b = 0)
    BY <1>1
  <2> HIDE DEF b
  <2>2. IsFiniteSet(1 .. b) /\ Cardinality(1 .. b) = b
    BY <2>1, FS_Interval
  <2> QED
    BY <2>2 DEF b
<1>7. Cardinality(E) <= l - 1
  <2> HIDE DEF E, l
  <2> QED
    BY <1>5, <1>6, FS_Subset
<1>8. Cardinality(E) = l
  BY DEF Log
<1> QED
  BY <1>1, <1>7, <1>8
-----------------------------------------------------------------------------
(* The fund.                                                               *)

LEMMA DivideMonotone ==
  ASSUME NEW a \in Nat, NEW b \in Nat, NEW d \in Nat \ {0}, a <= b
  PROVE  /\ a \div d \in Nat /\ b \div d \in Nat
         /\ a \div d <= b \div d /\ a \div d <= a
<1>1. /\ a \div d \in Nat /\ (a % d) \in 0 .. (d - 1)
      /\ a = d * (a \div d) + (a % d)
  BY Division
<1>2. /\ b \div d \in Nat /\ (b % d) \in 0 .. (d - 1)
      /\ b = d * (b \div d) + (b % d)
  BY Division
<1> DEFINE p == a \div d
           q == b \div d
<1>3. p \in Nat /\ q \in Nat
  BY <1>1, <1>2
<1>4. d * p <= a /\ a < d * q + d
  BY <1>1, <1>2
<1> HIDE DEF p, q
<1>5. p <= q
  <2>1. SUFFICES ASSUME p >= q + 1 PROVE FALSE
    BY <1>3
  <2>2. d * p >= d * q + d
    BY <1>3, <2>1
  <2> QED
    BY <1>3, <1>4, <2>2
<1>6. p <= a
  <2>1. d * p >= p
    BY <1>3
  <2> QED
    BY <1>3, <1>4, <2>1
<1> QED
  BY <1>3, <1>5, <1>6 DEF p, q

LEMMA GetProportionType ==
  ASSUME NEW v \in Nat, NEW n \in Nat, NEW d \in Nat \ {0}
  PROVE  GetProportion(v, n, d) \in Nat
<1>1. v * n \in Nat
  BY ProductInNat
<1> QED
  BY <1>1, GetProportionIsFloor, Division

LEMMA ConversionTypes ==
  ASSUME NEW f \in Fund, NEW n \in Nat
  PROVE  ToShares(n, f) \in Nat /\ ToAmount(n, f) \in Nat
<1>1. f.vault \in Nat /\ f.total \in Nat
  BY DEF Fund
<1>2. ASSUME f.vault > 0 PROVE GetProportion(n, f.total, f.vault) \in Nat
  <2>1. f.vault \in Nat \ {0}
    BY <1>1, <1>2
  <2> QED
    BY <1>1, <2>1, GetProportionType, Zenon
<1>3. ASSUME f.total > 0 PROVE GetProportion(f.vault, n, f.total) \in Nat
  <2>1. f.total \in Nat \ {0}
    BY <1>1, <1>3
  <2> QED
    BY <1>1, <2>1, GetProportionType, Zenon
<1>4. ToShares(n, f) \in Nat
  BY <1>2 DEF ToShares, VaultAmountToIfShares
<1>5. ToAmount(n, f) \in Nat
  BY <1>3 DEF ToAmount, IfSharesToVaultAmount
<1> QED
  BY <1>4, <1>5

(* A rebase of the fund keeps its vault and the order of its shares.       *)
LEMMA RebaseFundOrdered ==
  ASSUME NEW f \in Fund, f.user <= f.total
  PROVE  /\ RebaseFund(f) \in Fund
         /\ RebaseFund(f).vault = f.vault
         /\ RebaseFund(f).settledAt = f.settledAt
         /\ RebaseFund(f).base >= f.base
         /\ RebaseFund(f).user <= RebaseFund(f).total
<1> DEFINE expo == RebaseExpo(f.total, f.vault)
           f1 == IF f.vault # 0 /\ f.vault < f.total
                 THEN [f EXCEPT !.total = @ \div Power[expo],
                                !.user = @ \div Power[expo],
                                !.base = @ + expo]
                 ELSE f
<1>1. f1 \in Fund /\ f1.vault = f.vault /\ f1.settledAt = f.settledAt
        /\ f1.base >= f.base /\ f1.user <= f1.total
  <2>1. CASE f.vault # 0 /\ f.vault < f.total
    <3>1. f.total \div Radix \in Nat
      BY Division, PowerAssumption DEF Fund
    <3>2. (f.total \div Radix) \div f.vault \in Nat
      BY <2>1, <3>1, Division DEF Fund
    <3>3. expo \in 0 .. MaxExpo
      BY <3>2, LogType DEF RebaseExpo
    <3>4. Power[expo] \in Nat \ {0}
      BY <3>3, PowerAssumption
    <3> HIDE DEF expo
    <3>5. /\ f.total \div Power[expo] \in Nat
          /\ f.user \div Power[expo] \in Nat
          /\ f.user \div Power[expo] <= f.total \div Power[expo]
      BY <3>4, DivideMonotone DEF Fund
    <3> DEFINE t == f.total \div Power[expo]
               u == f.user \div Power[expo]
    <3>6. f1 = [f EXCEPT !.total = t, !.user = u, !.base = @ + expo]
      BY <2>1
    <3>7. t \in Nat /\ u \in Nat /\ u <= t /\ expo \in Nat
      BY <3>3, <3>5, PowerAssumption
    <3>8. f1 = [vault |-> f.vault, total |-> t, user |-> u,
                base |-> f.base + expo, settledAt |-> f.settledAt]
      BY <3>6 DEF Fund
    <3> HIDE DEF t, u, f1
    <3>9. f.vault \in Nat /\ f.base \in Nat /\ f.settledAt \in Nat
      BY DEF Fund
    <3>10. f1 \in Fund
      BY <3>7, <3>8, <3>9 DEF Fund
    <3>11. /\ f1.vault = f.vault /\ f1.settledAt = f.settledAt
           /\ f1.base >= f.base /\ f1.user <= f1.total
      BY <3>7, <3>8, <3>9
    <3> QED
      BY <3>10, <3>11
  <2>2. CASE ~(f.vault # 0 /\ f.vault < f.total)
    BY <2>2 DEF Fund
  <2> QED
    BY <2>1, <2>2
<1>2. RebaseFund(f) = IF f1.vault # 0 /\ f1.total = 0
                      THEN [f1 EXCEPT !.total = f1.vault] ELSE f1
  BY DEF RebaseFund
<1> HIDE DEF f1
<1> QED
  BY <1>1, <1>2 DEF Fund

(* A rebase of a stake keeps its request within it.                        *)
LEMMA RebaseStakeOrdered ==
  ASSUME NEW f \in Fund, NEW s \in Stake, RebaseDefined(s, f)
  PROVE  /\ RebaseStake(s, f) \in Stake
         /\ RebaseStake(s, f).base = f.base
         /\ RebaseStake(s, f).reqValue = s.reqValue
         /\ RebaseStake(s, f).reqTs = s.reqTs
         /\ s.reqShares <= s.shares =>
              RebaseStake(s, f).reqShares <= RebaseStake(s, f).shares
<1> DEFINE d == Power[f.base - s.base]
           x == s.shares \div d
           y == s.reqShares \div d
<1>1. f.base - s.base \in 0 .. MaxExpo
  BY PowerAssumption DEF RebaseDefined, Fund, Stake
<1>2. d \in Nat \ {0}
  BY <1>1, PowerAssumption
<1>3. RebaseStake(s, f)
        = [s EXCEPT !.base = f.base, !.shares = x, !.reqShares = y]
  BY DEF RebaseStake
<1> HIDE DEF d
<1>4. x \in Nat /\ y \in Nat /\ (s.reqShares <= s.shares => y <= x)
  BY <1>2, Division, DivideMonotone DEF Stake
<1> HIDE DEF x, y
<1> QED
  BY <1>3, <1>4 DEF Stake, Fund
-----------------------------------------------------------------------------
(* A fund in good order, and the invariant: every reachable fund is one.   *)
GoodFund(f) == /\ f \in Fund
               /\ f.user <= f.total
               /\ f.total > 0 => f.vault > 0

IInv == TypeOK /\ SharesOrdered /\ FundStaysOpen

LEMMA SettleAmountType ==
  ASSUME NEW pool \in Pools, fund \in Fund, now \in Nat
  PROVE  SettleAmount(pool) \in Nat
<1>1. pool.revenue \in Nat /\ pool.claim \in Nat /\ fund.vault \in Nat
  BY FundAssumption DEF Fund
<1> DEFINE available == IF pool.claim < pool.revenue
                        THEN pool.claim \div 2 ELSE pool.revenue
           aprCap == (fund.vault * AprNumerator) \div AprDenominator
<1>2. available \in Nat
  BY <1>1, Division
<1>3. aprCap \in Nat
  <2>1. fund.vault * AprNumerator \in Nat
    BY <1>1, FundAssumption, ProductInNat
  <2> QED
    BY <2>1, FundAssumption, Division
<1> HIDE DEF available, aprCap
<1>4. available \div RevenueDivisor \in Nat
  BY <1>2, FundAssumption, Division
<1>5. SettleAmount(pool)
        = IF fund.user > 0 THEN Least(available \div RevenueDivisor, aprCap)
                           ELSE available
  BY DEF SettleAmount, available, aprCap
<1> QED
  BY <1>2, <1>3, <1>4, <1>5 DEF Least

LEMMA SettledFundGood ==
  ASSUME NEW amount \in Nat, GoodFund(fund), now \in Nat, SettleDefined
  PROVE  GoodFund(SettledFund(amount)) /\ SettledFund(amount).base = fund.base
<1> DEFINE minted == IF UserFactor < TotalFactor
                     THEN ToShares(ProtocolCut(amount), fund) ELSE 0
<1>1. ProtocolCut(amount) \in Nat \/ ~(UserFactor < TotalFactor)
  <2>1. ASSUME UserFactor < TotalFactor PROVE ProtocolCut(amount) \in Nat
    <3>1. amount * (TotalFactor - UserFactor) \in Nat
      BY <2>1, FundAssumption, ProductInNat
    <3>2. TotalFactor \in Nat \ {0}
      BY <2>1, FundAssumption
    <3> QED
      BY <3>1, <3>2, Division DEF ProtocolCut
  <2> QED
    BY <2>1
<1>2. minted \in Nat
  BY <1>1, ConversionTypes DEF GoodFund
<1>3. fund.vault = 0 /\ minted > 0 => amount > 0
  <2>1. SUFFICES ASSUME fund.vault = 0, minted > 0, amount = 0 PROVE FALSE
    OBVIOUS
  <2>2. UserFactor < TotalFactor
    BY <2>1
  <2>3. TotalFactor \in Nat \ {0} /\ TotalFactor - UserFactor \in Nat
    BY <2>2, FundAssumption
  <2>4. 0 * (TotalFactor - UserFactor) = TotalFactor * 0 + 0
    BY <2>3
  <2>5. (0 * (TotalFactor - UserFactor)) \div TotalFactor = 0
    BY <2>3, <2>4, QuotientUnique
  <2>6. ProtocolCut(amount) = 0
    BY <2>1, <2>5 DEF ProtocolCut
  <2>7. minted = 0
    BY <2>1, <2>2, <2>6 DEF ToShares, VaultAmountToIfShares
  <2> QED
    BY <2>1, <2>7
<1>4. fund.vault = 0 => fund.total = 0
  BY DEF GoodFund, Fund
<1>5. SettledFund(amount)
        = [fund EXCEPT !.vault = @ + amount, !.total = @ + minted,
                       !.settledAt = now]
  BY DEF SettledFund
<1> HIDE DEF minted
<1>6. SettledFund(amount)
        = [vault |-> fund.vault + amount, total |-> fund.total + minted,
           user |-> fund.user, base |-> fund.base, settledAt |-> now]
  BY <1>5 DEF GoodFund, Fund
<1>7. /\ fund.vault \in Nat /\ fund.total \in Nat /\ fund.user \in Nat
      /\ fund.base \in Nat /\ fund.user <= fund.total
  BY DEF GoodFund, Fund
<1>8. SettledFund(amount) \in Fund
  BY <1>2, <1>6, <1>7 DEF Fund
<1> QED
  BY <1>2, <1>3, <1>4, <1>6, <1>7, <1>8 DEF GoodFund

LEMMA FundAfterAttemptGood ==
  ASSUME NEW pool \in Pools, GoodFund(fund), now \in Nat, AttemptDefined
  PROVE  /\ GoodFund(FundAfterAttempt(pool))
         /\ FundAfterAttempt(pool).base = fund.base
<1>1. SettleAmount(pool) \in Nat
  BY SettleAmountType DEF GoodFund
<1> QED
  BY <1>1, SettledFundGood DEF FundAfterAttempt, AttemptDefined

LEMMA RebaseFundGood ==
  ASSUME NEW f, GoodFund(f)
  PROVE  /\ GoodFund(RebaseFund(f))
         /\ RebaseFund(f).vault = f.vault
         /\ RebaseFund(f).base >= f.base
<1>1. CASE f.vault > 0
  BY <1>1, RebaseFundOrdered DEF GoodFund
<1>2. CASE f.vault = 0
  BY <1>2, RebaseFundOrdered DEF GoodFund, RebaseFund
<1>3. f.vault \in Nat
  BY DEF GoodFund, Fund
<1> QED
  BY <1>1, <1>2, <1>3

(* What every instruction of a staker must establish about its results.    *)
LEMMA StakeStep ==
  ASSUME IInv, NEW u \in Users, NEW t \in Stake, NEW x \in Nat,
         GoodFund(fund'), fund'.base >= fund.base,
         t.base <= fund'.base, t.reqShares <= t.shares,
         stake' = [stake EXCEPT ![u] = t],
         staked' = [staked EXCEPT ![u] = x],
         now' = now
  PROVE  IInv'
<1>1. TypeOK'
  BY DEF IInv, TypeOK, GoodFund
<1>2. SharesOrdered'
  <2>1. fund'.user <= fund'.total
    BY DEF GoodFund
  <2>2. ASSUME NEW v \in Users
        PROVE  /\ stake'[v].base <= fund'.base
               /\ stake'[v].reqShares <= stake'[v].shares
    <3>1. CASE v = u
      BY <3>1 DEF IInv, TypeOK
    <3>2. CASE v # u
      <4>1. stake'[v] = stake[v]
        BY <3>2 DEF IInv, TypeOK
      <4>2. stake[v].base <= fund.base /\ stake[v].reqShares <= stake[v].shares
        BY DEF IInv, SharesOrdered
      <4>3. stake[v].base \in Nat /\ fund.base \in Nat /\ fund'.base \in Nat
        BY DEF IInv, TypeOK, Stake, Fund, GoodFund
      <4> QED
        BY <4>1, <4>2, <4>3
    <3> QED
      BY <3>1, <3>2
  <2> QED
    BY <2>1, <2>2 DEF SharesOrdered
<1>3. FundStaysOpen'
  BY DEF FundStaysOpen, GoodFund
<1> QED
  BY <1>1, <1>2, <1>3 DEF IInv

(* What every instruction of staker u does: once the fund is rebased to f  *)
(* and the stake with it, both change by the same number of shares.        *)
Moves(u, f, shares) ==
  /\ GoodFund(f) /\ f.base >= fund.base /\ RebaseDefined(stake[u], f)
  /\ GoodFund(fund') /\ fund'.base = f.base
  /\ fund'.user = f.user + shares /\ fund'.total = f.total + shares
  /\ \E t \in Stake, x \in Nat :
       /\ t.base = f.base /\ t.reqShares <= t.shares
       /\ t.shares = RebaseStake(stake[u], f).shares + shares
       /\ stake' = [stake EXCEPT ![u] = t]
       /\ staked' = [staked EXCEPT ![u] = x]
  /\ now' = now

LEMMA MovesKeeps ==
  ASSUME IInv, NEW u \in Users, NEW f, NEW n, Moves(u, f, n)
  PROVE  IInv'
<1>1. PICK t \in Stake, x \in Nat :
        /\ t.base = f.base /\ t.reqShares <= t.shares
        /\ stake' = [stake EXCEPT ![u] = t]
        /\ staked' = [staked EXCEPT ![u] = x]
  BY DEF Moves
<1>2. GoodFund(fund') /\ fund'.base = f.base /\ f.base >= fund.base /\ now' = now
  BY DEF Moves
<1>3. t.base \in Nat
  BY DEF Stake
<1>4. fund'.base >= fund.base /\ t.base <= fund'.base
  BY <1>1, <1>2, <1>3
<1> QED
  BY <1>1, <1>2, <1>4, StakeStep

(* The two ways the instructions update a fund.                            *)
WithShares(f, t, n) == [f EXCEPT !.total = t, !.user = n]
WithVault(f, v) == [f EXCEPT !.vault = v]

LEMMA FundShares ==
  ASSUME NEW f \in Fund, NEW t \in Nat, NEW n \in Nat
  PROVE  /\ WithShares(f, t, n) \in Fund
         /\ WithShares(f, t, n).vault = f.vault
         /\ WithShares(f, t, n).base = f.base
         /\ WithShares(f, t, n).total = t
         /\ WithShares(f, t, n).user = n
<1>1. ASSUME NEW g, g = [f EXCEPT !.total = t, !.user = n]
      PROVE  /\ g \in Fund /\ g.vault = f.vault /\ g.base = f.base
             /\ g.total = t /\ g.user = n
  <2>1. g = [vault |-> f.vault, total |-> t, user |-> n,
             base |-> f.base, settledAt |-> f.settledAt]
    BY <1>1 DEF Fund
  <2> QED
    BY <1>1, <2>1 DEF Fund
<1>2. WithShares(f, t, n) = [f EXCEPT !.total = t, !.user = n]
  BY DEF WithShares
<1> QED
  BY <1>1, <1>2, Zenon

LEMMA FundVault ==
  ASSUME NEW f \in Fund, NEW v \in Nat
  PROVE  /\ WithVault(f, v) \in Fund
         /\ WithVault(f, v).vault = v
         /\ WithVault(f, v).base = f.base
         /\ WithVault(f, v).total = f.total
         /\ WithVault(f, v).user = f.user
<1>1. ASSUME NEW g, g = [f EXCEPT !.vault = v]
      PROVE  /\ g \in Fund /\ g.vault = v /\ g.base = f.base
             /\ g.total = f.total /\ g.user = f.user
  <2>1. g = [vault |-> v, total |-> f.total, user |-> f.user,
             base |-> f.base, settledAt |-> f.settledAt]
    BY <1>1 DEF Fund
  <2> QED
    BY <1>1, <2>1 DEF Fund
<1>2. WithVault(f, v) = [f EXCEPT !.vault = v]
  BY DEF WithVault
<1> QED
  BY <1>1, <1>2, Zenon

(* What cancelling and removing leave of a stake.                          *)
WithoutRequest(s, n, ts) ==
  [s EXCEPT !.shares = n, !.reqShares = 0, !.reqValue = 0, !.reqTs = ts]

LEMMA StakeWithoutRequest ==
  ASSUME NEW s \in Stake, NEW n \in Nat, NEW ts \in Nat
  PROVE  /\ WithoutRequest(s, n, ts) \in Stake
         /\ WithoutRequest(s, n, ts).base = s.base
         /\ WithoutRequest(s, n, ts).reqShares
              <= WithoutRequest(s, n, ts).shares
<1>1. ASSUME NEW t, t = [s EXCEPT !.shares = n, !.reqShares = 0,
                                  !.reqValue = 0, !.reqTs = ts]
      PROVE  t \in Stake /\ t.base = s.base /\ t.reqShares <= t.shares
  <2>1. t = [shares |-> n, base |-> s.base, reqShares |-> 0,
             reqValue |-> 0, reqTs |-> ts]
    BY <1>1 DEF Stake
  <2> QED
    BY <1>1, <2>1 DEF Stake
<1>2. WithoutRequest(s, n, ts) = [s EXCEPT !.shares = n, !.reqShares = 0,
                                           !.reqValue = 0, !.reqTs = ts]
  BY DEF WithoutRequest
<1> QED
  BY <1>1, <1>2, Zenon

LEMMA StakedAmountType ==
  ASSUME NEW f \in Fund, NEW n \in Nat, NEW delta \in Int, f.vault + delta \in Nat
  PROVE  StakedAmount(n, f, delta) \in Nat
<1>1. [f EXCEPT !.vault = @ + delta] \in Fund
  BY DEF Fund
<1> QED
  BY <1>1, ConversionTypes DEF StakedAmount

LEMMA AddMoves ==
  ASSUME IInv, NEW u \in Users, NEW amount \in Amounts, NEW pool \in Pools,
         AddStake(u, amount, pool)
  PROVE  LET f == RebaseFund(FundAfterAttempt(pool))
         IN  /\ Moves(u, f, ToShares(amount, f))
             /\ fund'.vault = f.vault + amount
<1> DEFINE before == FundAfterAttempt(pool)
           f == RebaseFund(before)
           s == RebaseStake(stake[u], f)
           n == ToShares(amount, f)
           grown == [f EXCEPT !.total = @ + n, !.user = @ + n]
           t == [s EXCEPT !.shares = @ + n]
           x == StakedAmount(s.shares + n, grown, amount)
<1>1. amount \in Nat \ {0}
  BY FundAssumption
<1>2. GoodFund(fund) /\ now \in Nat
  BY DEF IInv, TypeOK, SharesOrdered, FundStaysOpen, GoodFund
<1>3. GoodFund(before) /\ before.base = fund.base
  BY <1>2, FundAfterAttemptGood DEF AddStake
<1>4. GoodFund(f) /\ f.base >= fund.base
  BY <1>3, RebaseFundGood
<1>5. n \in Nat
  BY <1>1, <1>4, ConversionTypes DEF GoodFund
<1>6. /\ RebaseDefined(stake[u], f)
      /\ fund' = [grown EXCEPT !.vault = @ + amount]
      /\ stake' = [stake EXCEPT ![u] = t]
      /\ staked' = [staked EXCEPT ![u] = x]
      /\ now' = now
  BY DEF AddStake, AddInsuranceFundStake
<1>7. stake[u] \in Stake /\ stake[u].reqShares <= stake[u].shares
  BY DEF IInv, TypeOK, SharesOrdered
<1>8. s \in Stake /\ s.base = f.base /\ s.reqShares <= s.shares
  BY <1>4, <1>6, <1>7, RebaseStakeOrdered DEF GoodFund
<1> HIDE DEF before, f, s, n
<1>9. t \in Stake /\ t.base = f.base /\ t.reqShares <= t.shares
  BY <1>5, <1>8 DEF Stake
<1>10. /\ grown \in Fund /\ grown.vault = f.vault /\ grown.base = f.base
       /\ grown.total = f.total + n /\ grown.user = f.user + n
  <2> DEFINE total == f.total + n
             user == f.user + n
  <2>1. f \in Fund
    BY <1>4 DEF GoodFund
  <2>2. total \in Nat /\ user \in Nat
    BY <1>5, <2>1 DEF Fund
  <2>3. grown = WithShares(f, total, user)
    BY DEF WithShares
  <2> HIDE DEF grown, total, user
  <2>4. /\ grown \in Fund /\ grown.vault = f.vault /\ grown.base = f.base
        /\ grown.total = total /\ grown.user = user
    BY <2>1, <2>2, <2>3, FundShares
  <2> QED
    BY <2>4 DEF total, user
<1>11. x \in Nat
  <2>1. s.shares + n \in Nat
    BY <1>5, <1>8 DEF Stake
  <2> HIDE DEF grown
  <2>2. grown.vault + amount \in Nat
    BY <1>1, <1>10 DEF Fund
  <2> QED
    BY <1>1, <1>10, <2>1, <2>2, StakedAmountType
<1>12. t.shares = s.shares + n
  BY <1>8 DEF Stake
<1> HIDE DEF grown, t, x
<1>13. /\ GoodFund(fund') /\ fund'.base = f.base /\ fund'.vault = f.vault + amount
       /\ fund'.user = f.user + n /\ fund'.total = f.total + n
  BY <1>1, <1>4, <1>5, <1>6, <1>10 DEF GoodFund, Fund
<1>14. Moves(u, f, n)
  BY <1>4, <1>6, <1>9, <1>11, <1>12, <1>13 DEF Moves, s
<1> QED
  BY <1>13, <1>14 DEF f, n, before

LEMMA GoodFundOfInvariant ==
  ASSUME IInv
  PROVE  GoodFund(fund) /\ now \in Nat
BY DEF IInv, TypeOK, SharesOrdered, FundStaysOpen, GoodFund

LEMMA RequestMoves ==
  ASSUME IInv, NEW u \in Users, NEW amount \in Amounts,
         RequestRemove(u, amount)
  PROVE  /\ Moves(u, RebaseFund(fund), 0)
         /\ fund' = RebaseFund(fund)
<1> DEFINE n == ToShares(amount, fund)
           f == RebaseFund(fund)
           asked == [stake[u] EXCEPT !.reqShares = n]
           s == RebaseStake(asked, f)
           value == Least(ToAmount(s.reqShares, f), Greatest(f.vault - 1, 0))
           t == [s EXCEPT !.reqValue = value, !.reqTs = now]
           x == StakedAmount(s.shares, f, 0)
<1>1. GoodFund(fund) /\ now \in Nat /\ amount \in Nat
  BY GoodFundOfInvariant, FundAssumption
<1>2. n \in Nat
  BY <1>1, ConversionTypes DEF GoodFund
<1>3. GoodFund(f) /\ f.base >= fund.base
  BY <1>1, RebaseFundGood
<1>4. stake[u] \in Stake
  BY DEF IInv, TypeOK
<1>5. /\ RebaseDefined(stake[u], f) /\ s.reqShares <= s.shares
      /\ fund' = f
      /\ stake' = [stake EXCEPT ![u] = t]
      /\ staked' = [staked EXCEPT ![u] = x]
      /\ now' = now
  BY DEF RequestRemove, RequestRemoveInsuranceFundStake
<1> HIDE DEF n
<1>6. asked \in Stake /\ asked.base = stake[u].base
  BY <1>2, <1>4 DEF Stake
<1>7. RebaseDefined(asked, f)
  BY <1>5, <1>6 DEF RebaseDefined
<1> HIDE DEF f, asked
<1>8. s \in Stake /\ s.base = f.base
  BY <1>3, <1>6, <1>7, RebaseStakeOrdered DEF GoodFund
<1> HIDE DEF s
<1>9. f \in Fund /\ f.vault \in Nat /\ s.reqShares \in Nat /\ s.shares \in Nat
  BY <1>3, <1>8 DEF GoodFund, Fund, Stake
<1>10. value \in Nat
  <2>1. ToAmount(s.reqShares, f) \in Nat
    BY <1>9, ConversionTypes
  <2> QED
    BY <1>9, <2>1 DEF Least, Greatest
<1>11. x \in Nat
  <2>1. f.vault + 0 \in Nat
    BY <1>9
  <2> QED
    BY <1>9, <2>1, StakedAmountType
<1> HIDE DEF value, x
<1>12. t \in Stake /\ t.base = f.base /\ t.reqShares <= t.shares
  BY <1>1, <1>5, <1>8, <1>10 DEF Stake
<1>13. t.shares = s.shares /\ RebaseStake(stake[u], f).shares \in Nat
  <2>1. s.shares = RebaseStake(stake[u], f).shares
    BY <1>4 DEF s, asked, RebaseStake, Stake
  <2>2. t.shares = s.shares
    BY <1>8 DEF Stake
  <2> QED
    BY <1>9, <2>1, <2>2
<1>14. s.shares = RebaseStake(stake[u], f).shares
  BY <1>4 DEF s, asked, RebaseStake, Stake
<1> HIDE DEF t
<1>15. Moves(u, f, 0)
  <2>1. f.user + 0 = f.user /\ f.total + 0 = f.total
    BY <1>9 DEF Fund
  <2>2. t.shares = RebaseStake(stake[u], f).shares + 0
    BY <1>13, <1>14
  <2> QED
    BY <1>3, <1>5, <1>11, <1>12, <2>1, <2>2 DEF Moves
<1> QED
  BY <1>5, <1>15 DEF f

LEMMA CancelMoves ==
  ASSUME IInv, NEW u \in Users, CancelRequest(u)
  PROVE  \E lost \in Nat : /\ Moves(u, RebaseFund(fund), -lost)
                           /\ fund'.vault = fund.vault
<1> DEFINE f == RebaseFund(fund)
           s == RebaseStake(stake[u], f)
           lost == SharesLost(s, f)
           left == [f EXCEPT !.total = @ - lost, !.user = @ - lost]
           t == [s EXCEPT !.shares = @ - lost, !.reqShares = 0,
                          !.reqValue = 0, !.reqTs = now]
           x == StakedAmount(s.shares - lost, left, 0)
<1>1. GoodFund(fund) /\ now \in Nat
  BY GoodFundOfInvariant
<1>2. GoodFund(f) /\ f.base >= fund.base
  BY <1>1, RebaseFundGood
<1>3. stake[u] \in Stake
  BY DEF IInv, TypeOK
<1>4. /\ RebaseDefined(stake[u], f)
      /\ SharesLostDefined(s, f)
      /\ lost <= s.shares /\ lost <= f.user /\ lost <= f.total
      /\ fund' = left
      /\ stake' = [stake EXCEPT ![u] = t]
      /\ staked' = [staked EXCEPT ![u] = x]
      /\ now' = now
  BY DEF CancelRequest, CancelAllowed, CancelRequestRemoveInsuranceFundStake
<1>5. s \in Stake /\ s.base = f.base
  BY <1>2, <1>3, <1>4, RebaseStakeOrdered DEF GoodFund
<1> HIDE DEF f, s
<1>6. f \in Fund /\ s.shares \in Nat /\ s.reqShares \in Nat /\ s.reqValue \in Nat
  BY <1>2, <1>5 DEF GoodFund, Stake
<1>7. lost \in Nat
  <2>1. CASE ToAmount(s.reqShares, f) > s.reqValue
    <3> DEFINE kept == VaultAmountToIfShares(s.reqValue,
                         f.total - s.reqShares, f.vault - s.reqValue)
    <3>1. /\ s.reqShares <= f.total /\ s.reqValue <= f.vault
          /\ lost >= 0
      BY <1>4, <2>1 DEF SharesLostDefined, AmountDefined
    <3>2. f.total - s.reqShares \in Nat /\ f.vault - s.reqValue \in Nat
      BY <1>6, <3>1 DEF Fund
    <3>3. kept \in Nat
      <4>1. CASE f.vault - s.reqValue > 0
        <5>1. f.vault - s.reqValue \in Nat \ {0}
          BY <3>2, <4>1
        <5>2. GetProportion(s.reqValue, f.total - s.reqShares,
                            f.vault - s.reqValue) \in Nat
          BY <1>6, <3>2, <5>1, GetProportionType
        <5> QED
          BY <4>1, <5>2 DEF VaultAmountToIfShares
      <4>2. CASE ~(f.vault - s.reqValue > 0)
        BY <1>6, <4>2 DEF VaultAmountToIfShares
      <4> QED
        BY <4>1, <4>2
    <3>4. lost = s.reqShares - kept
      BY <2>1 DEF SharesLost
    <3> HIDE DEF kept, lost
    <3> QED
      BY <1>6, <3>1, <3>3, <3>4
  <2>2. CASE ~(ToAmount(s.reqShares, f) > s.reqValue)
    BY <2>2 DEF SharesLost
  <2> QED
    BY <2>1, <2>2
<1> HIDE DEF lost
<1>8. /\ left \in Fund /\ left.vault = f.vault /\ left.base = f.base
      /\ left.total = f.total - lost /\ left.user = f.user - lost
  <2> DEFINE total == f.total - lost
             user == f.user - lost
  <2>1. total \in Nat /\ user \in Nat
    BY <1>4, <1>6, <1>7 DEF Fund
  <2>2. left = WithShares(f, total, user)
    BY DEF WithShares
  <2> HIDE DEF left, total, user, t, x
  <2>3. f \in Fund
    BY <1>6
  <2>4. /\ left \in Fund /\ left.vault = f.vault /\ left.base = f.base
        /\ left.total = total /\ left.user = user
    BY <2>1, <2>2, <2>3, FundShares
  <2> QED
    BY <2>4 DEF total, user
<1>9. x \in Nat
  <2> HIDE DEF left
  <2>1. s.shares - lost \in Nat /\ left.vault + 0 \in Nat
    BY <1>4, <1>6, <1>7, <1>8 DEF Fund
  <2> QED
    BY <1>8, <2>1, StakedAmountType
<1>10. t \in Stake /\ t.base = f.base /\ t.reqShares <= t.shares
  <2> DEFINE rest == s.shares - lost
  <2>1. rest \in Nat
    BY <1>4, <1>6, <1>7
  <2>2. t = WithoutRequest(s, rest, now)
    BY DEF WithoutRequest
  <2> HIDE DEF t, rest
  <2> QED
    BY <1>1, <1>5, <2>1, <2>2, StakeWithoutRequest
<1>11. t.shares = s.shares - lost
  BY <1>5 DEF Stake
<1> HIDE DEF left, t, x
<1>12. GoodFund(left)
  BY <1>2, <1>4, <1>6, <1>7, <1>8 DEF GoodFund, Fund
<1>13. Moves(u, f, -lost)
  <2>1. /\ f.user - lost = f.user + (-lost) /\ f.total - lost = f.total + (-lost)
        /\ s.shares - lost = s.shares + (-lost)
    BY <1>6, <1>7 DEF Fund
  <2> QED
    BY <1>2, <1>4, <1>8, <1>9, <1>10, <1>11, <1>12, <2>1 DEF Moves, s
<1> QED
  <2>1. f.vault = fund.vault
    BY <1>1, RebaseFundGood DEF f
  <2> QED
    BY <1>4, <1>7, <1>8, <1>13, <2>1 DEF f

LEMMA WithdrawAmountType ==
  ASSUME NEW f \in Fund, NEW s \in Stake
  PROVE  WithdrawAmount(s, f) \in Nat /\ WithdrawAmount(s, f) <= s.reqValue
<1>1. s.reqShares \in Nat /\ s.reqValue \in Nat
  BY DEF Stake
<1>2. ToAmount(s.reqShares, f) \in Nat
  BY <1>1, ConversionTypes
<1> QED
  BY <1>1, <1>2 DEF WithdrawAmount, Least

(* The guard that the instruction leaves a token in the vault is what keeps *)
(* the vault unsigned here.                                                *)
LEMMA RemoveMoves ==
  ASSUME IInv, NEW u \in Users, RemoveStake(u)
  PROVE  LET f == RebaseFund(fund)
             s == RebaseStake(stake[u], f)
         IN  /\ s \in Stake /\ s.reqShares <= f.total
             /\ Moves(u, f, -s.reqShares)
             /\ fund'.vault = f.vault - WithdrawAmount(s, f)
<1> DEFINE f == RebaseFund(fund)
           s == RebaseStake(stake[u], f)
           n == s.reqShares
           paid == WithdrawAmount(s, f)
           left == [f EXCEPT !.total = @ - n, !.user = @ - n]
           t == [s EXCEPT !.shares = @ - n, !.reqShares = 0,
                          !.reqValue = 0, !.reqTs = now]
           x == StakedAmount(s.shares - n, left, -paid)
<1>1. GoodFund(fund) /\ now \in Nat
  BY GoodFundOfInvariant
<1>2. GoodFund(f) /\ f.base >= fund.base
  BY <1>1, RebaseFundGood
<1>3. stake[u] \in Stake
  BY DEF IInv, TypeOK
<1>4. /\ RebaseDefined(stake[u], f)
      /\ n > 0 /\ s.shares >= n
      /\ n <= f.user /\ n <= f.total
      /\ fund' = [left EXCEPT !.vault = @ - paid]
      /\ stake' = [stake EXCEPT ![u] = t]
      /\ staked' = [staked EXCEPT ![u] = x]
      /\ fund'.vault > 0
      /\ now' = now
  BY DEF RemoveStake, RemoveInsuranceFundStake
<1>5. s \in Stake /\ s.base = f.base
  BY <1>2, <1>3, <1>4, RebaseStakeOrdered DEF GoodFund
<1> HIDE DEF f, s
<1>6. f \in Fund /\ s.shares \in Nat /\ n \in Nat
  BY <1>2, <1>5 DEF GoodFund, Stake
<1>7. paid \in Nat
  BY <1>5, <1>6, WithdrawAmountType
<1> HIDE DEF n, paid
<1>8. /\ left \in Fund /\ left.vault = f.vault /\ left.base = f.base
      /\ left.total = f.total - n /\ left.user = f.user - n
  <2> DEFINE total == f.total - n
             user == f.user - n
  <2>1. total \in Nat /\ user \in Nat
    BY <1>4, <1>6 DEF Fund
  <2>2. left = WithShares(f, total, user)
    BY DEF WithShares
  <2> HIDE DEF left, total, user, t, x
  <2>3. f \in Fund
    BY <1>6
  <2>4. /\ left \in Fund /\ left.vault = f.vault /\ left.base = f.base
        /\ left.total = total /\ left.user = user
    BY <2>1, <2>2, <2>3, FundShares
  <2> QED
    BY <2>4 DEF total, user
<1>9. f.vault - paid \in Nat /\ f.vault - paid > 0
  <2> HIDE DEF left, t, x
  <2>1. fund'.vault = left.vault - paid
    BY <1>4, <1>8 DEF Fund
  <2> QED
    BY <1>4, <1>6, <1>7, <1>8, <2>1 DEF Fund
<1>10. /\ fund' \in Fund /\ fund'.vault = f.vault - paid
       /\ fund'.base = f.base
       /\ fund'.total = f.total - n /\ fund'.user = f.user - n
  <2> DEFINE vault == left.vault - paid
  <2> HIDE DEF left, t, x
  <2>1. left \in Fund /\ vault \in Nat
    BY <1>8, <1>9
  <2>2. fund' = WithVault(left, vault)
    BY <1>4 DEF WithVault
  <2> HIDE DEF vault
  <2>3. /\ fund' \in Fund /\ fund'.vault = vault /\ fund'.base = left.base
        /\ fund'.total = left.total /\ fund'.user = left.user
    BY <2>1, <2>2, FundVault
  <2> QED
    BY <1>8, <2>3 DEF vault
<1>11. x \in Nat
  <2> HIDE DEF left, t
  <2>1. f.vault \in Nat /\ left.vault = f.vault
    BY <1>6, <1>8 DEF Fund
  <2>2. /\ s.shares - n \in Nat /\ -paid \in Int
        /\ left.vault + (-paid) \in Nat
    BY <1>4, <1>6, <1>7, <1>9, <2>1
  <2> QED
    BY <1>8, <2>2, StakedAmountType
<1>12. t \in Stake /\ t.base = f.base /\ t.reqShares <= t.shares
  <2> DEFINE rest == s.shares - n
  <2>1. rest \in Nat
    BY <1>4, <1>6
  <2>2. t = WithoutRequest(s, rest, now)
    BY DEF WithoutRequest
  <2> HIDE DEF t, rest
  <2> QED
    BY <1>1, <1>5, <2>1, <2>2, StakeWithoutRequest
<1>13. t.shares = s.shares - n
  BY <1>5 DEF Stake
<1> HIDE DEF left, t, x
<1>14. GoodFund(fund')
  BY <1>2, <1>4, <1>6, <1>9, <1>10 DEF GoodFund, Fund
<1>15. Moves(u, f, -n)
  <2>1. /\ f.user - n = f.user + (-n) /\ f.total - n = f.total + (-n)
        /\ s.shares - n = s.shares + (-n)
    BY <1>6 DEF Fund
  <2> QED
    BY <1>2, <1>4, <1>10, <1>11, <1>12, <1>13, <1>14, <2>1 DEF Moves, s
<1> QED
  BY <1>4, <1>5, <1>10, <1>15 DEF f, s, n, paid

(* A step that leaves the stakes alone.                                    *)
LEMMA FundStep ==
  ASSUME IInv, GoodFund(fund'), fund'.base = fund.base,
         stake' = stake, staked' = staked, now' \in Nat
  PROVE  IInv'
BY DEF IInv, TypeOK, SharesOrdered, FundStaysOpen, GoodFund

LEMMA SettlePreserves ==
  ASSUME IInv, NEW pool \in Pools, SettleRevenue(pool)
  PROVE  IInv'
<1>1. GoodFund(fund) /\ now \in Nat
  BY GoodFundOfInvariant
<1>2. SettleAmount(pool) \in Nat
  BY <1>1, SettleAmountType DEF GoodFund
<1>3. GoodFund(fund') /\ fund'.base = fund.base
  BY <1>1, <1>2, SettledFundGood DEF SettleRevenue
<1> QED
  BY <1>1, <1>3, FundStep DEF SettleRevenue

LEMMA PayPreserves ==
  ASSUME IInv, NEW loss \in Amounts, NEW pool \in Pools,
         PayFromInsurance(loss, pool)
  PROVE  IInv'
<1> DEFINE f == FundAfterAttempt(pool)
           paid == InsurancePayment(loss, f)
           vault == f.vault - paid
<1>1. GoodFund(fund) /\ now \in Nat /\ loss \in Nat
  BY GoodFundOfInvariant, FundAssumption
<1>2. GoodFund(f) /\ f.base = fund.base
  BY <1>1, FundAfterAttemptGood DEF PayFromInsurance
<1>3. paid > 0 /\ fund' = [f EXCEPT !.vault = @ - paid]
        /\ UNCHANGED <<now, stake, staked>>
  BY DEF PayFromInsurance
<1> HIDE DEF f
<1>4. f \in Fund /\ f.vault \in Nat
  BY <1>2 DEF GoodFund, Fund
<1>5. paid \in Nat /\ (f.vault > 0 => paid < f.vault) /\ vault \in Nat
  BY <1>1, <1>3, <1>4 DEF InsurancePayment, Least, Greatest
<1>6. fund' = WithVault(f, vault)
  BY <1>3 DEF WithVault
<1> HIDE DEF paid
<1>7. vault > 0 \/ f.vault = 0
  BY <1>4, <1>5
<1> HIDE DEF vault
<1>8. /\ fund' \in Fund /\ fund'.vault = vault /\ fund'.base = f.base
      /\ fund'.total = f.total /\ fund'.user = f.user
  BY <1>4, <1>5, <1>6, FundVault
<1>9. GoodFund(fund') /\ fund'.base = fund.base
  BY <1>2, <1>4, <1>7, <1>8 DEF GoodFund, Fund
<1> QED
  BY <1>1, <1>3, <1>9, FundStep

LEMMA TickPreserves ==
  ASSUME IInv, Tick
  PROVE  IInv'
<1>1. GoodFund(fund) /\ now \in Nat
  BY GoodFundOfInvariant
<1>2. GoodFund(fund') /\ now' \in Nat
  BY <1>1 DEF Tick
<1> QED
  BY <1>2, FundStep DEF Tick
-----------------------------------------------------------------------------
(* Every reachable state of the insurance fund is well typed, ordered and  *)
(* open, for every set of users, every amount, radix and clock.            *)
THEOREM InvariantHolds == Spec => []IInv
<1>1. Init => IInv
  <2> SUFFICES ASSUME Init PROVE IInv
    OBVIOUS
  <2>1. fund \in Fund /\ now \in Nat /\ staked \in [Users -> Nat]
    BY DEF Init, Fund
  <2>2. NewStake \in Stake
    BY DEF NewStake, Stake
  <2>3. stake \in [Users -> Stake]
    BY <2>2 DEF Init
  <2>4. SharesOrdered /\ FundStaysOpen
    BY DEF Init, SharesOrdered, FundStaysOpen, NewStake
  <2> QED
    BY <2>1, <2>3, <2>4 DEF IInv, TypeOK
<1>2. IInv /\ [Next]_vars => IInv'
  <2> SUFFICES ASSUME IInv, [Next]_vars PROVE IInv'
    OBVIOUS
  <2>1. CASE Tick
    BY <2>1, TickPreserves
  <2>2. ASSUME NEW pool \in Pools, SettleRevenue(pool) PROVE IInv'
    BY <2>2, SettlePreserves
  <2>3. ASSUME NEW u \in Users, NEW amount \in Amounts, NEW pool \in Pools,
               AddStake(u, amount, pool)
        PROVE  IInv'
    BY <2>3, AddMoves, MovesKeeps
  <2>4. ASSUME NEW u \in Users, NEW amount \in Amounts,
               RequestRemove(u, amount)
        PROVE  IInv'
    BY <2>4, RequestMoves, MovesKeeps
  <2>5. ASSUME NEW u \in Users, CancelRequest(u) PROVE IInv'
    BY <2>5, CancelMoves, MovesKeeps
  <2>6. ASSUME NEW u \in Users, RemoveStake(u) PROVE IInv'
    BY <2>6, RemoveMoves, MovesKeeps
  <2>7. ASSUME NEW loss \in Amounts, NEW pool \in Pools,
               PayFromInsurance(loss, pool)
        PROVE  IInv'
    BY <2>7, PayPreserves
  <2>8. CASE UNCHANGED vars
    BY <2>8 DEF vars, IInv, TypeOK, SharesOrdered, FundStaysOpen
  <2> QED
    BY <2>1, <2>2, <2>3, <2>4, <2>5, <2>6, <2>7, <2>8 DEF Next
<1> QED
  BY <1>1, <1>2, PTL DEF Spec

(* The checked arithmetic of the instructions never leaves its types.      *)
THEOREM TypesHold == Spec => []TypeOK
<1>1. IInv => TypeOK
  BY DEF IInv
<1> QED
  BY <1>1, InvariantHolds, PTL

(* Fund and stakes are rebased and rounded at different times, and yet no  *)
(* stake is ahead of the fund and no request larger than its stake.        *)
THEOREM SharesStayOrdered == Spec => []SharesOrdered
<1>1. IInv => SharesOrdered
  BY DEF IInv
<1> QED
  BY <1>1, InvariantHolds, PTL

(* No sequence of losses, withdrawals and settlements leaves shares in an  *)
(* empty vault, which would close the fund to new stakes.                  *)
THEOREM FundIsAlwaysOpen == Spec => []FundStaysOpen
<1>1. IInv => FundStaysOpen
  BY DEF IInv
<1> QED
  BY <1>1, InvariantHolds, PTL

(* Together: what every instruction of the fund takes for granted, for any *)
(* users, amounts, pools and periods.                                      *)
THEOREM FundStaysSound == Spec => []FundSound
<1>1. SharesOrdered /\ FundStaysOpen <=> FundSound
  BY DEF FundSound
<1> QED BY <1>1, SharesStayOrdered, FundIsAlwaysOpen, PTL
-----------------------------------------------------------------------------
(* What a rebase divides by: a power of the radix that leaves some shares  *)
(* of a fund that had any.                                                 *)
LEMMA RebaseFundShape ==
  ASSUME NEW f, GoodFund(f)
  PROVE  \E e \in 0 .. MaxExpo :
           /\ RebaseFund(f).base = f.base + e
           /\ RebaseFund(f).user = f.user \div Power[e]
           /\ RebaseFund(f).vault = f.vault
           /\ f.total > 0 => /\ RebaseFund(f).total > 0
                             /\ Power[e] * RebaseFund(f).total <= f.total
<1> DEFINE l == RebaseExpo(f.total, f.vault)
           g == RebaseFund(f)
<1>1. /\ f \in Fund /\ f.vault \in Nat /\ f.total \in Nat /\ f.user \in Nat
      /\ f.base \in Nat /\ (f.total > 0 => f.vault > 0) /\ f.user <= f.total
  BY DEF GoodFund, Fund
<1>2. Power[0] = 1 /\ MaxExpo \in Nat /\ Radix \in Nat \ {0}
  BY PowerAssumption
<1>3. CASE f.vault # 0 /\ f.vault < f.total
  <2> DEFINE a == f.total \div Radix
             b == a \div f.vault
             d == Power[l]
             t == f.total \div d
             u == f.user \div d
  <2>1. f.vault \in Nat \ {0} /\ f.total > 0
    BY <1>1, <1>3
  <2>2. a \in Nat /\ Radix * a <= f.total
    BY <1>1, <1>2, QuotientBounds
  <2>3. b \in Nat /\ f.vault * b <= a
    BY <2>1, <2>2, QuotientBounds
  <2>4. l = Log(b)
    BY DEF RebaseExpo
  <2>5. l \in 0 .. MaxExpo
    BY <2>3, <2>4, LogType
  <2>6. d \in Nat \ {0}
    BY <2>5, PowerAssumption
  <2>7. d <= f.total
    <3>1. CASE l = 0
      BY <1>1, <1>2, <2>1, <3>1
    <3>2. CASE l > 0
      <4>1. d <= b
        BY <2>3, <2>4, <3>2, PowerOfLog
      <4> HIDE DEF a, b, d
      <4>2. b <= a
        <5>1. f.vault * b >= b
          BY <2>1, <2>3
        <5> QED
          BY <1>1, <2>2, <2>3, <5>1
      <4>3. a <= f.total
        <5>1. Radix * a >= a
          BY <1>2, <2>2
        <5> QED
          BY <1>1, <1>2, <2>2, <5>1
      <4> QED
        BY <1>1, <2>2, <2>3, <2>6, <4>1, <4>2, <4>3
    <3> QED
      BY <2>5, <3>1, <3>2
  <2> HIDE DEF l
  <2>8. t \in Nat /\ d * t <= f.total /\ 1 <= t
    <3> HIDE DEF d
    <3>1. d * 1 = d
      BY <2>6
    <3> QED
      BY <1>1, <2>6, <2>7, <3>1, QuotientBounds
  <2>9. u \in Nat
    BY <1>1, <2>6, QuotientBounds
  <2>10. g = [f EXCEPT !.total = t, !.user = u, !.base = @ + l]
    <3> DEFINE f1 == [f EXCEPT !.total = @ \div Power[l],
                               !.user = @ \div Power[l], !.base = @ + l]
    <3>1. g = IF f1.vault # 0 /\ f1.total = 0 THEN [f1 EXCEPT !.total = f1.vault]
                                              ELSE f1
      BY <1>3 DEF RebaseFund, l
    <3>2. f1.total = t
      BY <1>1 DEF Fund
    <3> HIDE DEF f1, t
    <3>3. g = f1
      BY <2>8, <3>1, <3>2
    <3> QED
      BY <3>3 DEF f1, t
  <2> HIDE DEF d, t, u, g
  <2>11. /\ g.base = f.base + l /\ g.user = u /\ g.vault = f.vault /\ g.total = t
    BY <1>1, <2>10 DEF Fund
  <2> QED
    BY <2>5, <2>8, <2>11 DEF d, u, g
<1>4. CASE ~(f.vault # 0 /\ f.vault < f.total)
  <2>1. g = f \/ (f.total = 0 /\ g = [f EXCEPT !.total = f.vault])
    BY <1>1, <1>4 DEF RebaseFund
  <2>2. g.user = f.user /\ g.base = f.base + 0 /\ g.vault = f.vault
        /\ (f.total > 0 => g.total = f.total)
    BY <1>1, <2>1 DEF Fund
  <2>3. f.user \div Power[0] = f.user /\ Power[0] * f.total = f.total
    BY <1>1, <1>2, DivideByOne
  <2> HIDE DEF g
  <2>4. /\ 0 \in 0 .. MaxExpo /\ g.base = f.base + 0
        /\ g.user = f.user \div Power[0] /\ g.vault = f.vault
        /\ f.total > 0 => g.total > 0 /\ Power[0] * g.total <= f.total
    BY <1>1, <1>2, <2>2, <2>3
  <2> QED
    BY <2>4 DEF g
<1> QED
  BY <1>3, <1>4
-----------------------------------------------------------------------------
(* The stakes stay backed.  Worth is EffectiveShares for any stakes and    *)
(* any fund.                                                               *)
SharesOf(s, f) == IF RebaseDefined(s, f) THEN RebaseStake(s, f).shares ELSE 0
Worth(st, f) == [u \in Users |-> SharesOf(st[u], f)]
Backed(st, f) == SumFunctionOnSet(Worth(st, f), Users) <= f.user

LEMMA SharesOfType ==
  ASSUME NEW s \in Stake, NEW f \in Fund
  PROVE  SharesOf(s, f) \in Nat
BY RebaseStakeOrdered DEF SharesOf, Stake

LEMMA SharesOfRebased ==
  ASSUME NEW s \in Stake, NEW f \in Fund, NEW g \in Fund, s.base <= f.base,
         NEW e \in 0 .. MaxExpo, g.base = f.base + e
  PROVE  Power[e] \in Nat /\ Power[e] * SharesOf(s, g) <= SharesOf(s, f)
<1>1. /\ s.shares \in Nat /\ s.base \in Nat /\ f.base \in Nat /\ g.base \in Nat
      /\ MaxExpo \in Nat /\ e \in Nat /\ Power[e] \in Nat \ {0}
  BY PowerAssumption DEF Stake, Fund
<1>2. CASE RebaseDefined(s, g)
  <2> DEFINE k == f.base - s.base
             c == Power[k]
             d == Power[e]
             x == s.shares \div c
  <2>1. k \in 0 .. MaxExpo /\ e \in 0 .. MaxExpo - k /\ g.base - s.base = k + e
    BY <1>1, <1>2 DEF RebaseDefined
  <2>2. c \in Nat \ {0} /\ d \in Nat \ {0} /\ Power[k + e] = c * d
    BY <2>1, PowerOfSum
  <2>3. RebaseDefined(s, f)
    BY <1>1, <2>1 DEF RebaseDefined
  <2>4. SharesOf(s, f) = x
    BY <2>3 DEF SharesOf, RebaseStake, Stake
  <2>5. SharesOf(s, g) = s.shares \div Power[k + e]
    BY <1>2, <2>1 DEF SharesOf, RebaseStake, Stake
  <2> HIDE DEF c, d, k
  <2>6. x \div d = s.shares \div (c * d)
    BY <1>1, <2>2, NestedDivision
  <2>7. x \in Nat
    BY <1>1, <2>2, QuotientBounds
  <2> HIDE DEF x
  <2>8. d * (x \div d) <= x
    BY <2>2, <2>7, QuotientBounds
  <2> QED
    BY <1>1, <2>2, <2>4, <2>5, <2>6, <2>8 DEF d
<1>3. CASE ~RebaseDefined(s, g)
  <2>1. SharesOf(s, g) = 0 /\ SharesOf(s, f) \in Nat
    BY <1>3, SharesOfType DEF SharesOf
  <2>2. Power[e] * 0 = 0
    BY <1>1
  <2> QED
    BY <1>1, <2>1, <2>2
<1> QED
  BY <1>2, <1>3

(* A stake just rebased is worth its shares.                               *)
LEMMA SharesOfCurrent ==
  ASSUME NEW s \in Stake, NEW f \in Fund, s.base = f.base
  PROVE  SharesOf(s, f) = s.shares
<1>1. s.shares \in Nat /\ f.base \in Nat /\ f.base - s.base = 0
  BY DEF Stake, Fund
<1>2. RebaseDefined(s, f) /\ Power[0] = 1
  BY <1>1, PowerAssumption DEF RebaseDefined
<1>3. RebaseStake(s, f).shares = s.shares \div 1
  BY <1>1, <1>2 DEF RebaseStake, Stake
<1> QED
  BY <1>1, <1>2, <1>3, DivideByOne DEF SharesOf

(* Rounding every stake down on its own loses nothing the fund still has.  *)
LEMMA RebaseKeepsBacked ==
  ASSUME NEW st \in [Users -> Stake], NEW f, GoodFund(f), Backed(st, f),
         \A u \in Users : st[u].base <= f.base
  PROVE  Backed(st, RebaseFund(f))
<1> DEFINE g == RebaseFund(f)
           F == Worth(st, f)
           G == Worth(st, g)
           a == SumFunctionOnSet(F, Users)
           b == SumFunctionOnSet(G, Users)
<1>1. PICK e \in 0 .. MaxExpo : g.base = f.base + e /\ g.user = f.user \div Power[e]
  BY RebaseFundShape
<1>2. f \in Fund /\ g \in Fund /\ f.user \in Nat
  BY RebaseFundGood DEF GoodFund, Fund
<1>3. Power[e] \in Nat \ {0}
  BY PowerAssumption
<1> HIDE DEF g
<1>4. ASSUME NEW u \in Users
      PROVE  F[u] \in Nat /\ G[u] \in Nat /\ Power[e] * G[u] <= F[u]
  <2>1. st[u] \in Stake /\ st[u].base <= f.base
    OBVIOUS
  <2>2. F[u] = SharesOf(st[u], f) /\ G[u] = SharesOf(st[u], g)
    BY DEF Worth
  <2> QED
    BY <1>1, <1>2, <2>1, <2>2, SharesOfType, SharesOfRebased
<1> HIDE DEF F, G
<1>5. IsFiniteSet(Users)
  BY FundAssumption
<1>6. a \in Nat /\ b \in Nat
  BY <1>4, <1>5, SumIsNat
<1>7. Power[e] * b <= a
  BY <1>3, <1>4, <1>5, SumOfParts
<1>8. a <= f.user
  BY DEF Backed, F
<1> HIDE DEF a, b
<1>9. b <= f.user \div Power[e]
  <2>1. Power[e] * b \in Nat /\ Power[e] * b <= f.user
    BY <1>2, <1>3, <1>6, <1>7, <1>8
  <2> QED
    BY <1>2, <1>3, <1>6, <2>1, QuotientBounds
<1> QED
  BY <1>1, <1>9 DEF Backed, b, G, g

(* The fund and one stake change by the same number of shares.             *)
LEMMA MovesKeepBacked ==
  ASSUME IInv, NEW u \in Users, NEW f, NEW n \in Int, Moves(u, f, n),
         Backed(stake, f)
  PROVE  Backed(stake', fund')
<1>1. PICK t \in Stake :
        /\ t.base = f.base
        /\ t.shares = RebaseStake(stake[u], f).shares + n
        /\ stake' = [stake EXCEPT ![u] = t]
  BY DEF Moves
<1>2. /\ f \in Fund /\ fund' \in Fund /\ fund'.base = f.base
      /\ fund'.user = f.user + n /\ RebaseDefined(stake[u], f)
      /\ f.user \in Int
  BY DEF Moves, GoodFund, Fund
<1>3. stake \in [Users -> Stake]
  BY DEF IInv, TypeOK
<1> DEFINE F == Worth(stake, f)
           G == Worth(stake', fund')
           a == SumFunctionOnSet(F, Users)
           b == SumFunctionOnSet(G, Users)
<1>4. ASSUME NEW v \in Users
      PROVE  F[v] \in Nat /\ (v # u => F[v] = G[v])
  <2>1. F[v] = SharesOf(stake[v], f) /\ G[v] = SharesOf(stake'[v], fund')
    BY DEF Worth
  <2>2. v # u => stake'[v] = stake[v]
    BY <1>1, <1>3
  <2>3. SharesOf(stake[v], f) = SharesOf(stake[v], fund')
    BY <1>2 DEF SharesOf, RebaseStake, RebaseDefined
  <2> QED
    BY <1>2, <1>3, <2>1, <2>2, <2>3, SharesOfType
<1>5. G[u] = F[u] + n
  <2>1. G[u] = SharesOf(t, fund') /\ F[u] = SharesOf(stake[u], f)
    BY <1>1, <1>3 DEF Worth
  <2>2. SharesOf(t, fund') = t.shares
    BY <1>1, <1>2, SharesOfCurrent
  <2>3. SharesOf(stake[u], f) = RebaseStake(stake[u], f).shares
    BY <1>2 DEF SharesOf
  <2> QED
    BY <1>1, <2>1, <2>2, <2>3
<1> HIDE DEF F, G
<1>6. IsFiniteSet(Users)
  BY FundAssumption
<1>7. F[u] \in Int /\ G[u] \in Int
  BY <1>4, <1>5
<1>8. b = a + (G[u] - F[u])
  BY <1>4, <1>6, <1>7, SumUpdate
<1>9. a \in Int /\ a <= f.user
  BY <1>4, <1>6, SumIsInt DEF Backed, F
<1> HIDE DEF a, b
<1>10. b <= fund'.user
  BY <1>2, <1>5, <1>7, <1>8, <1>9
<1> QED
  BY <1>10 DEF Backed, b, G

LEMMA StakesBackedIsBacked ==
  ASSUME TRUE
  PROVE  /\ StakesBacked <=> Backed(stake, fund)
         /\ StakesBacked' <=> Backed(stake', fund')
BY DEF StakesBacked, EffectiveShares, Backed, Worth, SharesOf

(* A settlement or a payment leaves the users' shares alone.               *)
LEMMA SettledBacked ==
  ASSUME NEW pool \in Pools, GoodFund(fund), Backed(stake, fund)
  PROVE  Backed(stake, FundAfterAttempt(pool))
<1> DEFINE f == FundAfterAttempt(pool)
<1>1. fund \in Fund
  BY DEF GoodFund
<1>2. f.user = fund.user /\ f.base = fund.base
  BY <1>1 DEF FundAfterAttempt, SettledFund, Fund
<1> HIDE DEF f
<1>3. Worth(stake, f) = Worth(stake, fund)
  BY <1>2 DEF Worth, SharesOf, RebaseDefined, RebaseStake
<1> QED
  BY <1>2, <1>3 DEF Backed, f

LEMMA SameBacked ==
  ASSUME GoodFund(fund), Backed(stake, fund), stake' = stake,
         fund'.user = fund.user, fund'.base = fund.base
  PROVE  Backed(stake', fund')
<1>1. Worth(stake', fund') = Worth(stake, fund)
  BY DEF Worth, SharesOf, RebaseDefined, RebaseStake
<1> QED
  BY <1>1 DEF Backed

LEMMA NextKeepsBacked ==
  ASSUME IInv, StakesBacked, [Next]_vars
  PROVE  StakesBacked'
<1>1. GoodFund(fund) /\ now \in Nat /\ Backed(stake, fund)
  BY GoodFundOfInvariant, StakesBackedIsBacked
<1>2. SUFFICES Backed(stake', fund')
  BY StakesBackedIsBacked
<1>3. /\ stake \in [Users -> Stake]
      /\ \A u \in Users : stake[u].base <= fund.base
  BY DEF IInv, TypeOK, SharesOrdered
<1>4. Backed(stake, RebaseFund(fund))
  BY <1>1, <1>3, RebaseKeepsBacked
<1>5. CASE Tick \/ UNCHANGED vars
  BY <1>1, <1>5, SameBacked DEF Tick, vars
<1>6. ASSUME NEW pool \in Pools, SettleRevenue(pool)
      PROVE  Backed(stake', fund')
  <2>1. fund'.user = fund.user /\ fund'.base = fund.base /\ stake' = stake
    BY <1>1, <1>6 DEF SettleRevenue, SettledFund, GoodFund, Fund
  <2> QED
    BY <1>1, <2>1, SameBacked
<1>7. ASSUME NEW u \in Users, NEW amount \in Amounts, NEW pool \in Pools,
             AddStake(u, amount, pool)
      PROVE  Backed(stake', fund')
  <2> DEFINE before == FundAfterAttempt(pool)
             f == RebaseFund(before)
             n == ToShares(amount, f)
  <2>1. GoodFund(before) /\ before.base = fund.base /\ amount \in Nat
    BY <1>1, <1>7, FundAfterAttemptGood, FundAssumption DEF AddStake
  <2>2. Backed(stake, before)
    BY <1>1, SettledBacked
  <2>3. Backed(stake, f)
    BY <1>3, <2>1, <2>2, RebaseKeepsBacked
  <2>4. Moves(u, f, n)
    BY <1>7, AddMoves
  <2>5. n \in Int
    BY <2>1, <2>4, ConversionTypes DEF Moves, GoodFund
  <2> HIDE DEF f, n
  <2> QED
    BY <2>3, <2>4, <2>5, MovesKeepBacked
<1>8. ASSUME NEW u \in Users, NEW amount \in Amounts,
             RequestRemove(u, amount)
      PROVE  Backed(stake', fund')
  BY <1>4, <1>8, RequestMoves, MovesKeepBacked
<1>9. ASSUME NEW u \in Users, CancelRequest(u)
      PROVE  Backed(stake', fund')
  <2>1. PICK lost \in Nat : Moves(u, RebaseFund(fund), -lost)
    BY <1>9, CancelMoves
  <2>2. -lost \in Int
    OBVIOUS
  <2> QED
    BY <1>4, <2>1, <2>2, MovesKeepBacked
<1>10. ASSUME NEW u \in Users, RemoveStake(u)
       PROVE  Backed(stake', fund')
  <2> DEFINE s == RebaseStake(stake[u], RebaseFund(fund))
  <2>1. s \in Stake /\ Moves(u, RebaseFund(fund), -s.reqShares)
    BY <1>10, RemoveMoves
  <2> HIDE DEF s
  <2>2. -s.reqShares \in Int
    BY <2>1 DEF Stake
  <2> QED
    BY <1>4, <2>1, <2>2, MovesKeepBacked
<1>11. ASSUME NEW loss \in Amounts, NEW pool \in Pools,
              PayFromInsurance(loss, pool)
       PROVE  Backed(stake', fund')
  <2>1. fund'.user = fund.user /\ fund'.base = fund.base /\ stake' = stake
    BY <1>1, <1>11
       DEF PayFromInsurance, FundAfterAttempt, SettledFund, GoodFund, Fund
  <2> QED
    BY <1>1, <2>1, SameBacked
<1> QED
  BY <1>5, <1>6, <1>7, <1>8, <1>9, <1>10, <1>11 DEF Next

(* What the stakes are worth never adds up to more shares than the fund    *)
(* has issued to users, for any number of stakers, however many rebases    *)
(* each has still to apply and in whatever order they apply them.          *)
THEOREM StakesStayBacked == Spec => []StakesBacked
<1>1. Init => StakesBacked
  <2> SUFFICES ASSUME Init PROVE StakesBacked
    OBVIOUS
  <2>1. ASSUME NEW u \in Users PROVE EffectiveShares[u] = 0
    <3>1. stake[u].shares = 0 /\ stake[u].base = 0 /\ fund.base = 0
          /\ stake[u] = NewStake
      BY DEF Init, NewStake
    <3>2. Power[0] = 1 /\ 0 \div 1 = 0
      BY PowerAssumption, DivideByOne
    <3>3. RebaseStake(stake[u], fund).shares = 0
      BY <3>1, <3>2 DEF RebaseStake, NewStake
    <3> QED
      BY <3>3 DEF EffectiveShares
  <2>2. IsFiniteSet(Users)
    BY FundAssumption
  <2>3. SumFunctionOnSet(EffectiveShares, Users) = 0
    BY <2>1, <2>2, SumZero
  <2> QED
    BY <2>3 DEF Init, StakesBacked
<1>2. IInv /\ StakesBacked /\ [Next]_vars => StakesBacked'
  BY NextKeepsBacked
<1> QED
  BY <1>1, <1>2, InvariantHolds, PTL DEF Spec
-----------------------------------------------------------------------------
(* A request that is worth a share can be cancelled.                       *)
LEMMA LostIsDefined ==
  ASSUME NEW f, GoodFund(f), NEW s \in Stake, s.reqShares <= s.shares,
         s.shares <= f.user
  PROVE  /\ SharesLostDefined(s, f) /\ SharesLost(s, f) <= Least(s.shares, f.user)
         /\ SharesLost(s, f) \in Int
<1> DEFINE n == s.reqShares
           v == s.reqValue
           lost == SharesLost(s, f)
<1>1. /\ n \in Nat /\ v \in Nat /\ s.shares \in Nat /\ n <= s.shares
      /\ f \in Fund /\ f.user \in Nat /\ f.total \in Nat /\ f.vault \in Nat
      /\ f.user <= f.total /\ s.shares <= f.user
      /\ (f.total > 0 => f.vault > 0)
  BY DEF GoodFund, Fund, Stake
<1>2. AmountDefined(n, f)
  BY <1>1 DEF AmountDefined
<1>3. CASE ToAmount(n, f) > v
  <2> DEFINE w == ToAmount(n, f)
             kept == VaultAmountToIfShares(v, f.total - n, f.vault - v)
  <2>1. f.total > 0 /\ f.total \in Nat \ {0}
    BY <1>1, <1>3 DEF ToAmount, IfSharesToVaultAmount
  <2>2. w = (f.vault * n) \div f.total
    BY <1>1, <2>1, GetProportionIsFloor DEF ToAmount, IfSharesToVaultAmount
  <2>3. f.vault * n \in Nat
    BY <1>1, ProductInNat
  <2>4. w \in Nat /\ f.total * w <= f.vault * n
    BY <1>1, <2>1, <2>2, <2>3, QuotientBounds
  <2> HIDE DEF w
  <2>5. w <= f.vault
    <3>1. f.vault * n <= f.vault * f.total
      BY <1>1
    <3>2. f.total * w <= f.total * f.vault
      BY <1>1, <2>4, <3>1
    <3> QED
      BY <1>1, <2>1, <2>4, <3>2
  <2>6. f.vault - v \in Nat \ {0} /\ f.total - n \in Nat
    BY <1>1, <1>3, <2>4, <2>5 DEF w
  <2>7. kept = (v * (f.total - n)) \div (f.vault - v)
    <3>1. kept = GetProportion(v, f.total - n, f.vault - v)
      BY <2>6 DEF VaultAmountToIfShares
    <3> QED
      BY <1>1, <2>6, <3>1, GetProportionIsFloor
  <2>8. v * (f.total - n) \in Nat
    BY <1>1, <2>6, ProductInNat
  <2>9. kept \in Nat /\ (f.vault - v) * kept <= v * (f.total - n)
    BY <2>6, <2>7, <2>8, QuotientBounds
  <2> HIDE DEF kept
  <2>10. v * (f.total - n) <= (f.vault - v) * n
    <3>1. f.total * v <= f.vault * n
      <4>1. f.total * v <= f.total * w
        BY <1>1, <1>3, <2>4 DEF w
      <4> QED
        BY <1>1, <2>3, <2>4, <4>1
    <3> QED
      BY <1>1, <3>1
  <2>11. kept <= n
    <3> DEFINE d == f.vault - v
    <3>1. d \in Nat \ {0} /\ d * kept <= d * n
      BY <1>1, <2>6, <2>8, <2>9, <2>10
    <3> HIDE DEF d, n
    <3>2. ASSUME kept > n PROVE FALSE
      <4>1. d * kept >= d * n + d
        BY <1>1, <2>9, <3>1, <3>2
      <4> QED
        BY <1>1, <2>9, <3>1, <4>1
    <3> QED
      BY <1>1, <2>9, <3>2
  <2>12. lost = n - kept
    BY <1>3 DEF SharesLost, kept
  <2> HIDE DEF lost, n, v
  <2>13. lost >= 0 /\ lost <= n
    BY <1>1, <2>9, <2>11, <2>12
  <2>14. v <= f.vault /\ SharesDefined(f.total - n, f.vault - v)
    BY <1>1, <2>6 DEF SharesDefined
  <2> QED
    <3>1. lost <= Least(s.shares, f.user)
      BY <1>1, <2>9, <2>12, <2>13 DEF Least
    <3>2. SharesLostDefined(s, f)
      BY <1>2, <2>13, <2>14 DEF SharesLostDefined, n, v, lost
    <3>3. lost \in Int
      BY <1>1, <2>9, <2>12
    <3> QED
      BY <3>1, <3>2, <3>3 DEF lost
<1>4. CASE ~(ToAmount(n, f) > v)
  <2>1. lost = 0
    BY <1>4 DEF SharesLost
  <2> QED
    BY <1>1, <1>2, <1>4, <2>1 DEF SharesLostDefined, Least
<1> QED
  BY <1>3, <1>4

(* What is left of a request once a rebase to the fund's base is applied.  *)
LEMMA LeftOfRequest ==
  ASSUME NEW f \in Fund, NEW s \in Stake, s.base <= f.base
  PROVE  Outlasts(s, f.base)
           <=> RebaseDefined(s, f) /\ RebaseStake(s, f).reqShares # 0
<1> DEFINE gap == f.base - s.base
           d == Power[gap]
           n == s.reqShares
<1>1. gap \in Nat /\ n \in Nat /\ MaxExpo \in Nat
  BY PowerAssumption DEF Fund, Stake
<1>2. CASE gap <= MaxExpo
  <2>1. d \in Nat \ {0}
    BY <1>1, <1>2, PowerAssumption
  <2>2. RebaseStake(s, f).reqShares = n \div d
    BY DEF RebaseStake, Stake
  <2>3. Outlasts(s, f.base) <=> d <= n
    BY <1>2 DEF Outlasts
  <2>4. RebaseDefined(s, f)
    BY <1>2 DEF RebaseDefined
  <2> HIDE DEF gap, d, n
  <2>5. n \div d # 0 <=> d <= n
    <3> DEFINE q == n \div d
    <3>1. q \in Nat /\ d * q <= n /\ (d * 1 <= n => 1 <= q)
      BY <1>1, <2>1, QuotientBounds
    <3> HIDE DEF q
    <3>2. ASSUME q # 0 PROVE d <= n
      <4>1. d * 1 <= d * q
        BY <2>1, <3>1, <3>2
      <4> QED
        BY <1>1, <2>1, <3>1, <4>1
    <3> QED
      BY <2>1, <3>1, <3>2 DEF q
  <2> QED
    BY <2>2, <2>3, <2>4, <2>5
<1>3. CASE ~(gap <= MaxExpo)
  BY <1>3 DEF Outlasts, RebaseDefined
<1> QED
  BY <1>2, <1>3

(* A pending request can be cancelled exactly while the rebases since      *)
(* leave a share of it: no loss or settlement makes a check of             *)
(* calculate_if_shares_lost refuse the cancellation, for any fund.         *)
THEOREM RequestsStayCancellable == Spec => []RequestCancellable
<1>1. IInv /\ StakesBacked => RequestCancellable
  <2> SUFFICES ASSUME IInv, StakesBacked, NEW u \in Users, stake[u].reqShares # 0
               PROVE  CancelAllowed(u) <=> Outlasts(stake[u], RebaseFund(fund).base)
    BY DEF RequestCancellable
  <2> DEFINE g == RebaseFund(fund)
             r == RebaseStake(stake[u], g)
             n == SharesLost(r, g)
  <2>1. Outlasts(stake[u], g.base) <=> RebaseDefined(stake[u], g) /\ r.reqShares # 0
    <3>1. GoodFund(fund) /\ GoodFund(g) /\ g.base >= fund.base
      BY GoodFundOfInvariant, RebaseFundGood
    <3>2. /\ stake[u] \in Stake /\ stake[u].base <= fund.base
          /\ g \in Fund /\ fund \in Fund
      BY <3>1 DEF IInv, TypeOK, SharesOrdered, GoodFund
    <3>3. stake[u].base <= g.base
      BY <3>1, <3>2 DEF Fund, Stake
    <3> QED
      BY <3>2, <3>3, LeftOfRequest
  <2>2. ASSUME RebaseDefined(stake[u], g)
        PROVE  /\ SharesLostDefined(r, g)
               /\ n <= r.shares /\ n <= g.user /\ n <= g.total
               /\ AmountDefined(r.shares - n, [g EXCEPT !.total = @ - n])
    <3> DEFINE f == RebaseFund(fund)
               s == RebaseStake(stake[u], f)
    <3>1. GoodFund(fund) /\ GoodFund(f) /\ Backed(stake, fund)
      BY GoodFundOfInvariant, RebaseFundGood, StakesBackedIsBacked
    <3>2. /\ stake \in [Users -> Stake]
          /\ \A v \in Users : /\ stake[v].base <= fund.base
                              /\ stake[v].reqShares <= stake[v].shares
      BY DEF IInv, TypeOK, SharesOrdered
    <3>3. Backed(stake, f)
      BY <3>1, <3>2, RebaseKeepsBacked
    <3> HIDE DEF f
    <3>4. RebaseDefined(stake[u], f)
      BY <2>2 DEF f
    <3>5. s \in Stake /\ s.reqShares <= s.shares
      BY <3>1, <3>2, <3>4, RebaseStakeOrdered DEF GoodFund
    <3>6. s.shares <= f.user
      <4> DEFINE F == Worth(stake, f)
                 a == SumFunctionOnSet(F, Users)
      <4>1. \A v \in Users : F[v] \in Nat
        BY <3>1, <3>2, SharesOfType DEF GoodFund, Worth
      <4>2. F[u] = s.shares
        BY <3>4 DEF Worth, SharesOf
      <4>3. a <= f.user
        BY <3>3 DEF Backed
      <4> HIDE DEF F
      <4>4. F[u] <= a /\ a \in Nat
        BY <4>1, SumAtLeastMember, SumIsNat, FundAssumption
      <4>5. s.shares \in Nat /\ f.user \in Nat
        BY <3>1, <3>5 DEF GoodFund, Fund, Stake
      <4> HIDE DEF a, s
      <4> QED
        BY <4>2, <4>3, <4>4, <4>5
    <3> DEFINE lost == SharesLost(s, f)
    <3>7. /\ f.user \in Nat /\ f.total \in Nat /\ f.user <= f.total /\ f \in Fund
          /\ s.shares \in Nat /\ s.reqShares \in Nat /\ s.reqValue \in Nat
      BY <3>1, <3>5 DEF GoodFund, Fund, Stake
    <3> HIDE DEF s
    <3>8. SharesLostDefined(s, f) /\ lost <= Least(s.shares, f.user) /\ lost \in Int
      <4>1. SharesLostDefined(s, f) /\ lost <= Least(s.shares, f.user)
        BY <3>1, <3>5, <3>6, LostIsDefined
      <4>2. lost \in Int
        BY <3>1, <3>5, <3>6, LostIsDefined
      <4> QED
        BY <4>1, <4>2
    <3> HIDE DEF lost
    <3>9. lost <= s.shares /\ lost <= f.user /\ lost <= f.total
      BY <3>7, <3>8 DEF Least
    <3>10. AmountDefined(s.shares - lost, [f EXCEPT !.total = @ - lost])
      <4>1. [f EXCEPT !.total = @ - lost].total = f.total - lost
        BY <3>7 DEF Fund
      <4>2. s.shares - lost <= f.total - lost
        BY <3>6, <3>7, <3>8
      <4> QED
        BY <4>1, <4>2 DEF AmountDefined
    <3> QED
      BY <3>8, <3>9, <3>10 DEF s, f, lost
  <2> QED
    BY <2>1, <2>2 DEF CancelAllowed
<1> QED
  BY <1>1, InvariantHolds, StakesStayBacked, PTL

(* A request of which the rebases of the fund leave nothing.               *)
Spent(u) == stake[u].reqShares # 0 /\ ~Outlasts(stake[u], fund.base)

LEMMA OutlastsEarlier ==
  ASSUME NEW s \in Stake, NEW a \in Nat, NEW b \in Nat, s.base <= a, a <= b,
         Outlasts(s, b)
  PROVE  Outlasts(s, a)
<1> DEFINE x == a - s.base
           y == b - s.base
<1>1. s.base \in Nat /\ s.reqShares \in Nat /\ MaxExpo \in Nat
  BY PowerAssumption DEF Stake
<1>2. x \in 0 .. y /\ y \in 0 .. MaxExpo /\ x \in 0 .. MaxExpo
  BY <1>1 DEF Outlasts
<1>3. Power[x] <= Power[y] /\ Power[x] \in Nat /\ Power[y] \in Nat
  BY <1>2, PowerGrows, PowerAssumption
<1>4. Power[y] <= s.reqShares /\ y <= MaxExpo
  BY DEF Outlasts
<1> HIDE DEF x, y
<1>5. x <= MaxExpo /\ Power[x] <= s.reqShares
  BY <1>1, <1>2, <1>3, <1>4
<1> QED
  BY <1>5 DEF Outlasts, x

(* Such a request is final: its owner can neither cancel nor withdraw it,  *)
(* add to the stake or request again (instructions/if_staker.rs:97, 188,   *)
(* controller/insurance.rs:352, 432), and nobody else touches the stake.   *)
THEOREM SpentRequestsFreezeStakes ==
  Spec => [][\A u \in Users : Spent(u) => Spent(u)' /\ stake'[u] = stake[u]]_vars
<1>1. IInv /\ [Next]_vars => [\A u \in Users : Spent(u) => Spent(u)' /\ stake'[u] = stake[u]]_vars
  <2> SUFFICES ASSUME IInv, Next, NEW u \in Users, Spent(u)
               PROVE  Spent(u)' /\ stake'[u] = stake[u]
    OBVIOUS
  <2>1. /\ GoodFund(fund) /\ GoodFund(RebaseFund(fund)) /\ fund \in Fund
        /\ RebaseFund(fund) \in Fund /\ RebaseFund(fund).base >= fund.base
        /\ stake \in [Users -> Stake] /\ stake[u].base <= fund.base
        /\ fund.base \in Nat /\ RebaseFund(fund).base \in Nat /\ stake[u].base \in Nat
    BY GoodFundOfInvariant, RebaseFundGood DEF GoodFund, Fund, Stake, IInv, TypeOK, SharesOrdered
  <2>2. ~(RebaseDefined(stake[u], RebaseFund(fund))
            /\ RebaseStake(stake[u], RebaseFund(fund)).reqShares # 0)
    <3>1. ~Outlasts(stake[u], RebaseFund(fund).base)
      BY <2>1, OutlastsEarlier DEF Spent
    <3>2. stake[u].base <= RebaseFund(fund).base /\ stake[u] \in Stake
      BY <2>1
    <3> QED
      BY <2>1, <3>1, <3>2, LeftOfRequest
  <2>3. ASSUME NEW w \in Users, w # u, NEW f, NEW n, Moves(w, f, n)
        PROVE  stake'[u] = stake[u] /\ fund'.base >= fund.base /\ fund'.base \in Nat
    BY <2>1, <2>3 DEF Moves, GoodFund, Fund
  <2>4. stake'[u] = stake[u] /\ fund'.base >= fund.base /\ fund'.base \in Nat
    <3>1. CASE Tick
      BY <2>1, <3>1 DEF Tick
    <3>2. ASSUME NEW pool \in Pools, SettleRevenue(pool)
          PROVE  stake'[u] = stake[u] /\ fund'.base >= fund.base /\ fund'.base \in Nat
      BY <2>1, <3>2 DEF SettleRevenue, SettledFund, Fund
    <3>3. ASSUME NEW w \in Users, NEW amount \in Amounts, NEW pool \in Pools,
                 AddStake(w, amount, pool)
          PROVE  stake'[u] = stake[u] /\ fund'.base >= fund.base /\ fund'.base \in Nat
      <4>1. w # u
        BY <3>3 DEF AddStake, Spent
      <4> QED
        BY <2>3, <3>3, <4>1, AddMoves
    <3>4. ASSUME NEW w \in Users, NEW amount \in Amounts, RequestRemove(w, amount)
          PROVE  stake'[u] = stake[u] /\ fund'.base >= fund.base /\ fund'.base \in Nat
      <4>1. w # u
        BY <3>4 DEF RequestRemove, Spent
      <4> QED
        BY <2>3, <3>4, <4>1, RequestMoves
    <3>5. ASSUME NEW w \in Users, CancelRequest(w)
          PROVE  stake'[u] = stake[u] /\ fund'.base >= fund.base /\ fund'.base \in Nat
      <4>1. w # u
        BY <2>2, <3>5 DEF CancelRequest, CancelAllowed
      <4> QED
        BY <2>3, <3>5, <4>1, CancelMoves
    <3>6. ASSUME NEW w \in Users, RemoveStake(w)
          PROVE  stake'[u] = stake[u] /\ fund'.base >= fund.base /\ fund'.base \in Nat
      <4>1. /\ RebaseDefined(stake[w], RebaseFund(fund))
            /\ RebaseStake(stake[w], RebaseFund(fund)).reqShares > 0
        BY <3>6 DEF RemoveStake, RemoveInsuranceFundStake
      <4>2. w # u
        BY <2>2, <4>1
      <4> QED
        BY <2>3, <3>6, <4>2, RemoveMoves
    <3>7. ASSUME NEW loss \in Amounts, NEW pool \in Pools, PayFromInsurance(loss, pool)
          PROVE  stake'[u] = stake[u] /\ fund'.base >= fund.base /\ fund'.base \in Nat
      <4>1. GoodFund(FundAfterAttempt(pool)) /\ FundAfterAttempt(pool).base = fund.base
        BY <2>1, <3>7, GoodFundOfInvariant, FundAfterAttemptGood DEF PayFromInsurance
      <4>2. fund'.base = fund.base /\ stake' = stake
        BY <3>7, <4>1 DEF PayFromInsurance, GoodFund, Fund
      <4> QED
        BY <2>1, <4>2
    <3> QED
      BY <3>1, <3>2, <3>3, <3>4, <3>5, <3>6, <3>7 DEF Next
  <2>5. ~Outlasts(stake[u], fund'.base)
    BY <2>1, <2>4, OutlastsEarlier DEF Spent
  <2> QED
    BY <2>4, <2>5 DEF Spent
<1> QED
  BY <1>1, InvariantHolds, PTL DEF Spec
-----------------------------------------------------------------------------
(* No instruction but the payment of a loss lowers the price of a share.   *)
LEMMA ScaleOrder ==
  ASSUME NEW a \in Nat, NEW b \in Nat, NEW c \in Nat, a <= b
  PROVE  c * a <= c * b
<1>1. c * b = c * a + c * (b - a) /\ c * (b - a) \in Nat
  <2>1. b - a \in Nat
    OBVIOUS
  <2> QED
    BY <2>1
<1> QED
  BY <1>1

LEMMA CancelFactor ==
  ASSUME NEW a \in Nat, NEW b \in Nat, NEW c \in Nat \ {0}, c * a <= c * b
  PROVE  a <= b
<1>1. SUFFICES ASSUME a >= b + 1 PROVE FALSE
  OBVIOUS
<1>2. c * (b + 1) <= c * a
  BY <1>1, ScaleOrder
<1>3. c * (b + 1) = c * b + c
  OBVIOUS
<1> QED
  BY <1>2, <1>3

(* Prices as vault / total: a settlement, a rebase by p, then an exchange. *)
LEMMA PriceRebased ==
  ASSUME NEW v0 \in Nat, NEW t0 \in Nat, NEW v1 \in Nat, NEW t1 \in Nat,
         NEW t2 \in Nat, NEW p \in Nat, v0 * t1 <= v1 * t0, p * t2 <= t1
  PROVE  v0 * t2 * p <= v1 * t0
<1>1. p * t2 \in Nat
  OBVIOUS
<1>2. v0 * (p * t2) <= v0 * t1
  BY <1>1, ScaleOrder
<1>3. v0 * (p * t2) = v0 * t2 * p
  OBVIOUS
<1> DEFINE a == v0 * (p * t2)
           b == v0 * t1
           c == v1 * t0
<1>4. a \in Nat /\ b \in Nat /\ c \in Nat /\ a <= b /\ b <= c
  BY <1>1, <1>2
<1> HIDE DEF a, b, c
<1>5. a <= c
  BY <1>4
<1> QED
  BY <1>3, <1>5 DEF a, c

LEMMA PriceComposes ==
  ASSUME NEW v0 \in Nat, NEW t0 \in Nat, NEW v2 \in Nat, NEW t2 \in Nat \ {0},
         NEW p \in Nat, NEW v3 \in Nat, NEW t3 \in Nat,
         v0 * t2 * p <= v2 * t0, v2 * t3 <= v3 * t2
  PROVE  v0 * t3 * p <= v3 * t0
<1> DEFINE a == v0 * t2 * p
           b == v2 * t0
           c == v2 * t3
           d == v3 * t2
           x == v0 * t3 * p
           y == v3 * t0
<1>1. a \in Nat /\ b \in Nat /\ c \in Nat /\ d \in Nat /\ x \in Nat /\ y \in Nat
  OBVIOUS
<1>2. t3 * a <= t3 * b
  BY <1>1, ScaleOrder
<1>3. t0 * c <= t0 * d
  BY <1>1, ScaleOrder
<1>4. t3 * b = t0 * c
  OBVIOUS
<1>5. t3 * a = t2 * x /\ t0 * d = t2 * y
  OBVIOUS
<1> HIDE DEF a, b, c, d, x, y
<1>6. t2 * x <= t2 * y
  <2>1. t2 * x \in Nat /\ t2 * y \in Nat /\ t3 * b \in Nat
    BY <1>1, ProductInNat
  <2> QED
    BY <1>2, <1>3, <1>4, <1>5, <2>1
<1> QED
  BY <1>1, <1>6, CancelFactor DEF x, y

(* Minting n shares for the proportion of amount, rounded down.            *)
LEMMA MintKeepsPrice ==
  ASSUME NEW f, GoodFund(f), f.total > 0, NEW cut \in Nat, NEW amount \in Nat,
         cut <= amount
  PROVE  /\ ToShares(cut, f) \in Nat
         /\ f.vault * (f.total + ToShares(cut, f)) <= (f.vault + amount) * f.total
<1> DEFINE n == ToShares(cut, f)
<1>1. f.vault \in Nat \ {0} /\ f.total \in Nat
  BY DEF GoodFund, Fund
<1>2. n = (cut * f.total) \div f.vault
  BY <1>1, GetProportionIsFloor DEF ToShares, VaultAmountToIfShares
<1>3. cut * f.total \in Nat
  BY <1>1, ProductInNat
<1>4. n \in Nat /\ f.vault * n <= cut * f.total
  BY <1>1, <1>2, <1>3, QuotientBounds
<1>5. f.total * cut <= f.total * amount
  BY <1>1, ScaleOrder
<1> HIDE DEF n
<1>6. f.vault * (f.total + n) <= (f.vault + amount) * f.total
  <2>1. f.vault * (f.total + n) = f.vault * f.total + f.vault * n
    BY <1>1, <1>4
  <2>2. (f.vault + amount) * f.total = f.vault * f.total + f.total * amount
    BY <1>1
  <2>3. cut * f.total = f.total * cut
    BY <1>1
  <2> DEFINE a == f.vault * f.total
             b == f.vault * n
             c == f.total * amount
             d == f.total * cut
  <2>4. a \in Nat /\ b \in Nat /\ c \in Nat /\ d \in Nat /\ b <= d /\ d <= c
    BY <1>1, <1>4, <1>5, <2>3
  <2> HIDE DEF a, b, c, d
  <2>5. a + b <= a + c
    BY <2>4
  <2> QED
    BY <2>1, <2>2, <2>5 DEF a, b, c
<1> QED
  BY <1>4, <1>6 DEF n

LEMMA CutIsPart ==
  ASSUME NEW amount \in Nat, UserFactor < TotalFactor
  PROVE  ProtocolCut(amount) \in Nat /\ ProtocolCut(amount) <= amount
<1> DEFINE k == TotalFactor - UserFactor
           q == (amount * k) \div TotalFactor
<1>1. TotalFactor \in Nat \ {0} /\ k \in Nat /\ k <= TotalFactor
  BY FundAssumption
<1> HIDE DEF k
<1>2. amount * k \in Nat
  BY <1>1, ProductInNat
<1>3. q \in Nat /\ TotalFactor * q <= amount * k
  BY <1>1, <1>2, QuotientBounds
<1>4. amount * k <= amount * TotalFactor
  BY <1>1, ScaleOrder
<1> HIDE DEF q
<1>5. TotalFactor * q <= TotalFactor * amount
  BY <1>1, <1>2, <1>3, <1>4
<1>6. q <= amount
  BY <1>1, <1>3, <1>5, CancelFactor
<1> QED
  BY <1>3, <1>6 DEF ProtocolCut, q, k

LEMMA SettleKeepsPrice ==
  ASSUME NEW amount \in Nat, GoodFund(fund), fund.total > 0
  PROVE  /\ SettledFund(amount).total > 0
         /\ SettledFund(amount).base = fund.base
         /\ fund.vault * SettledFund(amount).total
              <= SettledFund(amount).vault * fund.total
<1> DEFINE n == IF UserFactor < TotalFactor
                THEN ToShares(ProtocolCut(amount), fund) ELSE 0
           g == SettledFund(amount)
<1>1. fund \in Fund /\ fund.vault \in Nat /\ fund.total \in Nat
  BY DEF GoodFund, Fund
<1>2. n \in Nat /\ fund.vault * (fund.total + n) <= (fund.vault + amount) * fund.total
  <2>1. CASE UserFactor < TotalFactor
    BY <2>1, CutIsPart, MintKeepsPrice
  <2>2. CASE ~(UserFactor < TotalFactor)
    <3>1. fund.vault * (fund.total + 0) <= (fund.vault + amount) * fund.total
      <4>1. (fund.vault + amount) * fund.total
              = fund.vault * fund.total + amount * fund.total
        BY <1>1
      <4>2. amount * fund.total \in Nat /\ fund.vault * fund.total \in Nat
            /\ fund.total + 0 = fund.total
        BY <1>1
      <4> QED
        BY <4>1, <4>2
    <3> QED
      BY <2>2, <3>1
  <2> QED
    BY <2>1, <2>2
<1>3. g = [fund EXCEPT !.vault = @ + amount, !.total = @ + n, !.settledAt = now]
  BY DEF SettledFund
<1> HIDE DEF n, g
<1>4. g.vault = fund.vault + amount /\ g.total = fund.total + n /\ g.base = fund.base
  BY <1>1, <1>3 DEF Fund
<1> QED
  BY <1>1, <1>2, <1>4 DEF g

(* A settlement, if any, then a rebase, then an exchange of shares.        *)
LEMMA ExchangeKeepsPrice ==
  ASSUME GoodFund(fund), fund.total > 0,
         NEW before, GoodFund(before), before.base = fund.base, before.total > 0,
         fund.vault * before.total <= before.vault * fund.total,
         NEW f, f = RebaseFund(before), GoodFund(fund'), fund'.base = f.base,
         f.vault * fund'.total <= fund'.vault * f.total
  PROVE  fund'.vault * fund.total
           >= fund.vault * fund'.total * Power[fund'.base - fund.base]
<1>1. PICK e \in 0 .. MaxExpo :
        /\ f.base = fund.base + e /\ f.vault = before.vault
        /\ f.total > 0 /\ Power[e] * f.total <= before.total
  BY RebaseFundShape
<1>2. GoodFund(f)
  BY RebaseFundGood
<1>3. /\ fund.vault \in Nat /\ fund.total \in Nat /\ fund.base \in Nat
      /\ before.vault \in Nat /\ before.total \in Nat
      /\ f.vault \in Nat /\ f.total \in Nat \ {0}
      /\ fund'.vault \in Nat /\ fund'.total \in Nat
  BY <1>1, <1>2 DEF GoodFund, Fund
<1>4. Power[e] \in Nat /\ fund'.base - fund.base = e
  BY <1>1, <1>3, PowerAssumption
<1>5. fund.vault * f.total * Power[e] <= f.vault * fund.total
  BY <1>1, <1>3, <1>4, PriceRebased
<1>6. fund.vault * fund'.total * Power[e] <= fund'.vault * fund.total
  BY <1>3, <1>4, <1>5, PriceComposes, ZenonT(60)
<1> QED
  BY <1>3, <1>4, <1>6

(* A withdrawal pays no more than the withdrawn shares are worth.          *)
LEMMA WithdrawKeepsPrice ==
  ASSUME NEW f, GoodFund(f), f.total > 0, NEW s \in Stake,
         s.reqShares <= f.total, f.vault - WithdrawAmount(s, f) \in Nat
  PROVE  f.vault * (f.total - s.reqShares)
           <= (f.vault - WithdrawAmount(s, f)) * f.total
<1> DEFINE n == s.reqShares
           paid == WithdrawAmount(s, f)
           w == ToAmount(n, f)
<1>1. /\ f.vault \in Nat /\ f.total \in Nat \ {0} /\ n \in Nat
      /\ s.reqValue \in Nat /\ f \in Fund
  BY DEF GoodFund, Fund, Stake
<1>2. w = (f.vault * n) \div f.total
  BY <1>1, GetProportionIsFloor DEF ToAmount, IfSharesToVaultAmount
<1>3. f.vault * n \in Nat
  BY <1>1, ProductInNat
<1>4. w \in Nat /\ f.total * w <= f.vault * n
  BY <1>1, <1>2, <1>3, QuotientBounds
<1>5. paid \in Nat /\ paid <= w
  BY <1>1, <1>4, WithdrawAmountType DEF WithdrawAmount, Least
<1> HIDE DEF w, paid, n
<1>6. f.total * paid <= f.total * w
  BY <1>1, <1>4, <1>5, ScaleOrder
<1>7. f.vault * (f.total - n) <= (f.vault - paid) * f.total
  <2> DEFINE a == f.vault * f.total
             b == f.vault * n
             c == f.total * paid
             d == f.total * w
  <2>1. a \in Nat /\ b \in Nat /\ c \in Nat /\ d \in Nat /\ d <= b /\ c <= d
    BY <1>1, <1>3, <1>4, <1>5, <1>6
  <2>2. f.vault * (f.total - n) = a - b /\ (f.vault - paid) * f.total = a - c
    BY <1>1, <1>5
  <2> HIDE DEF a, b, c, d
  <2>3. a - b <= a - c
    BY <2>1
  <2> QED
    BY <2>2, <2>3
<1> QED
  BY <1>7 DEF n, paid

LEMMA NextKeepsPrice ==
  ASSUME IInv, [Next]_vars, fund.total # 0, fund'.total # 0,
         ~\E loss \in Amounts, pool \in Pools : PayFromInsurance(loss, pool)
  PROVE  fund'.vault * fund.total
           >= fund.vault * fund'.total * Power[fund'.base - fund.base]
<1> DEFINE Kept == fund'.vault * fund.total
                     >= fund.vault * fund'.total * Power[fund'.base - fund.base]
           f == RebaseFund(fund)
<1>1. /\ GoodFund(fund) /\ now \in Nat /\ fund.total > 0
      /\ fund.vault \in Nat /\ fund.total \in Nat /\ fund.base \in Nat
  BY GoodFundOfInvariant DEF GoodFund, Fund
<1>2. /\ GoodFund(f) /\ f.total > 0 /\ f \in Fund
      /\ f.vault \in Nat /\ f.total \in Nat
  BY <1>1, RebaseFundGood, RebaseFundShape DEF GoodFund, Fund
<1>3. fund.vault * fund.total <= fund.vault * fund.total
  BY <1>1
<1>4. Power[0] = 1
  BY PowerAssumption
<1>5. ASSUME fund'.base = fund.base, fund'.vault \in Nat, fund'.total \in Nat,
             fund.vault * fund'.total <= fund'.vault * fund.total
      PROVE  Kept
  <2>1. fund'.base - fund.base = 0
    BY <1>1, <1>5
  <2>2. fund.vault * fund'.total * 1 = fund.vault * fund'.total
    BY <1>1, <1>5
  <2>3. fund.vault * fund'.total \in Nat /\ fund'.vault * fund.total \in Nat
    BY <1>1, <1>5
  <2> QED
    BY <1>4, <1>5, <2>1, <2>2, <2>3
<1>6. CASE Tick \/ UNCHANGED vars
  BY <1>1, <1>3, <1>5, <1>6 DEF Tick, vars
<1>7. ASSUME NEW pool \in Pools, SettleRevenue(pool)
      PROVE  Kept
  <2> DEFINE amount == SettleAmount(pool)
  <2>1. amount \in Nat
    BY <1>1, SettleAmountType DEF GoodFund
  <2>2. fund' = SettledFund(amount) /\ SettleDefined
    BY <1>7 DEF SettleRevenue
  <2> HIDE DEF amount
  <2>3. GoodFund(fund')
    BY <1>1, <2>1, <2>2, SettledFundGood
  <2>4. /\ fund'.base = fund.base
        /\ fund.vault * fund'.total <= fund'.vault * fund.total
    BY <1>1, <2>1, <2>2, SettleKeepsPrice
  <2>5. fund'.vault \in Nat /\ fund'.total \in Nat
    BY <2>3 DEF GoodFund, Fund
  <2> QED
    BY <1>5, <2>4, <2>5
<1>8. ASSUME NEW u \in Users, NEW amount \in Amounts, NEW pool \in Pools,
             AddStake(u, amount, pool)
      PROVE  Kept
  <2> DEFINE before == FundAfterAttempt(pool)
             g == RebaseFund(before)
             n == ToShares(amount, g)
  <2>1. GoodFund(before) /\ before.base = fund.base /\ amount \in Nat
    BY <1>1, <1>8, FundAfterAttemptGood, FundAssumption DEF AddStake
  <2>2. before.total > 0 /\ fund.vault * before.total <= before.vault * fund.total
    <3>1. CASE SettleDue
      <4>1. SettleAmount(pool) \in Nat
        BY <1>1, SettleAmountType DEF GoodFund
      <4> QED
        BY <1>1, <3>1, <4>1, SettleKeepsPrice DEF FundAfterAttempt
    <3>2. CASE ~SettleDue
      BY <1>1, <1>3, <3>2 DEF FundAfterAttempt
    <3> QED
      BY <3>1, <3>2
  <2>3. Moves(u, g, n) /\ fund'.vault = g.vault + amount
    BY <1>8, AddMoves
  <2>4. GoodFund(g) /\ g.total > 0
    BY <2>1, <2>2, RebaseFundGood, RebaseFundShape
  <2>5. /\ GoodFund(fund') /\ fund'.base = g.base /\ fund'.total = g.total + n
    BY <2>3 DEF Moves
  <2>6. amount <= amount
    BY <2>1
  <2> HIDE DEF before
  <2>7. g.vault * (g.total + n) <= (g.vault + amount) * g.total
    <3> HIDE DEF g
    <3> QED
      BY <2>1, <2>4, <2>6, MintKeepsPrice
  <2>8. g.vault * fund'.total <= fund'.vault * g.total
    BY <2>3, <2>5, <2>7
  <2> QED
    BY <1>1, <2>1, <2>2, <2>5, <2>8, ExchangeKeepsPrice
<1>9. ASSUME GoodFund(fund'), fund'.base = f.base,
             f.vault * fund'.total <= fund'.vault * f.total
      PROVE  Kept
  BY <1>1, <1>3, <1>9, ExchangeKeepsPrice
<1> HIDE DEF f
<1>10. ASSUME NEW u \in Users, NEW amount \in Amounts,
              RequestRemove(u, amount)
       PROVE  Kept
  <2>1. fund' = f
    BY <1>10, RequestMoves DEF f
  <2>2. f.vault * f.total <= f.vault * f.total
    BY <1>2
  <2> QED
    BY <1>2, <1>9, <2>1, <2>2
<1>11. ASSUME NEW u \in Users, CancelRequest(u)
       PROVE  Kept
  <2>1. PICK lost \in Nat : Moves(u, f, -lost) /\ fund'.vault = fund.vault
    BY <1>11, CancelMoves DEF f
  <2>2. GoodFund(fund') /\ fund'.base = f.base /\ fund'.total = f.total + (-lost)
    BY <2>1 DEF Moves
  <2>3. fund'.vault = f.vault
    BY <1>1, <2>1, RebaseFundGood DEF f
  <2>4. fund'.total \in Nat /\ fund'.total <= f.total
    BY <1>2, <2>2 DEF GoodFund, Fund
  <2>5. f.vault * fund'.total <= f.vault * f.total
    BY <1>2, <2>4, ScaleOrder
  <2> QED
    BY <1>9, <2>2, <2>3, <2>5
<1>12. ASSUME NEW u \in Users, RemoveStake(u)
       PROVE  Kept
  <2> DEFINE s == RebaseStake(stake[u], f)
             n == s.reqShares
             paid == WithdrawAmount(s, f)
  <2>1. /\ s \in Stake /\ n <= f.total /\ Moves(u, f, -n)
        /\ fund'.vault = f.vault - paid
    BY <1>12, RemoveMoves DEF f
  <2>2. GoodFund(fund') /\ fund'.base = f.base /\ fund'.total = f.total + (-n)
    BY <2>1 DEF Moves
  <2>3. n \in Nat /\ fund'.vault \in Nat
    BY <2>1, <2>2 DEF Stake, GoodFund, Fund
  <2>4. f.vault * (f.total - n) <= (f.vault - paid) * f.total
    <3> HIDE DEF s
    <3> QED
      BY <1>2, <2>1, <2>3, WithdrawKeepsPrice
  <2> HIDE DEF s, n, paid
  <2>5. f.total - n = f.total + (-n)
    BY <1>2, <2>3
  <2> QED
    BY <1>9, <2>1, <2>2, <2>4, <2>5
<1> QED
  BY <1>6, <1>7, <1>8, <1>10, <1>11, <1>12 DEF Next

(* Deposits, requests, cancellations, withdrawals and settlements never    *)
(* lower what a share is worth: all their roundings are against whoever    *)
(* acts, for any amounts and any radix.                                    *)
THEOREM SharesKeepTheirPrice == Spec => NoDilution
<1>1. ASSUME IInv, [Next]_vars
      PROVE  [ \/ fund.total = 0 \/ fund'.total = 0
               \/ fund'.vault * fund.total
                    >= fund.vault * fund'.total * Power[fund'.base - fund.base]
               \/ \E loss \in Amounts, pool \in Pools :
                    PayFromInsurance(loss, pool) ]_vars
  BY <1>1, NextKeepsPrice
<1>2. Spec => [][Next]_vars
  BY PTL DEF Spec
<1> QED
  BY <1>1, <1>2, InvariantHolds, PTL DEF NoDilution
=============================================================================
