-------------------------- MODULE PerpLedgerProofs --------------------------
(***************************************************************************)
(* Whatever is traded, settled, liquidated or expired, a perp market's     *)
(* sums and counts are those of its positions, and funding is collected    *)
(* once and covered by what the market has booked for it.                  *)
(*                                                                         *)
(* An instruction is a sequence of operations on books.  Each operation    *)
(* gives one user a new record, and books in the market what the new       *)
(* record has more than the old one (Books).  So the sums over all users   *)
(* follow (SumUpdate), and so does what all of them would be paid, of      *)
(* which only a change of the rates may open or close a gap to what is     *)
(* booked (Surplus).  What they have coming before fractions are dropped   *)
(* is covered by what is booked and the fractions counted so far (Cover):  *)
(* a division that drops one in the users' favour is counted when it is    *)
(* done (NearQuote).                                                       *)
(***************************************************************************)
EXTENDS PerpLedger, SumTheorems

(* What a position adds to the sums and counts of the market.              *)
Quote == [p \in PerpPosition |-> p.quote]
Long == [p \in PerpPosition |-> IF p.base > 0 THEN p.base ELSE 0]
Short == [p \in PerpPosition |-> IF p.base < 0 THEN p.base ELSE 0]
LongEntry == [p \in PerpPosition |-> IF p.base > 0 THEN p.entry ELSE 0]
ShortEntry == [p \in PerpPosition |-> IF p.base < 0 THEN p.entry ELSE 0]
One == [p \in PerpPosition |-> IF Empty(p) THEN 0 ELSE 1]
OneWithBase == [p \in PerpPosition |-> IF p.base = 0 THEN 0 ELSE 1]
Payment(m) == [p \in PerpPosition |-> FundingPayment(m, p)]
Exact(m) == [p \in PerpPosition |-> Claim(m, p)]

TotalOf(f, pos) == Total([u \in Users |-> f[pos[u]]])

(* A book with the types of TypeOK.                                        *)
TypedBook(b) ==
  /\ b \in [m : PerpMarket, p : [Users -> PerpPosition]]
  /\ \A u \in Users : b.p[u].base = 0 => b.p[u].entry = 0 /\ b.p[u].rate = 0

(* The market's sums and counts are those of the positions.                *)
Matched(m, pos) ==
  /\ m.quote = TotalOf(Quote, pos)
  /\ m.long = TotalOf(Long, pos) /\ m.short = TotalOf(Short, pos)
  /\ m.longEntry = TotalOf(LongEntry, pos)
  /\ m.shortEntry = TotalOf(ShortEntry, pos)
  /\ m.users = TotalOf(One, pos) /\ m.usersWithBase = TotalOf(OneWithBase, pos)

SoundBook(b) == TypedBook(b) /\ Matched(b.m, b.p)

(* How far the users' net position is ahead of the amm's.                  *)
Offset(b) == b.m.long + b.m.short - b.m.withAmm

(* How much more funding is booked as unsettled than positions would get.  *)
Surplus(b) == b.m.unsettledFunding - TotalOf(Payment(b.m), b.p)

(* What is booked, with a unit for each fraction, and how much more it is  *)
(* than what the positions have coming.                                    *)
Booked(m) == (m.unsettledFunding + m.fractions) * Precision
Cover(b) == Booked(b.m) - TotalOf(Exact(b.m), b.p)

(* u has no funding to settle.                                             *)
Current(b, u) ==
  b.p[u].base # 0 => b.p[u].rate = RateOf(b.m, b.p[u].base)

SameRates(m, n) == n.longRate = m.longRate /\ n.shortRate = m.shortRate

(* From b to c nothing happened to anybody's claim to funding, except that *)
(* it was settled.                                                         *)
Carries(b, c) ==
  /\ SameRates(b.m, c.m)
  /\ Surplus(c) = Surplus(b)
  /\ Cover(b) >= 0 => Cover(c) >= 0
  /\ \A u \in Users : Current(b, u) => Current(c, u)

(* n books what record q has more than record p.                           *)
Books(m, n, p, q) ==
  /\ n.quote = m.quote + (q.quote - p.quote)
  /\ n.long = m.long + (Long[q] - Long[p])
  /\ n.short = m.short + (Short[q] - Short[p])
  /\ n.longEntry = m.longEntry + (LongEntry[q] - LongEntry[p])
  /\ n.shortEntry = m.shortEntry + (ShortEntry[q] - ShortEntry[p])
  /\ n.users = m.users + (One[q] - One[p])
  /\ n.usersWithBase = m.usersWithBase + (OneWithBase[q] - OneWithBase[p])
-----------------------------------------------------------------------------
(* Division. *)

LEMMA SignAbs ==
  ASSUME NEW n \in Int
  PROVE  Abs(n) \in Nat /\ Sign(n) \in Int /\ Sign(n) * Abs(n) = n
         /\ (n # 0 => Abs(n) > 0)
BY DEF Abs, Sign

LEMMA DivTruncType ==
  ASSUME NEW n \in Int, NEW d \in Int, d # 0
  PROVE  DivTrunc(n, d) \in Int
<1>1. Abs(n) \in Nat /\ Abs(d) \in Nat \ {0} BY DEF Abs
<1>2. Abs(n) \div Abs(d) \in Int BY <1>1
<1>3. Sign(n) \in Int /\ Sign(d) \in Int BY DEF Sign
<1> QED BY <1>2, <1>3 DEF DivTrunc

(* What a close takes from the entry is all of it.                         *)
LEMMA DivTruncOfMultiple ==
  ASSUME NEW n \in Int, NEW k \in Nat \ {0}
  PROVE  DivTrunc(n * k, k) = n
<1>1. \A a \in Nat : (a * k) \div k = a
  OBVIOUS
<1>2. Abs(n * k) = Abs(n) * k
  BY DEF Abs
<1>3. Sign(n * k) = Sign(n) /\ Sign(k) = 1
  BY DEF Sign
<1>4. Abs(k) = k /\ Abs(n) \in Nat
  BY DEF Abs
<1>5. (Abs(n) * k) \div k = Abs(n)
  BY <1>1, <1>4
<1>6. DivTrunc(n * k, k) = Sign(n) * Abs(n)
  BY <1>2, <1>3, <1>4, <1>5, SignAbs DEF DivTrunc
<1> QED BY <1>6, SignAbs

LEMMA PrecisionType == Precision \in Nat \ {0}
<1>1. \A i, j \in Nat \ {0} : i * j \in Nat \ {0}
  OBVIOUS
<1> QED BY <1>1, LedgerAssumption DEF Precision

(* The whole quote units in n, and how far they are from it.               *)
LEMMA NearQuote ==
  ASSUME NEW n \in Int
  PROVE  LET z == InQuote(n)
             k == z * Precision
         IN /\ z \in Int /\ k \in Int /\ RoundedUp(n) \in {0, 1}
            /\ k - n < Precision /\ n - k < Precision
            /\ k - RoundedUp(n) * Precision <= n
            /\ n >= 0 => z >= 0 /\ k <= n
            /\ n <= 0 => z <= 0 /\ k >= n
<1> DEFINE d == Precision
           a == Abs(n)
           y == a \div d
           w == y * d
<1>1. d \in Nat \ {0} /\ a \in Nat
  BY PrecisionType DEF Abs
<1>2. y \in Nat /\ y * d <= a /\ a < y * d + d
  <2> HIDE DEF d, a
  <2>1. a = (d * (a \div d)) + (a % d) /\ (a % d) \in 0 .. d - 1 /\ a \div d \in Nat
    BY <1>1
  <2>2. d * y = y * d /\ y * d \in Int
    BY <1>1, <2>1
  <2> QED BY <1>1, <2>1, <2>2
<1>3. Sign(d) = 1 /\ Abs(d) = d
  BY <1>1 DEF Sign, Abs
<1>4. InQuote(n) = Sign(n) * Sign(d) * (a \div Abs(d))
  BY DEF InQuote, DivTrunc
<1> HIDE DEF d
<1>5. InQuote(n) = Sign(n) * 1 * y
  BY <1>3, <1>4
<1> HIDE DEF y
<1>6. InQuote(n) = IF n >= 0 THEN y ELSE -y
  <2>1. CASE n > 0
    BY <1>2, <1>5, <2>1 DEF Sign
  <2>2. CASE n = 0
    <3>1. a = 0 /\ InQuote(n) = 0
      BY <1>2, <1>5, <2>2 DEF Sign, Abs
    <3>2. \A i \in Nat, j \in Nat \ {0} : i * j <= 0 => i = 0
      OBVIOUS
    <3>3. y = 0
      BY <1>1, <1>2, <3>1, <3>2
    <3> QED BY <2>2, <3>1, <3>3
  <2>3. CASE n < 0
    BY <1>2, <1>5, <2>3 DEF Sign
  <2> QED BY <2>1, <2>2, <2>3
<1>7. (-y) * d = -w /\ w \in Int
  BY <1>1, <1>2
<1>8. w <= a /\ a < w + d
  BY <1>2
<1>9. InQuote(n) * d = IF n >= 0 THEN w ELSE -w
  BY <1>6, <1>7
<1> HIDE DEF w
<1>10. /\ RoundedUp(n) = IF InQuote(n) * d > n THEN 1 ELSE 0
       /\ a = IF n < 0 THEN -n ELSE n
  BY DEF RoundedUp, d, Abs
<1>11. RoundedUp(n) * d = IF InQuote(n) * d > n THEN d ELSE 0
  BY <1>1, <1>10
<1>12. CASE n >= 0
  BY <1>1, <1>2, <1>6, <1>7, <1>8, <1>9, <1>10, <1>11, <1>12 DEF d
<1>13. CASE n < 0
  BY <1>1, <1>2, <1>6, <1>7, <1>8, <1>9, <1>10, <1>11, <1>13 DEF d
<1> QED BY <1>12, <1>13
-----------------------------------------------------------------------------
(* Sums over the positions. *)

LEMMA PartsAreInts ==
  /\ Quote \in [PerpPosition -> Int] /\ Long \in [PerpPosition -> Int]
  /\ Short \in [PerpPosition -> Int] /\ LongEntry \in [PerpPosition -> Int]
  /\ ShortEntry \in [PerpPosition -> Int] /\ One \in [PerpPosition -> Nat]
  /\ OneWithBase \in [PerpPosition -> Nat]
BY DEF Quote, Long, Short, LongEntry, ShortEntry, One, OneWithBase, PerpPosition

LEMMA PartTypes ==
  ASSUME NEW p \in PerpPosition
  PROVE  /\ Long[p] \in Int /\ Short[p] \in Int /\ LongEntry[p] \in Int
         /\ ShortEntry[p] \in Int /\ OneWithBase[p] \in Int /\ One[p] \in Int
         /\ p.quote \in Int
<1>1. p.quote \in Int
  BY DEF PerpPosition
<1> QED BY <1>1, PartsAreInts

LEMMA PaymentType ==
  ASSUME NEW m \in PerpMarket
  PROVE  /\ Payment(m) \in [PerpPosition -> Int]
         /\ Exact(m) \in [PerpPosition -> Int]
         /\ \A p \in PerpPosition : /\ FundingPayment(m, p) \in Int
                                    /\ Claim(m, p) \in Int
                                    /\ RateOf(m, p.base) \in Int
<1>1. \A p \in PerpPosition : RateOf(m, p.base) \in Int /\ Claim(m, p) \in Int
  BY DEF Claim, RateOf, PerpMarket, PerpPosition
<1>2. \A p \in PerpPosition : FundingPayment(m, p) \in Int
  BY <1>1, NearQuote DEF FundingPayment
<1> QED BY <1>1, <1>2 DEF Payment, Exact

LEMMA TotalIsInt ==
  ASSUME NEW f \in [PerpPosition -> Int], NEW pos \in [Users -> PerpPosition]
  PROVE  TotalOf(f, pos) \in Int
BY SumIsInt, LedgerAssumption DEF TotalOf, Total

(* One new record changes a sum by what it has more than the old one.      *)
LEMMA TotalUpdate ==
  ASSUME NEW f \in [PerpPosition -> Int], NEW pos \in [Users -> PerpPosition],
         NEW u \in Users, NEW q \in PerpPosition
  PROVE  TotalOf(f, [pos EXCEPT ![u] = q])
           = TotalOf(f, pos) + (f[q] - f[pos[u]])
<1> DEFINE F == [x \in Users |-> f[pos[x]]]
           G == [x \in Users |-> f[[pos EXCEPT ![u] = q][x]]]
<1>1. /\ \A x \in Users : F[x] \in Int
      /\ G[u] = f[q] /\ F[u] = f[pos[u]] /\ G[u] \in Int
      /\ \A x \in Users : x # u => F[x] = G[x]
  OBVIOUS
<1> HIDE DEF F, G
<1>2. SumFunctionOnSet(G, Users) = SumFunctionOnSet(F, Users) + (G[u] - F[u])
  BY <1>1, SumUpdate, LedgerAssumption, SMTT(40)
<1> QED BY <1>1, <1>2 DEF F, G, TotalOf, Total

LEMMA MatchedUpdate ==
  ASSUME NEW m, NEW n, NEW pos \in [Users -> PerpPosition], Matched(m, pos),
         NEW u \in Users, NEW q \in PerpPosition, Books(m, n, pos[u], q)
  PROVE  Matched(n, [pos EXCEPT ![u] = q])
<1> DEFINE new == [pos EXCEPT ![u] = q]
<1>1. Quote[q] = q.quote /\ Quote[pos[u]] = pos[u].quote
  BY DEF Quote
<1>2. One \in [PerpPosition -> Int] /\ OneWithBase \in [PerpPosition -> Int]
  BY PartsAreInts
<1>3. /\ TotalOf(Quote, new) = TotalOf(Quote, pos) + (Quote[q] - Quote[pos[u]])
      /\ TotalOf(Long, new) = TotalOf(Long, pos) + (Long[q] - Long[pos[u]])
      /\ TotalOf(Short, new) = TotalOf(Short, pos) + (Short[q] - Short[pos[u]])
  BY PartsAreInts, TotalUpdate
<1>4. /\ TotalOf(LongEntry, new)
           = TotalOf(LongEntry, pos) + (LongEntry[q] - LongEntry[pos[u]])
      /\ TotalOf(ShortEntry, new)
           = TotalOf(ShortEntry, pos) + (ShortEntry[q] - ShortEntry[pos[u]])
  BY PartsAreInts, TotalUpdate
<1>5. /\ TotalOf(One, new) = TotalOf(One, pos) + (One[q] - One[pos[u]])
      /\ TotalOf(OneWithBase, new)
           = TotalOf(OneWithBase, pos) + (OneWithBase[q] - OneWithBase[pos[u]])
  BY <1>2, TotalUpdate
<1> HIDE DEF new
<1> QED BY <1>1, <1>3, <1>4, <1>5 DEF Matched, Books, new

(* A position that has anything is counted, so no count saturates.         *)
LEMMA Counted ==
  ASSUME NEW m, NEW pos \in [Users -> PerpPosition], Matched(m, pos),
         NEW u \in Users
  PROVE  /\ ~Empty(pos[u]) => m.users >= 1
         /\ pos[u].base # 0 => m.usersWithBase >= 1
<1> DEFINE F == [x \in Users |-> One[pos[x]]]
           G == [x \in Users |-> OneWithBase[pos[x]]]
<1>1. /\ \A x \in Users : F[x] \in Nat /\ G[x] \in Nat
      /\ F[u] = One[pos[u]] /\ G[u] = OneWithBase[pos[u]]
  BY PartsAreInts
<1>2. /\ ~Empty(pos[u]) => One[pos[u]] = 1
      /\ pos[u].base # 0 => OneWithBase[pos[u]] = 1
  BY DEF One, OneWithBase
<1>3. m.users = SumFunctionOnSet(F, Users) /\ m.usersWithBase = SumFunctionOnSet(G, Users)
  BY DEF Matched, TotalOf, Total
<1> HIDE DEF F, G
<1>4. F[u] <= SumFunctionOnSet(F, Users) /\ G[u] <= SumFunctionOnSet(G, Users)
  BY <1>1, SumAtLeastMember, LedgerAssumption
<1>5. SumFunctionOnSet(F, Users) \in Nat /\ SumFunctionOnSet(G, Users) \in Nat
  BY <1>1, SumIsNat, LedgerAssumption
<1> QED BY <1>1, <1>2, <1>3, <1>4, <1>5
-----------------------------------------------------------------------------
(* The operations on books. *)

LEMMA BookTypes ==
  ASSUME NEW b, SoundBook(b), NEW u \in Users
  PROVE  /\ b.m \in PerpMarket /\ b.p \in [Users -> PerpPosition]
         /\ b.p[u] \in PerpPosition /\ b = [m |-> b.m, p |-> b.p]
         /\ b.p[u].base \in Int /\ b.p[u].quote \in Int
         /\ b.p[u].entry \in Int /\ b.p[u].rate \in Int
         /\ b.p[u].base = 0 => b.p[u].entry = 0 /\ b.p[u].rate = 0
BY DEF SoundBook, TypedBook, PerpPosition

LEMMA MarketTypes ==
  ASSUME NEW m \in PerpMarket
  PROVE  /\ m.long \in Int /\ m.short \in Int /\ m.withAmm \in Int
         /\ m.quote \in Int /\ m.longEntry \in Int /\ m.shortEntry \in Int
         /\ m.longRate \in Int /\ m.shortRate \in Int
         /\ m.unsettledFunding \in Int /\ m.fractions \in Nat
         /\ m.users \in Nat /\ m.usersWithBase \in Nat
         /\ Booked(m) \in Int
<1>1. m.unsettledFunding \in Int /\ m.fractions \in Nat
  BY DEF PerpMarket
<1>2. Booked(m) \in Int
  BY <1>1, PrecisionType DEF Booked
<1> QED BY <1>2 DEF PerpMarket

(* A new record for u, and a market that books it, make a sound book.      *)
LEMMA SoundUpdate ==
  ASSUME NEW b, SoundBook(b), NEW u \in Users,
         NEW m \in PerpMarket, NEW q \in PerpPosition,
         q.base = 0 => q.entry = 0 /\ q.rate = 0,
         Books(b.m, m, b.p[u], q)
  PROVE  SoundBook([m |-> m, p |-> [b.p EXCEPT ![u] = q]])
<1>1. b.p \in [Users -> PerpPosition]
  BY BookTypes
<1>2. Matched(m, [b.p EXCEPT ![u] = q])
  BY <1>1, MatchedUpdate DEF SoundBook
<1>3. TypedBook([m |-> m, p |-> [b.p EXCEPT ![u] = q]])
  BY DEF SoundBook, TypedBook
<1> QED BY <1>2, <1>3 DEF SoundBook

LEMMA SameRatesSamePayments ==
  ASSUME NEW m \in PerpMarket, NEW n \in PerpMarket, SameRates(m, n)
  PROVE  /\ Payment(n) = Payment(m) /\ Exact(n) = Exact(m)
         /\ \A p \in PerpPosition : /\ FundingPayment(n, p) = FundingPayment(m, p)
                                    /\ Claim(n, p) = Claim(m, p)
                                    /\ RateOf(n, p.base) = RateOf(m, p.base)
<1>1. \A p \in PerpPosition : /\ RateOf(n, p.base) = RateOf(m, p.base)
                              /\ Claim(n, p) = Claim(m, p)
  BY DEF Claim, RateOf, SameRates
<1> QED BY <1>1 DEF Payment, Exact, FundingPayment

LEMMA NoneToSettle ==
  ASSUME NEW m \in PerpMarket, NEW p \in PerpPosition,
         p.base # 0 => p.rate = RateOf(m, p.base)
  PROVE  FundingPayment(m, p) = 0 /\ Claim(m, p) = 0
<1>1. p.base \in Int /\ p.rate \in Int
  BY DEF PerpPosition
<1>2. Claim(m, p) = 0
  BY <1>1 DEF Claim
<1>3. InQuote(0) <= 0 /\ InQuote(0) >= 0 /\ InQuote(0) \in Int
  BY NearQuote
<1> QED BY <1>2, <1>3 DEF FundingPayment

(* A new record for u at the same rates leaves the surplus when the market *)
(* books as unsettled what it changes in u's claim.                        *)
LEMMA CarriesUpdate ==
  ASSUME NEW b, SoundBook(b), NEW u \in Users,
         NEW m \in PerpMarket, NEW q \in PerpPosition, SameRates(b.m, m),
         m.unsettledFunding
           = b.m.unsettledFunding
               + (FundingPayment(m, q) - FundingPayment(b.m, b.p[u])),
         Booked(m) - Claim(m, q) >= Booked(b.m) - Claim(b.m, b.p[u]),
         Current(b, u) => (q.base # 0 => q.rate = RateOf(m, q.base))
  PROVE  Carries(b, [m |-> m, p |-> [b.p EXCEPT ![u] = q]])
<1> DEFINE c == [m |-> m, p |-> [b.p EXCEPT ![u] = q]]
<1>1. /\ b.m \in PerpMarket /\ b.p \in [Users -> PerpPosition]
      /\ b.p[u] \in PerpPosition
  BY BookTypes
<1>2. Payment(m) = Payment(b.m) /\ Payment(m) \in [PerpPosition -> Int]
  BY <1>1, SameRatesSamePayments, PaymentType
<1>3. TotalOf(Payment(m), c.p)
        = TotalOf(Payment(m), b.p) + (Payment(m)[q] - Payment(m)[b.p[u]])
  BY <1>1, <1>2, TotalUpdate
<1>4. Payment(m)[q] = FundingPayment(m, q)
  BY DEF Payment
<1>5. Payment(m)[b.p[u]] = FundingPayment(b.m, b.p[u])
  BY <1>1, <1>2 DEF Payment
<1>6. TotalOf(Payment(m), b.p) \in Int /\ b.m.unsettledFunding \in Int
  BY <1>1, <1>2, TotalIsInt, MarketTypes
<1>7. Payment(m)[q] \in Int /\ Payment(m)[b.p[u]] \in Int
  BY <1>1, <1>2
<1>8. Surplus(c) = Surplus(b)
  <2>1. Surplus(c) = m.unsettledFunding - TotalOf(Payment(m), c.p)
    BY DEF Surplus
  <2>2. Surplus(b) = b.m.unsettledFunding - TotalOf(Payment(m), b.p)
    BY <1>2 DEF Surplus
  <2> HIDE DEF c
  <2> QED BY <1>3, <1>4, <1>5, <1>6, <1>7, <2>1, <2>2
<1>9. ASSUME NEW x \in Users, Current(b, x) PROVE Current(c, x)
  <2>1. CASE x = u
    BY <1>1, <1>9, <2>1 DEF Current
  <2>2. CASE x # u
    <3>1. c.p[x] = b.p[x] /\ b.p[x] \in PerpPosition /\ c.m = m
      BY <1>1, <2>2
    <3> HIDE DEF c
    <3> QED BY <1>1, <1>9, <3>1, SameRatesSamePayments DEF Current
  <2> QED BY <2>1, <2>2
<1>10. SameRates(b.m, c.m)
  OBVIOUS
<1>11. Cover(b) >= 0 => Cover(c) >= 0
  <2> DEFINE T == TotalOf(Exact(m), b.p)
  <2>1. Exact(m) = Exact(b.m) /\ Exact(m) \in [PerpPosition -> Int]
    BY <1>1, SameRatesSamePayments, PaymentType
  <2>2. TotalOf(Exact(m), c.p) = T + (Exact(m)[q] - Exact(m)[b.p[u]])
    BY <1>1, <2>1, TotalUpdate
  <2>3. Exact(m)[q] = Claim(m, q) /\ Exact(m)[b.p[u]] = Claim(b.m, b.p[u])
    BY <1>1, <2>1 DEF Exact
  <2>4. T \in Int /\ Booked(m) \in Int /\ Booked(b.m) \in Int
    BY <1>1, <2>1, TotalIsInt, MarketTypes
  <2>5. Claim(m, q) \in Int /\ Claim(b.m, b.p[u]) \in Int
    BY <1>1, PaymentType
  <2>6. Cover(c) = Booked(m) - TotalOf(Exact(m), c.p) /\ Cover(b) = Booked(b.m) - T
    BY <2>1 DEF Cover
  <2> HIDE DEF c, T
  <2> QED BY <2>2, <2>3, <2>4, <2>5, <2>6
<1> HIDE DEF c
<1> QED BY <1>8, <1>9, <1>10, <1>11 DEF Carries, c

LEMMA CarriesOn ==
  ASSUME NEW b, NEW c, NEW d, Carries(b, c), Carries(c, d)
  PROVE  Carries(b, d)
BY DEF Carries, SameRates

LEMMA AddQuoteKeeps ==
  ASSUME NEW b, SoundBook(b), NEW u \in Users, NEW d \in Int
  PROVE  /\ SoundBook(AddQuote(b, u, d))
         /\ Offset(AddQuote(b, u, d)) = Offset(b)
         /\ Carries(b, AddQuote(b, u, d))
         /\ AddQuote(b, u, d).m.unsettledFunding = b.m.unsettledFunding
         /\ AddQuote(b, u, d).m.fractions = b.m.fractions
         /\ TotalOf(Exact(AddQuote(b, u, d).m), AddQuote(b, u, d).p)
              = TotalOf(Exact(b.m), b.p)
         /\ AddQuote(b, u, d).p[u].base = b.p[u].base
         /\ AddQuote(b, u, d).p[u].rate = b.p[u].rate
<1>1. CASE d = 0
  BY <1>1 DEF AddQuote, Carries, SameRates
<1>2. CASE d # 0
  <2> DEFINE bm == b.m
             p == b.p[u]
             quote == bm.quote + d
             q == [p EXCEPT !.quote = p.quote + d]
             n == IF Empty(p) THEN bm.users + 1
                  ELSE IF Empty(q) THEN Without1(bm.users) ELSE bm.users
             m == [bm EXCEPT !.quote = quote, !.users = n]
             c == [m |-> m, p |-> [b.p EXCEPT ![u] = q]]
  <2>1. AddQuote(b, u, d) = c
    BY <1>2 DEF AddQuote
  <2>2. /\ p \in PerpPosition /\ p.base \in Int /\ p.quote \in Int
        /\ bm \in PerpMarket /\ b.p \in [Users -> PerpPosition]
        /\ p.base = 0 => p.entry = 0 /\ p.rate = 0
    BY BookTypes
  <2>3. /\ q \in PerpPosition /\ q.base = p.base /\ q.quote = p.quote + d
        /\ q.entry = p.entry /\ q.rate = p.rate
    <3> HIDE DEF p
    <3> QED BY <2>2 DEF PerpPosition
  <2>4. ~Empty(p) => bm.users >= 1
    BY <2>2, Counted DEF SoundBook
  <2>5. bm.quote \in Int /\ bm.users \in Nat
    BY <2>2, MarketTypes
  <2> HIDE DEF p, q, bm
  <2>6. n \in Nat /\ n = bm.users + (One[q] - One[p])
    BY <1>2, <2>2, <2>3, <2>4, <2>5, SMTT(40) DEF One, Empty, Without1
  <2>7. quote \in Int
    BY <2>5
  <2> HIDE DEF n, quote
  <2>8. /\ m \in PerpMarket /\ m.quote = quote /\ m.users = n
        /\ m.long = bm.long /\ m.short = bm.short /\ m.withAmm = bm.withAmm
        /\ m.longEntry = bm.longEntry /\ m.shortEntry = bm.shortEntry
        /\ m.usersWithBase = bm.usersWithBase
        /\ m.longRate = bm.longRate /\ m.shortRate = bm.shortRate
        /\ m.unsettledFunding = bm.unsettledFunding
        /\ m.fractions = bm.fractions
    BY <2>2, <2>6, <2>7 DEF PerpMarket
  <2> HIDE DEF m
  <2>9. Books(bm, m, p, q)
    <3>1. /\ Long[q] = Long[p] /\ Short[q] = Short[p]
          /\ LongEntry[q] = LongEntry[p] /\ ShortEntry[q] = ShortEntry[p]
          /\ OneWithBase[q] = OneWithBase[p]
      BY <2>2, <2>3 DEF Long, Short, LongEntry, ShortEntry, OneWithBase
    <3>2. quote = bm.quote + (q.quote - p.quote)
      BY <1>2, <2>2, <2>3, <2>5 DEF quote
    <3>3. \A x \in PerpPosition :
            /\ Long[x] \in Int /\ Short[x] \in Int /\ LongEntry[x] \in Int
            /\ ShortEntry[x] \in Int /\ OneWithBase[x] \in Int
      BY PartTypes
    <3>4. /\ bm.long \in Int /\ bm.short \in Int /\ bm.longEntry \in Int
          /\ bm.shortEntry \in Int /\ bm.usersWithBase \in Int
      BY <2>2, MarketTypes
    <3> QED BY <2>2, <2>6, <2>8, <3>1, <3>2, <3>3, <3>4 DEF Books
  <2>10. Claim(m, q) = Claim(bm, p) /\ FundingPayment(m, q) = FundingPayment(bm, p)
    BY <2>3, <2>8 DEF FundingPayment, Claim, RateOf
  <2>11. SameRates(bm, m)
    BY <2>8 DEF SameRates
  <2>12. FundingPayment(bm, p) \in Int /\ bm.unsettledFunding \in Int
    BY <2>2, PaymentType, MarketTypes
  <2>13. SoundBook(c)
    BY <2>2, <2>3, <2>8, <2>9, SoundUpdate DEF bm, p
  <2>14. Current(b, u) => (q.base # 0 => q.rate = RateOf(m, q.base))
    BY <2>3, <2>8 DEF Current, RateOf, bm, p
  <2>15. m.unsettledFunding
           = bm.unsettledFunding + (FundingPayment(m, q) - FundingPayment(bm, p))
    BY <2>8, <2>10, <2>12
  <2>19. /\ Booked(m) - Claim(m, q) >= Booked(bm) - Claim(bm, p)
         /\ Claim(m, q) - Claim(bm, p) = 0
    <3>1. Booked(m) = Booked(bm)
      BY <2>8 DEF Booked
    <3>2. Booked(bm) \in Int /\ Claim(bm, p) \in Int
      BY <2>2, PaymentType, MarketTypes
    <3> QED BY <2>10, <3>1, <3>2
  <2>16. Carries(b, c)
    BY <2>3, <2>8, <2>11, <2>14, <2>15, <2>19, CarriesUpdate DEF bm, p
  <2>20. TotalOf(Exact(m), c.p) = TotalOf(Exact(bm), b.p)
    <3>1. Exact(m) = Exact(bm) /\ Exact(m) \in [PerpPosition -> Int]
      BY <2>2, <2>8, <2>11, SameRatesSamePayments, PaymentType
    <3>2. Exact(m)[q] = Claim(m, q) /\ Exact(m)[p] = Claim(bm, p)
      BY <2>2, <2>3, <3>1 DEF Exact
    <3>3. TotalOf(Exact(m), [b.p EXCEPT ![u] = q])
            = TotalOf(Exact(m), b.p) + (Exact(m)[q] - Exact(m)[b.p[u]])
      BY <2>2, <2>3, <3>1, TotalUpdate
    <3>4. TotalOf(Exact(m), b.p) \in Int /\ Exact(m)[b.p[u]] = Exact(m)[p]
      BY <2>2, <3>1, TotalIsInt DEF p
    <3> QED BY <2>19, <3>1, <3>2, <3>3, <3>4
  <2>17. Offset(c) = Offset(b)
    BY <2>8 DEF Offset, bm
  <2>18. c.p[u] = q /\ c.m = m
    BY <2>2
  <2> QED
    BY <2>1, <2>3, <2>8, <2>13, <2>16, <2>17, <2>18, <2>20 DEF bm, p
<1> QED BY <1>1, <1>2

(* Settling u's funding moves its claim from the market to its quote.      *)
LEMMA SettleFundingKeeps ==
  ASSUME NEW b, SoundBook(b), NEW u \in Users
  PROVE  /\ SoundBook(SettleFunding(b, u))
         /\ Offset(SettleFunding(b, u)) = Offset(b)
         /\ Carries(b, SettleFunding(b, u))
         /\ Current(SettleFunding(b, u), u)
<1> DEFINE pay == FundingPayment(b.m, b.p[u])
           c   == AddQuote(b, u, pay)
           r   == RateOf(b.m, b.p[u].base)
           due == Claim(b.m, b.p[u])
           up  == RoundedUp(due)
<1>0. b.m \in PerpMarket /\ b.p[u] \in PerpPosition
  BY BookTypes
<1>1. pay \in Int /\ r \in Int /\ due \in Int /\ pay = InQuote(due)
  BY <1>0, PaymentType DEF FundingPayment
<1>5. up \in Nat /\ (pay - up) * Precision <= due /\ Precision \in Nat
  <2> HIDE DEF pay, due
  <2>1. /\ up \in {0, 1} /\ pay * Precision \in Int /\ Precision \in Nat
        /\ pay * Precision - up * Precision <= due
    BY <1>1, NearQuote, PrecisionType
  <2>2. (pay - up) * Precision = pay * Precision - up * Precision
    BY <1>1, <2>1
  <2> QED BY <2>1, <2>2
<1> HIDE DEF pay, due, up
<1>2. /\ SoundBook(c) /\ Offset(c) = Offset(b) /\ Carries(b, c)
      /\ c.m.unsettledFunding = b.m.unsettledFunding
      /\ c.p[u].base = b.p[u].base /\ c.p[u].rate = b.p[u].rate
  BY <1>1, AddQuoteKeeps
<1>3. CASE b.p[u].base = 0
  BY <1>3 DEF SettleFunding, Carries, SameRates, Current
<1>4. CASE b.p[u].base # 0
  <2> DEFINE p == c.p[u]
             cm == c.m
             q == [p EXCEPT !.rate = r]
             unsettled == cm.unsettledFunding - pay
             fractions == cm.fractions + up
             m == [cm EXCEPT !.unsettledFunding = unsettled,
                             !.fractions = fractions]
             e == [m |-> m, p |-> [c.p EXCEPT ![u] = q]]
  <2>1. SettleFunding(b, u) = e
    BY <1>4 DEF SettleFunding, pay, due, up
  <2> HIDE DEF c, r
  <2>2. /\ p \in PerpPosition /\ cm \in PerpMarket
        /\ c.p \in [Users -> PerpPosition]
    BY <1>2, BookTypes
  <2>3. /\ p.base = b.p[u].base /\ p.rate = b.p[u].rate /\ SameRates(b.m, cm)
        /\ cm.unsettledFunding = b.m.unsettledFunding
        /\ cm.unsettledFunding \in Int /\ cm.fractions \in Nat
    BY <1>2, <2>2, MarketTypes DEF Carries
  <2> HIDE DEF p, cm
  <2>4. /\ q \in PerpPosition /\ q.base = p.base /\ q.quote = p.quote
        /\ q.entry = p.entry /\ q.rate = r /\ q.base # 0
    BY <1>1, <1>4, <2>2, <2>3 DEF PerpPosition
  <2>5. unsettled \in Int /\ fractions \in Nat
    BY <1>1, <1>5, <2>3
  <2> HIDE DEF unsettled, fractions, q
  <2>6. /\ m \in PerpMarket /\ m.quote = cm.quote /\ m.users = cm.users
        /\ m.long = cm.long /\ m.short = cm.short /\ m.withAmm = cm.withAmm
        /\ m.longEntry = cm.longEntry /\ m.shortEntry = cm.shortEntry
        /\ m.usersWithBase = cm.usersWithBase
        /\ m.longRate = cm.longRate /\ m.shortRate = cm.shortRate
        /\ m.unsettledFunding = unsettled /\ m.fractions = fractions
    BY <2>2, <2>5 DEF PerpMarket
  <2> HIDE DEF m
  <2>7. Books(cm, m, p, q)
    <3>1. /\ Long[q] = Long[p] /\ Short[q] = Short[p]
          /\ LongEntry[q] = LongEntry[p] /\ ShortEntry[q] = ShortEntry[p]
          /\ OneWithBase[q] = OneWithBase[p] /\ One[q] = One[p]
      BY <2>2, <2>4
      DEF Long, Short, LongEntry, ShortEntry, OneWithBase, One, Empty
    <3>2. \A x \in PerpPosition :
            /\ Long[x] \in Int /\ Short[x] \in Int /\ LongEntry[x] \in Int
            /\ ShortEntry[x] \in Int /\ OneWithBase[x] \in Int /\ One[x] \in Int
            /\ x.quote \in Int
      BY PartTypes
    <3>3. /\ cm.long \in Int /\ cm.short \in Int /\ cm.longEntry \in Int
          /\ cm.shortEntry \in Int /\ cm.usersWithBase \in Int
          /\ cm.users \in Int /\ cm.quote \in Int
      BY <2>2, MarketTypes
    <3> QED BY <2>2, <2>4, <2>6, <3>1, <3>2, <3>3 DEF Books
  <2>8. SameRates(cm, m)
    BY <2>6 DEF SameRates
  <2>9. RateOf(m, q.base) = r
    BY <2>3, <2>4, <2>6 DEF RateOf, SameRates, r
  <2>10. FundingPayment(m, q) = 0 /\ Claim(m, q) = 0
    BY <2>4, <2>6, <2>9, NoneToSettle
  <2>11. FundingPayment(cm, p) = pay /\ Claim(cm, p) = due
    BY <2>3 DEF FundingPayment, Claim, RateOf, SameRates, pay, due
  <2>18. Booked(m) - Claim(m, q) >= Booked(cm) - Claim(cm, p)
    <3> DEFINE k == cm.unsettledFunding + cm.fractions
               a == k * Precision
               d == (pay - up) * Precision
    <3>1. /\ k \in Int /\ a \in Int /\ d \in Int
          /\ (k - (pay - up)) * Precision = a - d
      BY <1>1, <1>5, <2>3
    <3>2. m.unsettledFunding + m.fractions = k - (pay - up)
      BY <1>1, <1>5, <2>3, <2>6 DEF unsettled, fractions
    <3>3. Booked(m) = a - d /\ Booked(cm) = a
      BY <3>1, <3>2 DEF Booked
    <3>4. d <= due
      BY <1>5
    <3> HIDE DEF k, a, d
    <3> QED BY <1>1, <2>10, <2>11, <3>1, <3>3, <3>4
  <2>12. m.unsettledFunding
           = cm.unsettledFunding + (FundingPayment(m, q) - FundingPayment(cm, p))
    BY <1>1, <2>3, <2>6, <2>10, <2>11 DEF unsettled
  <2>13. SoundBook(e)
    BY <1>2, <2>4, <2>6, <2>7, SoundUpdate DEF cm, p
  <2>14. Carries(c, e)
    BY <1>2, <2>4, <2>6, <2>8, <2>9, <2>12, <2>18, CarriesUpdate DEF cm, p
  <2>15. Carries(b, e)
    BY <1>2, <2>14, CarriesOn
  <2>16. Current(e, u)
    BY <2>2, <2>4, <2>9 DEF Current
  <2>17. Offset(e) = Offset(c)
    BY <2>6 DEF Offset, cm
  <2> QED BY <1>2, <2>1, <2>13, <2>15, <2>16, <2>17
<1> QED BY <1>3, <1>4

(* A new record for u, when u's funding is settled and the market books    *)
(* all of it.  The users' net position moves by the change of u's.         *)
LEMMA RecordUpdate ==
  ASSUME NEW b, SoundBook(b), NEW u \in Users, Current(b, u),
         NEW m \in PerpMarket, NEW q \in PerpPosition,
         q.base = 0 => q.entry = 0 /\ q.rate = 0,
         q.base # 0 => q.rate = RateOf(b.m, q.base),
         Books(b.m, m, b.p[u], q), SameRates(b.m, m),
         m.unsettledFunding = b.m.unsettledFunding,
         m.fractions = b.m.fractions, m.withAmm = b.m.withAmm
  PROVE  LET c == [m |-> m, p |-> [b.p EXCEPT ![u] = q]]
         IN /\ SoundBook(c) /\ Carries(b, c)
            /\ Offset(c) = Offset(b) + (q.base - b.p[u].base)
<1> DEFINE c == [m |-> m, p |-> [b.p EXCEPT ![u] = q]]
           p == b.p[u]
<1>1. b.m \in PerpMarket /\ p \in PerpPosition /\ p.base \in Int /\ q.base \in Int
  BY BookTypes DEF PerpPosition
<1>2. SoundBook(c)
  BY SoundUpdate
<1>3. RateOf(m, q.base) = RateOf(b.m, q.base)
  BY <1>1, SameRatesSamePayments
<1>4. /\ FundingPayment(b.m, p) = 0 /\ FundingPayment(m, q) = 0
      /\ Claim(b.m, p) = 0 /\ Claim(m, q) = 0
  BY <1>1, <1>3, NoneToSettle DEF Current
<1>12. Booked(m) - Claim(m, q) >= Booked(b.m) - Claim(b.m, p)
  <2>1. Booked(m) = Booked(b.m) /\ Booked(b.m) \in Int
    BY <1>1, MarketTypes DEF Booked
  <2> QED BY <1>4, <2>1
<1>5. m.unsettledFunding
        = b.m.unsettledFunding + (FundingPayment(m, q) - FundingPayment(b.m, p))
  BY <1>1, <1>4, MarketTypes
<1>6. Carries(b, c)
  BY <1>3, <1>5, <1>12, CarriesUpdate
<1>7. Long[q] + Short[q] = q.base /\ Long[p] + Short[p] = p.base
  BY <1>1 DEF Long, Short
<1>8. /\ m.long = b.m.long + (Long[q] - Long[p])
      /\ m.short = b.m.short + (Short[q] - Short[p])
  BY DEF Books
<1>9. /\ b.m.long \in Int /\ b.m.short \in Int /\ b.m.withAmm \in Int
      /\ Long[q] \in Int /\ Short[q] \in Int /\ Long[p] \in Int /\ Short[p] \in Int
  BY <1>1, MarketTypes, PartsAreInts
<1>10. Offset(c) = m.long + m.short - m.withAmm
  BY DEF Offset
<1> HIDE DEF c, p
<1>11. Offset(c) = Offset(b) + (q.base - p.base)
  <2>1. Offset(b) = b.m.long + b.m.short - m.withAmm
    BY DEF Offset
  <2>2. \A l, s, w, lq, lp, sq, sp, i, j \in Int :
          lq + sq = i /\ lp + sp = j
            => (l + (lq - lp)) + (s + (sq - sp)) - w = (l + s - w) + (i - j)
    OBVIOUS
  <2> QED BY <1>1, <1>7, <1>8, <1>9, <1>10, <2>1, <2>2
<1> QED BY <1>2, <1>6, <1>11 DEF c, p

LEMMA ExtendKeeps ==
  ASSUME NEW b, SoundBook(b), NEW u \in Users, Current(b, u),
         NEW base \in Int, base # 0, NEW quote \in Int,
         b.p[u].base = 0 \/ SameSide(b.p[u].base, base)
  PROVE  /\ SoundBook(Extend(b, u, base, quote))
         /\ Carries(b, Extend(b, u, base, quote))
         /\ Offset(Extend(b, u, base, quote)) = Offset(b) + base
<1> DEFINE bm     == b.m
           p      == b.p[u]
           size   == p.base + base
           up     == size > 0
           r      == RateOf(b.m, size)
           q      == [base |-> size, quote |-> p.quote + quote,
                      entry |-> p.entry + quote, rate |-> r]
           total  == bm.quote + quote
           long   == IF up THEN bm.long + base ELSE bm.long
           short  == IF up THEN bm.short ELSE bm.short + base
           lEntry == IF up THEN bm.longEntry + quote ELSE bm.longEntry
           sEntry == IF up THEN bm.shortEntry ELSE bm.shortEntry + quote
           n      == IF Empty(p) THEN bm.users + 1 ELSE bm.users
           k      == IF p.base = 0 THEN bm.usersWithBase + 1
                                   ELSE bm.usersWithBase
           m      == [bm EXCEPT !.quote = total, !.long = long, !.short = short,
                                !.longEntry = lEntry, !.shortEntry = sEntry,
                                !.users = n, !.usersWithBase = k]
<1>1. Extend(b, u, base, quote) = [m |-> m, p |-> [b.p EXCEPT ![u] = q]]
  BY DEF Extend
<1>2. /\ bm \in PerpMarket /\ p \in PerpPosition
      /\ p.base \in Int /\ p.quote \in Int /\ p.entry \in Int
      /\ p.base = 0 => p.entry = 0
      /\ p.base = 0 \/ SameSide(p.base, base)
  BY BookTypes
<1>3. /\ bm.long \in Int /\ bm.short \in Int /\ bm.quote \in Int
      /\ bm.longEntry \in Int /\ bm.shortEntry \in Int
      /\ bm.users \in Nat /\ bm.usersWithBase \in Nat
  BY <1>2, MarketTypes
<1>4. RateOf(bm, size) \in Int
  BY <1>2 DEF RateOf, PerpMarket
<1> HIDE DEF bm, p
<1>5. /\ size \in Int /\ size # 0
      /\ up => p.base >= 0 /\ size > p.base
      /\ ~up => p.base <= 0
  BY <1>2 DEF SameSide, Sign
<1> HIDE DEF r
<1>6. /\ q \in PerpPosition /\ q.base = size /\ q.quote = p.quote + quote
      /\ q.entry = p.entry + quote /\ q.rate = r
  BY <1>2, <1>4, <1>5 DEF PerpPosition, r, bm
<1> HIDE DEF q
<1>7. /\ total = bm.quote + (q.quote - p.quote)
      /\ long = bm.long + (Long[q] - Long[p])
      /\ short = bm.short + (Short[q] - Short[p])
      /\ lEntry = bm.longEntry + (LongEntry[q] - LongEntry[p])
      /\ sEntry = bm.shortEntry + (ShortEntry[q] - ShortEntry[p])
  BY <1>2, <1>3, <1>5, <1>6 DEF Long, Short, LongEntry, ShortEntry
<1>8. /\ n = bm.users + (One[q] - One[p])
      /\ k = bm.usersWithBase + (OneWithBase[q] - OneWithBase[p])
  BY <1>2, <1>3, <1>5, <1>6 DEF One, OneWithBase, Empty
<1>9. /\ total \in Int /\ long \in Int /\ short \in Int /\ lEntry \in Int
      /\ sEntry \in Int /\ n \in Nat /\ k \in Nat
  BY <1>2, <1>3
<1> HIDE DEF total, long, short, lEntry, sEntry, n, k
<1>10. /\ m \in PerpMarket /\ m.quote = total /\ m.long = long
       /\ m.short = short /\ m.longEntry = lEntry /\ m.shortEntry = sEntry
       /\ m.users = n /\ m.usersWithBase = k
       /\ m.longRate = bm.longRate /\ m.shortRate = bm.shortRate
       /\ m.unsettledFunding = bm.unsettledFunding /\ m.withAmm = bm.withAmm
       /\ m.fractions = bm.fractions
  BY <1>2, <1>9 DEF PerpMarket
<1> HIDE DEF m
<1>11. Books(bm, m, p, q) /\ SameRates(bm, m)
  BY <1>7, <1>8, <1>10 DEF Books, SameRates
<1>12. q.base # 0 /\ q.rate = RateOf(b.m, q.base)
  BY <1>5, <1>6 DEF r
<1>13. q.base - b.p[u].base = base
  BY <1>2, <1>6 DEF p
<1> HIDE DEF size
<1>14. LET c == [m |-> m, p |-> [b.p EXCEPT ![u] = q]]
       IN /\ SoundBook(c) /\ Carries(b, c)
          /\ Offset(c) = Offset(b) + (q.base - b.p[u].base)
  BY <1>6, <1>10, <1>11, <1>12, RecordUpdate DEF bm, p
<1> QED BY <1>1, <1>13, <1>14

(* A close leaves neither entry nor funding behind.                        *)
LEMMA ReduceByKeeps ==
  ASSUME NEW b, SoundBook(b), NEW u \in Users, Current(b, u),
         NEW base \in Int, base # 0, NEW quote \in Int,
         b.p[u].base # 0, ~SameSide(b.p[u].base, base),
         Abs(b.p[u].base) >= Abs(base)
  PROVE  /\ SoundBook(ReduceBy(b, u, base, quote))
         /\ Carries(b, ReduceBy(b, u, base, quote))
         /\ Offset(ReduceBy(b, u, base, quote)) = Offset(b) + base
<1> DEFINE bm     == b.m
           p      == b.p[u]
           size   == p.base + base
           leaves == DivTrunc(p.entry * Abs(base), Abs(p.base))
           up     == p.base > 0
           r      == IF size = 0 THEN 0 ELSE p.rate
           q      == [base |-> size, quote |-> p.quote + quote,
                      entry |-> p.entry - leaves, rate |-> r]
           total  == bm.quote + quote
           long   == IF up THEN bm.long + base ELSE bm.long
           short  == IF up THEN bm.short ELSE bm.short + base
           lEntry == IF up THEN bm.longEntry - leaves ELSE bm.longEntry
           sEntry == IF up THEN bm.shortEntry ELSE bm.shortEntry - leaves
           n      == IF Empty(q) THEN Without1(bm.users) ELSE bm.users
           k      == IF size = 0 THEN Without1(bm.usersWithBase)
                                 ELSE bm.usersWithBase
           m      == [bm EXCEPT !.quote = total, !.long = long, !.short = short,
                                !.longEntry = lEntry, !.shortEntry = sEntry,
                                !.users = n, !.usersWithBase = k]
<1>1. ReduceBy(b, u, base, quote) = [m |-> m, p |-> [b.p EXCEPT ![u] = q]]
  BY DEF ReduceBy
<1>2. /\ bm \in PerpMarket /\ p \in PerpPosition
      /\ p.base \in Int /\ p.quote \in Int /\ p.entry \in Int /\ p.rate \in Int
      /\ p.base # 0 /\ ~SameSide(p.base, base) /\ Abs(p.base) >= Abs(base)
      /\ p.rate = RateOf(bm, p.base)
  BY BookTypes DEF Current
<1>3. /\ bm.long \in Int /\ bm.short \in Int /\ bm.quote \in Int
      /\ bm.longEntry \in Int /\ bm.shortEntry \in Int
      /\ bm.users \in Nat /\ bm.usersWithBase \in Nat
  BY <1>2, MarketTypes
<1>4. bm.users >= 1 /\ bm.usersWithBase >= 1
  BY <1>2, BookTypes, Counted DEF SoundBook, Empty
<1> HIDE DEF bm, p
<1>5. Abs(base) \in Nat /\ Abs(p.base) \in Nat \ {0}
  BY <1>2 DEF Abs
<1>6. leaves \in Int
  BY <1>2, <1>5, DivTruncType
<1>7. size = 0 => leaves = p.entry
  <2>1. size = 0 => Abs(base) = Abs(p.base)
    BY <1>2 DEF Abs
  <2> QED BY <1>2, <1>5, <2>1, DivTruncOfMultiple
<1> HIDE DEF leaves
<1>8. /\ size \in Int
      /\ up => size >= 0
      /\ ~up => size <= 0
  BY <1>2 DEF SameSide, Sign, Abs
<1>9. r \in Int
  BY <1>2
<1>10. size # 0 => r = RateOf(bm, size)
  BY <1>2, <1>8 DEF RateOf
<1>11. size = 0 => r = 0
  OBVIOUS
<1> HIDE DEF r
<1>12. /\ q \in PerpPosition /\ q.base = size /\ q.quote = p.quote + quote
       /\ q.entry = p.entry - leaves /\ q.rate = r
  BY <1>2, <1>6, <1>8, <1>9 DEF PerpPosition
<1> HIDE DEF q
<1>13. /\ total = bm.quote + (q.quote - p.quote)
       /\ long = bm.long + (Long[q] - Long[p])
       /\ short = bm.short + (Short[q] - Short[p])
  BY <1>2, <1>3, <1>8, <1>12 DEF Long, Short
<1>14. /\ lEntry = bm.longEntry + (LongEntry[q] - LongEntry[p])
       /\ sEntry = bm.shortEntry + (ShortEntry[q] - ShortEntry[p])
  BY <1>2, <1>3, <1>6, <1>7, <1>8, <1>12 DEF LongEntry, ShortEntry
<1>15. /\ n = bm.users + (One[q] - One[p])
       /\ k = bm.usersWithBase + (OneWithBase[q] - OneWithBase[p])
  BY <1>2, <1>3, <1>4, <1>8, <1>12 DEF One, OneWithBase, Empty, Without1
<1>16. n \in Nat /\ k \in Nat
  <2>1. Without1(bm.users) \in Nat /\ Without1(bm.usersWithBase) \in Nat
    BY <1>3 DEF Without1
  <2> QED BY <1>3, <2>1
<1>17. /\ total \in Int /\ long \in Int /\ short \in Int /\ lEntry \in Int
       /\ sEntry \in Int
  BY <1>2, <1>3, <1>6
<1> HIDE DEF total, long, short, lEntry, sEntry, n, k
<1>18. /\ m \in PerpMarket /\ m.quote = total /\ m.long = long
       /\ m.short = short /\ m.longEntry = lEntry /\ m.shortEntry = sEntry
       /\ m.users = n /\ m.usersWithBase = k
       /\ m.longRate = bm.longRate /\ m.shortRate = bm.shortRate
       /\ m.unsettledFunding = bm.unsettledFunding /\ m.withAmm = bm.withAmm
       /\ m.fractions = bm.fractions
  BY <1>2, <1>16, <1>17 DEF PerpMarket
<1> HIDE DEF m
<1>19. Books(bm, m, p, q) /\ SameRates(bm, m)
  BY <1>13, <1>14, <1>15, <1>18 DEF Books, SameRates
<1>20. /\ q.base = 0 => q.entry = 0 /\ q.rate = 0
       /\ q.base # 0 => q.rate = RateOf(b.m, q.base)
  BY <1>2, <1>7, <1>10, <1>11, <1>12 DEF bm
<1>21. q.base - b.p[u].base = base
  BY <1>2, <1>12 DEF p
<1> HIDE DEF size
<1>22. LET c == [m |-> m, p |-> [b.p EXCEPT ![u] = q]]
       IN /\ SoundBook(c) /\ Carries(b, c)
          /\ Offset(c) = Offset(b) + (q.base - b.p[u].base)
  BY <1>12, <1>18, <1>19, <1>20, RecordUpdate DEF bm, p
<1> QED BY <1>1, <1>21, <1>22

(* A flip moves a position from one side to the other.                     *)
LEMMA FlipKeeps ==
  ASSUME NEW b, SoundBook(b), NEW u \in Users, Current(b, u),
         NEW base \in Int, base # 0, NEW quote \in Int,
         b.p[u].base # 0, ~SameSide(b.p[u].base, base),
         Abs(b.p[u].base) < Abs(base)
  PROVE  /\ SoundBook(Flip(b, u, base, quote))
         /\ Carries(b, Flip(b, u, base, quote))
         /\ Offset(Flip(b, u, base, quote)) = Offset(b) + base
<1> DEFINE bm     == b.m
           p      == b.p[u]
           size   == p.base + base
           entry  == quote - DivTrunc(quote * Abs(p.base), Abs(base))
           up     == size > 0
           r      == RateOf(b.m, size)
           q      == [base |-> size, quote |-> p.quote + quote,
                      entry |-> entry, rate |-> r]
           total  == bm.quote + quote
           long   == IF up THEN bm.long + size ELSE bm.long - p.base
           short  == IF up THEN bm.short - p.base ELSE bm.short + size
           lEntry == IF up THEN bm.longEntry + entry
                           ELSE bm.longEntry - p.entry
           sEntry == IF up THEN bm.shortEntry - p.entry
                           ELSE bm.shortEntry + entry
           m      == [bm EXCEPT !.quote = total, !.long = long, !.short = short,
                                !.longEntry = lEntry, !.shortEntry = sEntry]
<1>1. Flip(b, u, base, quote) = [m |-> m, p |-> [b.p EXCEPT ![u] = q]]
  BY DEF Flip
<1>2. /\ bm \in PerpMarket /\ p \in PerpPosition
      /\ p.base \in Int /\ p.quote \in Int /\ p.entry \in Int
      /\ p.base # 0 /\ ~SameSide(p.base, base) /\ Abs(p.base) < Abs(base)
  BY BookTypes
<1>3. /\ bm.long \in Int /\ bm.short \in Int /\ bm.quote \in Int
      /\ bm.longEntry \in Int /\ bm.shortEntry \in Int
      /\ bm.users \in Nat /\ bm.usersWithBase \in Nat
  BY <1>2, MarketTypes
<1>4. RateOf(bm, size) \in Int
  BY <1>2 DEF RateOf, PerpMarket
<1> HIDE DEF bm, p
<1>5. /\ size \in Int /\ size # 0
      /\ up => p.base < 0
      /\ ~up => p.base > 0
  BY <1>2 DEF Abs, SameSide, Sign
<1>6. entry \in Int
  <2>1. Abs(p.base) \in Nat /\ Abs(base) \in Nat \ {0}
    BY <1>2 DEF Abs
  <2>2. DivTrunc(quote * Abs(p.base), Abs(base)) \in Int
    BY <2>1, DivTruncType
  <2> QED BY <2>2
<1> HIDE DEF entry, r
<1>7. /\ q \in PerpPosition /\ q.base = size /\ q.quote = p.quote + quote
      /\ q.entry = entry /\ q.rate = r
  BY <1>2, <1>4, <1>5, <1>6 DEF PerpPosition, r, bm
<1> HIDE DEF q
<1>8. /\ total = bm.quote + (q.quote - p.quote)
      /\ long = bm.long + (Long[q] - Long[p])
      /\ short = bm.short + (Short[q] - Short[p])
      /\ lEntry = bm.longEntry + (LongEntry[q] - LongEntry[p])
      /\ sEntry = bm.shortEntry + (ShortEntry[q] - ShortEntry[p])
  <2>1. /\ Long[q] = IF up THEN size ELSE 0
        /\ Short[q] = IF up THEN 0 ELSE size
        /\ LongEntry[q] = IF up THEN entry ELSE 0
        /\ ShortEntry[q] = IF up THEN 0 ELSE entry
    BY <1>5, <1>7 DEF Long, Short, LongEntry, ShortEntry
  <2>2. /\ Long[p] = IF up THEN 0 ELSE p.base
        /\ Short[p] = IF up THEN p.base ELSE 0
        /\ LongEntry[p] = IF up THEN 0 ELSE p.entry
        /\ ShortEntry[p] = IF up THEN p.entry ELSE 0
    BY <1>2, <1>5 DEF Long, Short, LongEntry, ShortEntry
  <2>3. total = bm.quote + (q.quote - p.quote)
    BY <1>2, <1>3, <1>7
  <2> HIDE DEF size
  <2> QED BY <1>2, <1>3, <1>5, <1>6, <2>1, <2>2, <2>3
<1>9. /\ bm.users = bm.users + (One[q] - One[p])
      /\ bm.usersWithBase
           = bm.usersWithBase + (OneWithBase[q] - OneWithBase[p])
  BY <1>2, <1>3, <1>5, <1>7 DEF One, OneWithBase, Empty
<1>10. /\ total \in Int /\ long \in Int /\ short \in Int /\ lEntry \in Int
       /\ sEntry \in Int
  BY <1>2, <1>3, <1>5, <1>6
<1> HIDE DEF total, long, short, lEntry, sEntry
<1>11. /\ m \in PerpMarket /\ m.quote = total /\ m.long = long
       /\ m.short = short /\ m.longEntry = lEntry /\ m.shortEntry = sEntry
       /\ m.users = bm.users /\ m.usersWithBase = bm.usersWithBase
       /\ m.longRate = bm.longRate /\ m.shortRate = bm.shortRate
       /\ m.unsettledFunding = bm.unsettledFunding /\ m.withAmm = bm.withAmm
       /\ m.fractions = bm.fractions
  BY <1>2, <1>10 DEF PerpMarket
<1> HIDE DEF m
<1>12. Books(bm, m, p, q) /\ SameRates(bm, m)
  BY <1>8, <1>9, <1>11 DEF Books, SameRates
<1>13. q.base # 0 /\ q.rate = RateOf(b.m, q.base)
  BY <1>5, <1>7 DEF r
<1>14. q.base - b.p[u].base = base
  BY <1>2, <1>7 DEF p
<1> HIDE DEF size
<1>15. LET c == [m |-> m, p |-> [b.p EXCEPT ![u] = q]]
       IN /\ SoundBook(c) /\ Carries(b, c)
          /\ Offset(c) = Offset(b) + (q.base - b.p[u].base)
  BY <1>7, <1>11, <1>12, <1>13, RecordUpdate DEF bm, p
<1> QED BY <1>1, <1>14, <1>15

(* Whatever the kind of update, the users' net position moves by base.     *)
LEMMA UpdatePositionKeeps ==
  ASSUME NEW b, SoundBook(b), NEW u \in Users, Current(b, u),
         NEW base \in Int, NEW quote \in Int
  PROVE  /\ SoundBook(UpdatePosition(b, u, base, quote))
         /\ Carries(b, UpdatePosition(b, u, base, quote))
         /\ Offset(UpdatePosition(b, u, base, quote)) = Offset(b) + base
<1>1. b.p[u].base \in Int /\ Offset(b) \in Int
  BY BookTypes DEF Offset, PerpMarket
<1>2. CASE base = 0
  BY <1>1, <1>2, AddQuoteKeeps DEF UpdatePosition
<1>3. CASE base # 0 /\ (b.p[u].base = 0 \/ SameSide(b.p[u].base, base))
  BY <1>3, ExtendKeeps DEF UpdatePosition
<1>4. CASE /\ base # 0 /\ ~(b.p[u].base = 0 \/ SameSide(b.p[u].base, base))
           /\ Abs(b.p[u].base) >= Abs(base)
  BY <1>4, ReduceByKeeps DEF UpdatePosition
<1>5. CASE /\ base # 0 /\ ~(b.p[u].base = 0 \/ SameSide(b.p[u].base, base))
           /\ ~(Abs(b.p[u].base) >= Abs(base))
  <2>1. Abs(b.p[u].base) < Abs(base)
    BY <1>1, <1>5 DEF Abs
  <2> QED BY <1>5, <2>1, FlipKeeps DEF UpdatePosition
<1> QED BY <1>2, <1>3, <1>4, <1>5

(* A trade with the amm moves both, and the offset stays.                  *)
LEMMA TradeWithAmmKeeps ==
  ASSUME NEW b, SoundBook(b), NEW u \in Users, Current(b, u),
         NEW base \in Int, NEW quote \in Int
  PROVE  /\ SoundBook(TradeWithAmm(b, u, base, quote))
         /\ Carries(b, TradeWithAmm(b, u, base, quote))
         /\ Offset(TradeWithAmm(b, u, base, quote)) = Offset(b)
<1> DEFINE c  == UpdatePosition(b, u, base, quote)
           cm == c.m
           amm == cm.withAmm + base
           m  == [cm EXCEPT !.withAmm = amm]
           d  == [m |-> m, p |-> c.p]
<1>1. SoundBook(c) /\ Carries(b, c) /\ Offset(c) = Offset(b) + base
  BY UpdatePositionKeeps
<1>2. Offset(b) \in Int
  BY BookTypes DEF Offset, PerpMarket
<1>3. TradeWithAmm(b, u, base, quote) = [c EXCEPT !.m.withAmm = c.m.withAmm + base]
  BY DEF TradeWithAmm
<1> HIDE DEF c
<1>4. /\ c = [m |-> cm, p |-> c.p] /\ cm \in PerpMarket
      /\ c.p \in [Users -> PerpPosition]
  BY <1>1, BookTypes
<1>5. TradeWithAmm(b, u, base, quote) = d
  BY <1>3, <1>4
<1> HIDE DEF cm
<1>6. cm.long \in Int /\ cm.short \in Int /\ cm.withAmm \in Int /\ amm \in Int
  BY <1>4, MarketTypes
<1> HIDE DEF amm
<1>7. /\ m \in PerpMarket /\ m.quote = cm.quote /\ m.users = cm.users
      /\ m.long = cm.long /\ m.short = cm.short /\ m.withAmm = amm
      /\ m.longEntry = cm.longEntry /\ m.shortEntry = cm.shortEntry
      /\ m.usersWithBase = cm.usersWithBase
      /\ m.longRate = cm.longRate /\ m.shortRate = cm.shortRate
      /\ m.unsettledFunding = cm.unsettledFunding
      /\ m.fractions = cm.fractions
  BY <1>4, <1>6 DEF PerpMarket
<1> HIDE DEF m
<1>8. SoundBook(d)
  BY <1>1, <1>4, <1>7 DEF SoundBook, TypedBook, Matched, cm
<1>9. Offset(d) = Offset(c) - base
  BY <1>6, <1>7 DEF Offset, amm, cm
<1>10. Carries(c, d)
  <2>1. SameRates(cm, m)
    BY <1>7 DEF SameRates
  <2>2. Payment(m) = Payment(cm) /\ Exact(m) = Exact(cm)
    BY <1>4, <1>7, <2>1, SameRatesSamePayments
  <2>3. Surplus(d) = Surplus(c) /\ Cover(d) = Cover(c)
    BY <1>7, <2>2 DEF Surplus, Cover, Booked, cm
  <2>4. \A x \in Users : Current(c, x) => Current(d, x)
    BY <1>7 DEF Current, RateOf, cm
  <2> QED BY <2>1, <2>3, <2>4 DEF Carries, cm
<1>11. Carries(b, d)
  BY <1>1, <1>10, CarriesOn
<1> QED BY <1>1, <1>2, <1>5, <1>8, <1>9, <1>11
-----------------------------------------------------------------------------
(* Funding rates. *)

(* When the rates move, each side gains its rate's change times its base.  *)
LEMMA RatesMove ==
  ASSUME NEW m \in PerpMarket, NEW n \in PerpMarket, NEW x \in Int, NEW y \in Int,
         n.longRate = m.longRate + x, n.shortRate = m.shortRate + y,
         NEW pos \in [Users -> PerpPosition]
  PROVE  TotalOf(Exact(n), pos)
           = TotalOf(Exact(m), pos)
               + ((-x) * TotalOf(Long, pos) + (-y) * TotalOf(Short, pos))
<1> DEFINE F == [u \in Users |-> Exact(m)[pos[u]]]
           L == [u \in Users |-> Long[pos[u]]]
           S == [u \in Users |-> Short[pos[u]]]
           G == [u \in Users |-> Exact(m)[pos[u]] + (-x) * Long[pos[u]]]
           H == [u \in Users |-> Exact(n)[pos[u]]]
<1>1. ASSUME NEW p \in PerpPosition
      PROVE  Exact(n)[p] = Exact(m)[p] + (-x) * Long[p] + (-y) * Short[p]
  <2>1. /\ p.base \in Int /\ p.rate \in Int
        /\ m.longRate \in Int /\ m.shortRate \in Int
    BY MarketTypes DEF PerpPosition
  <2>2. /\ Exact(n)[p] = Claim(n, p)
        /\ Exact(m)[p] = Claim(m, p)
        /\ Long[p] = IF p.base > 0 THEN p.base ELSE 0
        /\ Short[p] = IF p.base < 0 THEN p.base ELSE 0
    BY DEF Exact, Long, Short
  <2>3. CASE p.base = 0
    BY <2>1, <2>2, <2>3 DEF Claim
  <2> DEFINE c == p.base
             r == p.rate
             l == m.longRate
             s == m.shortRate
  <2>4. CASE p.base > 0
    <3>1. /\ Claim(n, p) = -(l + x - r) * c
          /\ Claim(m, p) = -(l - r) * c
          /\ Long[p] = c /\ Short[p] = 0 /\ c \in Int /\ r \in Int /\ l \in Int
      BY <2>1, <2>2, <2>4 DEF Claim, RateOf
    <3> HIDE DEF c, r, l
    <3>2. -(l + x - r) * c = -(l - r) * c + (-x) * c + (-y) * 0
      BY <3>1
    <3> QED BY <2>2, <3>1, <3>2
  <2>5. CASE p.base < 0
    <3>1. /\ Claim(n, p) = -(s + y - r) * c
          /\ Claim(m, p) = -(s - r) * c
          /\ Long[p] = 0 /\ Short[p] = c /\ c \in Int /\ r \in Int /\ s \in Int
      BY <2>1, <2>2, <2>5 DEF Claim, RateOf
    <3> HIDE DEF c, r, s
    <3>2. -(s + y - r) * c = -(s - r) * c + (-x) * 0 + (-y) * c
      BY <3>1
    <3> QED BY <2>2, <3>1, <3>2
  <2> QED BY <2>1, <2>3, <2>4, <2>5
<1>2. \A u \in Users : /\ F[u] \in Int /\ L[u] \in Int /\ S[u] \in Int
                       /\ G[u] = F[u] + (-x) * L[u]
  BY PaymentType, PartTypes
<1>3. \A u \in Users : G[u] \in Int /\ H[u] = G[u] + (-y) * S[u]
  <2> TAKE u \in Users
  <2>1. pos[u] \in PerpPosition /\ H[u] = Exact(n)[pos[u]]
    OBVIOUS
  <2>2. H[u] = Exact(m)[pos[u]] + (-x) * Long[pos[u]] + (-y) * Short[pos[u]]
    BY <1>1, <2>1
  <2>3. F[u] \in Int /\ L[u] \in Int
    BY <1>2
  <2> QED BY <2>2, <2>3
<1>4. /\ TotalOf(Exact(m), pos) = SumFunctionOnSet(F, Users)
      /\ TotalOf(Exact(n), pos) = SumFunctionOnSet(H, Users)
      /\ TotalOf(Long, pos) = SumFunctionOnSet(L, Users)
      /\ TotalOf(Short, pos) = SumFunctionOnSet(S, Users)
  BY DEF TotalOf, Total
<1> HIDE DEF F, L, S, G, H
<1>5. SumFunctionOnSet(G, Users)
        = SumFunctionOnSet(F, Users) + (-x) * SumFunctionOnSet(L, Users)
  BY <1>2, SumLinear, LedgerAssumption
<1>6. SumFunctionOnSet(H, Users)
        = SumFunctionOnSet(G, Users) + (-y) * SumFunctionOnSet(S, Users)
  BY <1>2, <1>3, SumLinear, LedgerAssumption
<1>7. /\ SumFunctionOnSet(F, Users) \in Int /\ SumFunctionOnSet(L, Users) \in Int
      /\ SumFunctionOnSet(S, Users) \in Int
  BY <1>2, SumIsInt, LedgerAssumption
<1> QED BY <1>4, <1>5, <1>6, <1>7

(* The users' longs are not negative in total, and their shorts not        *)
(* positive.                                                               *)
LEMMA Sides ==
  ASSUME NEW pos \in [Users -> PerpPosition]
  PROVE  TotalOf(Long, pos) \in Nat /\ -TotalOf(Short, pos) \in Nat
<1> DEFINE L == [u \in Users |-> Long[pos[u]]]
           S == [u \in Users |-> Short[pos[u]]]
           Z == [u \in Users |-> 0]
           N == [u \in Users |-> -Short[pos[u]]]
<1>1. ASSUME NEW p \in PerpPosition
      PROVE  Long[p] \in Nat /\ Short[p] \in Int /\ -Short[p] \in Nat
  BY DEF Long, Short, PerpPosition
<1>2. /\ \A u \in Users : L[u] \in Nat /\ N[u] \in Nat
      /\ \A u \in Users : Z[u] \in Int /\ S[u] \in Int /\ Z[u] = 0
      /\ \A u \in Users : N[u] = Z[u] + (-1) * S[u]
  BY <1>1
<1>3. TotalOf(Long, pos) = SumFunctionOnSet(L, Users)
      /\ TotalOf(Short, pos) = SumFunctionOnSet(S, Users)
  BY DEF TotalOf, Total
<1> HIDE DEF L, S, Z, N
<1>4. /\ SumFunctionOnSet(L, Users) \in Nat /\ SumFunctionOnSet(N, Users) \in Nat
      /\ SumFunctionOnSet(S, Users) \in Int
  BY <1>2, SumIsNat, SumIsInt, LedgerAssumption
<1>5. SumFunctionOnSet(Z, Users) = 0
  BY <1>2, SumZero, LedgerAssumption
<1>6. SumFunctionOnSet(N, Users)
        = SumFunctionOnSet(Z, Users) + (-1) * SumFunctionOnSet(S, Users)
  BY <1>2, SumLinear, LedgerAssumption
<1> QED BY <1>3, <1>4, <1>5, <1>6

LEMMA CappedRateType ==
  ASSUME NEW m \in PerpMarket, NEW rate \in Int, NEW limit \in Nat
  PROVE  CappedRate(m, rate, limit) \in Int
<1> DEFINE payers    == IF rate > 0 THEN m.long ELSE m.short
           receivers == IF rate > 0 THEN m.short ELSE m.long
           available == -limit - Abs(InQuote(rate * payers))
           whole     == IF available < 0 THEN available + 1 ELSE available
<1>1. payers \in Int /\ receivers \in Int
  BY DEF PerpMarket
<1> HIDE DEF payers, receivers
<1>2. InQuote(rate * payers) \in Int
  BY <1>1, NearQuote
<1>3. available \in Int
  BY <1>2 DEF Abs
<1> HIDE DEF available
<1>4. whole * Precision \in Int
  BY <1>3, PrecisionType
<1>5. CappedRate(m, rate, limit)
        = IF receivers = 0 THEN 0 ELSE DivTrunc(whole * Precision, receivers)
  BY DEF CappedRate, payers, receivers, available
<1> HIDE DEF whole
<1> QED BY <1>1, <1>4, <1>5, DivTruncType

(* Of a debt n, the division pays out no more.                             *)
LEMMA DivTruncPaysOut ==
  ASSUME NEW n \in Int, n <= 0, NEW d \in Int, d # 0
  PROVE  DivTrunc(n, d) * d <= 0 /\ DivTrunc(n, d) * d >= n
<1> DEFINE k == Abs(d)
           a == Abs(n)
           z == a \div k
<1>1. k \in Nat \ {0} /\ a \in Nat /\ a = -n
  BY DEF Abs
<1> HIDE DEF k, a
<1>2. z \in Nat /\ k * z <= a
  BY <1>1
<1>3. DivTrunc(n, d) = Sign(n) * Sign(d) * z
  BY DEF DivTrunc, k, a
<1> HIDE DEF z
<1>4. DivTrunc(n, d) * d = Sign(n) * (k * z)
  <2>1. CASE d > 0
    <3>1. Sign(d) = 1 /\ k = d /\ Sign(n) \in Int
      BY <2>1 DEF Sign, Abs, k
    <3> QED BY <1>1, <1>2, <1>3, <3>1
  <2>2. CASE d < 0
    <3> DEFINE e == Sign(n)
    <3>1. Sign(d) = -1 /\ k = -d /\ e \in Int
      BY <2>2 DEF Sign, Abs, k
    <3>2. DivTrunc(n, d) = e * (-1) * z
      BY <1>3, <3>1
    <3> HIDE DEF e
    <3>3. (e * (-1) * z) * d = e * ((-d) * z)
      BY <1>2, <3>1
    <3> QED BY <3>1, <3>2, <3>3 DEF e
  <2> QED BY <2>1, <2>2
<1> DEFINE w == k * z
<1>5. w \in Nat /\ w <= a
  BY <1>1, <1>2
<1> HIDE DEF w
<1>6. CASE n = 0
  BY <1>4, <1>5, <1>6 DEF Sign, w
<1>7. CASE n < 0
  <2>1. Sign(n) = -1
    BY <1>7 DEF Sign
  <2> QED BY <1>1, <1>4, <1>5, <2>1 DEF w
<1> QED BY <1>6, <1>7

(* What the receivers get is at most what the payers pay and limit.        *)
LEMMA CappedRatePays ==
  ASSUME NEW m \in PerpMarket, NEW rate \in Int, NEW limit \in Nat
  PROVE  LET payers    == IF rate > 0 THEN m.long ELSE m.short
             receivers == IF rate > 0 THEN m.short ELSE m.long
             most      == limit * Precision
         IN rate * payers >= 0
              => CappedRate(m, rate, limit) * receivers >= -most - rate * payers
<1> DEFINE payers    == IF rate > 0 THEN m.long ELSE m.short
           receivers == IF rate > 0 THEN m.short ELSE m.long
           most      == limit * Precision
           pay       == rate * payers
           kept      == InQuote(pay)
           available == -limit - Abs(kept)
           whole     == IF available < 0 THEN available + 1 ELSE available
           n         == whole * Precision
           back      == kept * Precision
<1>1. payers \in Int /\ receivers \in Int
  BY MarketTypes
<1>2. CappedRate(m, rate, limit)
        = IF receivers = 0 THEN 0 ELSE DivTrunc(n, receivers)
  BY DEF CappedRate
<1> HIDE DEF payers, receivers
<1>3. SUFFICES ASSUME pay >= 0
      PROVE  CappedRate(m, rate, limit) * receivers >= -most - pay
  BY DEF payers, receivers
<1>4. pay \in Int /\ most \in Nat
  BY <1>1, PrecisionType
<1> HIDE DEF pay
<1>5. kept \in Int /\ kept >= 0 /\ back \in Int /\ back <= pay
  BY <1>3, <1>4, NearQuote
<1>6. Precision \in Nat \ {0}
  BY PrecisionType
<1> HIDE DEF kept
<1>7. available = -limit - kept /\ whole \in Int /\ whole <= 0 /\ whole >= available
  BY <1>5 DEF Abs
<1>8. n \in Int /\ n <= 0 /\ n >= -most - back
  <2>1. whole = -limit - kept \/ whole = -limit - kept + 1
    BY <1>7
  <2> HIDE DEF whole
  <2>2. (-limit - kept) * Precision = -most - back
    BY <1>5, <1>6
  <2>3. (-limit - kept + 1) * Precision = -most - back + Precision
    BY <1>5, <1>6
  <2>4. n = -most - back \/ n = -most - back + Precision
    BY <2>1, <2>2, <2>3
  <2>5. (-whole) * Precision >= 0 /\ (-whole) * Precision = -n /\ n \in Int
    <3>1. -whole \in Nat /\ whole \in Int
      BY <1>7
    <3>2. \A i, j \in Nat : i * j >= 0
      OBVIOUS
    <3> QED BY <1>6, <3>1, <3>2
  <2> HIDE DEF n, most, back
  <2> QED BY <1>4, <1>5, <1>6, <2>4, <2>5
<1> HIDE DEF n, most, back
<1>9. CASE receivers = 0
  BY <1>2, <1>3, <1>4, <1>9
<1>10. CASE receivers # 0
  <2>1. DivTrunc(n, receivers) * receivers >= n
    BY <1>1, <1>8, <1>10, DivTruncPaysOut
  <2>2. DivTrunc(n, receivers) * receivers \in Int
    BY <1>1, <1>8, <1>10, DivTruncType
  <2> DEFINE given == DivTrunc(n, receivers) * receivers
  <2>3. CappedRate(m, rate, limit) * receivers = given
    BY <1>2, <1>10
  <2> HIDE DEF given
  <2> QED BY <1>4, <1>5, <1>8, <2>1, <2>2, <2>3 DEF given
<1> QED BY <1>9, <1>10

(* What a funding update does to the rates and to what is booked.          *)
LEMMA FundingUpdateRates ==
  ASSUME NEW m \in PerpMarket, NEW rate \in Int, NEW limit \in Nat
  PROVE  LET owed   == InQuote(rate * m.withAmm)
             capped == IF owed < -limit THEN CappedRate(m, rate, limit) ELSE rate
             x      == IF owed < 0 /\ rate < 0 THEN capped ELSE rate
             y      == IF owed < 0 /\ rate > 0 THEN capped ELSE rate
         IN /\ x \in Int /\ y \in Int
            /\ FundingUpdate(m, rate, limit)
                 = [m EXCEPT !.longRate = m.longRate + x,
                             !.shortRate = m.shortRate + y,
                             !.unsettledFunding = m.unsettledFunding - owed,
                             !.fractions = m.fractions
                                             + RoundedUp(rate * m.withAmm)]
<1>1. CappedRate(m, rate, limit) \in Int
  BY CappedRateType
<1> QED BY <1>1 DEF FundingUpdate

(* A book whose rates and booked funding are changed is still sound.       *)
AtRates(m, x, y, z, f) ==
  [m EXCEPT !.longRate = x, !.shortRate = y, !.unsettledFunding = z,
            !.fractions = f]

LEMMA NewRates ==
  ASSUME NEW b, SoundBook(b), NEW x \in Int, NEW y \in Int, NEW z \in Int,
         NEW f \in Nat
  PROVE  LET w == AtRates(b.m, x, y, z, f)
         IN /\ w \in PerpMarket /\ SoundBook([m |-> w, p |-> b.p])
            /\ Offset([m |-> w, p |-> b.p]) = Offset(b)
            /\ w.longRate = x /\ w.shortRate = y
            /\ w.unsettledFunding = z /\ w.fractions = f
<1> DEFINE bm == b.m
           m == [bm EXCEPT !.longRate = x, !.shortRate = y,
                           !.unsettledFunding = z, !.fractions = f]
           c == [m |-> m, p |-> b.p]
<1>1. bm \in PerpMarket /\ b.p \in [Users -> PerpPosition]
  BY DEF SoundBook, TypedBook
<1> HIDE DEF bm
<1>2. /\ m \in PerpMarket /\ m.quote = bm.quote /\ m.users = bm.users
      /\ m.long = bm.long /\ m.short = bm.short /\ m.withAmm = bm.withAmm
      /\ m.longEntry = bm.longEntry /\ m.shortEntry = bm.shortEntry
      /\ m.usersWithBase = bm.usersWithBase
      /\ m.longRate = x /\ m.shortRate = y
      /\ m.unsettledFunding = z /\ m.fractions = f
  BY <1>1 DEF PerpMarket
<1> HIDE DEF m
<1>3. SoundBook(c) /\ Offset(c) = Offset(b)
  BY <1>1, <1>2 DEF SoundBook, TypedBook, Matched, Offset, bm
<1> QED BY <1>2, <1>3 DEF m, bm, AtRates

LEMMA NotNegative ==
  ASSUME NEW x \in Int, NEW y \in Int,
         (x >= 0 /\ y >= 0) \/ (x <= 0 /\ y <= 0)
  PROVE  x * y >= 0
<1>1. \A i, j \in Nat : i * j >= 0
  OBVIOUS
<1>2. CASE x >= 0 /\ y >= 0
  BY <1>1, <1>2
<1>3. CASE x <= 0 /\ y <= 0
  <2>1. (-x) * (-y) >= 0
    BY <1>1, <1>3
  <2> QED BY <2>1
<1> QED BY <1>2, <1>3

(* A funding update gives the users less than limit and a quote unit, and  *)
(* books as unsettled at least what it gives them, counting the fraction   *)
(* that it drops.                                                          *)
LEMMA FundingUpdateKeeps ==
  ASSUME NEW b, SoundBook(b), Offset(b) = 0,
         NEW rate \in Int, NEW limit \in Nat
  PROVE  LET w == FundingUpdate(b.m, rate, limit)
             c == [m |-> w, p |-> b.p]
             gains == TotalOf(Exact(w), b.p) - TotalOf(Exact(b.m), b.p)
         IN /\ SoundBook(c) /\ Offset(c) = 0
            /\ Cover(b) >= 0 => Cover(c) >= 0
            /\ SameRates(b.m, w) => Surplus(c) = Surplus(b)
            /\ gains < (limit + 1) * Precision
<1> DEFINE m      == b.m
           due    == rate * m.withAmm
           owed   == InQuote(due)
           up     == RoundedUp(due)
           capped == IF owed < -limit THEN CappedRate(m, rate, limit) ELSE rate
           x      == IF owed < 0 /\ rate < 0 THEN capped ELSE rate
           y      == IF owed < 0 /\ rate > 0 THEN capped ELSE rate
           lr     == m.longRate + x
           sr     == m.shortRate + y
           un     == m.unsettledFunding - owed
           fr     == m.fractions + up
           w      == FundingUpdate(m, rate, limit)
           c      == [m |-> w, p |-> b.p]
           L      == m.long
           S      == m.short
           T      == TotalOf(Exact(m), b.p)
           gain   == (-x) * L + (-y) * S
           most   == limit * Precision
           back   == owed * Precision
           extra  == up * Precision
<1>1. m \in PerpMarket /\ b.p \in [Users -> PerpPosition]
  BY DEF SoundBook, TypedBook
<1>2. /\ L \in Nat /\ S \in Int /\ S <= 0
      /\ L = TotalOf(Long, b.p) /\ S = TotalOf(Short, b.p)
  <2>1. L = TotalOf(Long, b.p) /\ S = TotalOf(Short, b.p) /\ S \in Int
    BY <1>1, MarketTypes DEF SoundBook, Matched
  <2> QED BY <1>1, <2>1, Sides
<1>3. m.withAmm = L + S
  BY <1>1, MarketTypes DEF Offset
<1>4. due \in Int
  BY <1>1, MarketTypes
<1>5. /\ owed \in Int /\ up \in {0, 1} /\ back \in Int
      /\ Precision \in Nat \ {0} /\ back - due < Precision
      /\ due - back < Precision /\ back - extra <= due
      /\ due >= 0 => owed >= 0
  <2> HIDE DEF due
  <2> QED BY <1>4, NearQuote, PrecisionType
<1>6. capped \in Int
  BY <1>1, CappedRateType
<1>7. /\ lr \in Int /\ sr \in Int /\ un \in Int /\ fr \in Nat
      /\ x \in Int /\ y \in Int
      /\ m.longRate \in Int /\ m.shortRate \in Int
      /\ m.unsettledFunding \in Int /\ m.fractions \in Nat
  BY <1>1, <1>5, <1>6, MarketTypes
<1>8. w = AtRates(m, lr, sr, un, fr)
  BY <1>1, FundingUpdateRates DEF AtRates
<1>9. (rate * (IF rate > 0 THEN L ELSE S) >= 0)
        => CappedRate(m, rate, limit) * (IF rate > 0 THEN S ELSE L)
             >= -most - rate * (IF rate > 0 THEN L ELSE S)
  BY <1>1, CappedRatePays
<1> HIDE DEF w, lr, sr, un, fr
<1>10. /\ w \in PerpMarket /\ SoundBook(c) /\ Offset(c) = 0
       /\ w.longRate = lr /\ w.shortRate = sr
       /\ w.unsettledFunding = un /\ w.fractions = fr
  <2> DEFINE moved == AtRates(b.m, lr, sr, un, fr)
  <2>1. w = moved
    BY <1>8
  <2>2. /\ moved \in PerpMarket /\ SoundBook([m |-> moved, p |-> b.p])
        /\ Offset([m |-> moved, p |-> b.p]) = Offset(b)
        /\ moved.longRate = lr /\ moved.shortRate = sr
        /\ moved.unsettledFunding = un /\ moved.fractions = fr
    BY <1>7, NewRates
  <2> HIDE DEF moved, w
  <2> QED BY <2>1, <2>2
<1>11. TotalOf(Exact(w), b.p) = T + gain
  <2>1. w.longRate = m.longRate + x /\ w.shortRate = m.shortRate + y
    BY <1>10 DEF lr, sr
  <2> HIDE DEF x, y
  <2> QED BY <1>1, <1>2, <1>7, <1>10, <2>1, RatesMove
<1>12. T \in Int
  BY <1>1, PaymentType, TotalIsInt
<1> HIDE DEF T
<1>13. most \in Nat /\ (limit + 1) * Precision = most + Precision
  BY <1>5
<1>14. Booked(w) = Booked(m) - back + extra /\ Booked(m) \in Int /\ extra \in Nat
  <2> DEFINE k == m.unsettledFunding + m.fractions
  <2>1. k \in Int /\ un + fr = k - owed + up
    BY <1>5, <1>7 DEF un, fr
  <2> HIDE DEF k, owed, up
  <2>2. (k - owed + up) * Precision = k * Precision - back + extra
    BY <1>5, <2>1
  <2>3. Booked(w) = (un + fr) * Precision /\ Booked(m) = k * Precision
    BY <1>10 DEF Booked, k
  <2> QED BY <1>5, <2>1, <2>2, <2>3
<1>15. Cover(c) = (Booked(m) - back + extra) - (T + gain) /\ Cover(b) = Booked(m) - T
  <2> HIDE DEF w, gain, back, extra
  <2> QED BY <1>11, <1>14 DEF Cover, T
<1> HIDE DEF L, S, owed, capped, up
<1>16. gain \in Int
  BY <1>2, <1>7
<1>17. SameRates(b.m, w) => rate = 0
  <2>1. SUFFICES ASSUME SameRates(b.m, w) PROVE rate = 0
    OBVIOUS
  <2>2. x = rate \/ y = rate
    OBVIOUS
  <2> HIDE DEF x, y
  <2>3. m.longRate + x = m.longRate /\ m.shortRate + y = m.shortRate
    BY <1>10, <2>1 DEF SameRates, lr, sr
  <2> QED BY <1>7, <2>2, <2>3
<1>18. SameRates(b.m, w) => Surplus(c) = Surplus(b)
  <2>1. SUFFICES ASSUME SameRates(b.m, w) PROVE Surplus(c) = Surplus(b)
    OBVIOUS
  <2>2. m.withAmm \in Int
    BY <1>1, MarketTypes
  <2>3. due = 0
    BY <1>17, <2>1, <2>2
  <2>4. owed = 0
    <3>1. InQuote(0) <= 0 /\ InQuote(0) >= 0 /\ InQuote(0) \in Int
      BY NearQuote
    <3> QED BY <2>3, <3>1 DEF owed
  <2>5. w.unsettledFunding = m.unsettledFunding
    BY <1>7, <1>10, <2>4 DEF un
  <2>6. Payment(w) = Payment(m)
    BY <1>1, <1>10, <2>1, SameRatesSamePayments
  <2> QED BY <2>5, <2>6 DEF Surplus
<1>19. (owed >= -limit /\ gain = -due) \/ (owed < -limit /\ gain <= most)
  <2>1. CASE owed >= -limit
    <3>1. x = rate /\ y = rate
      BY <1>5, <2>1 DEF capped
    <3>2. due = rate * (L + S)
      BY <1>3
    <3> HIDE DEF x, y, due
    <3>3. gain = -due
      BY <1>2, <3>1, <3>2
    <3> QED BY <2>1, <3>3
  <2>2. CASE owed < -limit
    <3>1. owed < 0 /\ rate # 0
      <4>1. m.withAmm \in Int
        BY <1>2, <1>3
      <4>2. rate = 0 => due = 0
        BY <4>1
      <4> HIDE DEF due
      <4> QED BY <1>4, <1>5, <2>2, <4>2
    <3> SUFFICES gain <= most
      BY <2>2
    <3>2. CASE rate > 0
      <4> DEFINE cr == CappedRate(m, rate, limit)
                 paid == rate * L
                 got == cr * S
      <4>1. x = rate /\ y = cr
        BY <2>2, <3>1, <3>2 DEF capped
      <4>2. paid \in Int /\ paid >= 0
        BY <1>2, <3>2, NotNegative
      <4>3. got >= -most - paid
        BY <1>9, <3>2, <4>2
      <4>4. cr \in Int
        BY <1>1, CappedRateType
      <4> HIDE DEF cr, x, y
      <4>5. gain = -paid - got /\ got \in Int
        BY <1>2, <4>1, <4>4
      <4> HIDE DEF paid, got, gain, most
      <4> QED BY <1>13, <1>16, <4>2, <4>3, <4>5
    <3>3. CASE rate < 0
      <4> DEFINE cr == CappedRate(m, rate, limit)
                 paid == rate * S
                 got == cr * L
      <4>1. y = rate /\ x = cr
        BY <2>2, <3>1, <3>3 DEF capped
      <4>2. paid \in Int /\ paid >= 0
        BY <1>2, <3>3, NotNegative
      <4>3. got >= -most - paid
        BY <1>9, <3>3, <4>2
      <4>4. cr \in Int
        BY <1>1, CappedRateType
      <4> HIDE DEF cr, x, y
      <4>5. gain = -paid - got /\ got \in Int
        BY <1>2, <4>1, <4>4
      <4> HIDE DEF paid, got, gain, most
      <4> QED BY <1>13, <1>16, <4>2, <4>3, <4>5
    <3> QED BY <3>1, <3>2, <3>3
  <2> QED BY <1>5, <2>1, <2>2
<1>20. owed >= -limit => back >= -most
  <2>1. ASSUME owed >= -limit PROVE back >= -most
    <3>1. \A i, j \in Nat : i * j >= 0
      OBVIOUS
    <3>2. owed + limit \in Nat
      BY <1>5, <2>1
    <3>3. (owed + limit) * Precision >= 0
      BY <1>5, <3>1, <3>2
    <3>4. (owed + limit) * Precision = back + most
      BY <1>5
    <3> HIDE DEF back, most
    <3> QED BY <1>5, <1>13, <3>3, <3>4
  <2> QED BY <2>1
<1>21. owed < -limit => back <= -most
  <2>1. ASSUME owed < -limit PROVE back <= -most
    <3>1. \A i, j \in Nat : i * j >= 0
      OBVIOUS
    <3>2. -owed - limit \in Nat
      BY <1>5, <2>1
    <3>3. (-owed - limit) * Precision >= 0
      BY <1>5, <3>1, <3>2
    <3>4. (-owed - limit) * Precision = -back - most
      BY <1>5
    <3> HIDE DEF back, most
    <3> QED BY <1>5, <1>13, <3>3, <3>4
  <2> QED BY <2>1
<1> HIDE DEF gain, most, back, extra, due, x, y, c
<1>22. gain < most + Precision
  BY <1>4, <1>5, <1>13, <1>16, <1>19, <1>20
<1>23. gain <= extra - back
  BY <1>4, <1>5, <1>13, <1>14, <1>16, <1>19, <1>21
<1>24. Cover(b) >= 0 => Cover(c) >= 0
  BY <1>5, <1>12, <1>14, <1>15, <1>16, <1>23
<1>25. TotalOf(Exact(w), b.p) - T < (limit + 1) * Precision
  BY <1>5, <1>11, <1>12, <1>13, <1>16, <1>22
<1> QED BY <1>10, <1>18, <1>24, <1>25 DEF c, w, T

LEMMA DivCeilCovers ==
  ASSUME NEW n \in Nat, NEW d \in Nat \ {0}
  PROVE  /\ DivCeil(n, d) \in Nat /\ DivCeil(n, d) * d >= n
         /\ n > 0 => DivCeil(n, d) > 0
<1> DEFINE z == (n + d - 1) \div d
           r == (n + d - 1) % d
<1>1. n + d - 1 \in Nat /\ DivCeil(n, d) = z
  BY DEF DivCeil
<1>2. n + d - 1 = d * z + r /\ z \in Nat /\ r \in 0 .. d - 1
  BY <1>1
<1>3. d * z >= n
  BY <1>2
<1>4. n > 0 => z > 0
  BY <1>3, <1>2
<1> QED BY <1>1, <1>2, <1>3, <1>4

(* A socialised loss takes at least its amount from what the positions     *)
(* have coming.                                                            *)
LEMMA SocialLossKeeps ==
  ASSUME NEW b, SoundBook(b), NEW loss \in Nat, loss > 0,
         b.m.long # 0 \/ b.m.short # 0
  PROVE  LET delta == SocialLossRate(b.m, loss)
             m == [b.m EXCEPT !.longRate = b.m.longRate + delta,
                              !.shortRate = b.m.shortRate - delta]
             c == [m |-> m, p |-> b.p]
         IN /\ SoundBook(c) /\ Offset(c) = Offset(b) /\ ~SameRates(b.m, m)
            /\ TotalOf(Exact(b.m), b.p) - TotalOf(Exact(m), b.p)
                 >= loss * Precision
            /\ Cover(b) >= 0 => Cover(c) >= 0
<1> DEFINE bm    == b.m
           delta == SocialLossRate(bm, loss)
           lr    == bm.longRate + delta
           sr    == bm.shortRate - delta
           un    == bm.unsettledFunding
           fr    == bm.fractions
           m     == [bm EXCEPT !.longRate = lr, !.shortRate = sr]
           n     == [bm EXCEPT !.longRate = lr, !.shortRate = sr,
                               !.unsettledFunding = un, !.fractions = fr]
           c     == [m |-> m, p |-> b.p]
           L     == bm.long
           S     == bm.short
           T     == TotalOf(Exact(bm), b.p)
           whole == loss * Precision
<1>1. bm \in PerpMarket /\ b.p \in [Users -> PerpPosition]
  BY DEF SoundBook, TypedBook
<1>2. /\ L \in Nat /\ S \in Int /\ S <= 0
      /\ L = TotalOf(Long, b.p) /\ S = TotalOf(Short, b.p)
  <2>1. L = TotalOf(Long, b.p) /\ S = TotalOf(Short, b.p) /\ S \in Int
    BY <1>1, MarketTypes DEF SoundBook, Matched
  <2> QED BY <1>1, <2>1, Sides
<1> DEFINE k == L - S
<1>3. Abs(L) + Abs(S) = k /\ k \in Nat \ {0}
  BY <1>2 DEF Abs
<1>4. delta \in Nat /\ delta * k >= whole /\ delta > 0 /\ whole \in Nat
  <2> DEFINE part == loss * BasePrecision
             per  == DivCeil(part, k)
  <2>1. BasePrecision \in Nat \ {0} /\ RatePrecision \in Nat \ {0}
    BY LedgerAssumption
  <2>2. \A i, j \in Nat \ {0} : i * j \in Nat \ {0}
    OBVIOUS
  <2>3. part \in Nat \ {0}
    BY <2>1, <2>2
  <2>4. delta = per * RatePrecision
    BY <1>3 DEF SocialLossRate
  <2> HIDE DEF part, k
  <2>5. per \in Nat \ {0} /\ per * k >= part
    BY <1>3, <2>3, DivCeilCovers
  <2> HIDE DEF per
  <2>6. delta \in Nat \ {0}
    BY <2>1, <2>2, <2>4, <2>5
  <2>7. delta * k = (per * k) * RatePrecision
    BY <1>3, <2>1, <2>4, <2>5
  <2>8. whole = part * RatePrecision
    BY <2>1 DEF part, Precision
  <2>9. \A i, j, r \in Nat : i >= j => i * r >= j * r
    OBVIOUS
  <2>10. per * k \in Nat
    BY <1>3, <2>5
  <2>11. delta * k >= part * RatePrecision /\ part * RatePrecision \in Nat
    BY <2>1, <2>3, <2>5, <2>7, <2>9, <2>10
  <2> QED BY <2>6, <2>8, <2>11
<1> HIDE DEF delta
<1>5. /\ lr \in Int /\ sr \in Int /\ un \in Int /\ fr \in Nat
      /\ bm.longRate \in Int /\ bm.shortRate \in Int
  BY <1>1, <1>4, MarketTypes
<1>6. m = n
  BY <1>1 DEF PerpMarket
<1>7. /\ m \in PerpMarket /\ SoundBook(c) /\ Offset(c) = Offset(b)
      /\ m.longRate = lr /\ m.shortRate = sr
      /\ m.unsettledFunding = un /\ m.fractions = fr
  <2> HIDE DEF lr, sr, un, fr
  <2> DEFINE moved == AtRates(b.m, lr, sr, un, fr)
  <2>1. m = moved
    BY <1>6 DEF AtRates
  <2>2. /\ moved \in PerpMarket /\ SoundBook([m |-> moved, p |-> b.p])
        /\ Offset([m |-> moved, p |-> b.p]) = Offset(b)
        /\ moved.longRate = lr /\ moved.shortRate = sr
        /\ moved.unsettledFunding = un /\ moved.fractions = fr
    BY <1>5, NewRates
  <2> HIDE DEF moved, m
  <2> QED BY <2>1, <2>2
<1> HIDE DEF m, c
<1>8. TotalOf(Exact(m), b.p) = T + ((-delta) * L + (-(-delta)) * S)
  <2>1. lr = bm.longRate + delta /\ sr = bm.shortRate + (-delta)
    BY <1>4, <1>5
  <2> HIDE DEF lr, sr
  <2>2. delta \in Int /\ -delta \in Int
    BY <1>4
  <2> QED BY <1>1, <1>2, <1>7, <2>1, <2>2, RatesMove
<1>9. T \in Int
  BY <1>1, PaymentType, TotalIsInt
<1> HIDE DEF T, L, S
<1>10. TotalOf(Exact(m), b.p) = T - delta * k
  <2>1. \A d, l, r \in Int : (-d) * l + (-(-d)) * r = -(d * (l - r))
    OBVIOUS
  <2>2. (-delta) * L + (-(-delta)) * S = -(delta * k)
    BY <1>2, <1>4, <2>1
  <2>3. delta * k \in Int
    BY <1>3, <1>4
  <2> QED BY <1>8, <1>9, <2>2, <2>3
<1> DEFINE t == delta * k
<1>11. t \in Int /\ t >= whole
  BY <1>3, <1>4
<1> HIDE DEF t, k, whole
<1>12. T - TotalOf(Exact(m), b.p) >= whole
  BY <1>4, <1>9, <1>10, <1>11 DEF t
<1>13. Cover(c) = Booked(bm) - TotalOf(Exact(m), b.p) /\ Cover(b) = Booked(bm) - T
  BY <1>7 DEF Cover, Booked, c, T
<1>14. Booked(bm) \in Int
  BY <1>1, MarketTypes
<1>15. Cover(b) >= 0 => Cover(c) >= 0
  BY <1>4, <1>9, <1>10, <1>11, <1>13, <1>14 DEF t
<1>16. ~SameRates(bm, m)
  BY <1>4, <1>5, <1>7 DEF SameRates
<1> QED BY <1>7, <1>12, <1>15, <1>16 DEF c, m, T, delta, whole

(* What positions are paid differs from what they have coming by less than *)
(* a quote unit for each position with base.                               *)
LEMMA PaymentsNearClaims ==
  ASSUME NEW m \in PerpMarket, NEW pos \in [Users -> PerpPosition]
  PROVE  LET paid  == TotalOf(Payment(m), pos) * Precision
             due   == TotalOf(Exact(m), pos)
             slack == (Precision - 1) * TotalOf(OneWithBase, pos)
         IN /\ paid <= due + slack /\ due <= paid + slack
            /\ paid \in Int /\ due \in Int /\ slack \in Int
<1> DEFINE P == Precision
           one == P - 1
           A == [u \in Users |-> Exact(m)[pos[u]]]
           Y == [u \in Users |-> Payment(m)[pos[u]]]
           O == [u \in Users |-> OneWithBase[pos[u]]]
           Up == [u \in Users |-> A[u] + one * O[u]]
           Down == [u \in Users |-> A[u] + (-one) * O[u]]
           Over == [u \in Users |-> Up[u] + (-P) * Y[u]]
           Under == [u \in Users |-> Down[u] + (-P) * Y[u]]
           Zero == [u \in Users |-> 0]
           Short0 == [u \in Users |-> -Under[u]]
<1>1. P \in Nat \ {0} /\ one \in Nat
  BY PrecisionType
<1>2. ASSUME NEW p \in PerpPosition
      PROVE  LET a == Exact(m)[p]
                 k == Payment(m)[p] * P
                 o == one * OneWithBase[p]
             IN k <= a + o /\ a <= k + o /\ a \in Int /\ k \in Int /\ o \in Int
  <2> DEFINE a == Claim(m, p)
             k == InQuote(a) * P
  <2>1. a \in Int /\ Exact(m)[p] = a /\ Payment(m)[p] = InQuote(a)
    BY PaymentType DEF Exact, Payment, FundingPayment
  <2>2. OneWithBase[p] = IF p.base = 0 THEN 0 ELSE 1
    BY DEF OneWithBase
  <2> HIDE DEF a
  <2>3. /\ InQuote(a) \in Int /\ k \in Int /\ k - a < P /\ a - k < P
        /\ a >= 0 => k <= a
        /\ a <= 0 => k >= a
    BY <2>1, NearQuote
  <2>4. CASE p.base = 0
    <3>1. a = 0
      BY <2>4 DEF a, Claim
    <3> QED BY <1>1, <2>1, <2>2, <2>3, <2>4, <3>1
  <2>5. CASE p.base # 0
    BY <1>1, <2>1, <2>2, <2>3, <2>5
  <2> QED BY <2>4, <2>5
<1>3. \A u \in Users : A[u] \in Int /\ Y[u] \in Int /\ O[u] \in Nat
  BY PaymentType, PartsAreInts
<1>4. \A u \in Users : /\ Y[u] * P <= A[u] + one * O[u]
                       /\ A[u] <= Y[u] * P + one * O[u]
  BY <1>2
<1>5. /\ TotalOf(Exact(m), pos) = SumFunctionOnSet(A, Users)
      /\ TotalOf(Payment(m), pos) = SumFunctionOnSet(Y, Users)
      /\ TotalOf(OneWithBase, pos) = SumFunctionOnSet(O, Users)
  BY DEF TotalOf, Total
<1> HIDE DEF A, Y, O, one, P
<1>6. \A u \in Users : /\ Up[u] \in Int /\ Down[u] \in Int
                       /\ Up[u] = A[u] + one * O[u]
                       /\ Down[u] = A[u] + (-one) * O[u]
  BY <1>1, <1>3
<1>7. \A u \in Users : /\ Over[u] = Up[u] + (-P) * Y[u]
                       /\ Under[u] = Down[u] + (-P) * Y[u]
                       /\ Over[u] \in Nat /\ Short0[u] \in Nat
                       /\ Under[u] \in Int /\ Zero[u] = 0 /\ Zero[u] \in Int
                       /\ Short0[u] = Zero[u] + (-1) * Under[u]
  <2> TAKE u \in Users
  <2> DEFINE i == A[u]
             j == Y[u]
             o == one * O[u]
             k == j * P
  <2>1. /\ i \in Int /\ j \in Int /\ o \in Int /\ k \in Int
        /\ k <= i + o /\ i <= k + o
    BY <1>1, <1>3, <1>4
  <2>2. (-P) * j = -k /\ (-one) * O[u] = -o
    BY <1>1, <1>3
  <2>3. /\ Over[u] = (i + o) + (-k) /\ Under[u] = (i + (-o)) + (-k)
        /\ Short0[u] = -Under[u] /\ Zero[u] = 0
    BY <2>2
  <2>4. Over[u] = Up[u] + (-P) * Y[u] /\ Under[u] = Down[u] + (-P) * Y[u]
    OBVIOUS
  <2> HIDE DEF i, j, o, k, Over, Under, Short0, Zero, Up, Down
  <2> QED BY <2>1, <2>3, <2>4
<1> HIDE DEF Up, Down, Over, Under, Short0, Zero
<1> DEFINE a == SumFunctionOnSet(A, Users)
           y == SumFunctionOnSet(Y, Users)
           o == SumFunctionOnSet(O, Users)
           z == SumFunctionOnSet(Under, Users)
<1>8. a \in Int /\ y \in Int /\ o \in Nat /\ z \in Int
  BY <1>3, <1>7, SumIsInt, SumIsNat, LedgerAssumption
<1>9. SumFunctionOnSet(Over, Users) = (a + one * o) + (-P) * y
  <2>1. SumFunctionOnSet(Up, Users) = a + one * o
    BY <1>1, <1>3, <1>6, SumLinear, LedgerAssumption
  <2>2. SumFunctionOnSet(Over, Users) = SumFunctionOnSet(Up, Users) + (-P) * y
    BY <1>1, <1>3, <1>6, <1>7, SumLinear, LedgerAssumption
  <2> QED BY <2>1, <2>2
<1>10. z = (a + (-one) * o) + (-P) * y
  <2>1. SumFunctionOnSet(Down, Users) = a + (-one) * o
    BY <1>1, <1>3, <1>6, SumLinear, LedgerAssumption
  <2>2. z = SumFunctionOnSet(Down, Users) + (-P) * y
    BY <1>1, <1>3, <1>6, <1>7, SumLinear, LedgerAssumption
  <2> QED BY <2>1, <2>2
<1>11. SumFunctionOnSet(Over, Users) >= 0 /\ -z >= 0
  <2>1. SumFunctionOnSet(Over, Users) \in Nat /\ SumFunctionOnSet(Short0, Users) \in Nat
    BY <1>7, SumIsNat, LedgerAssumption
  <2>2. SumFunctionOnSet(Zero, Users) = 0
    BY <1>7, SumZero, LedgerAssumption
  <2>3. SumFunctionOnSet(Short0, Users) = SumFunctionOnSet(Zero, Users) + (-1) * z
    BY <1>7, SumLinear, LedgerAssumption
  <2> QED BY <1>8, <2>1, <2>2, <2>3
<1> DEFINE paid == y * P
           slack == one * o
<1>12. /\ (-P) * y = -paid /\ (-one) * o = -slack
       /\ paid \in Int /\ slack \in Int
  BY <1>1, <1>8
<1> HIDE DEF a, y, o, z, paid, slack
<1>13. paid <= a + slack /\ a <= paid + slack
  BY <1>8, <1>9, <1>10, <1>11, <1>12 DEF slack
<1> QED BY <1>5, <1>8, <1>12, <1>13 DEF a, y, o, paid, slack, P, one

(* A market with base on either side has a position with base.             *)
LEMMA SomeBase ==
  ASSUME NEW m, NEW pos \in [Users -> PerpPosition], Matched(m, pos),
         m.long # 0 \/ m.short # 0
  PROVE  m.usersWithBase >= 1
<1>1. SUFFICES ASSUME ~\E u \in Users : pos[u].base # 0 PROVE FALSE
  BY Counted
<1> DEFINE L == [u \in Users |-> Long[pos[u]]]
           S == [u \in Users |-> Short[pos[u]]]
<1>2. \A u \in Users : L[u] = 0 /\ S[u] = 0
  BY <1>1 DEF Long, Short
<1>3. m.long = SumFunctionOnSet(L, Users) /\ m.short = SumFunctionOnSet(S, Users)
  BY DEF Matched, TotalOf, Total
<1> HIDE DEF L, S
<1> QED BY <1>2, <1>3, SumZero, LedgerAssumption
-----------------------------------------------------------------------------
(* The invariant. *)

IInv == SoundBook(Book) /\ Offset(Book) = 0 /\ Cover(Book) >= 0

LEMMA CountIsTotal ==
  ASSUME NEW f \in [PerpPosition -> Nat], NEW pos \in [Users -> PerpPosition],
         NEW R \in SUBSET Users,
         \A u \in Users : f[pos[u]] = IF u \in R THEN 1 ELSE 0
  PROVE  Cardinality(R) = TotalOf(f, pos)
<1>1. [u \in Users |-> f[pos[u]]] = [u \in Users |-> IF u \in R THEN 1 ELSE 0]
  OBVIOUS
<1> QED BY <1>1, SumOnes, LedgerAssumption DEF TotalOf, Total

(* What the properties count and add up is what Matched, Surplus and Cover *)
(* do.                                                                     *)
LEMMA TotalsAreProperties ==
  ASSUME TypeOK
  PROVE  /\ Matched(market, position)
              <=> MarketMatchesPositions /\ CountsMatchPositions
         /\ Pending = TotalOf(Payment(market), position)
         /\ Claims = TotalOf(Exact(market), position)
<1>1. position \in [Users -> PerpPosition]
  BY DEF TypeOK
<1> DEFINE R == {u \in Users : ~Empty(position[u])}
           B == {u \in Users : position[u].base # 0}
<1>2. Cardinality(R) = TotalOf(One, position)
  <2>1. \A u \in Users : One[position[u]] = IF u \in R THEN 1 ELSE 0
    BY <1>1 DEF One
  <2>2. R \in SUBSET Users
    OBVIOUS
  <2> HIDE DEF R
  <2> QED BY <1>1, <2>1, <2>2, CountIsTotal, PartsAreInts
<1>3. Cardinality(B) = TotalOf(OneWithBase, position)
  <2>1. \A u \in Users : OneWithBase[position[u]] = IF u \in B THEN 1 ELSE 0
    BY <1>1 DEF OneWithBase
  <2>2. B \in SUBSET Users
    OBVIOUS
  <2> HIDE DEF B
  <2> QED BY <1>1, <2>1, <2>2, CountIsTotal, PartsAreInts
<1>4. CountsMatchPositions
        <=> /\ market.users = TotalOf(One, position)
            /\ market.usersWithBase = TotalOf(OneWithBase, position)
  BY <1>2, <1>3 DEF CountsMatchPositions
<1> DEFINE Base(u) == position[u].base
           Entry(u) == position[u].entry
<1>5. /\ [u \in Users |-> Quote[position[u]]] = [u \in Users |-> position[u].quote]
      /\ [u \in Users |-> Payment(market)[position[u]]]
           = [u \in Users |-> FundingPayment(market, position[u])]
      /\ [u \in Users |-> Exact(market)[position[u]]]
           = [u \in Users |-> Claim(market, position[u])]
  BY <1>1 DEF Quote, Payment, Exact
<1>6. /\ [u \in Users |-> Long[position[u]]]
           = [u \in Users |-> IF Base(u) > 0 THEN Base(u) ELSE 0]
      /\ [u \in Users |-> Short[position[u]]]
           = [u \in Users |-> IF Base(u) < 0 THEN Base(u) ELSE 0]
  BY <1>1 DEF Long, Short
<1>7. /\ [u \in Users |-> LongEntry[position[u]]]
           = [u \in Users |-> IF Base(u) > 0 THEN Entry(u) ELSE 0]
      /\ [u \in Users |-> ShortEntry[position[u]]]
           = [u \in Users |-> IF Base(u) < 0 THEN Entry(u) ELSE 0]
  BY <1>1 DEF LongEntry, ShortEntry
<1>8. MarketMatchesPositions
        <=> /\ market.quote = TotalOf(Quote, position)
            /\ market.long = TotalOf(Long, position)
            /\ market.short = TotalOf(Short, position)
            /\ market.longEntry = TotalOf(LongEntry, position)
            /\ market.shortEntry = TotalOf(ShortEntry, position)
  BY <1>5, <1>6, <1>7 DEF MarketMatchesPositions, TotalOf
<1>9. /\ Pending = TotalOf(Payment(market), position)
      /\ Claims = TotalOf(Exact(market), position)
  BY <1>5 DEF Pending, Claims, TotalOf
<1> QED BY <1>4, <1>8, <1>9 DEF Matched

(* The invariant is the conjunction of the properties that the runs check. *)
LEMMA IInvIsProperties ==
  IInv <=> TypeOK /\ AggregatesMatch /\ UnsettledFundingCovers
<1>1. TypedBook(Book) <=> TypeOK
  BY DEF TypedBook, Book, TypeOK
<1>2. ASSUME TypeOK
      PROVE  IInv <=> AggregatesMatch /\ UnsettledFundingCovers
  <2>1. market \in PerpMarket /\ position \in [Users -> PerpPosition]
    BY <1>2 DEF TypeOK
  <2>2. /\ market.long \in Int /\ market.short \in Int /\ market.withAmm \in Int
    BY <2>1, MarketTypes
  <2>3. Offset(Book) = 0 <=> NetBaseMatches
    <3>1. Offset(Book) = market.long + market.short - market.withAmm
      BY DEF Offset, Book
    <3> QED BY <2>2, <3>1 DEF NetBaseMatches
  <2>4. TotalOf(Exact(market), position) \in Int /\ Booked(market) \in Int
    BY <2>1, PaymentType, TotalIsInt, MarketTypes
  <2>5. Cover(Book) = Booked(market) - Claims
    BY <1>2, TotalsAreProperties DEF Cover, Book
  <2>6. Cover(Book) >= 0 <=> UnsettledFundingCovers
    BY <1>2, <2>4, <2>5, TotalsAreProperties DEF UnsettledFundingCovers, Booked
  <2>7. SoundBook(Book) <=> MarketMatchesPositions /\ CountsMatchPositions
    BY <1>1, <1>2, TotalsAreProperties DEF SoundBook, Book
  <2> QED BY <2>3, <2>6, <2>7 DEF IInv, AggregatesMatch
<1> QED BY <1>1, <1>2 DEF IInv, SoundBook

(* A book on the way from Book, at its rates.                              *)
Good(b) == SoundBook(b) /\ Offset(b) = 0 /\ Carries(Book, b)

(* What every step keeps.                                                  *)
Kept ==
  /\ IInv'
  /\ SameRates(market, market') => Surplus(Book') = Surplus(Book)

LEMMA GoodBook == ASSUME IInv PROVE Good(Book)
BY DEF IInv, Good, Carries, SameRates

LEMMA GoodAddQuote ==
  ASSUME NEW b, Good(b), NEW u \in Users, NEW d \in Int
  PROVE  Good(AddQuote(b, u, d))
<1>1. /\ SoundBook(AddQuote(b, u, d)) /\ Offset(AddQuote(b, u, d)) = 0
      /\ Carries(b, AddQuote(b, u, d))
  BY AddQuoteKeeps DEF Good
<1> QED BY <1>1, CarriesOn DEF Good

LEMMA GoodSettleFunding ==
  ASSUME NEW b, Good(b), NEW u \in Users
  PROVE  /\ Good(SettleFunding(b, u)) /\ Current(SettleFunding(b, u), u)
         /\ \A x \in Users : Current(b, x) => Current(SettleFunding(b, u), x)
<1>1. /\ SoundBook(SettleFunding(b, u)) /\ Offset(SettleFunding(b, u)) = 0
      /\ Carries(b, SettleFunding(b, u)) /\ Current(SettleFunding(b, u), u)
  BY SettleFundingKeeps DEF Good
<1>2. Carries(Book, SettleFunding(b, u))
  BY <1>1, CarriesOn DEF Good
<1> QED BY <1>1, <1>2 DEF Good, Carries

LEMMA GoodSettleBoth ==
  ASSUME IInv, NEW u \in Users, NEW v \in Users
  PROVE  LET b == SettleFunding(SettleFunding(Book, u), v)
         IN Good(b) /\ Current(b, u) /\ Current(b, v)
<1> DEFINE c == SettleFunding(Book, u)
<1>1. Good(c) /\ Current(c, u)
  BY GoodBook, GoodSettleFunding
<1> HIDE DEF c
<1>2. LET b == SettleFunding(c, v)
      IN Good(b) /\ Current(b, u) /\ Current(b, v)
  BY <1>1, GoodSettleFunding
<1> QED BY <1>2 DEF c

LEMMA GoodTrade ==
  ASSUME NEW b, Good(b), NEW u \in Users, Current(b, u),
         NEW base \in Int, NEW quote \in Int
  PROVE  Good(TradeWithAmm(b, u, base, quote))
<1> DEFINE c == TradeWithAmm(b, u, base, quote)
<1>1. SoundBook(c) /\ Offset(c) = 0 /\ Carries(b, c)
  BY TradeWithAmmKeeps DEF Good
<1> HIDE DEF c
<1>2. Good(c)
  BY <1>1, CarriesOn DEF Good
<1> QED BY <1>2 DEF c

(* Two positions that change by opposite amounts leave the offset at 0,    *)
(* whatever quote amounts are booked in between.                           *)
LEMMA GoodExchange ==
  ASSUME NEW b, Good(b), NEW u \in Users, Current(b, u),
         NEW v \in Users, Current(b, v), NEW base \in Int,
         NEW x \in Int, NEW y \in Int, NEW d \in Int, NEW e \in Int
  PROVE  /\ Good(UpdatePosition(UpdatePosition(b, u, -base, x), v, base, y))
         /\ LET c == UpdatePosition(b, u, -base, x)
                q == AddQuote(AddQuote(c, u, d), u, e)
            IN Good(UpdatePosition(q, v, base, y))
<1> DEFINE c == UpdatePosition(b, u, -base, x)
           r == AddQuote(c, u, d)
           q == AddQuote(r, u, e)
<1>1. SoundBook(c) /\ Offset(c) = -base /\ Carries(b, c)
  BY UpdatePositionKeeps DEF Good
<1> HIDE DEF c
<1>2. SoundBook(r) /\ Offset(r) = -base /\ Carries(c, r)
  BY <1>1, AddQuoteKeeps
<1> HIDE DEF r
<1>3. SoundBook(q) /\ Offset(q) = -base /\ Carries(r, q)
  BY <1>2, AddQuoteKeeps
<1> HIDE DEF q
<1>4. Carries(b, q)
  BY <1>1, <1>2, <1>3, CarriesOn
<1>5. ASSUME NEW f, SoundBook(f), Offset(f) = -base, Carries(b, f)
      PROVE  Good(UpdatePosition(f, v, base, y))
  <2> DEFINE g == UpdatePosition(f, v, base, y)
  <2>1. Current(f, v)
    BY <1>5 DEF Carries
  <2>2. SoundBook(g) /\ Offset(g) = 0 /\ Carries(f, g)
    BY <1>5, <2>1, UpdatePositionKeeps
  <2> HIDE DEF g
  <2>3. Carries(Book, g)
    BY <1>5, <2>2, CarriesOn DEF Good
  <2>4. Good(g)
    BY <2>2, <2>3 DEF Good
  <2> QED BY <2>4 DEF g
<1>6. Good(UpdatePosition(c, v, base, y)) /\ Good(UpdatePosition(q, v, base, y))
  BY <1>1, <1>3, <1>4, <1>5
<1> QED BY <1>6 DEF c, q, r

LEMMA BecomesKeeps ==
  ASSUME NEW b, SoundBook(b), Offset(b) = 0, Cover(b) >= 0,
         SameRates(market, b.m) => Surplus(b) = Surplus(Book), Becomes(b)
  PROVE  Kept
<1>1. market' = b.m /\ position' = b.p /\ b = [m |-> b.m, p |-> b.p]
  BY DEF Becomes, SoundBook, TypedBook
<1>2. Book' = b
  BY <1>1 DEF Book
<1>3. IInv'
  BY <1>2 DEF IInv
<1> QED BY <1>1, <1>2, <1>3 DEF Kept

LEMMA CommitKeeps ==
  ASSUME IInv, NEW b, Good(b), Commit(b)
  PROVE  Kept
BY BecomesKeeps DEF IInv, Good, Carries, Commit

LEMMA CommitTradeKeeps ==
  ASSUME IInv, NEW b, Good(b), CommitTrade(b)
  PROVE  Kept
<1>1. CASE Commit(b)
  BY <1>1, CommitKeeps
<1>2. ASSUME NEW rate \in FundingRates, NEW limit \in FundingLimits,
             Commit([b EXCEPT !.m = FundingUpdate(b.m, rate, limit)])
      PROVE  Kept
  <2> DEFINE w == FundingUpdate(b.m, rate, limit)
             c == [m |-> w, p |-> b.p]
  <2>1. /\ b = [m |-> b.m, p |-> b.p] /\ SoundBook(b) /\ Offset(b) = 0
        /\ SameRates(market, b.m) /\ Surplus(b) = Surplus(Book)
        /\ Cover(b) >= 0
    BY DEF IInv, Good, Carries, SoundBook, TypedBook, Book
  <2>2. rate \in Int /\ limit \in Nat
    BY LedgerAssumption
  <2>3. /\ SoundBook(c) /\ Offset(c) = 0 /\ Cover(c) >= 0
        /\ SameRates(b.m, w) => Surplus(c) = Surplus(b)
    BY <2>1, <2>2, FundingUpdateKeeps
  <2>4. [b EXCEPT !.m = w] = c
    BY <2>1
  <2> HIDE DEF w
  <2>5. Becomes(c)
    BY <1>2, <2>4 DEF Commit, w
  <2>6. c.m = w
    OBVIOUS
  <2>7. SameRates(market, c.m) => SameRates(b.m, w)
    BY <2>1, <2>6 DEF SameRates
  <2> HIDE DEF c
  <2> QED BY <2>1, <2>3, <2>5, <2>7, BecomesKeeps
<1> QED BY <1>1, <1>2 DEF CommitTrade

LEMMA AmountsAreInts == Amounts \subseteq Int
BY LedgerAssumption DEF Amounts

LEMMA SignedInt ==
  ASSUME NEW x \in Int, NEW n \in Nat
  PROVE  Sign(x) * n \in Int
BY DEF Sign

(* What the actions read of the state is of its type.                      *)
LEMMA StateTypes ==
  ASSUME IInv, NEW u \in Users
  PROVE  /\ position[u].base \in Int /\ position[u].quote \in Int
         /\ market \in PerpMarket /\ market.expiryPrice \in Nat
         /\ position \in [Users -> PerpPosition]
<1>1. Book.m = market /\ Book.p = position
  BY DEF Book
<1>2. Book.m \in PerpMarket /\ Book.p[u] \in PerpPosition
      /\ Book.p \in [Users -> PerpPosition]
  BY BookTypes DEF IInv
<1> QED BY <1>1, <1>2 DEF PerpMarket, PerpPosition

LEMMA InitGood == ASSUME Init PROVE IInv
<1>1. market \in PerpMarket /\ position \in [Users -> PerpPosition]
  BY DEF Init, PerpMarket, PerpPosition, Status, NoPosition
<1>2. \A u \in Users : position[u] = NoPosition /\ NoPosition \in PerpPosition
  BY DEF Init, NoPosition, PerpPosition
<1>3. TypeOK
  BY <1>1, <1>2 DEF TypeOK, NoPosition
<1>4. ASSUME NEW f, f[NoPosition] = 0
      PROVE  TotalOf(f, position) = 0
  <2> DEFINE F == [u \in Users |-> f[position[u]]]
  <2>1. \A u \in Users : F[u] = 0
    BY <1>2, <1>4
  <2> HIDE DEF F
  <2>2. SumFunctionOnSet(F, Users) = 0
    BY <2>1, SumZero, LedgerAssumption
  <2> QED BY <2>2 DEF F, TotalOf, Total
<1>5. /\ Quote[NoPosition] = 0 /\ Long[NoPosition] = 0 /\ Short[NoPosition] = 0
      /\ LongEntry[NoPosition] = 0 /\ ShortEntry[NoPosition] = 0
      /\ One[NoPosition] = 0 /\ OneWithBase[NoPosition] = 0
      /\ Exact(market)[NoPosition] = 0
  BY <1>2
  DEF NoPosition, Quote, Long, Short, LongEntry, ShortEntry, One, OneWithBase,
      Exact, Claim, Empty, PerpPosition
<1>6. Matched(market, position)
  BY <1>4, <1>5 DEF Matched, Init
<1>7. TotalOf(Exact(market), position) = 0
  BY <1>4, <1>5
<1>8. AggregatesMatch
  BY <1>3, <1>6, TotalsAreProperties DEF AggregatesMatch, NetBaseMatches, Init
<1>9. UnsettledFundingCovers
  <2>1. market.unsettledFunding + market.fractions = 0
    BY DEF Init
  <2>2. 0 * Precision = 0
    BY PrecisionType
  <2>3. Claims = 0
    BY <1>3, <1>7, TotalsAreProperties
  <2> QED BY <2>1, <2>2, <2>3 DEF UnsettledFundingCovers
<1> QED BY <1>3, <1>8, <1>9, IInvIsProperties
-----------------------------------------------------------------------------
(* The actions keep the invariant, and funding is settled once.            *)

LEMMA FillWithAmmKeeps ==
  ASSUME IInv, NEW u \in Users, NEW filler \in Users, FillWithAmm(u, filler)
  PROVE  Kept
<1> PICK price \in Prices, fee \in Fees, base \in Amounts :
      \E reward \in 0 .. fee :
        LET b == SettleFunding(Book, u)
            c == AddQuote(TradeWithAmm(b, u, base, -base * price), u, -fee)
        IN CommitTrade(AddQuote(c, filler, reward))
  BY DEF FillWithAmm
<1> PICK reward \in 0 .. fee :
      LET b == SettleFunding(Book, u)
          c == AddQuote(TradeWithAmm(b, u, base, -base * price), u, -fee)
      IN CommitTrade(AddQuote(c, filler, reward))
  OBVIOUS
<1> DEFINE b == SettleFunding(Book, u)
           t == TradeWithAmm(b, u, base, -base * price)
           c == AddQuote(t, u, -fee)
           d == AddQuote(c, filler, reward)
<1>1. price \in Int /\ -fee \in Int /\ reward \in Int /\ base \in Int
  BY LedgerAssumption, AmountsAreInts
<1>2. -base * price \in Int
  BY <1>1
<1>3. CommitTrade(d)
  OBVIOUS
<1>4. Good(b) /\ Current(b, u)
  BY GoodBook, GoodSettleFunding
<1>5. Good(t)
  <2> HIDE DEF b
  <2> QED BY <1>1, <1>2, <1>4, GoodTrade
<1>6. Good(d)
  <2> HIDE DEF t
  <2>1. Good(c)
    BY <1>1, <1>5, GoodAddQuote
  <2> HIDE DEF c
  <2> QED BY <1>1, <2>1, GoodAddQuote
<1> HIDE DEF d
<1> QED BY <1>3, <1>6, CommitTradeKeeps

LEMMA MatchKeeps ==
  ASSUME IInv, NEW taker \in Users, NEW maker \in Users,
         NEW filler \in Users, Match(taker, maker, filler)
  PROVE  Kept
<1> DEFINE b == SettleFunding(SettleFunding(Book, taker), maker)
           c(base, price) ==
             UpdatePosition(UpdatePosition(b, maker, -base, base * price),
                            taker, base, -base * price)
           d(base, price, fee, rebate) ==
             AddQuote(AddQuote(c(base, price), taker, -fee), maker, rebate)
<1>0. PICK price \in Prices, fee \in Fees, base \in Amounts :
        \E rebate \in 0 .. fee : \E reward \in 0 .. fee - rebate :
          CommitTrade(AddQuote(d(base, price, fee, rebate), filler, reward))
  BY DEF Match
<1>1. PICK rebate \in 0 .. fee : \E reward \in 0 .. fee - rebate :
        CommitTrade(AddQuote(d(base, price, fee, rebate), filler, reward))
  BY <1>0
<1>2. PICK reward \in 0 .. fee - rebate :
        CommitTrade(AddQuote(d(base, price, fee, rebate), filler, reward))
  BY <1>1
<1>3. price \in Int /\ -fee \in Int /\ reward \in Int /\ rebate \in Int
      /\ base \in Int
  BY LedgerAssumption, AmountsAreInts
<1>4. base * price \in Int /\ -base * price \in Int
  BY <1>3
<1>5. Good(b) /\ Current(b, taker) /\ Current(b, maker)
  BY GoodSettleBoth
<1>6. Good(c(base, price))
  <2> HIDE DEF b
  <2> QED BY <1>3, <1>4, <1>5, GoodExchange
<1>7. Good(d(base, price, fee, rebate))
  <2> HIDE DEF c
  <2>1. Good(AddQuote(c(base, price), taker, -fee))
    BY <1>3, <1>6, GoodAddQuote
  <2> QED BY <1>3, <2>1, GoodAddQuote
<1> HIDE DEF d
<1>8. Good(AddQuote(d(base, price, fee, rebate), filler, reward))
  BY <1>3, <1>7, GoodAddQuote
<1> QED BY <1>2, <1>8, CommitTradeKeeps

LEMMA TransferKeeps ==
  ASSUME IInv, NEW from \in Users, NEW to \in Users,
         TransferPerpPosition(from, to)
  PROVE  Kept
<1> DEFINE b == SettleFunding(SettleFunding(Book, from), to)
           amount(n) == Sign(position[from].base) * n
           c(n, price) ==
             UpdatePosition(UpdatePosition(b, from, -amount(n), amount(n) * price),
                            to, amount(n), -amount(n) * price)
<1>1. PICK price \in Prices, n \in 1 .. Abs(position[from].base) :
        Commit(c(n, price))
  BY DEF TransferPerpPosition
<1>2. price \in Int /\ amount(n) \in Int
  <2>1. position[from].base \in Int /\ n \in Nat
    BY StateTypes
  <2>2. price \in Int
    BY LedgerAssumption
  <2>3. Sign(position[from].base) * n \in Int
    BY <2>1, SignedInt
  <2> QED BY <2>2, <2>3
<1> HIDE DEF amount
<1>3. amount(n) * price \in Int /\ -amount(n) * price \in Int
  BY <1>2
<1>4. Good(b) /\ Current(b, from) /\ Current(b, to)
  BY GoodSettleBoth
<1> HIDE DEF b
<1>5. Good(c(n, price))
  BY <1>2, <1>3, <1>4, GoodExchange
<1> QED BY <1>1, <1>5, CommitKeeps

LEMMA LiquidatePerpKeeps ==
  ASSUME IInv, NEW u \in Users, NEW liquidator \in Users,
         LiquidatePerp(u, liquidator)
  PROVE  Kept
<1> DEFINE amount(n) == Sign(position[u].base) * n
           at(price) == IF market.status = "settlement"
                        THEN market.expiryPrice ELSE price
           b == SettleFunding(SettleFunding(Book, u), liquidator)
           c(n, price, fee, ifFee) ==
             AddQuote(AddQuote(UpdatePosition(b, u, -amount(n),
                                              amount(n) * at(price)),
                               u, -fee), u, -ifFee)
           d(n, price, fee, ifFee) ==
             UpdatePosition(c(n, price, fee, ifFee), liquidator, amount(n),
                            -amount(n) * at(price))
<1>1. PICK price \in Prices, n \in 1 .. Abs(position[u].base),
           fee \in Fees, ifFee \in Fees :
        Commit(AddQuote(d(n, price, fee, ifFee), liquidator, fee))
  BY DEF LiquidatePerp
<1>2. /\ at(price) \in Int /\ amount(n) \in Int
      /\ fee \in Int /\ -fee \in Int /\ -ifFee \in Int
  <2>1. position[u].base \in Int /\ n \in Nat
    BY StateTypes
  <2>2. market.expiryPrice \in Int
    BY StateTypes
  <2>3. price \in Int /\ fee \in Int /\ -fee \in Int /\ -ifFee \in Int
    BY LedgerAssumption
  <2>4. Sign(position[u].base) * n \in Int
    BY <2>1, SignedInt
  <2> QED BY <2>2, <2>3, <2>4
<1> HIDE DEF amount, at
<1>3. amount(n) * at(price) \in Int /\ -amount(n) * at(price) \in Int
  BY <1>2
<1>4. Good(b) /\ Current(b, u) /\ Current(b, liquidator)
  BY GoodSettleBoth
<1> HIDE DEF b
<1>5. Good(d(n, price, fee, ifFee))
  BY <1>2, <1>3, <1>4, GoodExchange
<1> HIDE DEF d
<1>6. Good(AddQuote(d(n, price, fee, ifFee), liquidator, fee))
  BY <1>2, <1>5, GoodAddQuote
<1> QED BY <1>1, <1>6, CommitKeeps

LEMMA LiquidatePnlKeeps ==
  ASSUME IInv, NEW u \in Users, NEW liquidator \in Users,
         LiquidatePnl(u, liquidator)
  PROVE  Kept
<1> DEFINE b == SettleFunding(SettleFunding(Book, u), liquidator)
           pnl(n) == Sign(position[u].quote) * n
<1>1. PICK n \in 1 .. Abs(position[u].quote) :
        Commit(AddQuote(AddQuote(b, liquidator, pnl(n)), u, -pnl(n)))
  BY DEF LiquidatePnl
<1>2. pnl(n) \in Int /\ -pnl(n) \in Int
  <2>1. position[u].quote \in Int /\ n \in Nat
    BY StateTypes
  <2> QED BY <2>1, SignedInt
<1> HIDE DEF pnl
<1>3. Good(b)
  BY GoodSettleBoth
<1> HIDE DEF b
<1>4. Good(AddQuote(b, liquidator, pnl(n)))
  BY <1>2, <1>3, GoodAddQuote
<1>5. Good(AddQuote(AddQuote(b, liquidator, pnl(n)), u, -pnl(n)))
  BY <1>2, <1>4, GoodAddQuote
<1> QED BY <1>1, <1>5, CommitKeeps

LEMMA SettleFundingPaymentKeeps ==
  ASSUME IInv, NEW u \in Users, SettleFundingPayment(u)
  PROVE  Kept
<1>1. Good(SettleFunding(Book, u))
  BY GoodBook, GoodSettleFunding
<1> QED BY <1>1, CommitKeeps DEF SettleFundingPayment

LEMMA SettlePnlKeeps ==
  ASSUME IInv, NEW u \in Users, SettlePnl(u)
  PROVE  Kept
<1> DEFINE b == SettleFunding(Book, u)
           pnl(price) == b.p[u].base * price + b.p[u].quote
<1>1. PICK price \in Prices :
        \E n \in 1 .. Abs(pnl(price)) :
          Commit(AddQuote(b, u, -Sign(pnl(price)) * n))
  BY DEF SettlePnl
<1>2. PICK n \in 1 .. Abs(pnl(price)) :
        Commit(AddQuote(b, u, -Sign(pnl(price)) * n))
  BY <1>1
<1>3. Good(b)
  BY GoodBook, GoodSettleFunding
<1> HIDE DEF b
<1>4. pnl(price) \in Int
  <2>1. b.p[u].base \in Int /\ b.p[u].quote \in Int /\ price \in Int
    BY <1>3, BookTypes, LedgerAssumption DEF Good
  <2> QED BY <2>1
<1> HIDE DEF pnl
<1>5. -Sign(pnl(price)) * n \in Int
  BY <1>4 DEF Sign, Abs
<1>6. Good(AddQuote(b, u, -Sign(pnl(price)) * n))
  BY <1>3, <1>5, GoodAddQuote
<1> QED BY <1>2, <1>6, CommitKeeps

LEMMA UpdateFundingRateKeeps ==
  ASSUME IInv, NEW rate \in FundingRates, NEW limit \in FundingLimits,
         UpdateFundingRate(rate, limit)
  PROVE  Kept
<1>1. Commit([Book EXCEPT !.m = FundingUpdate(Book.m, rate, limit)])
  BY DEF UpdateFundingRate, Book
<1>2. PositionsWithinBounds(Book)
  BY <1>1 DEF Commit, WithinBounds, PositionsWithinBounds, Book
<1>3. CommitTrade(Book)
  BY <1>1, <1>2 DEF CommitTrade
<1> QED BY <1>3, GoodBook, CommitTradeKeeps

LEMMA ResolvePerpBankruptcyKeeps ==
  ASSUME IInv, NEW u \in Users, NEW paid \in Nat,
         ResolvePerpBankruptcy(u, paid)
  PROVE  Kept
<1> DEFINE debt  == -position[u].quote
           loss  == debt - paid
           delta == SocialLossRate(market, loss)
           long  == IF paid < debt THEN market.longRate + delta
                                   ELSE market.longRate
           short == IF paid < debt THEN market.shortRate - delta
                                   ELSE market.shortRate
           m     == [market EXCEPT !.longRate = long, !.shortRate = short]
           b     == [m |-> m, p |-> position]
           d     == AddQuote(b, u, debt)
<1>1. /\ Becomes(d) /\ debt > 0 /\ paid <= debt
      /\ market.long # 0 \/ market.short # 0
  BY DEF ResolvePerpBankruptcy, Commit
<1>2. /\ market \in PerpMarket /\ debt \in Int
      /\ Book.m = market /\ Book.p = position /\ SoundBook(Book)
      /\ Offset(Book) = 0 /\ Cover(Book) >= 0
  BY StateTypes DEF Book, IInv
<1>4. /\ SoundBook(b) /\ Offset(b) = 0 /\ Cover(b) >= 0
      /\ SameRates(market, b.m) => Surplus(b) = Surplus(Book)
  <2>1. CASE paid < debt
    <3> DEFINE n == [market EXCEPT !.longRate = market.longRate + delta,
                                   !.shortRate = market.shortRate - delta]
    <3>1. b = [m |-> n, p |-> position] /\ b.m = n
      BY <2>1
    <3>2. loss \in Nat /\ loss > 0
      BY <1>2, <2>1
    <3> HIDE DEF loss
    <3>3. /\ SoundBook([m |-> n, p |-> position])
          /\ Offset([m |-> n, p |-> position]) = Offset(Book)
          /\ ~SameRates(market, n)
          /\ Cover([m |-> n, p |-> position]) >= 0
      BY <1>1, <1>2, <3>2, SocialLossKeeps
    <3> HIDE DEF b, n
    <3> QED BY <1>2, <3>1, <3>3
  <2>2. CASE ~(paid < debt)
    <3>1. long = market.longRate /\ short = market.shortRate
      BY <2>2
    <3> HIDE DEF long, short
    <3>2. m = market
      BY <1>2, <3>1 DEF PerpMarket
    <3>3. b = Book
      BY <3>2 DEF Book
    <3> HIDE DEF b
    <3> QED BY <1>2, <3>3
  <2> QED BY <2>1, <2>2
<1>5. b.m = m
  OBVIOUS
<1> HIDE DEF b, debt
<1>6. /\ SoundBook(d) /\ Offset(d) = 0 /\ Surplus(d) = Surplus(b)
      /\ SameRates(b.m, d.m) /\ Cover(d) >= 0
  BY <1>2, <1>4, AddQuoteKeeps DEF Carries
<1> HIDE DEF d
<1>8. SameRates(market, d.m) => Surplus(d) = Surplus(Book)
  BY <1>4, <1>6 DEF SameRates
<1> QED BY <1>1, <1>6, <1>8, BecomesKeeps

LEMMA SettleExpiredPositionKeeps ==
  ASSUME IInv, NEW u \in Users, SettleExpiredPosition(u)
  PROVE  Kept
<1> DEFINE b == SettleFunding(Book, u)
           c == TradeWithAmm(b, u, -position[u].base,
                             position[u].base * market.expiryPrice)
           d(fee) == AddQuote(c, u, -fee)
<1>1. PICK fee \in Fees : Commit(AddQuote(d(fee), u, -d(fee).p[u].quote))
  BY DEF SettleExpiredPosition
<1>2. /\ -position[u].base \in Int /\ -fee \in Int
      /\ position[u].base * market.expiryPrice \in Int
  <2>1. position[u].base \in Int
    BY StateTypes
  <2>2. market.expiryPrice \in Int
    BY StateTypes
  <2> QED BY <2>1, <2>2, LedgerAssumption
<1>3. Good(b) /\ Current(b, u)
  BY GoodBook, GoodSettleFunding
<1> HIDE DEF b
<1>4. Good(c)
  BY <1>2, <1>3, GoodTrade
<1> HIDE DEF c
<1>5. Good(d(fee))
  BY <1>2, <1>4, GoodAddQuote
<1> HIDE DEF d
<1>6. -d(fee).p[u].quote \in Int
  BY <1>5, BookTypes DEF Good
<1>7. Good(AddQuote(d(fee), u, -d(fee).p[u].quote))
  BY <1>5, <1>6, GoodAddQuote
<1> QED BY <1>1, <1>7, CommitKeeps

(* Steps that change only the market's status and expiry price.            *)
LEMMA StatusKeeps ==
  ASSUME IInv,
         SettleExpiredMarket \/ SettlePoolsToRevenuePool
  PROVE  Kept
<1>1. market \in PerpMarket /\ SoundBook(Book)
  BY DEF IInv, SoundBook, TypedBook, Book
<1>2. /\ market' \in PerpMarket /\ market'.long = market.long
      /\ market'.short = market.short /\ market'.withAmm = market.withAmm
      /\ market'.quote = market.quote /\ market'.users = market.users
      /\ market'.longEntry = market.longEntry
      /\ market'.shortEntry = market.shortEntry
      /\ market'.usersWithBase = market.usersWithBase
      /\ market'.longRate = market.longRate
      /\ market'.shortRate = market.shortRate
      /\ market'.unsettledFunding = market.unsettledFunding
      /\ market'.fractions = market.fractions
      /\ position' = position
  <2>1. CASE SettleExpiredMarket
    <3>1. PICK price \in ExpiryPrices :
            market' = [market EXCEPT !.status = "settlement",
                                     !.expiryPrice = price]
      BY <2>1 DEF SettleExpiredMarket
    <3>2. price \in Nat
      BY LedgerAssumption
    <3> QED BY <1>1, <2>1, <3>1, <3>2 DEF SettleExpiredMarket, PerpMarket, Status
  <2>2. CASE SettlePoolsToRevenuePool
    BY <1>1, <2>2 DEF SettlePoolsToRevenuePool, PerpMarket, Status
  <2> QED BY <2>1, <2>2
<1> DEFINE b == [m |-> market', p |-> position]
<1>3. SameRates(market, market')
  BY <1>2 DEF SameRates
<1>4. Payment(market') = Payment(market) /\ Exact(market') = Exact(market)
  BY <1>1, <1>2, <1>3, SameRatesSamePayments
<1>5. Surplus(b) = Surplus(Book) /\ Cover(b) = Cover(Book)
  BY <1>2, <1>4 DEF Surplus, Cover, Booked, Book
<1>6. SoundBook(b) /\ Offset(b) = Offset(Book)
  BY <1>1, <1>2 DEF SoundBook, TypedBook, Matched, Offset, Book
<1>7. Becomes(b)
  BY <1>2 DEF Becomes
<1> HIDE DEF b
<1> QED BY <1>5, <1>6, <1>7, BecomesKeeps DEF IInv

LEMMA NextKeeps == ASSUME IInv, [Next]_vars PROVE Kept
<1>1. CASE \E u, filler \in Users : FillWithAmm(u, filler)
  BY <1>1, FillWithAmmKeeps
<1>2. CASE \E taker, maker, filler \in Users : Match(taker, maker, filler)
  BY <1>2, MatchKeeps
<1>3. CASE \E from, to \in Users : TransferPerpPosition(from, to)
  BY <1>3, TransferKeeps
<1>4. CASE \E u, liquidator \in Users : LiquidatePerp(u, liquidator)
  BY <1>4, LiquidatePerpKeeps
<1>5. CASE \E u, liquidator \in Users : LiquidatePnl(u, liquidator)
  BY <1>5, LiquidatePnlKeeps
<1>6. CASE \E u \in Users : SettleFundingPayment(u)
  BY <1>6, SettleFundingPaymentKeeps
<1>7. CASE \E u \in Users : SettlePnl(u)
  BY <1>7, SettlePnlKeeps
<1>8. CASE \E rate \in FundingRates, limit \in FundingLimits :
             UpdateFundingRate(rate, limit)
  BY <1>8, UpdateFundingRateKeeps
<1>9. CASE \E u \in Users : \E paid \in 0 .. Abs(position[u].quote) :
             ResolvePerpBankruptcy(u, paid)
  <2>1. PICK u \in Users, paid \in Nat : ResolvePerpBankruptcy(u, paid)
    BY <1>9
  <2> QED BY <2>1, ResolvePerpBankruptcyKeeps
<1>10. CASE SettleExpiredMarket \/ SettlePoolsToRevenuePool
  BY <1>10, StatusKeeps
<1>11. CASE \E u \in Users : SettleExpiredPosition(u)
  BY <1>11, SettleExpiredPositionKeeps
<1>12. CASE UNCHANGED vars
  <2>1. market' = market /\ position' = position /\ Book' = Book
    BY <1>12 DEF vars, Book
  <2> QED BY <2>1 DEF Kept, IInv
<1> QED
  BY <1>1, <1>2, <1>3, <1>4, <1>5, <1>6, <1>7, <1>8, <1>9, <1>10, <1>11, <1>12
  DEF Next

THEOREM LedgerInvariantHolds == Spec => []IInv
<1>1. IInv /\ [Next]_vars => IInv'
  BY NextKeeps DEF Kept
<1> QED BY <1>1, InitGood, PTL DEF Spec

(* Every record keeps its type, and a closed position leaves neither entry *)
(* nor funding behind, for any users, prices, fees and funding rates: what *)
(* Close and settle_expired_position rely on.                              *)
THEOREM LedgerStaysWellFormed == Spec => []TypeOK
<1>1. IInv => TypeOK
  BY IInvIsProperties
<1> QED BY <1>1, LedgerInvariantHolds, PTL

(* The market's sums and counts are those of its positions, and the amm    *)
(* holds the other side of their net position, after every instruction,    *)
(* for any users, prices, fees and funding rates.                          *)
THEOREM AggregatesStayExact == Spec => []AggregatesMatch
<1>1. IInv => AggregatesMatch
  BY IInvIsProperties
<1> QED BY <1>1, LedgerInvariantHolds, PTL

(* What is booked as unsettled funding falls short of what all positions   *)
(* have coming by less than a quote unit for each payment and funding      *)
(* update that dropped a fraction in the users' favour, for any positions, *)
(* rates and precisions and whatever was capped and socialised, so         *)
(* calculate_net_user_pnl understates the users' claims by no more.        *)
THEOREM UnsettledFundingStaysCovered == Spec => []UnsettledFundingCovers
<1>1. IInv => UnsettledFundingCovers
  BY IInvIsProperties
<1> QED BY <1>1, LedgerInvariantHolds, PTL

LEMMA PendingIs ==
  ASSUME IInv
  PROVE  /\ Pending = TotalOf(Payment(market), position)
         /\ Claims = TotalOf(Exact(market), position)
         /\ Pending \in Int /\ market.unsettledFunding \in Int
         /\ Surplus(Book) = market.unsettledFunding - Pending
<1>1. TypeOK
  BY IInvIsProperties
<1>2. /\ Pending = TotalOf(Payment(market), position)
      /\ Claims = TotalOf(Exact(market), position)
  BY <1>1, TotalsAreProperties
<1>3. Pending \in Int /\ market.unsettledFunding \in Int
  BY <1>1, <1>2, PaymentType, TotalIsInt, MarketTypes DEF TypeOK
<1> QED BY <1>2, <1>3 DEF Surplus, Book

LEMMA PendingWillBe ==
  IInv' => /\ Pending' = TotalOf(Payment(market'), position')
           /\ Claims' = TotalOf(Exact(market'), position')
           /\ Surplus(Book') = market'.unsettledFunding - Pending'
<1>1. IInv => /\ Pending = TotalOf(Payment(market), position)
              /\ Claims = TotalOf(Exact(market), position)
              /\ Surplus(Book) = market.unsettledFunding - Pending
  BY PendingIs
<1>2. (IInv => /\ Pending = TotalOf(Payment(market), position)
               /\ Claims = TotalOf(Exact(market), position)
               /\ Surplus(Book) = market.unsettledFunding - Pending)'
  BY <1>1, PTL
<1> QED BY <1>2

LEMMA CollectedOnce ==
  ASSUME IInv, [Next]_vars, RatesUnchanged
  PROVE  market'.unsettledFunding - Pending' = market.unsettledFunding - Pending
<1>1. Kept
  BY NextKeeps
<1>2. Surplus(Book') = Surplus(Book) /\ IInv'
  BY <1>1 DEF Kept, RatesUnchanged, SameRates
<1>3. Surplus(Book') = market'.unsettledFunding - Pending'
  BY <1>2, PendingWillBe
<1> QED BY <1>2, <1>3, PendingIs

LEMMA WithinLimit ==
  ASSUME IInv, NEW rate \in FundingRates, NEW limit \in FundingLimits,
         UpdateFundingRate(rate, limit), IInv'
  PROVE  Claims' - Claims < (limit + 1) * Precision
<1> DEFINE w == FundingUpdate(market, rate, limit)
<1>1. market' = w /\ position' = position
  BY DEF UpdateFundingRate, Commit, Becomes
<1>2. rate \in Int /\ limit \in Nat
  BY LedgerAssumption
<1>3. Book.m = market /\ Book.p = position
  BY DEF Book
<1>4. TotalOf(Exact(w), position) - TotalOf(Exact(market), position)
        < (limit + 1) * Precision
  BY <1>2, <1>3, FundingUpdateKeeps DEF IInv
<1> HIDE DEF w
<1>5. Claims' = TotalOf(Exact(w), position)
  BY <1>1, PendingWillBe
<1> QED BY <1>4, <1>5, PendingIs

LEMMA LossCovered ==
  ASSUME IInv, NEW u \in Users, NEW paid \in 0 .. Abs(position[u].quote),
         ResolvePerpBankruptcy(u, paid), IInv'
  PROVE  LET loss == -position[u].quote - paid
         IN /\ Claims - Claims' >= loss * Precision
            /\ Pending - Pending' > loss - 2 * market.usersWithBase
<1> DEFINE debt  == -position[u].quote
           loss  == debt - paid
           delta == SocialLossRate(market, loss)
           long  == IF paid < debt THEN market.longRate + delta
                                   ELSE market.longRate
           short == IF paid < debt THEN market.shortRate - delta
                                   ELSE market.shortRate
           m     == [market EXCEPT !.longRate = long, !.shortRate = short]
           b     == [m |-> m, p |-> position]
           d     == AddQuote(b, u, debt)
<1>1. /\ Becomes(d) /\ debt > 0 /\ paid <= debt
      /\ market.long # 0 \/ market.short # 0
  BY DEF ResolvePerpBankruptcy, Commit
<1>2. /\ market \in PerpMarket /\ debt \in Int /\ paid \in Nat
      /\ Book.m = market /\ Book.p = position /\ SoundBook(Book)
      /\ position \in [Users -> PerpPosition]
  BY StateTypes DEF Book, IInv
<1>3. loss \in Nat
  BY <1>1, <1>2
<1>4. /\ SoundBook(b)
      /\ TotalOf(Exact(market), position) - TotalOf(Exact(m), position)
           >= loss * Precision
  <2>1. CASE paid < debt
    <3> DEFINE n == [market EXCEPT !.longRate = market.longRate + delta,
                                   !.shortRate = market.shortRate - delta]
    <3>1. m = n
      BY <2>1
    <3>2. loss > 0
      BY <1>2, <2>1
    <3> HIDE DEF loss
    <3>3. /\ SoundBook([m |-> n, p |-> position])
          /\ TotalOf(Exact(market), position) - TotalOf(Exact(n), position)
               >= loss * Precision
      BY <1>1, <1>2, <1>3, <3>2, SocialLossKeeps
    <3> HIDE DEF n, m
    <3> QED BY <3>1, <3>3
  <2>2. CASE ~(paid < debt)
    <3>1. long = market.longRate /\ short = market.shortRate /\ loss = 0
      BY <1>1, <1>2, <2>2
    <3> HIDE DEF long, short, loss
    <3>2. m = market
      BY <1>2, <3>1 DEF PerpMarket
    <3>3. b = Book
      BY <3>2 DEF Book
    <3>4. TotalOf(Exact(market), position) \in Int
      BY <1>2, PaymentType, TotalIsInt
    <3>5. 0 * Precision = 0
      BY PrecisionType
    <3> HIDE DEF b, m
    <3> QED BY <1>2, <3>1, <3>2, <3>3, <3>4, <3>5
  <2> QED BY <2>1, <2>2
<1>5. b.m = m /\ b.p = position
  OBVIOUS
<1> HIDE DEF b, debt, m
<1>6. /\ Surplus(d) = Surplus(b) /\ SoundBook(d)
      /\ d.m.unsettledFunding = b.m.unsettledFunding
      /\ TotalOf(Exact(d.m), d.p) = TotalOf(Exact(b.m), b.p)
  BY <1>2, <1>4, AddQuoteKeeps DEF Carries
<1> HIDE DEF d
<1>7. market' = d.m /\ position' = d.p
  BY <1>1 DEF Becomes
<1>8. /\ Pending' = TotalOf(Payment(d.m), d.p)
      /\ Claims' = TotalOf(Exact(m), position)
  BY <1>5, <1>6, <1>7, PendingWillBe
<1>9. TotalOf(Payment(d.m), d.p) = TotalOf(Payment(m), position)
  <2>1. ASSUME NEW e, SoundBook(e)
        PROVE  /\ TotalOf(Payment(e.m), e.p) \in Int
               /\ e.m.unsettledFunding \in Int
    <3>1. e.m \in PerpMarket /\ e.p \in [Users -> PerpPosition]
      BY <2>1 DEF SoundBook, TypedBook
    <3> QED BY <3>1, PaymentType, TotalIsInt, MarketTypes
  <2>2. /\ TotalOf(Payment(d.m), d.p) \in Int
        /\ TotalOf(Payment(b.m), b.p) \in Int /\ b.m.unsettledFunding \in Int
    BY <1>4, <1>6, <2>1
  <2> QED BY <1>5, <1>6, <2>2 DEF Surplus
<1> DEFINE k     == market.usersWithBase
           fall  == Pending - Pending'
           whole == loss * Precision
           slack == (Precision - 1) * k
           owned == fall * Precision
<1>10. /\ k \in Nat /\ k >= 1 /\ k = TotalOf(OneWithBase, position)
       /\ Precision \in Nat \ {0}
  BY <1>1, <1>2, SomeBase, MarketTypes, PrecisionType DEF SoundBook, Matched
<1>11. m \in PerpMarket
  BY <1>4, <1>5 DEF SoundBook, TypedBook
<1>12. Pending \in Int /\ Pending' \in Int /\ Pending' = TotalOf(Payment(m), position)
  BY <1>2, <1>8, <1>9, <1>11, PaymentType, TotalIsInt, PendingIs
<1>13. whole >= 0 /\ whole \in Int /\ fall \in Int /\ owned \in Int /\ slack \in Int
  <2> HIDE DEF loss
  <2> QED BY <1>3, <1>10, <1>12
<1>14. owned >= whole - 2 * slack
  <2> DEFINE y == Pending * Precision
             z == Pending' * Precision
             a == TotalOf(Exact(market), position)
             c == TotalOf(Exact(m), position)
  <2>1. y <= a + slack /\ a <= y + slack /\ y \in Int /\ a \in Int
    BY <1>2, <1>10, PaymentsNearClaims, PendingIs
  <2>2. z <= c + slack /\ c <= z + slack /\ z \in Int /\ c \in Int
    BY <1>2, <1>10, <1>11, <1>12, PaymentsNearClaims
  <2>3. a - c >= whole
    BY <1>4
  <2>4. owned = y - z
    BY <1>10, <1>12
  <2> HIDE DEF y, z, a, c, slack, whole, owned
  <2> QED BY <1>13, <2>1, <2>2, <2>3, <2>4
<1>15. fall > loss - 2 * k
  <2> HIDE DEF loss, fall, k
  <2>1. SUFFICES ASSUME fall <= loss - 2 * k PROVE FALSE
    BY <1>3, <1>10, <1>13
  <2>2. \A i, j \in Nat : i * j >= 0
    OBVIOUS
  <2>3. loss - 2 * k - fall \in Nat
    BY <1>3, <1>10, <1>13, <2>1
  <2>4. (loss - 2 * k - fall) * Precision >= 0
    BY <1>10, <2>2, <2>3
  <2>5. (loss - 2 * k - fall) * Precision = whole - 2 * (k * Precision) - owned
    BY <1>3, <1>10, <1>13
  <2>6. slack = k * Precision - k
    BY <1>10
  <2> DEFINE kp == k * Precision
  <2>7. kp \in Int
    BY <1>10
  <2> HIDE DEF whole, slack, owned, kp
  <2> QED BY <1>10, <1>13, <1>14, <2>4, <2>5, <2>6, <2>7 DEF kp
<1> HIDE DEF m
<1> QED BY <1>4, <1>8, <1>15, PendingIs DEF debt, loss

(* Funding is collected once, in whatever order positions are traded,      *)
(* settled, transferred and liquidated, to the unit although each payment  *)
(* drops its fraction; and a funding update lets the users gain less than  *)
(* one quote unit above what the amm may spend, for any positions, rates   *)
(* and precisions: calculate_capped_funding_rate with its rounding.        *)
THEOREM FundingStaysFair == Spec => FundingFair
<1>1. IInv /\ IInv' /\ [Next]_vars
        => (RatesUnchanged => market'.unsettledFunding - Pending'
                                = market.unsettledFunding - Pending)
  BY CollectedOnce
<1>2. IInv /\ IInv' /\ [Next]_vars
        => [\A rate \in FundingRates, limit \in FundingLimits :
              UpdateFundingRate(rate, limit)
                => Claims' - Claims < (limit + 1) * Precision]_vars
  BY WithinLimit
<1>3. Spec => FundingCollectedOnce
  BY <1>1, LedgerInvariantHolds, PTL DEF Spec, FundingCollectedOnce
<1>4. Spec => FundingWithinLimit
  BY <1>2, LedgerInvariantHolds, PTL DEF Spec, FundingWithinLimit
<1> QED BY <1>3, <1>4 DEF FundingFair

(* A socialised loss takes at least the debt that nobody paid from what    *)
(* the positions have coming, and less than two quote units for each       *)
(* position are lost of it when they drop their fractions, for any         *)
(* positions, debts and precisions.                                        *)
THEOREM SocialLossStaysCovered == Spec => SocialLossCovered
<1>1. IInv /\ IInv' /\ [Next]_vars
        => [\A u \in Users : \A paid \in 0 .. Abs(position[u].quote) :
              ResolvePerpBankruptcy(u, paid) =>
                LET loss == -position[u].quote - paid
                IN /\ Claims - Claims' >= loss * Precision
                   /\ Pending - Pending' > loss - 2 * market.usersWithBase]_vars
  BY LossCovered
<1> QED BY <1>1, LedgerInvariantHolds, PTL DEF Spec, SocialLossCovered
=============================================================================
