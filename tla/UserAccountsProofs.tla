------------------------- MODULE UserAccountsProofs -------------------------
(***************************************************************************)
(* For any authorities, limits, prices, margin ratios and fees: the        *)
(* configs of the two modes count their members and the places of deleted  *)
(* ones, the program's counters are those of the open accounts, and        *)
(* nobody becomes liquidatable by leaving high leverage.                   *)
(*                                                                         *)
(* An instruction writes one account.  So each of the three counts, of     *)
(* open accounts, of open accounts of one authority and of members of a    *)
(* mode, is of a set that gains or loses at most one element (Toggle), and *)
(* the counters follow it.  A referrer's account is safe by Referred: its  *)
(* statistics are marked as soon as it is named, and a marked authority    *)
(* cannot delete its first account.                                        *)
(***************************************************************************)
EXTENDS UserAccounts, FiniteSetTheorems, TLAPS

Slot == UserType \cup {Closed}
Pairs == Authorities \X Ids

(* What is counted, of any accounts.                                       *)
OpenOf(A) == {k \in Pairs : A[k[1]][k[2]].live}
IdsOf(A, a) == {i \in Ids : A[a][i].live}
MembersOf(A, m) == {k \in Pairs : A[k[1]][k[2]].live /\ InMode(A[k[1]][k[2]], m)}
Live(s) == {a \in Authorities : s[a].live}
One(p) == IF p THEN 1 ELSE 0

(* What the counters say of accounts and statistics.                       *)
Counted(A, s, st) ==
  /\ st.subAccounts = Cardinality(OpenOf(A))
  /\ st.authorities = Cardinality(Live(s))
  /\ \A a \in Authorities :
       IF s[a].live THEN /\ Cardinality(IdsOf(A, a)) = s[a].subAccounts
                         /\ \A i \in IdsOf(A, a) : i < s[a].created
                    ELSE IdsOf(A, a) = {}

Placed(A, c, n) ==
  \A m \in Modes : c[m].current = Cardinality(MembersOf(A, m)) + n[m] /\ Valid(c[m])

(* Who referred somebody has an account, and its statistics say so: that   *)
(* is what keeps the account from being deleted.                           *)
Referred(A, s) ==
  \A a \in Authorities : s[a].live =>
    \A r \in s[a].referrer : s[r].live /\ s[r].isReferrer /\ A[r][0].live

Typed ==
  /\ stats \in [Authorities -> StatsType \cup {NoStats}]
  /\ account \in [Authorities -> [Ids -> Slot]]
  /\ state \in [authorities : Nat, subAccounts : Nat]
  /\ config \in [Modes -> [max : Nat, current : Nat, reduceOnly : BOOLEAN]]
  /\ lost \in [Modes -> Nat] /\ price \in Prices /\ slot \in Nat /\ ops \in Nat

IInv ==
  /\ Typed /\ Counted(account, stats, state) /\ Placed(account, config, lost)
  /\ Referred(account, stats)

(* What leaving high leverage may not do to one account.                   *)
Harmless(u, v, p) ==
  (v.live /\ u.mode = "HighLeverage" /\ v.mode = "Default"
     /\ Meets(u, p, "Maintenance")) => Meets(v, p, "Maintenance")

StepGood ==
  /\ IInv'
  /\ \A k \in Opened : Harmless(account[k[1]][k[2]], account'[k[1]][k[2]], price)
-----------------------------------------------------------------------------
(* Counting.                                                               *)

LEMMA PairsFinite == IsFiniteSet(Pairs) /\ IsFiniteSet(Ids) /\ IsFiniteSet(Authorities)
<1>1. MaxCreated - 1 \in Int BY AccountsAssumption
<1>2. IsFiniteSet(Ids) BY <1>1, FS_Interval DEF Ids
<1> QED BY <1>2, FS_Product, AccountsAssumption DEF Pairs

(* Two subsets of a finite set that differ in x at most.                   *)
LEMMA Toggle ==
  ASSUME NEW U, IsFiniteSet(U), NEW P \in SUBSET U, NEW Q \in SUBSET U, NEW x \in U,
         \A y \in U : y # x => (y \in P <=> y \in Q)
  PROVE  /\ Cardinality(P) \in Nat /\ Cardinality(Q) \in Nat
         /\ Cardinality(Q) + One(x \in P) = Cardinality(P) + One(x \in Q)
         /\ x \in P => Cardinality(P) >= 1
<1>1. /\ IsFiniteSet(P) /\ IsFiniteSet(Q) /\ IsFiniteSet(P \ {x})
  BY FS_Subset
<1>2. /\ Cardinality(P) \in Nat /\ Cardinality(Q) \in Nat /\ Cardinality(P \ {x}) \in Nat
  BY <1>1, FS_CardinalityType
<1>3. P \ {x} = Q \ {x} OBVIOUS
<1>4. Cardinality(P \ {x}) = IF x \in P THEN Cardinality(P) - 1 ELSE Cardinality(P)
  BY <1>1, FS_RemoveElement
<1>5. Cardinality(Q \ {x}) = IF x \in Q THEN Cardinality(Q) - 1 ELSE Cardinality(Q)
  BY <1>1, FS_RemoveElement
<1> DEFINE p == Cardinality(P)  q == Cardinality(Q)
           c == Cardinality(P \ {x})
<1>6. /\ p \in Nat /\ q \in Nat /\ c \in Nat
      /\ c = (IF x \in P THEN p - 1 ELSE p) /\ c = (IF x \in Q THEN q - 1 ELSE q)
  BY <1>2, <1>3, <1>4, <1>5
<1> HIDE DEF p, q, c
<1>7. q + One(x \in P) = p + One(x \in Q) /\ (x \in P => p >= 1)
  BY <1>6 DEF One
<1> QED BY <1>6, <1>7 DEF p, q

(* One account is written.                                                 *)
Written(A, a, i, v) == [A EXCEPT ![a][i] = v]

LEMMA WrittenIn ==
  ASSUME NEW A \in [Authorities -> [Ids -> Slot]], NEW a \in Authorities, NEW i \in Ids,
         NEW v \in Slot
  PROVE  /\ Written(A, a, i, v) \in [Authorities -> [Ids -> Slot]]
         /\ \A b \in Authorities, j \in Ids :
              Written(A, a, i, v)[b][j] = IF b = a /\ j = i THEN v ELSE A[b][j]
BY DEF Written

LEMMA PairIn ==
  \A k \in Pairs : k[1] \in Authorities /\ k[2] \in Ids /\ k = <<k[1], k[2]>>
BY DEF Pairs

LEMMA WrittenCounts ==
  ASSUME NEW A \in [Authorities -> [Ids -> Slot]], NEW a \in Authorities, NEW i \in Ids,
         NEW v \in Slot
  PROVE  LET B == Written(A, a, i, v)
             u == A[a][i]
         IN  /\ Cardinality(OpenOf(A)) \in Nat /\ Cardinality(OpenOf(B)) \in Nat
             /\ Cardinality(OpenOf(B)) + One(u.live) = Cardinality(OpenOf(A)) + One(v.live)
             /\ u.live => Cardinality(OpenOf(A)) >= 1
             /\ Cardinality(IdsOf(A, a)) \in Nat
             /\ Cardinality(IdsOf(B, a)) + One(u.live)
                  = Cardinality(IdsOf(A, a)) + One(v.live)
             /\ u.live => Cardinality(IdsOf(A, a)) >= 1
             /\ \A b \in Authorities : b # a => IdsOf(B, b) = IdsOf(A, b)
             /\ \A j \in Ids : j # i => (j \in IdsOf(B, a) <=> j \in IdsOf(A, a))
             /\ \A m \in Modes :
                  /\ Cardinality(MembersOf(A, m)) \in Nat
                  /\ Cardinality(MembersOf(B, m)) \in Nat
                  /\ Cardinality(MembersOf(B, m)) + One(u.live /\ InMode(u, m))
                       = Cardinality(MembersOf(A, m)) + One(v.live /\ InMode(v, m))
                  /\ u.live /\ InMode(u, m) => Cardinality(MembersOf(A, m)) >= 1
<1> DEFINE B == Written(A, a, i, v)
           u == A[a][i]
           x == <<a, i>>
<1>1. /\ B \in [Authorities -> [Ids -> Slot]]
      /\ \A b \in Authorities, j \in Ids :
           B[b][j] = IF b = a /\ j = i THEN v ELSE A[b][j]
  BY DEF Written
<1>2. x \in Pairs /\ x[1] = a /\ x[2] = i BY DEF Pairs
<1> HIDE DEF B
<1>3. \A y \in Pairs : y # x => B[y[1]][y[2]] = A[y[1]][y[2]]
  BY <1>1, PairIn
<1>4. B[a][i] = v BY <1>1
<1>5. /\ Cardinality(OpenOf(A)) \in Nat /\ Cardinality(OpenOf(B)) \in Nat
      /\ Cardinality(OpenOf(B)) + One(u.live) = Cardinality(OpenOf(A)) + One(v.live)
      /\ u.live => Cardinality(OpenOf(A)) >= 1
  <2>1. OpenOf(A) \in SUBSET Pairs /\ OpenOf(B) \in SUBSET Pairs BY DEF OpenOf
  <2>2. \A y \in Pairs : y # x => (y \in OpenOf(A) <=> y \in OpenOf(B))
    BY <1>3 DEF OpenOf
  <2>3. (x \in OpenOf(A) <=> u.live) /\ (x \in OpenOf(B) <=> v.live)
    BY <1>2, <1>4 DEF OpenOf
  <2>4. /\ Cardinality(OpenOf(A)) \in Nat /\ Cardinality(OpenOf(B)) \in Nat
        /\ Cardinality(OpenOf(B)) + One(x \in OpenOf(A))
             = Cardinality(OpenOf(A)) + One(x \in OpenOf(B))
        /\ x \in OpenOf(A) => Cardinality(OpenOf(A)) >= 1
    BY <1>2, <2>1, <2>2, PairsFinite, Toggle
  <2> QED BY <2>3, <2>4 DEF One
<1>6. /\ Cardinality(IdsOf(A, a)) \in Nat
      /\ Cardinality(IdsOf(B, a)) + One(u.live) = Cardinality(IdsOf(A, a)) + One(v.live)
      /\ u.live => Cardinality(IdsOf(A, a)) >= 1
  <2>1. IdsOf(A, a) \in SUBSET Ids /\ IdsOf(B, a) \in SUBSET Ids BY DEF IdsOf
  <2>2. \A j \in Ids : j # i => (j \in IdsOf(A, a) <=> j \in IdsOf(B, a))
    BY <1>1 DEF IdsOf
  <2>3. (i \in IdsOf(A, a) <=> u.live) /\ (i \in IdsOf(B, a) <=> v.live)
    BY <1>4 DEF IdsOf
  <2>4. /\ Cardinality(IdsOf(A, a)) \in Nat
        /\ Cardinality(IdsOf(B, a)) + One(i \in IdsOf(A, a))
             = Cardinality(IdsOf(A, a)) + One(i \in IdsOf(B, a))
        /\ i \in IdsOf(A, a) => Cardinality(IdsOf(A, a)) >= 1
    BY <2>1, <2>2, PairsFinite, Toggle
  <2> QED BY <2>3, <2>4 DEF One
<1>7. \A b \in Authorities : b # a => IdsOf(B, b) = IdsOf(A, b)
  BY <1>1 DEF IdsOf
<1>8. \A j \in Ids : j # i => (j \in IdsOf(B, a) <=> j \in IdsOf(A, a))
  BY <1>1 DEF IdsOf
<1>9. ASSUME NEW m \in Modes
      PROVE  /\ Cardinality(MembersOf(A, m)) \in Nat
             /\ Cardinality(MembersOf(B, m)) \in Nat
             /\ Cardinality(MembersOf(B, m)) + One(u.live /\ InMode(u, m))
                  = Cardinality(MembersOf(A, m)) + One(v.live /\ InMode(v, m))
             /\ u.live /\ InMode(u, m) => Cardinality(MembersOf(A, m)) >= 1
  <2>1. MembersOf(A, m) \in SUBSET Pairs /\ MembersOf(B, m) \in SUBSET Pairs
    BY DEF MembersOf
  <2>2. \A y \in Pairs : y # x => (y \in MembersOf(A, m) <=> y \in MembersOf(B, m))
    BY <1>3 DEF MembersOf
  <2>3. /\ x \in MembersOf(A, m) <=> u.live /\ InMode(u, m)
        /\ x \in MembersOf(B, m) <=> v.live /\ InMode(v, m)
    BY <1>2, <1>4 DEF MembersOf
  <2>4. /\ Cardinality(MembersOf(A, m)) \in Nat /\ Cardinality(MembersOf(B, m)) \in Nat
        /\ Cardinality(MembersOf(B, m)) + One(x \in MembersOf(A, m))
             = Cardinality(MembersOf(A, m)) + One(x \in MembersOf(B, m))
        /\ x \in MembersOf(A, m) => Cardinality(MembersOf(A, m)) >= 1
    BY <1>2, <2>1, <2>2, PairsFinite, Toggle
  <2> QED BY <2>3, <2>4 DEF One
<1> QED BY <1>5, <1>6, <1>7, <1>8, <1>9 DEF B
-----------------------------------------------------------------------------
(* What the invariant says of one account.                                 *)

LEMMA LiveTypes ==
  /\ \A v \in UserType : v.live = TRUE /\ v \in Slot
  /\ Closed \in Slot /\ Closed.live = FALSE
  /\ \A v \in Slot : v.live => v \in UserType
<1>1. \A v \in UserType : v.live = TRUE BY DEF UserType
<1>2. Closed.live = FALSE BY DEF Closed
<1> QED BY <1>1, <1>2 DEF Slot

LEMMA StatsTypes ==
  /\ \A s \in StatsType : s.live = TRUE
  /\ NoStats.live = FALSE
  /\ \A s \in StatsType \cup {NoStats} : s.live => s \in StatsType
<1>1. \A s \in StatsType : s.live = TRUE BY DEF StatsType
<1>2. NoStats.live = FALSE BY DEF NoStats
<1> QED BY <1>1, <1>2

LEMMA OpenTypes ==
  ASSUME IInv, NEW k \in Opened
  PROVE  /\ k[1] \in Authorities /\ k[2] \in Ids
         /\ account[k[1]][k[2]] \in UserType /\ account[k[1]][k[2]].live
         /\ stats[k[1]].live /\ stats[k[1]] \in StatsType
<1>1. /\ k \in Pairs /\ account[k[1]][k[2]].live
      /\ k[1] \in Authorities /\ k[2] \in Ids
  BY PairIn DEF Opened, Pairs
<1>2. account[k[1]][k[2]] \in Slot BY <1>1 DEF IInv, Typed
<1>3. k[2] \in IdsOf(account, k[1]) BY <1>1 DEF IdsOf
<1>4. stats[k[1]].live BY <1>1, <1>3 DEF IInv, Counted
<1>5. stats[k[1]] \in StatsType BY <1>1, <1>4, StatsTypes DEF IInv, Typed
<1> QED BY <1>1, <1>2, <1>4, <1>5, LiveTypes

LEMMA ZeroIn == ASSUME NEW i \in Ids PROVE 0 \in Ids
BY AccountsAssumption DEF Ids

(* The accounts that are not written stay as they are.                     *)
LEMMA OthersHarmless ==
  ASSUME IInv, NEW a \in Authorities, NEW i \in Ids, NEW v \in Slot,
         account' = Written(account, a, i, v),
         account[a][i].live => Harmless(account[a][i], v, price)
  PROVE  \A k \in Opened : Harmless(account[k[1]][k[2]], account'[k[1]][k[2]], price)
<1> SUFFICES ASSUME NEW k \in Opened
             PROVE  Harmless(account[k[1]][k[2]], account'[k[1]][k[2]], price)
  OBVIOUS
<1>1. k[1] \in Authorities /\ k[2] \in Ids /\ account[k[1]][k[2]].live
  BY OpenTypes
<1>2. account \in [Authorities -> [Ids -> Slot]] BY DEF IInv, Typed
<1>3. account'[k[1]][k[2]] = IF k[1] = a /\ k[2] = i THEN v ELSE account[k[1]][k[2]]
  BY <1>1, <1>2 DEF Written
<1>4. CASE k[1] = a /\ k[2] = i BY <1>1, <1>3, <1>4
<1>5. CASE ~(k[1] = a /\ k[2] = i)
  <2>1. account'[k[1]][k[2]] = account[k[1]][k[2]] BY <1>3, <1>5
  <2> QED BY <2>1 DEF Harmless
<1> QED BY <1>4, <1>5

(* An open account is written, and the configs follow its modes.           *)
LEMMA WriteGood ==
  ASSUME IInv, NEW a \in Authorities, NEW i \in Ids, account[a][i].live,
         NEW v \in UserType, account' = Written(account, a, i, v),
         stats' = stats, state' = state, lost' = lost,
         config' \in [Modes -> [max : Nat, current : Nat, reduceOnly : BOOLEAN]],
         \A m \in Modes :
           /\ config'[m].current + One(InMode(account[a][i], m))
                = config[m].current + One(InMode(v, m))
           /\ Valid(config'[m]),
         price' \in Prices, slot' \in Nat, ops' \in Nat,
         Harmless(account[a][i], v, price)
  PROVE  StepGood
<1> DEFINE u == account[a][i]
           B == Written(account, a, i, v)
<1>1. v \in Slot /\ v.live = TRUE BY LiveTypes
<1>2. account \in [Authorities -> [Ids -> Slot]] BY DEF IInv, Typed
<1>3. /\ Cardinality(OpenOf(B)) + One(u.live) = Cardinality(OpenOf(account)) + One(v.live)
      /\ Cardinality(OpenOf(account)) \in Nat /\ Cardinality(OpenOf(B)) \in Nat
  BY <1>1, <1>2, WrittenCounts, ZenonT(60)
<1>4. \A m \in Modes :
        /\ Cardinality(MembersOf(account, m)) \in Nat
        /\ Cardinality(MembersOf(B, m)) \in Nat
        /\ Cardinality(MembersOf(B, m)) + One(u.live /\ InMode(u, m))
             = Cardinality(MembersOf(account, m)) + One(v.live /\ InMode(v, m))
  BY <1>1, <1>2, WrittenCounts
<1>5. /\ B \in [Authorities -> [Ids -> Slot]]
      /\ \A b \in Authorities, j \in Ids :
           B[b][j] = IF b = a /\ j = i THEN v ELSE account[b][j]
  BY <1>1, <1>2 DEF Written
<1> HIDE DEF B
<1>6. account' = B BY DEF B
<1>7. \A b \in Authorities : IdsOf(B, b) = IdsOf(account, b)
  BY <1>1, <1>5 DEF IdsOf
<1>8. Counted(B, stats, state)
  <2> DEFINE x == One(u.live)  y == One(v.live)
             p == Cardinality(OpenOf(account))  q == Cardinality(OpenOf(B))
  <2>1. x = 1 /\ y = 1 BY <1>1 DEF One
  <2>3. q + x = p + y /\ p \in Nat /\ q \in Nat BY <1>3
  <2> HIDE DEF x, y, p, q
  <2>4. q = p BY <2>1, <2>3
  <2>2. Cardinality(OpenOf(B)) = Cardinality(OpenOf(account)) BY <2>4 DEF p, q
  <2> QED BY <1>7, <2>2 DEF IInv, Counted
<1>9. Placed(B, config', lost)
  <2> SUFFICES ASSUME NEW m \in Modes
               PROVE  config'[m].current = Cardinality(MembersOf(B, m)) + lost[m]
    BY DEF Placed
  <2> DEFINE c == config[m].current  d == config'[m].current
             p == Cardinality(MembersOf(account, m))  q == Cardinality(MembersOf(B, m))
             x == One(InMode(u, m))  y == One(InMode(v, m))  n == lost[m]
  <2>1. c \in Nat /\ d \in Nat /\ p \in Nat /\ q \in Nat /\ n \in Nat
    BY <1>4 DEF IInv, Typed
  <2>2. x \in Nat /\ y \in Nat BY DEF One
  <2>3. c = p + n BY DEF IInv, Placed
  <2>4. d + x = c + y OBVIOUS
  <2>5. q + x = p + y
    <3>1. One(u.live /\ InMode(u, m)) = x /\ One(v.live /\ InMode(v, m)) = y
      BY <1>1 DEF One
    <3> QED BY <1>4, <3>1
  <2> HIDE DEF c, d, p, q, x, y, n
  <2>6. d = q + n BY <2>1, <2>2, <2>3, <2>4, <2>5
  <2> QED BY <2>6 DEF d, q, n
<1>10. Referred(B, stats)
  <2> SUFFICES ASSUME NEW b \in Authorities, stats[b].live, NEW r \in stats[b].referrer
               PROVE  stats[r].live /\ stats[r].isReferrer /\ B[r][0].live
    BY DEF Referred
  <2>1. stats[r].live /\ stats[r].isReferrer /\ account[r][0].live
    BY DEF IInv, Referred
  <2>2. stats[b] \in StatsType BY StatsTypes DEF IInv, Typed
  <2>3. r \in Authorities BY <2>2 DEF StatsType
  <2>4. 0 \in Ids BY ZeroIn
  <2> QED BY <1>1, <1>5, <2>1, <2>3, <2>4
<1>11. Typed'
  BY <1>5, <1>6 DEF IInv, Typed
<1>12. IInv'
  BY <1>6, <1>8, <1>9, <1>10, <1>11 DEF IInv
<1> QED BY <1>1, <1>12, OthersHarmless DEF StepGood
-----------------------------------------------------------------------------
(* The instructions on one account.                                        *)

(* v is u with other amounts, orders, status or activity.                  *)
SameModes(u, v) == v \in UserType /\ v.mode = u.mode /\ v.maker = u.maker

LEMMA SameMembers ==
  ASSUME NEW u, NEW v, SameModes(u, v)
  PROVE  (\A m \in Modes : InMode(v, m) = InMode(u, m)) /\ \A p : Harmless(u, v, p)
<1>1. \A m \in Modes : InMode(v, m) = InMode(u, m) BY DEF SameModes, InMode
<1>2. ~(u.mode = "HighLeverage" /\ v.mode = "Default") BY DEF SameModes
<1> QED BY <1>1, <1>2 DEF Harmless

LEMMA InstructionTypes ==
  ASSUME IInv, Instruction
  PROVE  price' \in Prices /\ slot' \in Nat /\ ops' \in Nat
BY DEF Instruction, IInv, Typed

LEMMA ConfigTypes ==
  ASSUME IInv
  PROVE  /\ config \in [Modes -> [max : Nat, current : Nat, reduceOnly : BOOLEAN]]
         /\ \A m \in Modes : /\ config[m].current \in Nat /\ config[m].max \in Nat
                             /\ Valid(config[m])
BY DEF IInv, Typed, Placed

LEMMA ChangesGood ==
  ASSUME IInv, NEW k \in Opened, NEW v, SameModes(account[k[1]][k[2]], v),
         Changes(k[1], k[2], v)
  PROVE  StepGood
<1> DEFINE a == k[1]  i == k[2]  u == account[a][i]
<1>1. a \in Authorities /\ i \in Ids /\ u.live BY OpenTypes
<1>2. /\ account' = Written(account, a, i, v)
      /\ stats' = stats /\ state' = state /\ lost' = lost /\ config' = config
      /\ price' \in Prices /\ slot' \in Nat /\ ops' \in Nat
  BY InstructionTypes DEF Changes, SetUser, Written
<1>3. v \in UserType BY DEF SameModes
<1>4. /\ \A m \in Modes : InMode(v, m) = InMode(u, m)
      /\ Harmless(u, v, price)
  BY SameMembers
<1> HIDE DEF a, i, u
<1>5. \A m \in Modes : One(InMode(v, m)) = One(InMode(u, m)) BY <1>4 DEF One
<1>6. \A m \in Modes : config'[m].current + One(InMode(u, m))
                         = config[m].current + One(InMode(v, m))
  BY <1>2, <1>5
<1> QED BY <1>1, <1>2, <1>3, <1>4, <1>6, ConfigTypes, WriteGood DEF u

LEMMA TouchedSame ==
  ASSUME IInv, NEW u \in UserType PROVE SameModes(u, Touched(u))
<1>1. slot \in Nat BY DEF IInv, Typed
<1> QED BY <1>1 DEF SameModes, Touched, UserType

LEMMA SameModesChain ==
  ASSUME NEW u, NEW v, NEW w, SameModes(u, v), SameModes(v, w)
  PROVE  SameModes(u, w)
BY DEF SameModes

LEMMA TouchedAfter ==
  ASSUME IInv, NEW u, NEW v, SameModes(u, v) PROVE SameModes(u, Touched(v))
<1>1. v \in UserType BY DEF SameModes
<1> QED BY <1>1, TouchedSame, SameModesChain

(* Numbers that stand in an account.                                       *)
LEMMA UserNumbers ==
  ASSUME IInv, NEW u \in UserType
  PROVE  /\ u.tokens \in Int /\ u.base \in Nat /\ u.quote \in Int /\ u.orders \in Nat
         /\ price \in Nat /\ u.base * price \in Int /\ u.orders * price \in Int
         /\ Equity(u, price) \in Int
<1>1. u.tokens \in Int /\ u.base \in Nat /\ u.quote \in Int /\ u.orders \in Nat
  BY DEF UserType
<1>2. price \in Nat BY AccountsAssumption DEF IInv, Typed
<1> DEFINE t == u.tokens  b == u.base  q == u.quote  n == u.orders
           x == b * price  y == n * price
<1>3. t \in Int /\ b \in Nat /\ q \in Int /\ n \in Nat BY <1>1
<1> HIDE DEF t, b, q, n
<1>4. x \in Int /\ y \in Int BY <1>2, <1>3
<1> HIDE DEF x, y
<1>5. t + q + x \in Int BY <1>3, <1>4
<1>6. t + q + x = Equity(u, price) BY DEF t, q, x, b, Equity
<1> QED BY <1>1, <1>2, <1>4, <1>5, <1>6 DEF x, y, b, n

LEMMA TokensSet ==
  ASSUME NEW u \in UserType, NEW n \in Int
  PROVE  SameModes(u, [u EXCEPT !.tokens = n])
BY DEF SameModes, UserType

LEMMA OrdersSet ==
  ASSUME NEW u \in UserType, NEW n \in Nat
  PROVE  SameModes(u, [u EXCEPT !.orders = n])
BY DEF SameModes, UserType

LEMMA StatusSetTo ==
  ASSUME NEW u \in UserType, NEW s \in {"Active", "BeingLiquidated", "Bankrupt"}
  PROVE  SameModes(u, [u EXCEPT !.status = s])
BY DEF SameModes, UserType

LEMMA BaseSet ==
  ASSUME NEW u \in UserType, NEW n \in Nat PROVE SameModes(u, [u EXCEPT !.base = n])
BY DEF SameModes, UserType

LEMMA QuoteSet ==
  ASSUME NEW u \in UserType, NEW n \in Int PROVE SameModes(u, [u EXCEPT !.quote = n])
BY DEF SameModes, UserType

LEMMA FlatSame ==
  ASSUME IInv, NEW u \in UserType PROVE SameModes(u, Flat(u))
<1> DEFINE n == Equity(u, price)
<1>1. n \in Int BY UserNumbers
<1> DEFINE b == [u EXCEPT !.base = 0]
           v == [b EXCEPT !.quote = 0]
           w == [v EXCEPT !.orders = 0]
<1>2. SameModes(u, v)
  <2>1. SameModes(u, b) BY BaseSet
  <2> HIDE DEF b
  <2>2. SameModes(b, v) BY <2>1, QuoteSet DEF SameModes
  <2> QED BY <2>1, <2>2, SameModesChain
<1>3. Flat(u) = [w EXCEPT !.tokens = n] BY DEF Flat, UserType
<1> HIDE DEF n, b, v
<1>4. SameModes(v, w) BY <1>2, OrdersSet DEF SameModes
<1> HIDE DEF w
<1>5. SameModes(w, [w EXCEPT !.tokens = n]) BY <1>1, <1>4, TokensSet DEF SameModes
<1> QED BY <1>2, <1>3, <1>4, <1>5, SameModesChain

LEMMA DepositGood ==
  ASSUME IInv, NEW k \in Opened, NEW n \in Amounts, Deposit(k[1], k[2], n)
  PROVE  StepGood
<1> DEFINE u == account[k[1]][k[2]]  v == [u EXCEPT !.tokens = @ + n]
<1>1. u \in UserType BY OpenTypes
<1>2. u.tokens + n \in Int BY <1>1, UserNumbers, AccountsAssumption
<1>3. SameModes(u, v) BY <1>1, <1>2, TokensSet
<1>4. Changes(k[1], k[2], Touched(v)) BY DEF Deposit
<1> HIDE DEF u, v
<1>5. SameModes(u, Touched(v)) BY <1>3, TouchedAfter
<1> QED BY <1>4, <1>5, ChangesGood DEF u

LEMMA WithdrawGood ==
  ASSUME IInv, NEW k \in Opened, NEW n \in Amounts, Withdraw(k[1], k[2], n)
  PROVE  StepGood
<1> DEFINE u == account[k[1]][k[2]]  v == [u EXCEPT !.tokens = @ - n]
<1>1. u \in UserType BY OpenTypes
<1>2. u.tokens - n \in Int BY <1>1, UserNumbers, AccountsAssumption
<1>3. SameModes(u, v) BY <1>1, <1>2, TokensSet
<1>4. Changes(k[1], k[2], Touched(v)) BY DEF Withdraw
<1> HIDE DEF u, v
<1>5. SameModes(u, Touched(v)) BY <1>3, TouchedAfter
<1> QED BY <1>4, <1>5, ChangesGood DEF u

LEMMA FillGood ==
  ASSUME IInv, NEW k \in Opened, FillOrder(k[1], k[2]) PROVE StepGood
<1> DEFINE u == account[k[1]][k[2]]
           n == u.base + u.orders
           q == u.quote - u.orders * price
           b == [u EXCEPT !.orders = 0]
           c == [b EXCEPT !.base = n]
           v == [c EXCEPT !.quote = q]
           w == [u EXCEPT !.orders = 0, !.base = @ + u.orders,
                          !.quote = @ - u.orders * price]
<1>1. u \in UserType BY OpenTypes
<1>2. Changes(k[1], k[2], Touched(w)) BY DEF FillOrder
<1> HIDE DEF u
<1>3. n \in Nat /\ q \in Int BY <1>1, UserNumbers
<1>4. w = v BY <1>1 DEF UserType
<1> HIDE DEF n, q, w
<1>5. SameModes(u, b) BY <1>1, OrdersSet
<1> HIDE DEF b
<1>6. SameModes(b, c) BY <1>3, <1>5, BaseSet DEF SameModes
<1> HIDE DEF c
<1>7. SameModes(c, v) BY <1>3, <1>6, QuoteSet DEF SameModes
<1> HIDE DEF v
<1>8. SameModes(u, w) BY <1>4, <1>5, <1>6, <1>7, SameModesChain
<1>9. SameModes(u, Touched(w)) BY <1>8, TouchedAfter
<1> QED BY <1>2, <1>9, ChangesGood DEF u

LEMMA CancelGood ==
  ASSUME IInv, NEW k \in Opened, CancelOrder(k[1], k[2]) PROVE StepGood
<1> DEFINE u == account[k[1]][k[2]]  v == [u EXCEPT !.orders = 0]
<1>1. u \in UserType BY OpenTypes
<1>2. SameModes(u, v) BY <1>1, OrdersSet
<1>3. Changes(k[1], k[2], Touched(v)) BY DEF CancelOrder
<1> HIDE DEF u, v
<1>4. SameModes(u, Touched(v)) BY <1>2, TouchedAfter
<1> QED BY <1>3, <1>4, ChangesGood DEF u

LEMMA CloseGood ==
  ASSUME IInv, NEW k \in Opened, ClosePosition(k[1], k[2]) PROVE StepGood
<1> DEFINE u == account[k[1]][k[2]]
<1>1. u \in UserType BY OpenTypes
<1>2. Changes(k[1], k[2], Touched(Flat(u))) BY DEF ClosePosition
<1> HIDE DEF u
<1>3. SameModes(u, Touched(Flat(u))) BY <1>1, FlatSame, TouchedAfter
<1> QED BY <1>2, <1>3, ChangesGood DEF u

LEMMA EnterLiquidationGood ==
  ASSUME IInv, NEW k \in Opened, EnterLiquidation(k[1], k[2]) PROVE StepGood
<1> DEFINE u == account[k[1]][k[2]]
           b == [u EXCEPT !.status = "BeingLiquidated"]
           c == [b EXCEPT !.orders = 0]
           v == [c EXCEPT !.active = slot]
           w == [u EXCEPT !.status = "BeingLiquidated", !.active = slot, !.orders = 0]
<1>1. u \in UserType BY OpenTypes
<1>2. Changes(k[1], k[2], w) BY DEF EnterLiquidation
<1>3. slot \in Nat BY DEF IInv, Typed
<1> HIDE DEF u
<1>4. w = v BY <1>1 DEF UserType
<1>5. SameModes(u, b) BY <1>1, StatusSetTo
<1> HIDE DEF b, w
<1>6. SameModes(b, c) BY <1>5, OrdersSet DEF SameModes
<1> HIDE DEF c
<1>7. SameModes(c, v) BY <1>3, <1>6 DEF SameModes, UserType
<1> HIDE DEF v
<1>8. SameModes(u, w) BY <1>4, <1>5, <1>6, <1>7, SameModesChain
<1> QED BY <1>2, <1>8, ChangesGood DEF u

LEMMA EndLiquidationGood ==
  ASSUME IInv, NEW k \in Opened, EndLiquidation(k[1], k[2]) PROVE StepGood
<1> DEFINE u == account[k[1]][k[2]]
           v == Flat(u)
           s == IF v.tokens < 0 THEN "Bankrupt" ELSE "Active"
           x == [v EXCEPT !.status = s]
           b == [u EXCEPT !.status = "Active"]
           y == [b EXCEPT !.tokens = 0]
           z == [u EXCEPT !.status = "Active", !.tokens = 0]
<1>1. u \in UserType BY OpenTypes
<1>2. Changes(k[1], k[2], x) \/ Changes(k[1], k[2], z) BY DEF EndLiquidation
<1>3. s \in {"Active", "BeingLiquidated", "Bankrupt"} OBVIOUS
<1> HIDE DEF u, s
<1>4. SameModes(u, v) BY <1>1, FlatSame
<1> HIDE DEF v
<1>5. SameModes(v, x) BY <1>3, <1>4, StatusSetTo DEF SameModes
<1> HIDE DEF x
<1>6. SameModes(u, x) BY <1>4, <1>5, SameModesChain
<1>7. z = y BY <1>1 DEF UserType
<1> HIDE DEF z
<1>8. SameModes(u, b) BY <1>1, StatusSetTo
<1> HIDE DEF b
<1>9. SameModes(b, y) BY <1>8, TokensSet DEF SameModes
<1> HIDE DEF y
<1>10. SameModes(u, z) BY <1>7, <1>8, <1>9, SameModesChain
<1> QED BY <1>2, <1>6, <1>10, ChangesGood DEF u

LEMMA ReclaimGood ==
  ASSUME IInv, NEW k \in Opened, ReclaimRent(k[1], k[2]) PROVE StepGood
<1> DEFINE u == account[k[1]][k[2]]  v == [u EXCEPT !.fee = 0]
<1>1. u \in UserType BY OpenTypes
<1>2. Changes(k[1], k[2], v) BY DEF ReclaimRent
<1> HIDE DEF u
<1>3. SameModes(u, v) BY <1>1 DEF SameModes, UserType
<1> QED BY <1>2, <1>3, ChangesGood DEF u

LEMMA IdleGood ==
  ASSUME IInv, NEW k \in Opened, UpdateUserIdle(k[1], k[2]) PROVE StepGood
<1> DEFINE u == account[k[1]][k[2]]  v == [u EXCEPT !.idle = TRUE]
<1>1. u \in UserType BY OpenTypes
<1>2. Changes(k[1], k[2], v) BY DEF UpdateUserIdle
<1> HIDE DEF u
<1>3. SameModes(u, v) BY <1>1 DEF SameModes, UserType
<1> QED BY <1>2, <1>3, ChangesGood DEF u

LEMMA CustomGood ==
  ASSUME IInv, NEW k \in Opened, NEW r \in CustomRatios,
         UpdateUserCustomMarginRatio(k[1], k[2], r)
  PROVE  StepGood
<1> DEFINE u == account[k[1]][k[2]]  v == [u EXCEPT !.custom = r]
<1>1. u \in UserType /\ r \in Nat BY OpenTypes, AccountsAssumption
<1>2. Changes(k[1], k[2], v) BY DEF UpdateUserCustomMarginRatio
<1> HIDE DEF u
<1>3. SameModes(u, v) BY <1>1 DEF SameModes, UserType
<1> QED BY <1>2, <1>3, ChangesGood DEF u
-----------------------------------------------------------------------------
(* The modes.                                                              *)

LEMMA JoinGood ==
  ASSUME IInv, Instruction, NEW k \in Opened, NEW v \in UserType, NEW m \in Modes,
         account' = Written(account, k[1], k[2], v),
         ~InMode(account[k[1]][k[2]], m), InMode(v, m),
         \A n \in Modes : n # m => InMode(v, n) = InMode(account[k[1]][k[2]], n),
         MayJoin(config[m]), config' = [config EXCEPT ![m] = Joined(config[m])],
         stats' = stats, state' = state, lost' = lost,
         Harmless(account[k[1]][k[2]], v, price)
  PROVE  StepGood
<1> DEFINE a == k[1]  i == k[2]  u == account[a][i]  c == config[m]  d == Joined(c)
<1>1. a \in Authorities /\ i \in Ids /\ u.live BY OpenTypes
<1>2. c \in [max : Nat, current : Nat, reduceOnly : BOOLEAN] BY ConfigTypes
<1>3. /\ d \in [max : Nat, current : Nat, reduceOnly : BOOLEAN]
      /\ d.current = c.current + 1
  <2> HIDE DEF c
  <2> QED BY <1>2 DEF Joined
<1>4. Valid(d) BY DEF MayJoin
<1>5. \A n \in Modes : config'[n] = IF n = m THEN d ELSE config[n] BY ConfigTypes
<1>6. config' \in [Modes -> [max : Nat, current : Nat, reduceOnly : BOOLEAN]]
  BY <1>3, ConfigTypes
<1> HIDE DEF a, i, u, d, c
<1>7. ASSUME NEW n \in Modes
      PROVE  /\ config'[n].current + One(InMode(u, n))
                  = config[n].current + One(InMode(v, n))
             /\ Valid(config'[n])
  <2>1. CASE n = m
    <3>1. One(InMode(u, n)) = 0 /\ One(InMode(v, n)) = 1 BY <2>1 DEF One, u, a, i
    <3>2. config'[n].current = c.current + 1 /\ config[n].current = c.current
          /\ c.current \in Nat
      BY <1>2, <1>3, <1>5, <2>1 DEF c
    <3> DEFINE x == One(InMode(u, n))  y == One(InMode(v, n))
    <3> HIDE DEF x, y
    <3>3. config'[n].current + x = config[n].current + y BY <3>1, <3>2 DEF x, y
    <3> QED BY <1>4, <1>5, <2>1, <3>3 DEF x, y
  <2>2. CASE n # m
    <3>1. One(InMode(u, n)) = One(InMode(v, n)) BY <2>2 DEF One, u, a, i
    <3>2. config'[n] = config[n] BY <1>5, <2>2
    <3> QED BY <3>1, <3>2, ConfigTypes
  <2> QED BY <2>1, <2>2
<1> QED BY <1>1, <1>6, <1>7, InstructionTypes, WriteGood DEF a, i, u

LEMMA LeaveGood ==
  ASSUME IInv, Instruction, NEW k \in Opened, NEW v \in UserType, NEW m \in Modes,
         account' = Written(account, k[1], k[2], v),
         InMode(account[k[1]][k[2]], m), ~InMode(v, m),
         \A n \in Modes : n # m => InMode(v, n) = InMode(account[k[1]][k[2]], n),
         MayLeave(config[m]), config' = [config EXCEPT ![m] = Left(config[m])],
         stats' = stats, state' = state, lost' = lost,
         Harmless(account[k[1]][k[2]], v, price)
  PROVE  StepGood
<1> DEFINE a == k[1]  i == k[2]  u == account[a][i]  c == config[m]  d == Left(c)
<1>1. a \in Authorities /\ i \in Ids /\ u.live BY OpenTypes
<1>2. c \in [max : Nat, current : Nat, reduceOnly : BOOLEAN] /\ c.current > 0
  BY ConfigTypes DEF MayLeave
<1>3. /\ d \in [max : Nat, current : Nat, reduceOnly : BOOLEAN]
      /\ d.current = c.current - 1
  <2> HIDE DEF c
  <2> QED BY <1>2 DEF Left
<1>4. Valid(d) BY DEF MayLeave
<1>5. \A n \in Modes : config'[n] = IF n = m THEN d ELSE config[n] BY ConfigTypes
<1>6. config' \in [Modes -> [max : Nat, current : Nat, reduceOnly : BOOLEAN]]
  BY <1>3, ConfigTypes
<1> HIDE DEF a, i, u, d, c
<1>7. ASSUME NEW n \in Modes
      PROVE  /\ config'[n].current + One(InMode(u, n))
                  = config[n].current + One(InMode(v, n))
             /\ Valid(config'[n])
  <2>1. CASE n = m
    <3>1. One(InMode(u, n)) = 1 /\ One(InMode(v, n)) = 0 BY <2>1 DEF One, u, a, i
    <3>2. config'[n].current = c.current - 1 /\ config[n].current = c.current
          /\ c.current \in Nat
      BY <1>2, <1>3, <1>5, <2>1 DEF c
    <3> DEFINE x == One(InMode(u, n))  y == One(InMode(v, n))
    <3> HIDE DEF x, y
    <3>3. config'[n].current + x = config[n].current + y BY <3>1, <3>2 DEF x, y
    <3> QED BY <1>4, <1>5, <2>1, <3>3 DEF x, y
  <2>2. CASE n # m
    <3>1. One(InMode(u, n)) = One(InMode(v, n)) BY <2>2 DEF One, u, a, i
    <3>2. config'[n] = config[n] BY <1>5, <2>2
    <3> QED BY <3>1, <3>2, ConfigTypes
  <2> QED BY <2>1, <2>2
<1> QED BY <1>1, <1>6, <1>7, InstructionTypes, WriteGood DEF a, i, u

LEMMA ModeSet ==
  ASSUME NEW u \in UserType, NEW s \in MarginModes
  PROVE  LET v == [u EXCEPT !.mode = s]
         IN  /\ v \in UserType /\ v.mode = s /\ v.maker = u.maker
             /\ v.tokens = u.tokens /\ v.base = u.base /\ v.quote = u.quote
             /\ v.orders = u.orders /\ v.custom = u.custom
BY DEF UserType

LEMMA EnableGood ==
  ASSUME IInv, NEW k \in Opened, EnableHighLeverage(k[1], k[2]) PROVE StepGood
<1> DEFINE u == account[k[1]][k[2]]  v == [u EXCEPT !.mode = "HighLeverage"]
<1>1. u \in UserType BY OpenTypes
<1>2. /\ Instruction /\ u.mode # "HighLeverage" /\ MayJoin(config["high"])
      /\ config' = [config EXCEPT !["high"] = Joined(config["high"])]
      /\ account' = Written(account, k[1], k[2], v)
      /\ stats' = stats /\ state' = state /\ lost' = lost
  BY DEF EnableHighLeverage, SetConfig, SetUser, Written
<1> HIDE DEF u
<1>3. v \in UserType /\ v.mode = "HighLeverage" /\ v.maker = u.maker
  BY <1>1, ModeSet DEF MarginModes
<1> HIDE DEF v
<1>4. /\ "high" \in Modes /\ ~InMode(u, "high") /\ InMode(v, "high")
      /\ \A n \in Modes : n # "high" => InMode(v, n) = InMode(u, n)
  BY <1>2, <1>3 DEF InMode, Modes
<1>5. Harmless(u, v, price) BY <1>2 DEF Harmless
<1> QED BY <1>2, <1>3, <1>4, <1>5, JoinGood DEF u

LEMMA ProtectedGood ==
  ASSUME IInv, NEW k \in Opened, NEW on \in BOOLEAN,
         UpdateProtectedMaker(k[1], k[2], on)
  PROVE  StepGood
<1> DEFINE u == account[k[1]][k[2]]  v == [u EXCEPT !.maker = on]
           c == config["maker"]
<1>1. u \in UserType BY OpenTypes
<1>2. /\ Instruction /\ u.maker # on
      /\ IF on THEN MayJoin(c) ELSE MayLeave(c)
      /\ config' = [config EXCEPT !["maker"] = IF on THEN Joined(c) ELSE Left(c)]
      /\ account' = Written(account, k[1], k[2], v)
      /\ stats' = stats /\ state' = state /\ lost' = lost
  BY DEF UpdateProtectedMaker, SetConfig, SetUser, Written
<1> HIDE DEF u
<1>3. v \in UserType /\ v.mode = u.mode /\ v.maker = on BY <1>1 DEF UserType
<1>4. u.maker \in BOOLEAN BY <1>1 DEF UserType
<1> HIDE DEF v
<1>5. "maker" \in Modes /\ \A n \in Modes : n # "maker" => InMode(v, n) = InMode(u, n)
  BY <1>3 DEF InMode, Modes
<1>6. Harmless(u, v, price) BY <1>3 DEF Harmless
<1>7. CASE on
  <2>1. ~InMode(u, "maker") /\ InMode(v, "maker")
    BY <1>2, <1>3, <1>4, <1>7 DEF InMode
  <2>2. MayJoin(config["maker"])
        /\ config' = [config EXCEPT !["maker"] = Joined(config["maker"])]
    BY <1>2, <1>7
  <2> QED BY <1>2, <1>3, <1>5, <1>6, <2>1, <2>2, JoinGood DEF u
<1>8. CASE ~on
  <2>1. InMode(u, "maker") /\ ~InMode(v, "maker")
    BY <1>2, <1>3, <1>4, <1>8 DEF InMode
  <2>2. MayLeave(config["maker"])
        /\ config' = [config EXCEPT !["maker"] = Left(config["maker"])]
    BY <1>2, <1>8
  <2> QED BY <1>2, <1>3, <1>5, <1>6, <2>1, <2>2, LeaveGood DEF u
<1> QED BY <1>7, <1>8

LEMMA ProductOrder ==
  ASSUME NEW z \in Nat, NEW x \in Nat, NEW y \in Nat, x <= y
  PROVE  z * x \in Nat /\ z * y \in Nat /\ z * x <= z * y
<1>1. z * x \in Nat /\ z * (y - x) \in Nat /\ y = x + (y - x) /\ y - x \in Nat OBVIOUS
<1>2. z * (x + (y - x)) = z * x + z * (y - x) BY <1>1
<1> DEFINE p == z * x  q == z * (y - x)  r == z * y
<1>3. r = p + q /\ p \in Nat /\ q \in Nat BY <1>1, <1>2
<1> HIDE DEF p, q, r
<1>4. p <= r /\ r \in Nat BY <1>3
<1> QED BY <1>3, <1>4 DEF p, r

(* What MayDisable asks is more than the maintenance margin outside of the *)
(* mode, also with an owner's own ratio, which maintenance leaves out.     *)
LEMMA DisabledMeets ==
  ASSUME IInv, NEW u \in UserType, MayDisable(u), Meets(u, price, "Maintenance")
  PROVE  Meets([u EXCEPT !.mode = "Default"], price, "Maintenance")
<1> DEFINE v == [u EXCEPT !.mode = "Default"]
           w == [u EXCEPT !.mode = "Default", !.custom = 0]
           e == Equity(u, price) * Scale
           n == u.base + u.orders
           z == n * price
           ri == Ratio["Default"]["Initial"]
           rm == Ratio["Default"]["Maintenance"]
           rh == Ratio[u.mode]["Maintenance"]
<1>1. /\ v.tokens = u.tokens /\ v.base = u.base /\ v.quote = u.quote
      /\ v.orders = u.orders /\ v.mode = "Default"
  BY DEF UserType
<1>2. /\ w.tokens = u.tokens /\ w.base = u.base /\ w.quote = u.quote
      /\ w.orders = u.orders /\ w.mode = "Default" /\ w.custom = 0
  BY DEF UserType
<1>3. u.base \in Nat /\ u.orders \in Nat /\ price \in Nat /\ Equity(u, price) \in Int
  BY UserNumbers
<1>4. u.mode \in MarginModes BY DEF UserType
<1>5. ri \in Nat /\ rm \in Nat /\ rh \in Nat /\ rm <= ri /\ Scale \in Nat
      /\ DisableBuffer \in Nat
  BY <1>4, AccountsAssumption DEF MarginModes, Types
<1>6. n \in Nat /\ z \in Nat /\ e \in Int BY <1>3, <1>5
<1>7. e >= z * (rh + 0) BY DEF Meets, MeetsWithBuffer, MarginRatio
<1>8. n # 0 => e >= z * (Larger(0, ri) + DisableBuffer)
  <2>1. Equity(w, price) = Equity(u, price) BY <1>2 DEF Equity
  <2>2. n # 0 => MeetsWithBuffer(w, price, "Initial", DisableBuffer)
    BY DEF MayDisable
  <2> HIDE DEF w
  <2> QED BY <1>2, <2>1, <2>2 DEF MeetsWithBuffer, MarginRatio
<1>9. Larger(0, ri) = ri BY <1>5 DEF Larger
<1>10. Equity(v, price) = Equity(u, price) BY <1>1 DEF Equity
<1>11. Meets(v, price, "Maintenance") <=> e >= z * (rm + 0)
  <2> HIDE DEF v
  <2> QED BY <1>1, <1>10 DEF Meets, MeetsWithBuffer, MarginRatio
<1>12. n = 0 => z = 0 BY <1>3
<1> DEFINE b == DisableBuffer
<1> HIDE DEF v, w, e, n, z, ri, rm, rh, b
<1>13. e >= z * (rm + 0)
  <2>1. CASE n = 0
    <3>1. z * (rm + 0) = 0 /\ z * (rh + 0) = 0 BY <1>5, <1>12, <2>1
    <3> QED BY <1>7, <3>1
  <2>2. CASE n # 0
    <3>1. e >= z * (ri + b) BY <1>8, <1>9, <2>2 DEF b
    <3>2. b \in Nat BY <1>5 DEF b
    <3> DEFINE x == rm + 0  y == ri + b
    <3>3. x \in Nat /\ y \in Nat /\ x <= y BY <1>5, <3>2
    <3> HIDE DEF x, y
    <3>4. z * x \in Nat /\ z * y \in Nat /\ z * x <= z * y
      BY <1>6, <3>3, ProductOrder
    <3>5. e >= z * y BY <3>1 DEF y
    <3> DEFINE p == z * x  q == z * y
    <3> HIDE DEF p, q
    <3>6. p \in Nat /\ q \in Nat /\ p <= q /\ e >= q BY <3>4, <3>5 DEF p, q
    <3>7. e >= p BY <1>6, <3>6
    <3> QED BY <3>7 DEF p, x
  <2> QED BY <2>1, <2>2
<1> QED BY <1>11, <1>13 DEF v

LEMMA DisableGood ==
  ASSUME IInv, NEW k \in Opened, NEW b \in BOOLEAN,
         DisableHighLeverage(k[1], k[2], b)
  PROVE  StepGood
<1> DEFINE u == account[k[1]][k[2]]  v == [u EXCEPT !.mode = "Default"]
<1>1. u \in UserType BY OpenTypes
<1>2. /\ Instruction /\ u.mode = "HighLeverage" /\ MayLeave(config["high"])
      /\ MayDisable(u)
      /\ config' = [config EXCEPT !["high"] = Left(config["high"])]
      /\ account' = Written(account, k[1], k[2], v)
      /\ stats' = stats /\ state' = state /\ lost' = lost
  BY DEF DisableHighLeverage, SetConfig, SetUser, Written
<1> HIDE DEF u
<1>3. Harmless(u, v, price) BY <1>1, <1>2, DisabledMeets DEF Harmless
<1>4. v \in UserType /\ v.mode = "Default" /\ v.maker = u.maker
  BY <1>1, ModeSet DEF MarginModes
<1> HIDE DEF v
<1>5. /\ "high" \in Modes /\ InMode(u, "high") /\ ~InMode(v, "high")
      /\ \A n \in Modes : n # "high" => InMode(v, n) = InMode(u, n)
  BY <1>2, <1>4 DEF InMode, Modes
<1> QED BY <1>2, <1>3, <1>4, <1>5, LeaveGood DEF u

LEMMA PlaceOrderGood ==
  ASSUME IInv, NEW k \in Opened, NEW n \in Steps, NEW high \in BOOLEAN,
         NEW max \in BOOLEAN, PlacePerpOrder(k[1], k[2], n, high, max)
  PROVE  StepGood
<1> DEFINE u == account[k[1]][k[2]]
           v == IF high THEN Promoted(u, max) ELSE u
           x == [v EXCEPT !.orders = n]
           w == Touched(x)
<1>1. u \in UserType BY OpenTypes
<1>2. /\ Instruction
      /\ u.mode # v.mode => MayJoin(config["high"])
      /\ IF u.mode # v.mode
           THEN config' = [config EXCEPT !["high"] = Joined(config["high"])]
           ELSE config' = config
      /\ account' = Written(account, k[1], k[2], w)
      /\ stats' = stats /\ state' = state /\ lost' = lost
  BY DEF PlacePerpOrder, SetConfig, SetUser, Written
<1> HIDE DEF u
<1>3. n \in Nat BY AccountsAssumption
<1>4. /\ v \in UserType /\ v.maker = u.maker
      /\ v.mode = u.mode \/ (v.mode = "HighLeverage" /\ u.mode # "HighLeverage")
  <2>1. v = u \/ (v = [u EXCEPT !.mode = "HighLeverage"] /\ u.mode # "HighLeverage")
    BY DEF Promoted
  <2> QED BY <1>1, <2>1, ModeSet DEF MarginModes
<1> HIDE DEF v
<1>5. SameModes(v, x) BY <1>3, <1>4, OrdersSet
<1> HIDE DEF x
<1>6. SameModes(v, w) BY <1>5, TouchedAfter
<1> HIDE DEF w
<1>7. w \in UserType /\ w.mode = v.mode /\ w.maker = v.maker BY <1>6 DEF SameModes
<1>8. CASE u.mode = v.mode
  <2>1. SameModes(u, w) BY <1>4, <1>7, <1>8 DEF SameModes
  <2>2. Changes(k[1], k[2], w) BY <1>2, <1>8 DEF Changes, SetUser, Written
  <2> QED BY <2>1, <2>2, ChangesGood DEF u
<1>9. CASE u.mode # v.mode
  <2>1. w.mode = "HighLeverage" /\ u.mode # "HighLeverage" /\ w.maker = u.maker
    BY <1>4, <1>7, <1>9
  <2>2. /\ "high" \in Modes /\ ~InMode(u, "high") /\ InMode(w, "high")
        /\ \A m \in Modes : m # "high" => InMode(w, m) = InMode(u, m)
    BY <2>1 DEF InMode, Modes
  <2>3. Harmless(u, w, price) BY <2>1 DEF Harmless
  <2> QED BY <1>2, <1>7, <1>9, <2>2, <2>3, JoinGood DEF u
<1> QED BY <1>8, <1>9
-----------------------------------------------------------------------------
(* Accounts come and go.                                                   *)

(* Hidden where counts are computed: the provers do not take a constant as *)
(* argument of One.                                                        *)
IsClosed(v) == v = Closed

(* Why a deletable account is nobody's referrer: Deletable's first line.   *)
LEMMA RemovedGood ==
  ASSUME IInv, Instruction, NEW a \in Authorities, NEW i \in Ids, NEW v \in Slot,
         account[a][i].live, IsClosed(v), stats[a].live, stats[a] \in StatsType,
         ~stats[a].isReferrer \/ i # 0, Removed(a, i)
  PROVE  StepGood
<1> DEFINE u == account[a][i]
           B == Written(account, a, i, v)
           S == [stats EXCEPT ![a].subAccounts = @ - 1]
           T == [state EXCEPT !.subAccounts = @ - 1]
           L == [m \in Modes |-> lost[m] + (IF InMode(u, m) THEN 1 ELSE 0)]
<1>1. /\ a \in Authorities /\ i \in Ids /\ u.live
      /\ stats[a].live /\ stats[a] \in StatsType
  OBVIOUS
<1>2. /\ account \in [Authorities -> [Ids -> Slot]]
      /\ stats \in [Authorities -> StatsType \cup {NoStats}]
      /\ state \in [authorities : Nat, subAccounts : Nat] /\ lost \in [Modes -> Nat]
  BY DEF IInv, Typed
<1>0. account \in [Authorities -> [Ids -> Slot]] BY <1>2
<1>3. /\ account' = B /\ stats' = S /\ state' = T /\ lost' = L /\ config' = config
  BY DEF Removed, SetUser, Written, IsClosed
<1>4. v \in Slot /\ v.live = FALSE BY LiveTypes DEF IsClosed
<1>5. /\ B \in [Authorities -> [Ids -> Slot]]
      /\ \A b \in Authorities, j \in Ids :
           B[b][j] = IF b = a /\ j = i THEN v ELSE account[b][j]
  BY <1>1, <1>2, <1>4 DEF Written
<1>6. /\ Cardinality(OpenOf(B)) + One(u.live)
           = Cardinality(OpenOf(account)) + One(v.live)
      /\ Cardinality(OpenOf(account)) \in Nat /\ Cardinality(OpenOf(B)) \in Nat
      /\ Cardinality(OpenOf(account)) >= 1
  <2>1. /\ Cardinality(OpenOf(B)) + One(u.live)
             = Cardinality(OpenOf(account)) + One(v.live)
        /\ Cardinality(OpenOf(account)) \in Nat /\ Cardinality(OpenOf(B)) \in Nat
    BY <1>0, WrittenCounts, ZenonT(60)
  <2>2. u.live => Cardinality(OpenOf(account)) >= 1
    BY <1>0, WrittenCounts
  <2> QED BY <1>1, <2>1, <2>2
<1>7. /\ Cardinality(IdsOf(B, a)) + One(u.live)
           = Cardinality(IdsOf(account, a)) + One(v.live)
      /\ Cardinality(IdsOf(account, a)) \in Nat /\ Cardinality(IdsOf(account, a)) >= 1
      /\ \A b \in Authorities : b # a => IdsOf(B, b) = IdsOf(account, b)
  <2>1. /\ Cardinality(IdsOf(B, a)) + One(u.live)
             = Cardinality(IdsOf(account, a)) + One(v.live)
        /\ Cardinality(IdsOf(account, a)) \in Nat
    BY <1>0, WrittenCounts, ZenonT(60)
  <2>2. u.live => Cardinality(IdsOf(account, a)) >= 1
    BY <1>0, WrittenCounts
  <2>3. \A b \in Authorities : b # a => IdsOf(B, b) = IdsOf(account, b)
    BY <1>0, WrittenCounts
  <2> QED BY <1>1, <2>1, <2>2, <2>3
<1>8. \A m \in Modes :
        /\ Cardinality(MembersOf(account, m)) \in Nat
        /\ Cardinality(MembersOf(B, m)) \in Nat
        /\ Cardinality(MembersOf(B, m)) + One(u.live /\ InMode(u, m))
             = Cardinality(MembersOf(account, m)) + One(v.live /\ InMode(v, m))
  BY <1>0, WrittenCounts, ZenonT(60)
<1>9. One(u.live) = 1 /\ One(v.live) = 0 BY <1>1, <1>4 DEF One
<1>10. /\ state.subAccounts = Cardinality(OpenOf(account))
       /\ stats[a].subAccounts = Cardinality(IdsOf(account, a))
       /\ \A j \in IdsOf(account, a) : j < stats[a].created
  BY <1>1 DEF IInv, Counted
<1> HIDE DEF B
<1>11. /\ T.subAccounts = state.subAccounts - 1 /\ T.authorities = state.authorities
       /\ T \in [authorities : Nat, subAccounts : Nat]
       /\ T.subAccounts = Cardinality(OpenOf(B))
  <2> DEFINE x == One(u.live)  y == One(v.live)
             p == Cardinality(OpenOf(account))  q == Cardinality(OpenOf(B))
  <2>1. q + x = p + y /\ p \in Nat /\ q \in Nat /\ p >= 1 /\ x = 1 /\ y = 0
    BY <1>6, <1>9
  <2> HIDE DEF x, y, p, q
  <2>2. p - 1 = q /\ p - 1 \in Nat BY <2>1
  <2>3. T.subAccounts = state.subAccounts - 1 /\ T.authorities = state.authorities
    BY <1>2
  <2>4. state.subAccounts - 1 = q /\ state.subAccounts - 1 \in Nat
    BY <1>10, <2>2 DEF p
  <2>5. T \in [authorities : Nat, subAccounts : Nat] BY <1>2, <2>4
  <2> QED BY <2>3, <2>4, <2>5 DEF q
<1>12. /\ stats[a].subAccounts - 1 = Cardinality(IdsOf(B, a))
       /\ stats[a].subAccounts - 1 \in Nat
  <2> DEFINE x == One(u.live)  y == One(v.live)
             p == Cardinality(IdsOf(account, a))  q == Cardinality(IdsOf(B, a))
  <2>1. q + x = p + y /\ p \in Nat /\ p >= 1 /\ x = 1 /\ y = 0
    BY <1>7, <1>9
  <2>2. q \in Nat
    <3>1. IdsOf(B, a) \in SUBSET Ids BY DEF IdsOf
    <3> QED BY <3>1, PairsFinite, FS_Subset, FS_CardinalityType
  <2> HIDE DEF x, y, p, q
  <2>3. p - 1 = q /\ p - 1 \in Nat BY <2>1, <2>2
  <2> QED BY <1>10, <2>3 DEF p, q
<1>13. /\ S \in [Authorities -> StatsType \cup {NoStats}]
       /\ \A b \in Authorities : b # a => S[b] = stats[b]
       /\ S[a].live = TRUE /\ S[a].created = stats[a].created
       /\ S[a].subAccounts = stats[a].subAccounts - 1
       /\ S[a].referrer = stats[a].referrer /\ S[a].isReferrer = stats[a].isReferrer
  <2> DEFINE s == stats[a]  t == [s EXCEPT !.subAccounts = @ - 1]
  <2>1. s.subAccounts - 1 \in Nat /\ s \in StatsType BY <1>1, <1>12
  <2>2. S = [stats EXCEPT ![a] = t] BY <1>1, <1>2
  <2> HIDE DEF s, S
  <2>3. /\ t \in StatsType /\ t.live = TRUE /\ t.created = s.created
        /\ t.subAccounts = s.subAccounts - 1
        /\ t.referrer = s.referrer /\ t.isReferrer = s.isReferrer
    BY <2>1 DEF StatsType
  <2> HIDE DEF t
  <2>4. S[a] = t /\ S \in [Authorities -> StatsType \cup {NoStats}]
        /\ \A b \in Authorities : b # a => S[b] = stats[b]
    BY <1>1, <1>2, <2>2, <2>3
  <2> QED BY <2>3, <2>4 DEF s
<1>14. \A m \in Modes : L[m] = lost[m] + One(InMode(u, m)) /\ L[m] \in Nat
  BY <1>2 DEF One
<1>15. L \in [Modes -> Nat] BY <1>14
<1> HIDE DEF S, T, L
<1>16. Counted(B, S, T)
  <2>1. Live(S) = Live(stats) BY <1>1, <1>13 DEF Live
  <2>2. T.authorities = Cardinality(Live(S)) BY <1>11, <2>1 DEF IInv, Counted
  <2>3. ASSUME NEW b \in Authorities
        PROVE  IF S[b].live THEN /\ Cardinality(IdsOf(B, b)) = S[b].subAccounts
                                 /\ \A j \in IdsOf(B, b) : j < S[b].created
                            ELSE IdsOf(B, b) = {}
    <3>1. CASE b = a
      <4>1. \A j \in IdsOf(B, a) : j \in IdsOf(account, a)
        BY <1>1, <1>4, <1>5 DEF IdsOf
      <4> QED BY <1>10, <1>12, <1>13, <3>1, <4>1
    <3>2. CASE b # a BY <1>7, <1>13, <3>2 DEF IInv, Counted
    <3> QED BY <3>1, <3>2
  <2> QED BY <1>11, <2>2, <2>3 DEF Counted
<1>17. Placed(B, config, L)
  <2> SUFFICES ASSUME NEW m \in Modes
               PROVE  config[m].current = Cardinality(MembersOf(B, m)) + L[m]
    BY DEF Placed, IInv
  <2> DEFINE c == config[m].current  p == Cardinality(MembersOf(account, m))
             q == Cardinality(MembersOf(B, m))  x == One(InMode(u, m))
             n == lost[m]  l == L[m]
  <2>1. c \in Nat /\ p \in Nat /\ q \in Nat /\ n \in Nat /\ x \in Nat
    BY <1>2, <1>8, ConfigTypes DEF One
  <2>2. c = p + n /\ l = n + x BY <1>14 DEF IInv, Placed
  <2>3. q + x = p
    <3> DEFINE y == One(u.live /\ InMode(u, m))  z == One(v.live /\ InMode(v, m))
    <3>1. y = x /\ z = 0 BY <1>1, <1>4 DEF One
    <3>2. q + y = p + z BY <1>8
    <3> HIDE DEF x, y, z, p, q
    <3> QED BY <2>1, <3>1, <3>2
  <2> HIDE DEF c, p, q, x, n, l
  <2>4. c = q + l BY <2>1, <2>2, <2>3
  <2> QED BY <2>4 DEF c, q, l
<1>18. Referred(B, S)
  <2> SUFFICES ASSUME NEW b \in Authorities, S[b].live, NEW r \in S[b].referrer
               PROVE  S[r].live /\ S[r].isReferrer /\ B[r][0].live
    BY DEF Referred
  <2>1. stats[b].live /\ r \in stats[b].referrer BY <1>1, <1>13
  <2>2. stats[b] \in StatsType BY <1>2, <2>1, StatsTypes
  <2>3. r \in Authorities BY <2>1, <2>2 DEF StatsType
  <2>4. stats[r].live /\ stats[r].isReferrer /\ account[r][0].live
    BY <2>1 DEF IInv, Referred
  <2>5. S[r].live /\ S[r].isReferrer BY <1>13, <2>3, <2>4
  <2>6. ~(r = a /\ i = 0) BY <2>4
  <2>7. 0 \in Ids BY <1>1, ZeroIn
  <2> QED BY <1>5, <2>3, <2>4, <2>5, <2>6, <2>7
<1>19. Typed'
  BY <1>3, <1>5, <1>11, <1>13, <1>15, InstructionTypes DEF IInv, Typed
<1>20. IInv' BY <1>3, <1>16, <1>17, <1>18, <1>19 DEF IInv
<1>21. Harmless(u, v, price) BY <1>4 DEF Harmless
<1>22. account' = Written(account, a, i, v) BY <1>3 DEF B
<1> QED BY <1>1, <1>4, <1>20, <1>21, <1>22, OthersHarmless DEF StepGood

LEMMA RemovalGood ==
  ASSUME IInv, Instruction, NEW k \in Opened,
         ~stats[k[1]].isReferrer \/ k[2] # 0, Removed(k[1], k[2])
  PROVE  StepGood
BY OpenTypes, LiveTypes, RemovedGood DEF IsClosed

LEMMA DeleteGood ==
  ASSUME IInv, NEW k \in Opened, DeleteUser(k[1], k[2]) PROVE StepGood
BY RemovalGood DEF DeleteUser, Deletable

LEMMA ForceDeleteGood ==
  ASSUME IInv, NEW k \in Opened, ForceDeleteUser(k[1], k[2]) PROVE StepGood
BY RemovalGood DEF ForceDeleteUser, Deletable

(* No account is written.                                                  *)
LEMMA NoneWritten ==
  ASSUME account' = account
  PROVE  \A k \in Opened : Harmless(account[k[1]][k[2]], account'[k[1]][k[2]], price)
BY DEF Harmless

LEMMA StatsGood ==
  ASSUME IInv, NEW a \in Authorities, InitializeUserStats(a) PROVE StepGood
<1> DEFINE S == [stats EXCEPT ![a] = NewStats]
           T == [state EXCEPT !.authorities = @ + 1]
<1>1. /\ account \in [Authorities -> [Ids -> Slot]] /\ slot \in Nat
      /\ stats \in [Authorities -> StatsType \cup {NoStats}]
      /\ state \in [authorities : Nat, subAccounts : Nat] /\ lost \in [Modes -> Nat]
  BY DEF IInv, Typed
<1>2. /\ Instruction /\ ~stats[a].live /\ stats' = S /\ state' = T
      /\ account' = account /\ config' = config /\ lost' = lost
  BY DEF InitializeUserStats
<1>3. /\ NewStats \in StatsType /\ NewStats.live = TRUE /\ NewStats.subAccounts = 0
      /\ NewStats.referrer = {}
  BY <1>1 DEF NewStats, StatsType
<1>4. /\ S \in [Authorities -> StatsType \cup {NoStats}] /\ S[a] = NewStats
      /\ \A b \in Authorities : b # a => S[b] = stats[b]
  BY <1>1, <1>3
<1>5. /\ T \in [authorities : Nat, subAccounts : Nat]
      /\ T.subAccounts = state.subAccounts /\ T.authorities = state.authorities + 1
  BY <1>1
<1> HIDE DEF S, T
<1>6. IdsOf(account, a) = {} BY <1>2 DEF IInv, Counted
<1>7. T.authorities = Cardinality(Live(S))
  <2> DEFINE P == Live(stats)  Q == Live(S)
  <2>1. P \in SUBSET Authorities /\ Q \in SUBSET Authorities BY DEF Live
  <2>2. \A y \in Authorities : y # a => (y \in P <=> y \in Q) BY <1>4 DEF Live
  <2>3. a \notin P /\ a \in Q BY <1>2, <1>3, <1>4 DEF Live
  <2>4. state.authorities = Cardinality(P) BY DEF IInv, Counted
  <2> HIDE DEF P, Q
  <2>5. /\ Cardinality(P) \in Nat /\ Cardinality(Q) \in Nat
        /\ Cardinality(Q) + One(a \in P) = Cardinality(P) + One(a \in Q)
    BY <2>1, <2>2, PairsFinite, Toggle
  <2>6. One(a \in P) = 0 /\ One(a \in Q) = 1 BY <2>3 DEF One
  <2> DEFINE p == Cardinality(P)  q == Cardinality(Q)
             x == One(a \in P)  y == One(a \in Q)
  <2> HIDE DEF p, q, x, y
  <2>7. p \in Nat /\ q \in Nat /\ q + x = p + y /\ x = 0 /\ y = 1
    BY <2>5, <2>6 DEF p, q, x, y
  <2>8. q = p + 1 BY <2>7
  <2> QED BY <1>5, <2>4, <2>8 DEF p, q, Q
<1>8. Counted(account, S, T)
  <2>1. ASSUME NEW b \in Authorities
        PROVE  IF S[b].live THEN /\ Cardinality(IdsOf(account, b)) = S[b].subAccounts
                                 /\ \A j \in IdsOf(account, b) : j < S[b].created
                            ELSE IdsOf(account, b) = {}
    <3>1. CASE b = a BY <1>3, <1>4, <1>6, <3>1, FS_EmptySet
    <3>2. CASE b # a BY <1>4, <3>2 DEF IInv, Counted
    <3> QED BY <3>1, <3>2
  <2>2. T.subAccounts = Cardinality(OpenOf(account)) BY <1>5 DEF IInv, Counted
  <2> QED BY <1>7, <2>1, <2>2 DEF Counted
<1>9. Referred(account, S)
  <2> SUFFICES ASSUME NEW b \in Authorities, S[b].live, NEW r \in S[b].referrer
               PROVE  S[r].live /\ S[r].isReferrer /\ account[r][0].live
    BY DEF Referred
  <2>1. b # a BY <1>3, <1>4
  <2>2. S[b] = stats[b] BY <1>4, <2>1
  <2>3. stats[b] \in StatsType BY <1>1, <2>2, StatsTypes
  <2>4. r \in Authorities BY <2>2, <2>3 DEF StatsType
  <2>5. stats[r].live /\ stats[r].isReferrer /\ account[r][0].live
    BY <2>2 DEF IInv, Referred
  <2>6. r # a BY <1>2, <2>5
  <2> QED BY <1>4, <2>4, <2>5, <2>6
<1>10. Typed'
  BY <1>1, <1>2, <1>4, <1>5, InstructionTypes DEF IInv, Typed
<1>11. Placed(account, config, lost) BY DEF IInv
<1>12. IInv' BY <1>2, <1>8, <1>9, <1>10, <1>11 DEF IInv
<1> QED BY <1>2, <1>12, NoneWritten DEF StepGood

LEMMA QuotientNat ==
  ASSUME NEW p \in Nat, NEW d \in Nat \ {0} PROVE p \div d \in Nat
OBVIOUS

(* The opening fee is a number: the target is less than all accounts.      *)
LEMMA FeeNat == ASSUME NEW n \in Nat PROVE InitFee(n) \in Nat
<1> DEFINE used == (n * Share) \div Larger(MaxSubAccounts, 1)
           target == (8 * Share) \div 10
           x == used - target
           d == Share - target
<1>1. /\ Share \in Nat /\ Share > 0 /\ MaxFee \in Nat /\ MaxSubAccounts \in Nat
  BY AccountsAssumption
<1>2. Larger(MaxSubAccounts, 1) \in Nat \ {0} BY <1>1 DEF Larger
<1>3. n * Share \in Nat BY <1>1
<1>4. used \in Nat BY <1>2, <1>3, QuotientNat
<1>5. target \in Nat /\ target < Share BY <1>1
<1> HIDE DEF used, target
<1>6. d \in Nat \ {0} BY <1>1, <1>5
<1>7. CASE used > target
  <2>1. x \in Nat BY <1>4, <1>5, <1>7
  <2> HIDE DEF x, d
  <2>2. MaxFee * x \in Nat BY <1>1, <2>1
  <2>3. (MaxFee * x) \div d \in Nat BY <1>6, <2>2, QuotientNat
  <2> QED BY <1>7, <2>3 DEF InitFee, used, target, x, d
<1>8. CASE ~(used > target) BY <1>8 DEF InitFee, used, target
<1> QED BY <1>7, <1>8

LEMMA NewUserType ==
  ASSUME NEW n \in Nat
  PROVE  LET v == NewUser(n)
         IN  v \in UserType /\ v.live = TRUE /\ \A m \in Modes : ~InMode(v, m)
<1> DEFINE v == NewUser(n)
<1>1. v \in UserType /\ v.live = TRUE /\ v.mode = "Default" /\ v.maker = FALSE
  BY DEF NewUser, UserType, MarginModes
<1> HIDE DEF v
<1>2. \A m \in Modes : ~InMode(v, m) BY <1>1 DEF InMode
<1> QED BY <1>1, <1>2 DEF v

(* A new account with the next id; who is named as referrer has its own    *)
(* first account, so nobody names itself.                                  *)
LEMMA OpenGood ==
  ASSUME IInv, NEW a \in Authorities, NEW i \in Ids, NEW R \in SUBSET Authorities,
         InitializeUser(a, i, R)
  PROVE  StepGood
<1> DEFINE u == account[a][i]
           s == stats[a]
           named == IF s.created = 0 THEN R ELSE {}
           T == [state EXCEPT !.subAccounts = @ + 1]
           v == NewUser(InitFee(T.subAccounts))
           B == Written(account, a, i, v)
           t == [s EXCEPT !.subAccounts = @ + 1, !.created = @ + 1,
                          !.referrer = IF s.created = 0 THEN named ELSE @]
           S == [b \in Authorities |->
                   IF b = a THEN t
                   ELSE IF b \in named THEN [stats[b] EXCEPT !.isReferrer = TRUE]
                   ELSE stats[b]]
<1>0. account \in [Authorities -> [Ids -> Slot]] BY DEF IInv, Typed
<1>1. /\ stats \in [Authorities -> StatsType \cup {NoStats}]
      /\ state \in [authorities : Nat, subAccounts : Nat]
  BY DEF IInv, Typed
<1>2. /\ Instruction /\ s.live /\ ~u.live /\ i = s.created
      /\ \A r \in named : stats[r].live /\ account[r][0].live
      /\ account' = B /\ stats' = S /\ state' = T /\ config' = config /\ lost' = lost
  BY DEF InitializeUser, SetUser, Written, MayRefer
<1>3. s \in StatsType BY <1>1, <1>2, StatsTypes
<1>4. /\ T \in [authorities : Nat, subAccounts : Nat]
      /\ T.subAccounts = state.subAccounts + 1 /\ T.authorities = state.authorities
  BY <1>1
<1>5. v \in UserType /\ v.live = TRUE /\ \A m \in Modes : ~InMode(v, m)
  BY <1>4, FeeNat, NewUserType
<1> HIDE DEF v
<1>6. v \in Slot BY <1>5, LiveTypes
<1>7. /\ B \in [Authorities -> [Ids -> Slot]]
      /\ \A b \in Authorities, j \in Ids :
           B[b][j] = IF b = a /\ j = i THEN v ELSE account[b][j]
  BY <1>0, <1>6 DEF Written
<1>8. /\ Cardinality(OpenOf(B)) + One(u.live) = Cardinality(OpenOf(account)) + One(v.live)
      /\ Cardinality(OpenOf(account)) \in Nat /\ Cardinality(OpenOf(B)) \in Nat
  BY <1>0, <1>6, WrittenCounts
<1>9. /\ Cardinality(IdsOf(B, a)) + One(u.live)
           = Cardinality(IdsOf(account, a)) + One(v.live)
      /\ Cardinality(IdsOf(account, a)) \in Nat
  BY <1>0, <1>6, WrittenCounts
<1>10. \A b \in Authorities : b # a => IdsOf(B, b) = IdsOf(account, b)
  BY <1>0, <1>6, WrittenCounts
<1>11. One(u.live) = 0 /\ One(v.live) = 1 BY <1>2, <1>5 DEF One
<1>12. \A m \in Modes : MembersOf(B, m) = MembersOf(account, m)
  <2> SUFFICES ASSUME NEW m \in Modes, NEW y \in Pairs
               PROVE  y \in MembersOf(B, m) <=> y \in MembersOf(account, m)
    BY DEF MembersOf
  <2> HIDE DEF B
  <2>1. B[y[1]][y[2]] = IF y[1] = a /\ y[2] = i THEN v ELSE account[y[1]][y[2]]
    BY <1>7, PairIn
  <2> QED BY <1>2, <1>5, <2>1 DEF MembersOf
<1> HIDE DEF B, T
<1>13. /\ named \in SUBSET Authorities
       /\ \A r \in named : stats[r].live /\ account[r][0].live
  BY <1>2
<1>14. a \notin named
  <2> SUFFICES ASSUME a \in named PROVE FALSE OBVIOUS
  <2>1. s.created = 0 /\ account[a][0].live BY <1>2
  <2>2. 0 \in Ids BY ZeroIn
  <2>3. 0 \in IdsOf(account, a) BY <2>1, <2>2 DEF IdsOf
  <2>4. \A j \in IdsOf(account, a) : j < s.created BY <1>2 DEF IInv, Counted
  <2> QED BY <2>1, <2>3, <2>4
<1>15. /\ t \in StatsType /\ t.live = TRUE /\ t.subAccounts = s.subAccounts + 1
       /\ t.created = s.created + 1 /\ t.isReferrer = s.isReferrer
       /\ t.referrer = named \/ t.referrer = s.referrer
  <2> DEFINE R1 == IF s.created = 0 THEN named ELSE s.referrer
             t1 == [s EXCEPT !.subAccounts = @ + 1]
             t2 == [t1 EXCEPT !.created = @ + 1]
  <2>1. named \in SUBSET Authorities BY <1>13
  <2> HIDE DEF s, named
  <2>2. s.referrer \in SUBSET Authorities BY <1>3 DEF StatsType
  <2>3. R1 \in SUBSET Authorities /\ (R1 = named \/ R1 = s.referrer) BY <2>1, <2>2
  <2>4. /\ t1 \in StatsType /\ t1.subAccounts = s.subAccounts + 1
        /\ t1.created = s.created /\ t1.isReferrer = s.isReferrer
    <3>1. s.subAccounts + 1 \in Nat BY <1>3 DEF StatsType
    <3> QED BY <1>3, <3>1 DEF StatsType
  <2>5. t = [t2 EXCEPT !.referrer = R1] BY <1>3 DEF StatsType
  <2> HIDE DEF t1, R1, t
  <2>6. /\ t2 \in StatsType /\ t2.subAccounts = t1.subAccounts
        /\ t2.created = t1.created + 1 /\ t2.isReferrer = t1.isReferrer
    <3>1. t1.created + 1 \in Nat BY <2>4 DEF StatsType
    <3> QED BY <2>4, <3>1 DEF StatsType
  <2> HIDE DEF t2
  <2>7. /\ t \in StatsType /\ t.live = TRUE /\ t.subAccounts = t2.subAccounts
        /\ t.created = t2.created /\ t.isReferrer = t2.isReferrer /\ t.referrer = R1
    BY <2>3, <2>5, <2>6 DEF StatsType
  <2> QED BY <2>3, <2>4, <2>6, <2>7
<1> HIDE DEF t
<1>16. \A b \in Authorities : stats[b].live => stats[b] \in StatsType
  BY <1>1, StatsTypes
<1>17. ASSUME NEW b \in Authorities, b # a
       PROVE  /\ S[b] \in StatsType \cup {NoStats} /\ S[b].live = stats[b].live
              /\ b \in named => S[b].isReferrer /\ S[b].live
              /\ S[b].live => /\ S[b].subAccounts = stats[b].subAccounts
                              /\ S[b].created = stats[b].created
                              /\ S[b].referrer = stats[b].referrer
                              /\ stats[b].isReferrer => S[b].isReferrer
  <2> HIDE DEF named
  <2>1. CASE b \in named
    <3> DEFINE x == stats[b]  y == [x EXCEPT !.isReferrer = TRUE]
    <3>1. S[b] = y BY <1>17, <2>1
    <3>2. x \in StatsType BY <1>13, <1>16, <2>1
    <3> HIDE DEF x, S
    <3>3. /\ y \in StatsType /\ y.live = TRUE /\ x.live = TRUE /\ y.isReferrer = TRUE
          /\ y.subAccounts = x.subAccounts /\ y.created = x.created
          /\ y.referrer = x.referrer
      BY <3>2 DEF StatsType
    <3> QED BY <3>1, <3>3 DEF x
  <2>2. CASE b \notin named
    <3>1. S[b] = stats[b] BY <1>17, <2>2
    <3> QED BY <1>1, <2>2, <3>1
  <2> QED BY <2>1, <2>2
<1>18. S[a] = t OBVIOUS
<1>19. S \in [Authorities -> StatsType \cup {NoStats}]
  <2>1. \A b \in Authorities : S[b] \in StatsType \cup {NoStats}
    BY <1>15, <1>17, <1>18
  <2> QED BY <2>1
<1> HIDE DEF S, named
<1>20. Counted(B, S, T)
  <2>1. Live(S) = Live(stats) BY <1>2, <1>15, <1>17, <1>18 DEF Live
  <2>2. T.authorities = Cardinality(Live(S)) BY <1>4, <2>1 DEF IInv, Counted
  <2>3. T.subAccounts = Cardinality(OpenOf(B))
    <3> DEFINE x == One(u.live)  y == One(v.live)
               p == Cardinality(OpenOf(account))  q == Cardinality(OpenOf(B))
    <3>1. q + x = p + y /\ p \in Nat /\ q \in Nat /\ x = 0 /\ y = 1 BY <1>8, <1>11
    <3>2. state.subAccounts = p BY DEF IInv, Counted
    <3> HIDE DEF x, y, p, q
    <3>3. p + 1 = q BY <3>1
    <3> QED BY <1>4, <3>2, <3>3 DEF q
  <2>4. s.subAccounts + 1 = Cardinality(IdsOf(B, a))
    <3> DEFINE x == One(u.live)  y == One(v.live)
               p == Cardinality(IdsOf(account, a))  q == Cardinality(IdsOf(B, a))
    <3>1. q + x = p + y /\ p \in Nat /\ x = 0 /\ y = 1 BY <1>9, <1>11
    <3>2. q \in Nat
      <4>1. IdsOf(B, a) \in SUBSET Ids BY DEF IdsOf
      <4> QED BY <4>1, PairsFinite, FS_Subset, FS_CardinalityType
    <3>3. s.subAccounts = p BY <1>2 DEF IInv, Counted
    <3> HIDE DEF x, y, p, q
    <3>4. p + 1 = q BY <3>1, <3>2
    <3> QED BY <3>3, <3>4 DEF q
  <2>5. ASSUME NEW j \in IdsOf(B, a) PROVE j < s.created + 1
    <3>1. j \in Ids /\ s.created \in Nat /\ j \in Int 
      <4>1. j \in Ids BY DEF IdsOf
      <4>2. j \in Int BY <4>1, AccountsAssumption DEF Ids
      <4>3. s.created \in Nat BY <1>3 DEF StatsType
      <4> QED BY <4>1, <4>2, <4>3
    <3>2. CASE j = i BY <1>2, <3>1, <3>2
    <3>3. CASE j # i
      <4>1. j \in IdsOf(account, a) BY <1>7, <3>1, <3>3 DEF IdsOf
      <4>2. j < s.created BY <1>2, <4>1 DEF IInv, Counted
      <4> QED BY <3>1, <4>2
    <3> QED BY <3>2, <3>3
  <2>6. ASSUME NEW b \in Authorities
        PROVE  IF S[b].live THEN /\ Cardinality(IdsOf(B, b)) = S[b].subAccounts
                                 /\ \A j \in IdsOf(B, b) : j < S[b].created
                            ELSE IdsOf(B, b) = {}
    <3>1. CASE b = a BY <1>15, <1>18, <2>4, <2>5, <3>1
    <3>2. CASE b # a BY <1>10, <1>17, <3>2 DEF IInv, Counted
    <3> QED BY <3>1, <3>2
  <2> QED BY <2>2, <2>3, <2>6 DEF Counted
<1>21. Referred(B, S)
  <2> SUFFICES ASSUME NEW b \in Authorities, S[b].live, NEW r \in S[b].referrer
               PROVE  S[r].live /\ S[r].isReferrer /\ B[r][0].live
    BY DEF Referred
  <2>1. 0 \in Ids BY ZeroIn
  <2>2. \A x \in Authorities : account[x][0].live => B[x][0].live
    BY <1>5, <1>7, <2>1
  <2>3. CASE r \in named
    <3>1. r \in Authorities /\ r # a /\ account[r][0].live BY <1>13, <1>14, <2>3
    <3> QED BY <1>17, <2>2, <2>3, <3>1
  <2>4. CASE r \notin named
    <3>1. stats[b].live /\ r \in stats[b].referrer
      BY <1>2, <1>15, <1>17, <1>18, <2>4
    <3>2. r \in Authorities BY <1>16, <3>1 DEF StatsType
    <3>3. stats[r].live /\ stats[r].isReferrer /\ account[r][0].live
      BY <3>1 DEF IInv, Referred
    <3>4. S[r].live /\ S[r].isReferrer
      <4>1. CASE r = a BY <1>15, <1>18, <3>3, <4>1
      <4>2. CASE r # a BY <1>17, <3>2, <3>3, <4>2
      <4> QED BY <4>1, <4>2
    <3> QED BY <2>2, <3>2, <3>3, <3>4
  <2> QED BY <2>3, <2>4
<1>22. Placed(B, config, lost) BY <1>12 DEF IInv, Placed
<1>23. Typed'
  BY <1>2, <1>4, <1>7, <1>19, InstructionTypes DEF IInv, Typed
<1>24. IInv' BY <1>2, <1>20, <1>21, <1>22, <1>23 DEF IInv
<1>25. account' = Written(account, a, i, v) BY <1>2 DEF B
<1> QED BY <1>2, <1>6, <1>24, <1>25, OthersHarmless DEF StepGood
-----------------------------------------------------------------------------
(* The admin, time, and the whole.                                         *)

LEMMA SetsSame ==
  Opened = OpenOf(account) /\ \A m \in Modes : Members(m) = MembersOf(account, m)
BY DEF Opened, OpenOf, Members, MembersOf, Pairs

LEMMA ConfigGood ==
  ASSUME IInv, NEW m \in Modes, NEW max \in Places, NEW only \in BOOLEAN,
         NEW correct \in BOOLEAN, UpdateModeConfig(m, max, only, correct)
  PROVE  StepGood
<1> DEFINE n == IF correct THEN Cardinality(Members(m)) ELSE config[m].current
           c == [max |-> max, reduceOnly |-> only, current |-> n]
           l == IF correct THEN [lost EXCEPT ![m] = 0] ELSE lost
<1>1. /\ Instruction /\ Valid(c) /\ config' = [config EXCEPT ![m] = c] /\ lost' = l
      /\ stats' = stats /\ account' = account /\ state' = state
  BY DEF UpdateModeConfig, SetConfig
<1>2. Members(m) = MembersOf(account, m) BY SetsSame
<1>3. Cardinality(MembersOf(account, m)) \in Nat
  <2>1. MembersOf(account, m) \in SUBSET Pairs BY DEF MembersOf
  <2> QED BY <2>1, PairsFinite, FS_Subset, FS_CardinalityType
<1>4. n \in Nat /\ max \in Nat BY <1>2, <1>3, ConfigTypes, AccountsAssumption
<1>5. c \in [max : Nat, current : Nat, reduceOnly : BOOLEAN] /\ c.current = n
  <2> HIDE DEF n
  <2> QED BY <1>4
<1>6. lost \in [Modes -> Nat] BY DEF IInv, Typed
<1>7. l \in [Modes -> Nat] BY <1>6
<1>8. \A x \in Modes : x # m => l[x] = lost[x] /\ config'[x] = config[x]
  BY <1>1, <1>6, ConfigTypes
<1>9. config'[m] = c /\ config' \in [Modes -> [max : Nat, current : Nat, reduceOnly : BOOLEAN]]
  BY <1>1, <1>5, ConfigTypes
<1>10. n = Cardinality(MembersOf(account, m)) + l[m]
  <2>1. CASE correct BY <1>2, <1>3, <1>6, <2>1
  <2>2. CASE ~correct BY <2>2 DEF IInv, Placed
  <2> QED BY <2>1, <2>2
<1>11. Placed(account, config', l)
  <2> SUFFICES ASSUME NEW x \in Modes
               PROVE  /\ config'[x].current = Cardinality(MembersOf(account, x)) + l[x]
                      /\ Valid(config'[x])
    BY DEF Placed
  <2> HIDE DEF n, c, l
  <2>1. CASE x = m BY <1>1, <1>5, <1>9, <1>10, <2>1
  <2>2. CASE x # m BY <1>8, <2>2 DEF IInv, Placed
  <2> QED BY <2>1, <2>2
<1> HIDE DEF n, c, l
<1>12. Typed' BY <1>1, <1>7, <1>9, InstructionTypes DEF IInv, Typed
<1>13. IInv' BY <1>1, <1>11, <1>12 DEF IInv
<1> QED BY <1>1, <1>13, NoneWritten DEF StepGood

LEMMA QuietGood == ASSUME IInv, Tick \/ UNCHANGED vars PROVE StepGood
<1>1. /\ stats' = stats /\ account' = account /\ state' = state /\ config' = config
      /\ lost' = lost /\ ops' = ops /\ price' \in Prices /\ slot' \in Nat
  BY DEF Tick, vars, IInv, Typed
<1>2. IInv' BY <1>1 DEF IInv, Typed
<1> QED BY <1>1, <1>2, NoneWritten DEF StepGood

LEMMA UserStepsGood ==
  ASSUME IInv, NEW k \in Opened, UserSteps(k[1], k[2]) PROVE StepGood
BY DeleteGood, ForceDeleteGood, ReclaimGood, IdleGood, CustomGood, EnableGood,
   DisableGood, ProtectedGood, DepositGood, WithdrawGood, PlaceOrderGood, FillGood,
   CancelGood, CloseGood, EnterLiquidationGood, EndLiquidationGood
   DEF UserSteps

LEMMA NextGood == ASSUME IInv, [Next]_vars PROVE StepGood
<1>1. ASSUME NEW a \in Authorities, InitializeUserStats(a) PROVE StepGood
  BY <1>1, StatsGood
<1>2. ASSUME NEW a \in Authorities, NEW i \in Ids,
             NEW R \in {{}} \cup {{x} : x \in Authorities}, InitializeUser(a, i, R)
      PROVE  StepGood
  <2>1. R \in SUBSET Authorities OBVIOUS
  <2> QED BY <1>2, <2>1, OpenGood
<1>3. ASSUME NEW k \in Opened, UserSteps(k[1], k[2]) PROVE StepGood
  BY <1>3, UserStepsGood
<1>4. ASSUME NEW m \in Modes, NEW n \in Places, NEW only \in BOOLEAN,
             NEW correct \in BOOLEAN, UpdateModeConfig(m, n, only, correct)
      PROVE  StepGood
  BY <1>4, ConfigGood
<1>5. CASE Tick \/ UNCHANGED vars BY <1>5, QuietGood
<1> QED BY <1>1, <1>2, <1>3, <1>4, <1>5 DEF Next

LEMMA InitGood == Init => IInv
<1> SUFFICES ASSUME Init PROVE IInv OBVIOUS
<1>1. /\ \A a \in Authorities : stats[a] = NoStats
      /\ \A a \in Authorities, i \in Ids : account[a][i] = Closed
      /\ state.authorities = 0 /\ state.subAccounts = 0
      /\ \A m \in Modes : lost[m] = 0
  BY DEF Init
<1>2. NoStats.live = FALSE /\ Closed.live = FALSE BY StatsTypes, LiveTypes
<1>3. Typed
  <2>1. PICK n \in Places :
          config = [m \in Modes |-> [max |-> n, current |-> 0, reduceOnly |-> FALSE]]
    BY DEF Init
  <2>2. n \in Nat BY AccountsAssumption
  <2>3. config \in [Modes -> [max : Nat, current : Nat, reduceOnly : BOOLEAN]]
    BY <2>1, <2>2
  <2>4. Closed \in Slot BY LiveTypes
  <2> QED BY <2>3, <2>4 DEF Init, Typed
<1>4. \A m \in Modes : config[m].current = 0 /\ Valid(config[m])
  BY AccountsAssumption DEF Init, Valid
<1>5. Cardinality({}) = 0 BY FS_EmptySet
<1>6. OpenOf(account) = {} /\ (\A m \in Modes : MembersOf(account, m) = {})
  BY <1>1, <1>2, PairIn DEF OpenOf, MembersOf
<1>7. Live(stats) = {} /\ \A a \in Authorities : IdsOf(account, a) = {}
  BY <1>1, <1>2 DEF Live, IdsOf
<1>8. Counted(account, stats, state) BY <1>1, <1>2, <1>5, <1>6, <1>7 DEF Counted
<1>9. Placed(account, config, lost)
  <2> SUFFICES ASSUME NEW m \in Modes
               PROVE  config[m].current = Cardinality(MembersOf(account, m)) + lost[m]
    BY <1>4 DEF Placed
  <2> DEFINE p == Cardinality(MembersOf(account, m))
  <2>1. p = 0 /\ lost[m] = 0 /\ config[m].current = 0 BY <1>1, <1>4, <1>5, <1>6
  <2> HIDE DEF p
  <2>2. config[m].current = p + lost[m] BY <2>1
  <2> QED BY <2>2 DEF p
<1>10. Referred(account, stats) BY <1>1, <1>2 DEF Referred
<1> QED BY <1>3, <1>8, <1>9, <1>10 DEF IInv

LEMMA InductiveInvariant == Spec => []IInv
<1>1. IInv /\ [Next]_vars => IInv' BY NextGood DEF StepGood
<1> QED BY <1>1, InitGood, PTL DEF Spec

LEMMA IInvPlaces == IInv => PlacesAccounted
BY SetsSame DEF IInv, Placed, PlacesAccounted

LEMMA IInvRoster == IInv => RosterSound
<1> SUFFICES ASSUME IInv PROVE RosterSound OBVIOUS
<1>1. TypeOK
  BY DEF IInv, Typed, TypeOK, Slot
<1>2. state.subAccounts = Cardinality(Opened) BY SetsSame DEF IInv, Counted
<1>3. state.authorities = Cardinality({a \in Authorities : stats[a].live})
  BY DEF IInv, Counted, Live
<1>4. ASSUME NEW a \in Authorities
      PROVE  LET open == {i \in Ids : account[a][i].live}
             IN  IF ~stats[a].live THEN open = {}
                 ELSE /\ Cardinality(open) = stats[a].subAccounts
                      /\ \A i \in open : i < stats[a].created
                      /\ \A r \in stats[a].referrer : account[r][0].live
  BY DEF IInv, Counted, Referred, IdsOf
<1> QED BY <1>1, <1>2, <1>3, <1>4 DEF RosterSound
-----------------------------------------------------------------------------
(* The places that a mode's config counts are those of its members and of  *)
(* the deleted accounts, whatever the limits and the instructions: a       *)
(* member can always give its place back, since the count is never short   *)
(* of the members.                                                         *)
THEOREM PlacesStayAccounted == Spec => []PlacesAccounted
BY InductiveInvariant, IInvPlaces, PTL

(* The counters of the program and of each authority are those of the open *)
(* accounts, and a referrer's first account outlives those it referred:    *)
(* the invariant adds that its statistics are marked, which is what        *)
(* validate_user_deletion looks at.                                        *)
THEOREM RosterStaysSound == Spec => []RosterSound
BY InductiveInvariant, IInvRoster, PTL

(* For all ratios of which the initial one is not below the maintenance    *)
(* one, and whatever the price: leaving high leverage, by the owner or by  *)
(* anyone, makes no account liquidatable.                                  *)
THEOREM DisablingStaysHarmless == Spec => DisableIsHarmless
<1> DEFINE Good == \A k \in Opened :
                     Harmless(account[k[1]][k[2]], account'[k[1]][k[2]], price)
<1>1. IInv /\ [Next]_vars => [Good]_vars BY NextGood DEF StepGood
<1>2. Spec => [][Good]_vars BY <1>1, InductiveInvariant, PTL DEF Spec
<1> QED BY <1>2 DEF DisableIsHarmless, Harmless
=============================================================================
