-------------------------- MODULE LiquidationProofs --------------------------
(***************************************************************************)
(* For any users, markets, weights, prices, fees and pace: Liquidation     *)
(* implements AccountLifecycle, bankruptcies are real, no money is made or *)
(* lost, and only a taker of positions ends a liquidation short of margin. *)
(*                                                                         *)
(* For the first two it is of no account how much an instruction takes     *)
(* from whom: every operator of Liquidation either leaves the status bits  *)
(* and the episode of an account alone or is one of Enter, Exit and        *)
(* EnterBankruptcy, and the handlers combine them in a few ways.           *)
(*                                                                         *)
(* For the third, every plan takes amounts of the right sign; what one     *)
(* account gives another one, a pool or a vault receives (TransferSound,   *)
(* OneSound); and the cuts by which depositors bear a loss are rounded up  *)
(* (CutSums).                                                              *)
(*                                                                         *)
(* For the fourth, the tests for leaving are no weaker than the margin     *)
(* test (ExitIsStricter, InitialIsStricter), and a transfer that reaches   *)
(* what had to be covered gives the taker something (TransferLeaves).      *)
(***************************************************************************)
EXTENDS Liquidation, SumTheorems, TLAPS

(* An account, whatever the types of its amounts.                          *)
IsAccount(a) ==
  /\ a = [spot |-> a.spot, perp |-> a.perp, liquidating |-> a.liquidating,
          bankrupt |-> a.bankrupt, freed |-> a.freed,
          lastActive |-> a.lastActive, episode |-> a.episode]
  /\ a.spot = [m \in SpotMarkets |-> a.spot[m]]
  /\ a.liquidating \in BOOLEAN /\ a.bankrupt \in BOOLEAN /\ a.episode \in Nat

(* The inductive invariant: every user has an account.                     *)
Roster == acct = [u \in Users |-> acct[u]] /\ \A u \in Users : IsAccount(acct[u])

(* b is a with other amounts, orders or activity.                          *)
SameStatus(a, b) ==
  /\ IsAccount(b)
  /\ b.liquidating = a.liquidating /\ b.bankrupt = a.bankrupt
  /\ b.episode = a.episode

(* b is a in a liquidation that it was in or that has just begun.          *)
Begun(a, b) ==
  /\ IsAccount(b) /\ b.liquidating /\ ~b.bankrupt
  /\ b.episode = IF a.liquidating THEN a.episode ELSE a.episode + 1

(* What one instruction may do to the status of the account it is about;   *)
(* it leaves the account bankrupt only if that is what it looks like.      *)
Moved(a, b) ==
  /\ IsAccount(b)
  /\ b.bankrupt => IsUserBankrupt(b)
  /\ \/ PhaseOf(b) = PhaseOf(a) /\ b.episode = a.episode
     \/ PhaseOf(a) = "normal" /\ b.episode = a.episode + 1
     \/ PhaseOf(a) = "liquidating" /\ PhaseOf(b) \in {"normal", "bankrupt"}
        /\ b.episode = a.episode
     \/ PhaseOf(a) = "bankrupt" /\ PhaseOf(b) = "normal" /\ b.episode = a.episode
     \/ PhaseOf(a) = "normal" /\ PhaseOf(b) = "bankrupt" /\ b.episode = a.episode

(* What it may do to a bankrupt account it is not about: take from its     *)
(* deposits, if it has any, or reward it.                                  *)
LeftBankrupt(w) ==
  acct[w].bankrupt =>
    w \in rewarded' \/ (IsUserBankrupt(acct[w]) => IsUserBankrupt(acct'[w]))

(* One account moves, the others keep their status.                        *)
OneMoves(u) ==
  /\ u \in Users
  /\ acct' = [w \in Users |-> acct'[w]]
  /\ Moved(acct[u], acct'[u])
  /\ \A w \in Users \ {u} : SameStatus(acct[w], acct'[w]) /\ LeftBankrupt(w)
-----------------------------------------------------------------------------
(* The operators on accounts.                                              *)

LEMMA SpotOnly ==
  ASSUME NEW a, IsAccount(a), NEW s, s = [m \in SpotMarkets |-> s[m]]
  PROVE  SameStatus(a, [a EXCEPT !.spot = s])
BY DEF SameStatus, IsAccount

LEMMA PerpOnly ==
  ASSUME NEW a, IsAccount(a), NEW p PROVE SameStatus(a, [a EXCEPT !.perp = p])
BY DEF SameStatus, IsAccount

LEMMA FreedOnly ==
  ASSUME NEW a, IsAccount(a), NEW n PROVE SameStatus(a, [a EXCEPT !.freed = n])
BY DEF SameStatus, IsAccount

LEMMA ActivityOnly ==
  ASSUME NEW a, IsAccount(a), NEW t
  PROVE  SameStatus(a, [a EXCEPT !.lastActive = t])
BY DEF SameStatus, IsAccount

LEMMA SameStatusChains ==
  ASSUME NEW a, NEW b, NEW c, SameStatus(a, b), SameStatus(b, c)
  PROVE  SameStatus(a, c)
BY DEF SameStatus

LEMMA AddSpotKeeps ==
  ASSUME NEW a, IsAccount(a), NEW m, NEW n PROVE SameStatus(a, AddSpot(a, m, n))
<1> DEFINE s == [a.spot EXCEPT ![m] = @ + n]
<1>1. s = [x \in SpotMarkets |-> s[x]] BY DEF IsAccount
<1>2. AddSpot(a, m, n) = [a EXCEPT !.spot = s] BY DEF AddSpot
<1> HIDE DEF s
<1> QED BY <1>1, <1>2, SpotOnly, SMTT(40)

LEMMA AddPerpKeeps ==
  ASSUME NEW a, IsAccount(a), NEW m, NEW base, NEW quote
  PROVE  SameStatus(a, AddPerp(a, m, base, quote))
<1> DEFINE b == [a EXCEPT !.perp[m].base = @ + base]
<1>1. SameStatus(a, b) BY PerpOnly, Zenon
<1>2. SameStatus(b, [b EXCEPT !.perp[m].quote = a.perp[m].quote + quote])
  <2> HIDE DEF b
  <2> QED BY <1>1, PerpOnly, Zenon DEF SameStatus
<1> QED BY <1>1, <1>2, SameStatusChains, Zenon DEF AddPerp

LEMMA NoOrdersKeeps ==
  ASSUME NEW a, IsAccount(a) PROVE SameStatus(a, NoOrders(a))
BY PerpOnly, Zenon DEF NoOrders

LEMMA ActiveKeeps ==
  ASSUME NEW a, IsAccount(a) PROVE SameStatus(a, Active(a))
<1>1. SameStatus(a, a) BY DEF SameStatus
<1> QED BY <1>1, ActivityOnly DEF Active

(* The three assignments that change a status.                             *)
LEMMA SetLiquidating ==
  ASSUME NEW a, IsAccount(a), NEW x \in BOOLEAN, NEW c,
         c = [a EXCEPT !.liquidating = x]
  PROVE  /\ IsAccount(c) /\ c.liquidating = x
         /\ c.bankrupt = a.bankrupt /\ c.episode = a.episode
BY DEF IsAccount

LEMMA SetBankrupt ==
  ASSUME NEW a, IsAccount(a), NEW x \in BOOLEAN, NEW c,
         c = [a EXCEPT !.bankrupt = x]
  PROVE  /\ IsAccount(c) /\ c.bankrupt = x
         /\ c.liquidating = a.liquidating /\ c.episode = a.episode
BY DEF IsAccount

LEMMA NextEpisode ==
  ASSUME NEW a, IsAccount(a), NEW c, c = [a EXCEPT !.episode = @ + 1]
  PROVE  /\ IsAccount(c) /\ c.episode = a.episode + 1
         /\ c.liquidating = a.liquidating /\ c.bankrupt = a.bankrupt
BY DEF IsAccount

LEMMA ExitClears ==
  ASSUME NEW a, IsAccount(a)
  PROVE  /\ IsAccount(Exit(a)) /\ ~Exit(a).liquidating /\ ~Exit(a).bankrupt
         /\ Exit(a).episode = a.episode
<1> DEFINE b == [a EXCEPT !.liquidating = FALSE]
           c == [b EXCEPT !.bankrupt = FALSE]
           d == [c EXCEPT !.freed = 0]
<1>1. IsAccount(b) /\ ~b.liquidating /\ b.episode = a.episode
  BY SetLiquidating, Zenon
<1>2. IsAccount(c) /\ ~c.liquidating /\ ~c.bankrupt /\ c.episode = a.episode
  <2> HIDE DEF b
  <2> QED BY <1>1, SetBankrupt, Zenon
<1>3. IsAccount(d) /\ ~d.liquidating /\ ~d.bankrupt /\ d.episode = a.episode
  <2> HIDE DEF c
  <2> QED BY <1>2, FreedOnly DEF SameStatus
<1> QED BY <1>3 DEF Exit

LEMMA BankruptcySets ==
  ASSUME NEW a, IsAccount(a)
  PROVE  /\ IsAccount(EnterBankruptcy(a)) /\ EnterBankruptcy(a).bankrupt
         /\ EnterBankruptcy(a).episode = a.episode
         /\ IsUserBankrupt(a) => IsUserBankrupt(EnterBankruptcy(a))
<1> DEFINE b == [a EXCEPT !.liquidating = FALSE]
           c == [b EXCEPT !.bankrupt = TRUE]
<1>1. IsAccount(b) /\ b.episode = a.episode BY SetLiquidating, Zenon
<1>2. IsAccount(c) /\ c.bankrupt /\ c.episode = a.episode
  <2> HIDE DEF b
  <2> QED BY <1>1, SetBankrupt, Zenon
<1>3. c.spot = a.spot /\ c.perp = a.perp BY DEF IsAccount
<1> HIDE DEF c
<1>4. IsUserBankrupt(a) => IsUserBankrupt(c) BY <1>3, Zenon DEF IsUserBankrupt
<1> QED BY <1>2, <1>4 DEF EnterBankruptcy, c

LEMMA SameStatusMoves ==
  ASSUME NEW a, NEW b, IsAccount(a), ~a.bankrupt, SameStatus(a, b)
  PROVE  Moved(a, b)
BY DEF SameStatus, Moved, PhaseOf

LEMMA BegunStays ==
  ASSUME NEW a, NEW b, NEW c, Begun(a, b), SameStatus(b, c) PROVE Begun(a, c)
BY DEF Begun, SameStatus

(* An attempt is not made on a bankrupt account, so it begins an episode   *)
(* or goes on with one, and what it does within the episode is a move.     *)
LEMMA EnterBegins ==
  ASSUME NEW a, IsAccount(a), ~a.bankrupt PROVE Begun(a, Enter(a))
<1> DEFINE b == [a EXCEPT !.liquidating = TRUE]
           c == [b EXCEPT !.freed = 0]
           d == [c EXCEPT !.lastActive = slot]
           e == [d EXCEPT !.episode = @ + 1]
<1>1. IsAccount(b) /\ b.liquidating /\ ~b.bankrupt /\ b.episode = a.episode
  BY SetLiquidating, Zenon
<1>2. SameStatus(b, c)
  <2> HIDE DEF b
  <2> QED BY <1>1, FreedOnly, Zenon
<1>3. SameStatus(c, d)
  <2> HIDE DEF c
  <2> QED BY <1>2, ActivityOnly, Zenon DEF SameStatus
<1>4. IsAccount(d) /\ d.liquidating /\ ~d.bankrupt /\ d.episode = a.episode
  <2> HIDE DEF b, c, d
  <2> QED BY <1>1, <1>2, <1>3 DEF SameStatus
<1>5. IsAccount(e) /\ e.liquidating /\ ~e.bankrupt /\ e.episode = a.episode + 1
  <2> HIDE DEF d
  <2>1. e = [d EXCEPT !.episode = @ + 1] OBVIOUS
  <2> HIDE DEF e
  <2> QED BY <1>4, <2>1, NextEpisode
<1>6. CASE a.liquidating
  BY <1>6 DEF Begun, Enter, IsBeingLiquidated
<1>7. CASE ~a.liquidating
  <2>1. Enter(a) = e BY <1>7 DEF Enter, IsBeingLiquidated
  <2> HIDE DEF e
  <2> QED BY <1>5, <1>7, <2>1 DEF Begun
<1> QED BY <1>6, <1>7

LEMMA OpenedBegins ==
  ASSUME NEW a, IsAccount(a), ~a.bankrupt PROVE Begun(a, Opened(a))
<1> DEFINE b == NoOrders(Enter(a))
<1>1. Begun(a, b)
  BY EnterBegins, NoOrdersKeeps, BegunStays DEF Begun
<1>2. SameStatus(b, [b EXCEPT !.freed = @ + Floored(Shortage(a) - Shortage(b))])
  BY <1>1, FreedOnly DEF Begun
<1> QED BY <1>1, <1>2, BegunStays DEF Opened

LEMMA BegunMoves ==
  ASSUME NEW a, NEW b, IsAccount(a), ~a.bankrupt, Begun(a, b)
  PROVE  Moved(a, b)
BY DEF Begun, Moved, PhaseOf, IsAccount

LEMMA ExitMoves ==
  ASSUME NEW a, NEW b, IsAccount(a), ~a.bankrupt, Begun(a, b)
  PROVE  Moved(a, Exit(b))
BY ExitClears DEF Begun, Moved, PhaseOf

LEMMA BankruptcyMoves ==
  ASSUME NEW a, NEW b, IsAccount(a), ~a.bankrupt, Begun(a, b), IsUserBankrupt(b)
  PROVE  Moved(a, EnterBankruptcy(b))
BY BankruptcySets DEF Begun, Moved, PhaseOf

LEMMA ClosedMoves ==
  ASSUME NEW a, NEW b, IsAccount(a), ~a.bankrupt, Begun(a, b),
         NEW shortage, NEW done
  PROVE  Moved(a, Closed(b, shortage, done))
<1> DEFINE c == [b EXCEPT !.freed = @ + Floored(shortage - Shortage(b))]
<1>1. Begun(a, c) BY FreedOnly, BegunStays DEF Begun
<1>2. \/ Closed(b, shortage, done) \in {Exit(c), c}
      \/ IsUserBankrupt(c) /\ Closed(b, shortage, done) = EnterBankruptcy(c)
  BY DEF Closed
<1> QED BY <1>1, <1>2, ExitMoves, BankruptcyMoves, BegunMoves

(* An account that leaves a liquidation that it was in, or bankruptcy.     *)
LEMMA ExitReturns ==
  ASSUME NEW a, IsAccount(a) PROVE Moved(a, Exit(a))
BY ExitClears DEF Moved, PhaseOf

LEMMA DeclaredIsAccount ==
  ASSUME NEW a, IsAccount(a)
  PROVE  IsAccount(Declared(a)) /\ Declared(a).episode = a.episode
BY BankruptcySets DEF Declared

(* Resolving a bankruptcy, declared only now or before.                    *)
LEMMA ResolvedMoves ==
  ASSUME NEW a, NEW b, IsAccount(a), Declared(a).bankrupt,
         SameStatus(Declared(a), b)
  PROVE  Moved(a, Resolved(b))
<1>1. IsAccount(b) /\ b.bankrupt /\ b.episode = a.episode
  BY DeclaredIsAccount DEF SameStatus
<1>2. (Resolved(b) = b /\ IsUserBankrupt(b)) \/ Resolved(b) = Exit(b)
  BY DEF Resolved
<1>3. IsUserBankrupt(b) => Moved(a, b) BY <1>1 DEF Moved, PhaseOf, IsAccount
<1>4. Moved(a, Exit(b)) BY <1>1, ExitClears DEF Moved, PhaseOf, IsAccount
<1> QED BY <1>2, <1>3, <1>4
-----------------------------------------------------------------------------
(* The two ways a step assigns accounts.                                   *)

LEMMA OnlyOneMoves ==
  ASSUME NEW u \in Users, NEW a, Roster, Moved(acct[u], a),
         acct' = [acct EXCEPT ![u] = a]
  PROVE  OneMoves(u)
BY DEF OneMoves, Roster, SameStatus, LeftBankrupt

LEMMA BothMove ==
  ASSUME NEW u \in Users, NEW l \in Users, u # l, NEW a, NEW b, Roster,
         Moved(acct[u], a), SameStatus(acct[l], b), Both(u, a, l, b),
         ~acct[l].bankrupt \/ l \in rewarded'
  PROVE  OneMoves(u)
BY DEF OneMoves, Roster, SameStatus, LeftBankrupt, Both

LEMMA OpenedMoves ==
  ASSUME NEW u \in Users, Roster, ~acct[u].bankrupt,
         acct' = [acct EXCEPT ![u] = Opened(acct[u])]
  PROVE  OneMoves(u)
BY OpenedBegins, BegunMoves, OnlyOneMoves, Zenon DEF Roster

LEMMA TransferMoves ==
  ASSUME NEW u \in Users, NEW l \in Users, u # l, Roster, ~acct[u].bankrupt,
         ~acct[l].bankrupt,
         NEW b, Begun(acct[u], b), NEW shortage, NEW done,
         NEW c, SameStatus(acct[l], c),
         Both(u, Closed(b, shortage, done), l, c)
  PROVE  OneMoves(u)
<1>1. Moved(acct[u], Closed(b, shortage, done)) BY ClosedMoves, Zenon DEF Roster
<1> QED BY <1>1, BothMove, Zenon

LEMMA RecoveredMoves ==
  ASSUME NEW u \in Users, Roster, Recovered(u) PROVE OneMoves(u)
BY ExitReturns, OnlyOneMoves, Zenon DEF Recovered, Only, Roster

LEMMA UnburdenedMoves ==
  ASSUME NEW u \in Users, Roster, ~acct[u].bankrupt, Unburdened(u)
  PROVE  OneMoves(u)
<1>1. Moved(acct[u], Exit(Opened(acct[u])))
  BY OpenedBegins, ExitMoves, Zenon DEF Roster
<1> QED BY <1>1, OnlyOneMoves, Zenon DEF Unburdened, Only

LEMMA HeldMoves ==
  ASSUME NEW u \in Users, Roster, ~acct[u].bankrupt, NEW n, Held(u, n)
  PROVE  OneMoves(u)
BY OpenedMoves, Zenon DEF Held, Only
-----------------------------------------------------------------------------
(* The transfers of the six attempts, out of an account a in its episode.  *)

LEMMA TakeOverPerpMoves ==
  ASSUME NEW u \in Users, NEW l \in Users, u # l, Roster, ~acct[u].bankrupt,
         ~acct[l].bankrupt,
         NEW a, Begun(acct[u], a), NEW m, NEW plan, NEW fee,
         TakeOverPerp(u, l, a, m, plan, fee)
  PROVE  OneMoves(u)
<1>1. \A base, quote : Begun(acct[u], AddPerp(a, m, base, quote))
  BY AddPerpKeeps, BegunStays, Zenon DEF Begun
<1>2. \A base, quote : SameStatus(acct[l], AddPerp(acct[l], m, base, quote))
  BY AddPerpKeeps, Zenon DEF Roster
<1> QED BY <1>1, <1>2, TransferMoves, Zenon DEF TakeOverPerp

LEMMA FillByMakerMoves ==
  ASSUME NEW u \in Users, NEW k \in Users, Roster, ~acct[u].bankrupt,
         NEW a, Begun(acct[u], a), NEW m, NEW plan, NEW fillPrice,
         FillByMaker(u, k, a, m, plan, fillPrice)
  PROVE  OneMoves(u)
<1>1. \A base, quote : Begun(acct[u], AddPerp(a, m, base, quote))
  BY AddPerpKeeps, BegunStays, Zenon DEF Begun
<1>2. \A base, quote : SameStatus(acct[k], AddPerp(acct[k], m, base, quote))
  BY AddPerpKeeps, Zenon DEF Roster
<1>3. ~acct[k].bankrupt BY DEF FillByMaker, IsBeingLiquidated
<1> QED BY <1>1, <1>2, <1>3, TransferMoves, Zenon DEF FillByMaker

LEMMA SpotLegs ==
  ASSUME NEW a, NEW b, Begun(a, b), NEW m, NEW n, NEW x, NEW y
  PROVE  Begun(a, AddSpot(AddSpot(b, m, x), n, y))
<1>1. Begun(a, AddSpot(b, m, x)) BY AddSpotKeeps, BegunStays, Zenon DEF Begun
<1>2. IsAccount(AddSpot(b, m, x)) BY <1>1 DEF Begun
<1> QED BY <1>1, <1>2, AddSpotKeeps, BegunStays, Zenon

LEMMA MixedLegs ==
  ASSUME NEW a, NEW b, Begun(a, b), NEW m, NEW p, NEW x, NEW base, NEW quote
  PROVE  Begun(a, AddPerp(AddSpot(b, m, x), p, base, quote))
<1>1. Begun(a, AddSpot(b, m, x)) BY AddSpotKeeps, BegunStays, Zenon DEF Begun
<1>2. IsAccount(AddSpot(b, m, x)) BY <1>1 DEF Begun
<1> QED BY <1>1, <1>2, AddPerpKeeps, BegunStays, Zenon

LEMMA TakerSpotLegs ==
  ASSUME NEW a, IsAccount(a), NEW m, NEW n, NEW x, NEW y
  PROVE  SameStatus(a, AddSpot(AddSpot(a, m, x), n, y))
<1>1. SameStatus(a, AddSpot(a, m, x)) BY AddSpotKeeps, Zenon
<1>2. SameStatus(AddSpot(a, m, x), AddSpot(AddSpot(a, m, x), n, y))
  <2>1. IsAccount(AddSpot(a, m, x)) BY <1>1 DEF SameStatus
  <2> QED BY <2>1, AddSpotKeeps, Zenon
<1> QED BY <1>1, <1>2, SameStatusChains, Zenon

LEMMA TakerMixedLegs ==
  ASSUME NEW a, IsAccount(a), NEW m, NEW p, NEW x, NEW base, NEW quote
  PROVE  SameStatus(a, AddPerp(AddSpot(a, m, x), p, base, quote))
<1>1. SameStatus(a, AddSpot(a, m, x)) BY AddSpotKeeps, Zenon
<1>2. SameStatus(AddSpot(a, m, x), AddPerp(AddSpot(a, m, x), p, base, quote))
  <2>1. IsAccount(AddSpot(a, m, x)) BY <1>1 DEF SameStatus
  <2> QED BY <2>1, AddPerpKeeps, Zenon
<1> QED BY <1>1, <1>2, SameStatusChains, Zenon

LEMMA TakeOverSpotMoves ==
  ASSUME NEW u \in Users, NEW l \in Users, u # l, Roster, ~acct[u].bankrupt,
         ~acct[l].bankrupt,
         NEW a, Begun(acct[u], a), NEW c, NEW b, NEW plan,
         TakeOverSpot(u, l, a, c, b, plan)
  PROVE  OneMoves(u)
<1>1. \A x, y : Begun(acct[u], AddSpot(AddSpot(a, b, x), c, y)) BY SpotLegs, Zenon
<1>2. \A x, y : SameStatus(acct[l], AddSpot(AddSpot(acct[l], b, x), c, y))
  BY TakerSpotLegs, Zenon DEF Roster
<1> QED BY <1>1, <1>2, TransferMoves, Zenon DEF TakeOverSpot

LEMMA TakeOverBorrowMoves ==
  ASSUME NEW u \in Users, NEW l \in Users, u # l, Roster, ~acct[u].bankrupt,
         ~acct[l].bankrupt,
         NEW a, Begun(acct[u], a), NEW p, NEW b, NEW plan,
         TakeOverBorrow(u, l, a, p, b, plan)
  PROVE  OneMoves(u)
<1>1. \A x, y, z : Begun(acct[u], AddPerp(AddSpot(a, b, x), p, y, z))
  BY MixedLegs, Zenon
<1>2. \A x, y, z : SameStatus(acct[l], AddPerp(AddSpot(acct[l], b, x), p, y, z))
  BY TakerMixedLegs, Zenon DEF Roster
<1> QED BY <1>1, <1>2, TransferMoves, Zenon DEF TakeOverBorrow

LEMMA TakeOverLossMoves ==
  ASSUME NEW u \in Users, NEW l \in Users, u # l, Roster, ~acct[u].bankrupt,
         ~acct[l].bankrupt,
         NEW a, Begun(acct[u], a), NEW p, NEW c, NEW plan,
         TakeOverLoss(u, l, a, p, c, plan)
  PROVE  OneMoves(u)
<1>1. \A x, y, z : Begun(acct[u], AddPerp(AddSpot(a, c, x), p, y, z))
  BY MixedLegs, Zenon
<1>2. \A x, y, z : SameStatus(acct[l], AddPerp(AddSpot(acct[l], c, x), p, y, z))
  BY TakerMixedLegs, Zenon DEF Roster
<1> QED BY <1>1, <1>2, TransferMoves, Zenon DEF TakeOverLoss
-----------------------------------------------------------------------------
(* The attempts.                                                           *)

LEMMA LiquidatePerpMoves ==
  ASSUME NEW u \in Users, NEW l \in Users, NEW m, NEW max, Roster,
         LiquidatePerp(u, l, m, max)
  PROVE  OneMoves(u)
<1>1. u # l /\ ~acct[u].bankrupt /\ ~acct[l].bankrupt
  BY DEF LiquidatePerp, CanAttempt
<1>2. Begun(acct[u], Opened(acct[u])) BY <1>1, OpenedBegins, Zenon DEF Roster
<1> QED BY <1>1, <1>2, RecoveredMoves, UnburdenedMoves, HeldMoves, OpenedMoves,
           TakeOverPerpMoves, Zenon DEF LiquidatePerp, Attempt, Only

LEMMA LiquidatePerpWithFillMoves ==
  ASSUME NEW u \in Users, NEW l \in Users, NEW k \in Users, NEW m, NEW n,
         NEW atLimit, Roster, LiquidatePerpWithFill(u, l, k, m, n, atLimit)
  PROVE  OneMoves(u)
<1>1. u # l /\ ~acct[u].bankrupt /\ ~acct[l].bankrupt
  BY DEF LiquidatePerpWithFill, CanAttempt
<1>2. Begun(acct[u], Opened(acct[u])) BY <1>1, OpenedBegins, Zenon DEF Roster
<1> QED BY <1>1, <1>2, RecoveredMoves, UnburdenedMoves, HeldMoves, OpenedMoves,
           FillByMakerMoves, Zenon DEF LiquidatePerpWithFill, Attempt, Only

LEMMA LiquidateSpotMoves ==
  ASSUME NEW u \in Users, NEW l \in Users, NEW c, NEW b, NEW max, Roster,
         LiquidateSpot(u, l, c, b, max)
  PROVE  OneMoves(u)
<1>1. u # l /\ ~acct[u].bankrupt /\ ~acct[l].bankrupt
  BY DEF LiquidateSpot, CanAttempt
<1>2. Begun(acct[u], Opened(acct[u])) BY <1>1, OpenedBegins, Zenon DEF Roster
<1> QED BY <1>1, <1>2, RecoveredMoves, UnburdenedMoves, HeldMoves,
           TakeOverSpotMoves, Zenon DEF LiquidateSpot, Attempt

LEMMA LiquidateSpotWithSwapMoves ==
  ASSUME NEW u \in Users, NEW l \in Users, NEW c, NEW b, NEW in, NEW out,
         Roster, LiquidateSpotWithSwap(u, l, c, b, in, out)
  PROVE  OneMoves(u)
<1>1. ~acct[u].bankrupt BY DEF LiquidateSpotWithSwap, CanAttempt
<1>2. Begun(acct[u], Opened(acct[u])) BY <1>1, OpenedBegins, Zenon DEF Roster
<1>3. \A x, y : Begun(acct[u], AddSpot(AddSpot(Opened(acct[u]), b, x), c, y))
  BY <1>2, SpotLegs, Zenon
<1>4. PICK x, y, s, d :
        acct' = [acct EXCEPT ![u] =
                   Closed(AddSpot(AddSpot(Opened(acct[u]), b, x), c, y), s, d)]
  BY Zenon DEF LiquidateSpotWithSwap, EndSwap
<1>5. Moved(acct[u], Closed(AddSpot(AddSpot(Opened(acct[u]), b, x), c, y), s, d))
  BY <1>1, <1>3, ClosedMoves, Zenon DEF Roster
<1> QED BY <1>4, <1>5, OnlyOneMoves, Zenon

LEMMA LiquidateBorrowMoves ==
  ASSUME NEW u \in Users, NEW l \in Users, NEW p, NEW b, NEW max, Roster,
         LiquidateBorrowForPerpPnl(u, l, p, b, max)
  PROVE  OneMoves(u)
<1>1. u # l /\ ~acct[u].bankrupt /\ ~acct[l].bankrupt
  BY DEF LiquidateBorrowForPerpPnl, CanAttempt
<1>2. Begun(acct[u], Opened(acct[u])) BY <1>1, OpenedBegins, Zenon DEF Roster
<1> QED BY <1>1, <1>2, RecoveredMoves, UnburdenedMoves, HeldMoves,
           TakeOverBorrowMoves, Zenon DEF LiquidateBorrowForPerpPnl, Attempt

LEMMA LiquidatePnlMoves ==
  ASSUME NEW u \in Users, NEW l \in Users, NEW p, NEW c, NEW max, Roster,
         LiquidatePerpPnlForDeposit(u, l, p, c, max)
  PROVE  OneMoves(u)
<1>1. u # l /\ ~acct[u].bankrupt /\ ~acct[l].bankrupt
  BY DEF LiquidatePerpPnlForDeposit, CanAttempt
<1>2. Begun(acct[u], Opened(acct[u])) BY <1>1, OpenedBegins, Zenon DEF Roster
<1> QED BY <1>1, <1>2, RecoveredMoves, UnburdenedMoves, HeldMoves, OpenedMoves,
           TakeOverLossMoves, Zenon
           DEF LiquidatePerpPnlForDeposit, Attempt, Only
-----------------------------------------------------------------------------
(* The other instructions.                                                 *)

LEMMA SetStatusMoves ==
  ASSUME NEW u \in Users, Roster, SetUserStatusToBeingLiquidated(u)
  PROVE  OneMoves(u)
<1>1. IsAccount(acct[u]) /\ ~acct[u].bankrupt
  BY DEF Roster, SetUserStatusToBeingLiquidated, IsBeingLiquidated
<1>2. Moved(acct[u], Enter(acct[u])) BY <1>1, EnterBegins, BegunMoves, Zenon
<1> QED BY <1>2, OnlyOneMoves, Zenon DEF SetUserStatusToBeingLiquidated, Only

LEMMA ResolvePerpMoves ==
  ASSUME NEW u \in Users, NEW l \in Users, NEW p, NEW r, Roster,
         ResolvePerpBankruptcy(u, l, p, r)
  PROVE  OneMoves(u)
<1> DEFINE a == Declared(acct[u])
           b == [a EXCEPT !.perp[p].quote = 0]
<1>1. IsAccount(acct[u]) /\ a.bankrupt
  BY DEF Roster, ResolvePerpBankruptcy, CanResolve
<1>2. SameStatus(a, b) BY <1>1, DeclaredIsAccount, PerpOnly, Zenon
<1>3. Moved(acct[u], Resolved(b)) BY <1>1, <1>2, ResolvedMoves, Zenon
<1>4. acct' = [acct EXCEPT ![u] = Resolved(b)] BY Zenon DEF ResolvePerpBankruptcy
<1> QED BY <1>3, <1>4, OnlyOneMoves, Zenon

LEMMA ResolveSpotMoves ==
  ASSUME NEW u \in Users, NEW l \in Users, NEW m, NEW r, Roster,
         m \in SpotMarkets, ResolveSpotBankruptcy(u, l, m, r)
  PROVE  OneMoves(u)
<1> DEFINE a == Declared(acct[u])
           b == [a EXCEPT !.spot[m] = 0]
<1>1. IsAccount(acct[u]) /\ a.bankrupt
  BY DEF Roster, ResolveSpotBankruptcy, CanResolve
<1>2. SameStatus(a, b)
  <2> DEFINE s == [a.spot EXCEPT ![m] = 0]
  <2>1. IsAccount(a) BY <1>1, DeclaredIsAccount, Zenon
  <2> HIDE DEF a
  <2>2. s = [x \in SpotMarkets |-> s[x]] BY <2>1 DEF IsAccount
  <2> HIDE DEF s
  <2> QED BY <2>1, <2>2, SpotOnly, Zenon DEF s
<1>3. Moved(acct[u], Resolved(b)) BY <1>1, <1>2, ResolvedMoves, Zenon
<1> HIDE DEF a, b
<1>4. PICK total, loss :
        acct' = [w \in Users |->
           IF w = u THEN Resolved(b)
           ELSE [acct[w] EXCEPT !.spot[m] = IF total = 0 THEN @
                                           ELSE Cut(@, loss, total)]]
  BY Zenon DEF ResolveSpotBankruptcy, a, b
<1>5. acct'[u] = Resolved(b) BY <1>4
<1>6. ASSUME NEW w \in Users \ {u}
      PROVE  SameStatus(acct[w], acct'[w]) /\ LeftBankrupt(w)
  <2> DEFINE v == IF total = 0 THEN acct[w].spot[m]
                               ELSE Cut(acct[w].spot[m], loss, total)
             s == [acct[w].spot EXCEPT ![m] = v]
  <2>1. acct'[w] = [acct[w] EXCEPT !.spot = s] BY <1>4
  <2>2. IsAccount(acct[w]) BY DEF Roster
  <2>3. SameStatus(acct[w], acct'[w])
    <3>1. s = [x \in SpotMarkets |-> s[x]] BY <2>2 DEF IsAccount
    <3> HIDE DEF s
    <3> QED BY <2>1, <2>2, <3>1, SpotOnly
  <2>4. IsUserBankrupt(acct[w]) => acct'[w] = acct[w]
    <3> SUFFICES ASSUME IsUserBankrupt(acct[w]) PROVE acct'[w] = acct[w]
      OBVIOUS
    <3>1. acct[w].spot[m] <= 0 BY DEF IsUserBankrupt
    <3>2. v = acct[w].spot[m] BY <3>1 DEF Cut
    <3>3. s = acct[w].spot
      <4> HIDE DEF v
      <4> QED BY <2>2, <3>2 DEF IsAccount
    <3> QED BY <2>1, <2>2, <3>3 DEF IsAccount
  <2> QED BY <2>3, <2>4, Zenon DEF LeftBankrupt
<1>7. acct' = [w \in Users |-> acct'[w]] BY <1>4
<1> QED BY <1>3, <1>5, <1>6, <1>7 DEF OneMoves

LEMMA DepositMoves ==
  ASSUME NEW u \in Users, NEW m, NEW n, Roster, Deposit(u, m, n)
  PROVE  OneMoves(u)
<1> DEFINE a == AddSpot(acct[u], m, n)
           b == IF IsBeingLiquidated(a) /\ CanExit(a) THEN Exit(a) ELSE a
<1>1. IsAccount(acct[u]) /\ ~acct[u].bankrupt BY DEF Roster, Deposit
<1>2. SameStatus(acct[u], a) BY <1>1, AddSpotKeeps, Zenon
<1>3. Moved(acct[u], Exit(a))
  BY <1>1, <1>2, ExitClears DEF SameStatus, Moved, PhaseOf
<1>4. Moved(acct[u], b)
  BY <1>1, <1>2, <1>3, SameStatusMoves, Zenon
<1>7. ~b.bankrupt
  <2>1. ~a.bankrupt /\ ~Exit(a).bankrupt
    BY <1>1, <1>2, ExitClears DEF SameStatus
  <2> HIDE DEF a
  <2> QED BY <2>1, Zenon
<1>5. Moved(acct[u], Active(b))
  <2> HIDE DEF b
  <2>1. SameStatus(b, Active(b)) BY <1>4, ActiveKeeps, Zenon DEF Moved
  <2> QED BY <1>4, <1>7, <2>1 DEF Moved, SameStatus, PhaseOf
<1>6. acct' = [acct EXCEPT ![u] = Active(b)] BY Zenon DEF Deposit
<1> QED BY <1>5, <1>6, OnlyOneMoves, Zenon

LEMMA PlaceOrderMoves ==
  ASSUME NEW u \in Users, NEW p, NEW n, Roster, PlaceOrder(u, p, n)
  PROVE  OneMoves(u)
<1> DEFINE a == IF IsBeingLiquidated(acct[u]) THEN Exit(acct[u]) ELSE acct[u]
           c == [a EXCEPT !.perp[p].bids = @ + Floored(n)]
           b == [a EXCEPT !.perp[p].bids = @ + Floored(n),
                          !.perp[p].asks = @ + Floored(-n)]
<1>1. IsAccount(acct[u]) BY DEF Roster
<1>2. SameStatus(acct[u], acct[u]) BY <1>1 DEF SameStatus
<1>7. ~a.bankrupt
  <2>1. ~IsBeingLiquidated(acct[u]) => ~acct[u].bankrupt BY DEF IsBeingLiquidated
  <2>2. ~Exit(acct[u]).bankrupt BY <1>1, ExitClears
  <2> QED BY <2>1, <2>2, Zenon
<1>3. Moved(acct[u], a) BY <1>1, <1>2, <1>7, SameStatusMoves, ExitReturns, Zenon
<1>4. SameStatus(a, b)
  <2>1. IsAccount(a) BY <1>3, Zenon DEF Moved
  <2> HIDE DEF a
  <2>2. SameStatus(a, c) BY <2>1, PerpOnly, Zenon
  <2>3. IsAccount(c) BY <2>2, Zenon DEF SameStatus
  <2>4. SameStatus(c, [c EXCEPT !.perp[p].asks = a.perp[p].asks + Floored(-n)])
    <3> HIDE DEF c
    <3> QED BY <2>3, PerpOnly, Zenon
  <2> QED BY <2>2, <2>4, SameStatusChains, Zenon
<1>5. Moved(acct[u], Active(b))
  <2>1. IsAccount(b) BY <1>4, Zenon DEF SameStatus
  <2> HIDE DEF a, b
  <2>2. SameStatus(b, Active(b)) BY <2>1, ActiveKeeps, Zenon
  <2> QED BY <1>3, <1>4, <1>7, <2>2 DEF Moved, SameStatus, PhaseOf
<1>6. acct' = [acct EXCEPT ![u] = Active(b)] BY Zenon DEF PlaceOrder
<1> QED BY <1>5, <1>6, OnlyOneMoves, Zenon

LEMMA KeeperRewardMoves ==
  ASSUME NEW v \in Users, NEW u \in Users, NEW p, Roster, KeeperReward(v, u, p)
  PROVE  OneMoves(v)
<1> DEFINE a == AddPerp(acct[v], p, 0, -Reward)
           b == AddPerp(acct[u], p, 0, Reward)
<1>1. u # v /\ IsAccount(acct[u]) /\ IsAccount(acct[v]) BY DEF KeeperReward, Roster
<1>6. ~acct[v].bankrupt BY DEF KeeperReward, IsBeingLiquidated
<1>7. u \in rewarded' BY DEF KeeperReward
<1>2. Moved(acct[v], a) BY <1>1, <1>6, AddPerpKeeps, SameStatusMoves, Zenon
<1>3. SameStatus(acct[u], b) BY <1>1, AddPerpKeeps, Zenon
<1>4. SameStatus(acct[u], Active(b))
  <2> HIDE DEF b
  <2>1. IsAccount(b) BY <1>3, Zenon DEF SameStatus
  <2> QED BY <1>3, <2>1, ActiveKeeps, SameStatusChains, Zenon
<1>5. Both(v, a, u, Active(b)) BY Zenon DEF KeeperReward
<1> QED BY <1>1, <1>2, <1>4, <1>5, <1>7, BothMove, Zenon
-----------------------------------------------------------------------------
(* The specification.                                                      *)

LEMMA LiquidateMoves ==
  ASSUME NEW u \in Users, NEW l \in Users, Roster, Liquidate(u, l)
  PROVE  OneMoves(u)
BY LiquidatePerpMoves, LiquidatePerpWithFillMoves, LiquidateSpotMoves,
   LiquidateSpotWithSwapMoves, LiquidateBorrowMoves, LiquidatePnlMoves, Zenon
   DEF Liquidate

LEMMA StepMoves ==
  ASSUME Roster, [Next]_vars
  PROVE  acct' = acct \/ \E u \in Users : OneMoves(u)
<1>1. CASE \E u, l \in Users : Liquidate(u, l) \/ Resolve(u, l)
  BY <1>1, LiquidateMoves, ResolvePerpMoves, ResolveSpotMoves, Zenon DEF Resolve
<1>2. CASE \E u \in Users : SetUserStatusToBeingLiquidated(u)
  BY <1>2, SetStatusMoves, Zenon
<1>3. CASE \E u \in Users, m \in SpotMarkets, n \in Deposits : Deposit(u, m, n)
  BY <1>3, DepositMoves, Zenon
<1>4. CASE \E u \in Users, p \in PerpMarkets, n \in Orders : PlaceOrder(u, p, n)
  BY <1>4, PlaceOrderMoves, Zenon
<1>5. CASE \E v, u \in Users, p \in PerpMarkets : KeeperReward(v, u, p)
  BY <1>5, KeeperRewardMoves, Zenon
<1>6. CASE \E m \in DOMAIN Prices : \E v \in Prices[m] : OracleMove(m, v)
  BY <1>6, Zenon DEF OracleMove
<1>7. CASE Tick \/ UNCHANGED vars BY <1>7, Zenon DEF Tick, vars
<1> QED BY <1>1, <1>2, <1>3, <1>4, <1>5, <1>6, <1>7, Zenon DEF Next

LEMMA InitRoster == Init => Roster
<1> SUFFICES ASSUME Init PROVE Roster OBVIOUS
<1>1. PICK s \in Scenarios :
        acct = [u \in Users |->
          [spot |-> s.spot[u], perp |-> s.perp[u], liquidating |-> FALSE,
           bankrupt |-> FALSE, freed |-> 0, lastActive |-> 0, episode |-> 1]]
  BY Zenon DEF Init
<1>2. acct = [u \in Users |-> acct[u]] BY <1>1
<1>3. ASSUME NEW u \in Users PROVE IsAccount(acct[u])
  <2>1. s.spot[u] \in [SpotMarkets -> Int] BY LiquidationAssumption
  <2> QED BY <1>1, <2>1 DEF IsAccount
<1> QED BY <1>2, <1>3 DEF Roster

LEMMA RosterKept ==
  ASSUME Roster, acct' = acct \/ \E u \in Users : OneMoves(u) PROVE Roster'
<1>1. CASE acct' = acct BY <1>1, Zenon DEF Roster
<1>2. ASSUME NEW u \in Users, OneMoves(u) PROVE Roster'
  BY <1>2, Zenon DEF OneMoves, Roster, Moved, SameStatus
<1> QED BY <1>1, <1>2, Zenon

(* One account's move is a step of the life cycle, or none.                *)
LEMMA MoveIsLifecycleStep ==
  ASSUME NEW u \in Users, Roster, OneMoves(u)
  PROVE  Lifecycle!Next \/ UNCHANGED <<Statuses, Episodes>>
<1> DEFINE before == PhaseOf(acct[u])
           after  == PhaseOf(acct'[u])
           kept   == acct'[u].episode = acct[u].episode
<1>1. \A w \in Users \ {u} : PhaseOf(acct'[w]) = PhaseOf(acct[w])
                              /\ acct'[w].episode = acct[w].episode
  BY DEF OneMoves, SameStatus, PhaseOf
<1>2. Statuses' = [w \in Users |-> PhaseOf(acct'[w])]
  BY Zenon DEF Statuses, PhaseOf
<1>3. Episodes' = [w \in Users |-> acct'[w].episode] BY Zenon DEF Episodes
<1>4. Statuses' = [Statuses EXCEPT ![u] = after]
  <2> HIDE DEF after
  <2>1. after = PhaseOf(acct'[u]) BY DEF after
  <2> QED BY <1>1, <1>2, <2>1 DEF Statuses
<1>5. Episodes' = [Episodes EXCEPT ![u] = acct'[u].episode]
  BY <1>1, <1>3 DEF Episodes
<1>6. Statuses[u] = before /\ Episodes[u] = acct[u].episode
  BY DEF Statuses, Episodes
<1>7. Statuses = [w \in Users |-> Statuses[w]] /\ Episodes = [w \in Users |-> Episodes[w]]
  BY DEF Statuses, Episodes
<1>8. kept => Episodes' = Episodes BY <1>5, <1>6, <1>7
<1>9. after \in Lifecycle!Phase BY DEF PhaseOf, Lifecycle!Phase
<1>10. CASE after = before /\ kept
  BY <1>4, <1>6, <1>7, <1>8, <1>10
<1>11. CASE before = "normal" /\ acct'[u].episode = acct[u].episode + 1
  <2>1. Lifecycle!Begin(u)
    BY <1>4, <1>5, <1>6, <1>9, <1>11 DEF Lifecycle!Begin
  <2> QED BY <2>1, Zenon DEF Lifecycle!Next
<1>12. CASE before = "liquidating" /\ after \in {"normal", "bankrupt"} /\ kept
  <2>1. Lifecycle!Conclude(u)
    BY <1>4, <1>6, <1>8, <1>12 DEF Lifecycle!Conclude
  <2> QED BY <2>1, Zenon DEF Lifecycle!Next
<1>13. CASE before = "bankrupt" /\ after = "normal" /\ kept
  <2>1. Lifecycle!Absolve(u)
    BY <1>4, <1>6, <1>8, <1>13 DEF Lifecycle!Absolve
  <2> QED BY <2>1, Zenon DEF Lifecycle!Next
<1>14. CASE before = "normal" /\ after = "bankrupt" /\ kept
  <2>1. Lifecycle!Declare(u)
    BY <1>4, <1>6, <1>8, <1>14 DEF Lifecycle!Declare
  <2> QED BY <2>1, Zenon DEF Lifecycle!Next
<1> QED BY <1>10, <1>11, <1>12, <1>13, <1>14, Zenon DEF OneMoves, Moved

LEMMA InitIsLifecycle == ASSUME Init PROVE Lifecycle!Init
<1>1. PICK s \in Scenarios :
        acct = [u \in Users |->
          [spot |-> s.spot[u], perp |-> s.perp[u], liquidating |-> FALSE,
           bankrupt |-> FALSE, freed |-> 0, lastActive |-> 0, episode |-> 1]]
  BY Zenon DEF Init
<1>2. \A u \in Users : PhaseOf(acct[u]) = "normal" /\ acct[u].episode = 1
  BY <1>1 DEF PhaseOf
<1> QED BY <1>2 DEF Lifecycle!Init, Statuses, Episodes

LEMMA StepIsLifecycle ==
  ASSUME Roster, [Next]_vars PROVE [Lifecycle!Next]_<<Statuses, Episodes>>
<1>1. CASE acct' = acct BY <1>1, Zenon DEF Statuses, Episodes, PhaseOf
<1>2. CASE \E u \in Users : OneMoves(u) BY <1>2, MoveIsLifecycleStep, Zenon
<1> QED BY <1>1, <1>2, StepMoves, Zenon

(* Every behaviour of the liquidation handlers is, seen from the status    *)
(* bits and the episode counter of the accounts, one that the life cycle   *)
(* allows (enter_liquidation, exit_liquidation, enter_bankruptcy and       *)
(* exit_bankruptcy of state/user.rs as their callers combine them).        *)
THEOREM LifecycleImplemented == Spec => FollowsLifecycle
<1>1. Init => Roster /\ Lifecycle!Init BY InitRoster, InitIsLifecycle
<1>2. Roster /\ [Next]_vars => Roster' BY StepMoves, RosterKept, Zenon
<1>3. Roster /\ [Next]_vars => [Lifecycle!Next]_<<Statuses, Episodes>>
  BY StepIsLifecycle
<1> QED BY <1>1, <1>2, <1>3, PTL DEF Spec, FollowsLifecycle, Lifecycle!Spec

LEMMA RewardsStay == ASSUME [Next]_vars PROVE rewarded \subseteq rewarded'
<1>1. CASE \E v, u \in Users, p \in PerpMarkets : KeeperReward(v, u, p)
  BY <1>1 DEF KeeperReward
<1>2. CASE rewarded' = rewarded BY <1>2
<1>3. CASE \E u, l \in Users : Liquidate(u, l)
  <2> USE DEF world, Only, Held, Attempt, Unburdened, Recovered
  <2>1. ASSUME NEW u, NEW l, NEW m, NEW max, LiquidatePerp(u, l, m, max)
        PROVE  rewarded' = rewarded
    BY <2>1, Zenon DEF LiquidatePerp, TakeOverPerp
  <2>2. ASSUME NEW u, NEW l, NEW k, NEW m, NEW n, NEW atLimit,
               LiquidatePerpWithFill(u, l, k, m, n, atLimit)
        PROVE  rewarded' = rewarded
    BY <2>2, Zenon DEF LiquidatePerpWithFill, FillByMaker
  <2>3. ASSUME NEW u, NEW l, NEW c, NEW b, NEW max, LiquidateSpot(u, l, c, b, max)
        PROVE  rewarded' = rewarded
    BY <2>3, Zenon DEF LiquidateSpot, TakeOverSpot
  <2>4. ASSUME NEW u, NEW l, NEW c, NEW b, NEW in, NEW out,
               LiquidateSpotWithSwap(u, l, c, b, in, out)
        PROVE  rewarded' = rewarded
    BY <2>4, Zenon DEF LiquidateSpotWithSwap
  <2>5. ASSUME NEW u, NEW l, NEW p, NEW b, NEW max,
               \/ LiquidateBorrowForPerpPnl(u, l, p, b, max)
               \/ LiquidatePerpPnlForDeposit(u, l, p, b, max)
        PROVE  rewarded' = rewarded
    BY <2>5, Zenon DEF LiquidateBorrowForPerpPnl, TakeOverBorrow,
                       LiquidatePerpPnlForDeposit, TakeOverLoss
  <2>6. rewarded' = rewarded
    BY <1>3, <2>1, <2>2, <2>3, <2>4, <2>5, Zenon DEF Liquidate
  <2> QED BY <2>6
<1>4. CASE \E u, l \in Users : Resolve(u, l)
  <2>1. ASSUME NEW u, NEW l, NEW p, NEW r, ResolvePerpBankruptcy(u, l, p, r)
        PROVE  rewarded' = rewarded
    BY <2>1, Zenon DEF ResolvePerpBankruptcy, world
  <2>2. ASSUME NEW u, NEW l, NEW m, NEW r, ResolveSpotBankruptcy(u, l, m, r)
        PROVE  rewarded' = rewarded
    BY <2>2, Zenon DEF ResolveSpotBankruptcy, world
  <2>3. rewarded' = rewarded BY <1>4, <2>1, <2>2, Zenon DEF Resolve
  <2> QED BY <2>3
<1>5. CASE \/ \E u \in Users : SetUserStatusToBeingLiquidated(u)
           \/ \E u \in Users, m \in SpotMarkets, n \in Deposits : Deposit(u, m, n)
           \/ \E u \in Users, p \in PerpMarkets, n \in Orders : PlaceOrder(u, p, n)
           \/ \E m \in DOMAIN Prices : \E v \in Prices[m] : OracleMove(m, v)
           \/ Tick
  <2>1. ASSUME NEW u, SetUserStatusToBeingLiquidated(u) PROVE rewarded' = rewarded
    BY <2>1, Zenon DEF SetUserStatusToBeingLiquidated, Only, world
  <2>2. ASSUME NEW u, NEW m, NEW n, Deposit(u, m, n) \/ PlaceOrder(u, m, n)
        PROVE  rewarded' = rewarded
    BY <2>2, Zenon DEF Deposit, PlaceOrder
  <2>3. ASSUME NEW m, NEW v, OracleMove(m, v) PROVE rewarded' = rewarded
    BY <2>3, Zenon DEF OracleMove
  <2>4. Tick => rewarded' = rewarded BY Zenon DEF Tick
  <2>5. rewarded' = rewarded BY <1>5, <2>1, <2>2, <2>3, <2>4, Zenon
  <2> QED BY <2>5
<1>6. CASE UNCHANGED vars BY <1>2, <1>6, Zenon DEF vars
<1> QED BY <1>1, <1>3, <1>4, <1>5, <1>6, Zenon DEF Next

(* An instruction marks an account bankrupt when it owns nothing and owes  *)
(* something, and no other instruction but a reward gives it an asset: the *)
(* takers of a liquidation and its makers are never bankrupt, and interest *)
(* that pays for a bankruptcy only takes from deposits.                    *)
LEMMA BankruptcyStaysReal ==
  ASSUME Roster, BankruptcyIsReal, [Next]_vars PROVE BankruptcyIsReal'
<1> SUFFICES ASSUME NEW w \in Users, acct'[w].bankrupt
             PROVE  IsUserBankrupt(acct'[w]) \/ w \in rewarded'
  BY Zenon DEF BankruptcyIsReal, IsUserBankrupt, HasOpenOrder
<1>1. rewarded \subseteq rewarded' BY RewardsStay
<1>2. CASE acct' = acct BY <1>1, <1>2 DEF BankruptcyIsReal
<1>3. ASSUME NEW u \in Users, OneMoves(u)
      PROVE  IsUserBankrupt(acct'[w]) \/ w \in rewarded'
  <2>1. CASE w = u BY <1>3, <2>1 DEF OneMoves, Moved
  <2>2. CASE w # u
    <3>1. acct[w].bankrupt /\ LeftBankrupt(w)
      BY <1>3, <2>2 DEF OneMoves, SameStatus
    <3> QED BY <1>1, <3>1 DEF LeftBankrupt, BankruptcyIsReal
  <2> QED BY <2>1, <2>2
<1> QED BY <1>2, <1>3, StepMoves, Zenon

(* Whatever liquidations, rewards, deposits and socialised losses happen   *)
(* in between, an account with the Bankrupt bit owns nothing and owes      *)
(* something, but for rewards (is_user_bankrupt of math/bankruptcy.rs,     *)
(* which handlers evaluate once and then rely on the bit).                 *)
THEOREM BankruptciesAreReal == Spec => []BankruptcyIsReal
<1>1. Init => Roster /\ BankruptcyIsReal
  <2>1. Init => BankruptcyIsReal
    <3> SUFFICES ASSUME Init, NEW u \in Users PROVE ~acct[u].bankrupt
      BY Zenon DEF BankruptcyIsReal
    <3>1. PICK s \in Scenarios :
            acct = [v \in Users |->
              [spot |-> s.spot[v], perp |-> s.perp[v], liquidating |-> FALSE,
               bankrupt |-> FALSE, freed |-> 0, lastActive |-> 0, episode |-> 1]]
      BY Zenon DEF Init
    <3> QED BY <3>1
  <2> QED BY <2>1, InitRoster
<1>2. Roster /\ BankruptcyIsReal /\ [Next]_vars => (Roster /\ BankruptcyIsReal)'
  BY StepMoves, RosterKept, BankruptcyStaysReal, Zenon
<1> QED BY <1>1, <1>2, PTL DEF Spec
-----------------------------------------------------------------------------
(* The arithmetic of margin and liquidation amounts.                       *)

LEMMA DivIsNat ==
  ASSUME NEW n \in Nat, NEW d \in Nat \ {0} PROVE n \div d \in Nat
OBVIOUS

LEMMA DivIsInt ==
  ASSUME NEW n \in Int, NEW d \in Nat \ {0} PROVE n \div d \in Int
OBVIOUS

LEMMA TimesIsNat == ASSUME NEW a \in Nat, NEW b \in Nat PROVE a * b \in Nat
OBVIOUS

LEMMA TimesIsPositive ==
  ASSUME NEW a \in Nat \ {0}, NEW b \in Nat \ {0} PROVE a * b \in Nat \ {0}
<1>1. a * b > 0 OBVIOUS
<1> QED BY <1>1

LEMMA SizeIsNat == ASSUME NEW n \in Int PROVE Size(n) \in Nat
BY DEF Size

LEMMA LesserIn ==
  ASSUME NEW S, NEW a \in S, NEW b \in S PROVE Lesser(a, b) \in S
BY DEF Lesser

LEMMA LargerIn ==
  ASSUME NEW S, NEW a \in S, NEW b \in S PROVE Larger(a, b) \in S
BY DEF Larger

LEMMA FlooredIsNat == ASSUME NEW n \in Int PROVE Floored(n) \in Nat
BY DEF Floored, Larger

LEMMA UpDivIsNat ==
  ASSUME NEW n \in Nat, NEW d \in Nat \ {0} PROVE UpDiv(n, d) \in Nat
<1>1. n + d - 1 \in Nat OBVIOUS
<1> QED BY <1>1, DivIsNat DEF UpDiv

LEMMA UpDivIsInt ==
  ASSUME NEW n \in Int, NEW d \in Nat \ {0} PROVE UpDiv(n, d) \in Int
<1>1. n + d - 1 \in Int OBVIOUS
<1> QED BY <1>1, DivIsInt DEF UpDiv

LEMMA UpDivCovers ==
  ASSUME NEW n \in Int, NEW d \in Nat \ {0} PROVE d * UpDiv(n, d) >= n
BY DEF UpDiv

LEMMA UpDivBounded ==
  ASSUME NEW n \in Int, NEW d \in Nat \ {0}, NEW k \in Int, n <= d * k
  PROVE  UpDiv(n, d) <= k
<1> DEFINE q == (n + d - 1) \div d
<1>1. q \in Int /\ d * q <= n + d - 1 OBVIOUS
<1>2. ASSUME q >= k + 1 PROVE FALSE
  <2> HIDE DEF q
  <2>1. d * q >= d * (k + 1) BY <1>1, <1>2
  <2>2. d * (k + 1) = d * k + d OBVIOUS
  <2>3. d * k \in Int /\ d * q \in Int BY <1>1
  <2> QED BY <1>1, <2>1, <2>2, <2>3
<1> HIDE DEF q
<1> QED BY <1>1, <1>2 DEF UpDiv, q

LEMMA FeeOnIsInt ==
  ASSUME NEW v \in Int, NEW fee \in Int PROVE FeeOn(v, fee) \in Int
<1>1. v * fee \in Int OBVIOUS
<1> QED BY <1>1, DivIsInt, MarginAssumption DEF FeeOn

LEMMA FeeOnIsNat ==
  ASSUME NEW v \in Nat, NEW fee \in Nat PROVE FeeOn(v, fee) \in Nat
BY TimesIsNat, DivIsNat, MarginAssumption DEF FeeOn
-----------------------------------------------------------------------------
(* Collateral, requirements and shortages are numbers.                     *)

PriceMap == [Markets -> Nat \ {0}]

LEMMA SpotTerms ==
  ASSUME NEW a \in User, NEW m \in SpotMarkets, NEW value \in PriceMap,
         NEW type \in Types
  PROVE  /\ SpotCollateral(a, m, value, type) \in Nat
         /\ SpotLiability(a, m, value) \in Nat
         /\ SpotRequirement(a, m, value, type) \in Nat
<1>1. a.spot[m] \in Int BY DEF User
<1>2. value[m] \in Nat BY DEF PriceMap, Markets
<1>3. /\ AssetWeight[type][m] \in Nat /\ LiabilityWeight[type][m] \in Nat
      /\ Scale \in Nat
  BY MarginAssumption
<1>4. SpotCollateral(a, m, value, type) \in Nat
  <2> DEFINE w == IF m = Quote THEN Scale ELSE value[m] * AssetWeight[type][m]
  <2>1. w \in Nat BY <1>2, <1>3, TimesIsNat
  <2> HIDE DEF w
  <2> QED BY <1>1, <2>1, TimesIsNat DEF SpotCollateral, w
<1>5. SpotLiability(a, m, value) \in Nat
  <2> DEFINE w == IF m = Quote THEN 1 ELSE value[m]
  <2>1. w \in Nat BY <1>2
  <2> DEFINE s == a.spot[m]
  <2> HIDE DEF w, s
  <2>2. s \in Int BY <1>1 DEF s
  <2>3. (-s) * w = -(s * w) /\ s * w \in Int BY <2>1, <2>2
  <2>4. s < 0 => (-s) * w \in Nat
    <3> SUFFICES ASSUME s < 0 PROVE (-s) * w \in Nat OBVIOUS
    <3>1. -s \in Nat BY <2>2
    <3> QED BY <2>1, <3>1, TimesIsNat
  <2> QED BY <2>3, <2>4 DEF SpotLiability, w, s
<1>6. SpotRequirement(a, m, value, type) \in Nat
  BY <1>3, <1>5, TimesIsNat DEF SpotRequirement
<1> QED BY <1>4, <1>5, <1>6

LEMMA PerpTerms ==
  ASSUME NEW a \in User, NEW m \in PerpMarkets, NEW value \in PriceMap,
         NEW type \in Types
  PROVE  /\ UnrealizedPnl(a.perp[m], value[m]) \in Int
         /\ WeightedPnl(a.perp[m], m, value[m], type) \in Int
         /\ WorstCaseBase(a.perp[m]) \in Nat
         /\ WorstCaseBase(a.perp[m]) * value[m] \in Nat
         /\ PerpRequirement(a, m, value, type) \in Nat
<1>1. a.perp[m] \in PerpPosition BY DEF User
<1>2. value[m] \in Nat BY DEF PriceMap, Markets
<1>3. PnlWeight[type][m] \in Nat /\ MarginRatio[type][m] \in Nat /\ Scale \in Nat
  BY MarginAssumption
<1>4. UnrealizedPnl(a.perp[m], value[m]) \in Int
  BY <1>1, <1>2 DEF UnrealizedPnl, PerpPosition
<1>5. WeightedPnl(a.perp[m], m, value[m], type) \in Int
  <2> DEFINE pnl == UnrealizedPnl(a.perp[m], value[m])
             w   == IF pnl > 0 THEN PnlWeight[type][m] ELSE Scale
  <2>1. w \in Int BY <1>3
  <2> HIDE DEF w
  <2>2. pnl * w \in Int BY <1>4, <2>1
  <2> QED BY <2>2 DEF WeightedPnl, w
<1>6. WorstCaseBase(a.perp[m]) \in Nat
  <2>1. /\ a.perp[m].base + a.perp[m].bids \in Int
        /\ a.perp[m].base - a.perp[m].asks \in Int
    BY <1>1 DEF PerpPosition
  <2> QED BY <2>1, SizeIsNat, LargerIn DEF WorstCaseBase
<1>7. WorstCaseBase(a.perp[m]) * value[m] \in Nat BY <1>2, <1>6, TimesIsNat
<1>8. PerpRequirement(a, m, value, type) \in Nat
  BY <1>3, <1>7, TimesIsNat DEF PerpRequirement
<1> QED BY <1>4, <1>5, <1>6, <1>7, <1>8

LEMMA RequirementIsNat ==
  ASSUME NEW a \in User, NEW value \in PriceMap, NEW type \in Types
  PROVE  MarginRequirement(a, value, type) \in Nat
<1> DEFINE F == [m \in SpotMarkets |-> SpotRequirement(a, m, value, type)]
           G == [m \in PerpMarkets |-> PerpRequirement(a, m, value, type)]
<1>1. SumFunctionOnSet(F, SpotMarkets) \in Nat
  <2>1. \A m \in SpotMarkets : F[m] \in Nat BY SpotTerms
  <2> HIDE DEF F
  <2> QED BY <2>1, SumIsNat, MarginAssumption
<1>2. SumFunctionOnSet(G, PerpMarkets) \in Nat
  <2>1. \A m \in PerpMarkets : G[m] \in Nat BY PerpTerms
  <2> HIDE DEF G
  <2> QED BY <2>1, SumIsNat, MarginAssumption
<1>3. MarginRequirement(a, value, type)
        = SumFunctionOnSet(F, SpotMarkets) + SumFunctionOnSet(G, PerpMarkets)
  BY DEF MarginRequirement, SumOver
<1> HIDE DEF F, G
<1> QED BY <1>1, <1>2, <1>3

LEMMA CollateralIsInt ==
  ASSUME NEW a \in User, NEW value \in PriceMap, NEW type \in Types
  PROVE  TotalCollateral(a, value, type) \in Int
<1> DEFINE F == [m \in SpotMarkets |-> SpotCollateral(a, m, value, type)]
           G == [m \in PerpMarkets |-> WeightedPnl(a.perp[m], m, value[m], type)]
<1>1. SumFunctionOnSet(F, SpotMarkets) \in Int
  <2>1. \A m \in SpotMarkets : F[m] \in Int BY SpotTerms
  <2> HIDE DEF F
  <2> QED BY <2>1, SumIsInt, MarginAssumption
<1>2. SumFunctionOnSet(G, PerpMarkets) \in Int
  <2>1. \A m \in PerpMarkets : G[m] \in Int BY PerpTerms
  <2> HIDE DEF G
  <2> QED BY <2>1, SumIsInt, MarginAssumption
<1>3. TotalCollateral(a, value, type)
        = SumFunctionOnSet(F, SpotMarkets) + SumFunctionOnSet(G, PerpMarkets)
  BY DEF TotalCollateral, SumOver
<1> HIDE DEF F, G
<1> QED BY <1>1, <1>2, <1>3

LEMMA ShortageIsNat ==
  ASSUME NEW a \in User, price \in PriceMap PROVE Shortage(a) \in Nat
<1> DEFINE F == [m \in PerpMarkets |-> Lesser(UnrealizedPnl(a.perp[m], price[m]), 0)]
           G == [m \in SpotMarkets |-> SpotLiability(a, m, price)]
           H == [m \in PerpMarkets |-> WorstCaseBase(a.perp[m]) * price[m]]
           f == SumFunctionOnSet(F, PerpMarkets)
           g == SumFunctionOnSet(G, SpotMarkets)
           h == SumFunctionOnSet(H, PerpMarkets)
<1>1. "Maintenance" \in Types /\ Buffer \in Int
  BY MarginAssumption DEF Types
<1>2. f \in Int
  <2>1. \A m \in PerpMarkets : F[m] \in Int BY <1>1, PerpTerms DEF Lesser
  <2> HIDE DEF F
  <2> QED BY <2>1, SumIsInt, MarginAssumption
<1>3. g \in Int
  <2>1. \A m \in SpotMarkets : G[m] \in Int BY <1>1, SpotTerms
  <2> HIDE DEF G
  <2> QED BY <2>1, SumIsInt, MarginAssumption
<1>4. h \in Int
  <2>1. \A m \in PerpMarkets : H[m] \in Int BY <1>1, PerpTerms
  <2> HIDE DEF H
  <2> QED BY <2>1, SumIsInt, MarginAssumption
<1>5. CollateralPlusBuffer(a, price) = TotalCollateral(a, price, "Maintenance") + Buffer * f
  BY DEF CollateralPlusBuffer, SumOver
<1>6. RequirementPlusBuffer(a, price)
        = MarginRequirement(a, price, "Maintenance") + Buffer * (g + h)
  BY DEF RequirementPlusBuffer, SumOver
<1> HIDE DEF f, g, h
<1>7. Buffer * f \in Int /\ Buffer * (g + h) \in Int BY <1>1, <1>2, <1>3, <1>4
<1>8. CollateralPlusBuffer(a, price) \in Int
  BY <1>1, <1>5, <1>7, CollateralIsInt
<1>9. RequirementPlusBuffer(a, price) \in Int
  BY <1>1, <1>6, <1>7, RequirementIsNat
<1> QED BY <1>8, <1>9, SizeIsNat DEF Shortage, MarginShortage

LEMMA TrackedIsNat ==
  ASSUME NEW a \in User, price \in PriceMap, NEW m \in Markets, NEW n \in Nat
  PROVE  TrackedShortage(a, price, m, n) \in Nat
<1> DEFINE total == MarginRequirement(a, price, "Maintenance")
           own   == IF m \in SpotMarkets
                      THEN SpotRequirement(a, m, price, "Maintenance")
                      ELSE PerpRequirement(a, m, price, "Maintenance")
<1>1. "Maintenance" \in Types BY DEF Types
<1>2. total \in Nat BY <1>1, RequirementIsNat
<1>3. own \in Nat BY <1>1, SpotTerms, PerpTerms DEF Markets
<1> HIDE DEF total, own
<1>4. total # 0 => (n * own) \div total \in Nat
  BY <1>2, <1>3, TimesIsNat, DivIsNat
<1> QED BY <1>4 DEF TrackedShortage, total, own
-----------------------------------------------------------------------------
(* What a liquidation may take.                                            *)

LEMMA PctIsNat ==
  ASSUME NEW a \in User, price \in PriceMap, slot \in Nat PROVE Pct(a) \in Nat
<1> DEFINE e == Elapsed(a)
           s == Shortage(a)
           grown == IF Duration = 0 THEN PctScale ELSE (e * PctScale) \div Duration
           pct == Lesser(PctScale, InitialPct + grown)
           freeable == Floored(((s + a.freed) * pct) \div PctScale - a.freed)
<1>1. /\ PctScale \in Nat \ {0} /\ Duration \in Nat /\ InitialPct \in Nat
      /\ Scale \in Nat \ {0} /\ SmallShortage \in Nat \ {0}
  BY MarginAssumption
<1>2. e \in Int BY DEF User, Elapsed
<1>3. s \in Nat BY ShortageIsNat
<1>4. a.freed \in Nat BY DEF User
<1>9. Pct(a) = IF s < SmallShortage * Scale THEN PctScale
                                            ELSE (freeable * PctScale) \div s
  BY DEF Pct, MaxPctToLiquidate
<1> HIDE DEF e, s
<1>5. grown \in Int
  <2>1. e * PctScale \in Int BY <1>1, <1>2
  <2> QED BY <1>1, <2>1, DivIsInt
<1> HIDE DEF grown
<1>6. pct \in Int BY <1>1, <1>5 DEF Lesser
<1> HIDE DEF pct
<1>7. freeable \in Nat
  <2>1. (s + a.freed) * pct \in Int BY <1>3, <1>4, <1>6
  <2>2. ((s + a.freed) * pct) \div PctScale \in Int BY <1>1, <2>1, DivIsInt
  <2>3. ((s + a.freed) * pct) \div PctScale - a.freed \in Int BY <1>4, <2>2
  <2> QED BY <2>3, FlooredIsNat
<1> HIDE DEF freeable
<1>8. s >= SmallShortage * Scale => (freeable * PctScale) \div s \in Nat
  <2>1. SmallShortage * Scale \in Nat \ {0} BY <1>1, TimesIsPositive
  <2>2. s >= SmallShortage * Scale => s \in Nat \ {0} BY <1>3, <2>1
  <2> QED BY <1>1, <1>7, <2>2, TimesIsNat, DivIsNat
<1>10. SmallShortage * Scale \in Nat BY <1>1, TimesIsNat
<1> QED BY <1>1, <1>3, <1>8, <1>9, <1>10

LEMMA LiquidationFeeBounded ==
  ASSUME NEW m \in PerpMarkets, NEW e \in Int
  PROVE  LiquidationFee(m, e) \in 0 .. Scale
<1>1. /\ LiquidatorFee[m] \in Nat /\ InsuranceFee[m] \in Nat
      /\ LiquidatorFee[m] + InsuranceFee[m] < Scale
      /\ MarginRatio["Maintenance"][m] \in 0 .. Scale
      /\ Scale \in Nat /\ FeePerSlot \in Nat /\ Grace \in Nat
  BY MarginAssumption DEF Markets, Types
<1>2. e >= Grace => e * FeePerSlot \in Nat BY <1>1, TimesIsNat
<1> QED BY <1>1, <1>2 DEF LiquidationFee, Lesser

LEMMA PerpPlanSound ==
  ASSUME NEW a \in User, price \in PriceMap, slot \in Nat,
         NEW m \in PerpMarkets, NEW max \in Nat, NEW fee \in Nat,
         a.perp[m].base # 0
  PROVE  LET plan == PerpPlan(a, m, max, fee)
         IN  /\ plan.n \in Nat /\ plan.insured \in Nat
             /\ plan.allowed # 0 => plan.cover \in Nat \ {0}
<1> DEFINE size == Size(a.perp[m].base)
           ratio == MarginRatio["Maintenance"][m] + Buffer
           tracked == TrackedShortage(a, price, m, Shortage(a))
           left == Floored(Floored(ratio - fee) - tracked \div (size * price[m]))
           insured == InsuranceFeeOf(a, m, fee)
           cover == BaseToCover(Shortage(a), m, price[m], fee, insured)
<1>1. /\ ratio \in Nat /\ InsuranceFee[m] \in Nat /\ PctScale \in Nat \ {0}
      /\ price[m] \in Nat \ {0} /\ m \in Markets
  BY MarginAssumption DEF PriceMap, Markets, Types
<1>2. size \in Nat \ {0} BY DEF User, PerpPosition, Size
<1>3. tracked \in Nat BY <1>1, ShortageIsNat, TrackedIsNat
<1>4. insured = IF ratio <= fee THEN 0
                ELSE Lesser(InsuranceFee[m], (left * 19) \div 20)
  BY <1>2 DEF InsuranceFeeOf, PerpInsuranceFee
<1>5. Shortage(a) \in Nat /\ Pct(a) \in Nat BY ShortageIsNat, PctIsNat
<1> HIDE DEF size, ratio, tracked
<1>6. left \in Nat /\ (ratio > fee => left <= ratio - fee)
  <2> DEFINE q == tracked \div (size * price[m])
  <2>1. q \in Nat BY <1>1, <1>2, <1>3, TimesIsPositive, DivIsNat
  <2> HIDE DEF q
  <2> QED BY <1>1, <2>1 DEF Floored, Larger, q
<1> HIDE DEF left
<1>7. insured \in Nat /\ (ratio > fee => ratio - fee - insured \in Nat \ {0})
  <2> HIDE DEF insured
  <2>1. (left * 19) \div 20 \in Nat BY <1>6
  <2>2. ratio > fee => (left * 19) \div 20 < ratio - fee BY <1>1, <1>6
  <2> QED BY <1>1, <1>4, <2>1, <2>2 DEF Lesser
<1> HIDE DEF insured
<1>8. cover \in Nat
  <2>1. ratio > fee => UpDiv(Shortage(a), price[m] * (ratio - fee - insured)) \in Nat
    BY <1>1, <1>5, <1>7, TimesIsPositive, UpDivIsNat
  <2> QED BY <1>1, <2>1 DEF BaseToCover, Unbounded, ratio
<1>9. PerpTransfer(a, m, cover) \in Nat
  <2> DEFINE allowed == IF cover = Unbounded THEN Unbounded
                        ELSE UpDiv(cover * Pct(a), PctScale)
             least == IF size * price[m] > SmallPosition THEN 0 ELSE size
  <2> HIDE DEF cover
  <2>1. allowed \in Nat
    BY <1>1, <1>5, <1>8, TimesIsNat, UpDivIsNat DEF Unbounded
  <2>2. least \in Nat BY <1>2
  <2>3. PerpTransfer(a, m, cover) = Lesser(size, Larger(allowed, least))
    BY DEF PerpTransfer, size
  <2> HIDE DEF allowed, least
  <2> QED BY <1>2, <2>1, <2>2, <2>3 DEF Lesser, Larger
<1>10. /\ PerpPlan(a, m, max, fee).n = Lesser(max, PerpTransfer(a, m, cover))
       /\ PerpPlan(a, m, max, fee).insured = insured
       /\ PerpPlan(a, m, max, fee).cover = cover
       /\ PerpPlan(a, m, max, fee).allowed = Lesser(Pct(a), cover)
  BY DEF PerpPlan, cover, insured
<1> HIDE DEF cover
<1>11. Lesser(max, PerpTransfer(a, m, cover)) \in Nat BY <1>9, LesserIn
<1>12. Lesser(Pct(a), cover) # 0 => cover \in Nat \ {0}
  BY <1>5, <1>8 DEF Lesser
<1> DEFINE plan == PerpPlan(a, m, max, fee)
<1>13. /\ plan.n \in Nat /\ plan.insured \in Nat
       /\ plan.allowed # 0 => plan.cover \in Nat \ {0}
  BY <1>7, <1>10, <1>11, <1>12
<1> QED BY <1>13

(* The two sides of a plan have a price and a multiplier above zero.       *)
Side(x) == /\ x.value \in Nat \ {0} /\ x.mult \in Nat \ {0}
           /\ x.weight \in Nat

LEMMA Multipliers ==
  ASSUME NEW m \in Markets
  PROVE  Premium(m) \in Nat \ {0} /\ Discount(m) \in Nat \ {0}
<1>1. /\ LiquidatorFee[m] \in Nat /\ InsuranceFee[m] \in Nat
      /\ LiquidatorFee[m] + InsuranceFee[m] < Scale /\ Scale \in Nat \ {0}
  BY MarginAssumption
<1> QED BY <1>1 DEF Premium, Discount

LEMMA SpotSides ==
  ASSUME price \in PriceMap, NEW m \in SpotMarkets
  PROVE  Side(SpotAsset(m)) /\ Side(SpotOwed(m))
<1>1. /\ price[m] \in Nat \ {0} /\ AssetWeight["Maintenance"][m] \in Nat
      /\ LiabilityWeight["Maintenance"][m] \in Nat /\ m \in Markets
  BY MarginAssumption DEF Markets, PriceMap, Types
<1> QED BY <1>1, Multipliers DEF Side, SpotAsset, SpotOwed

LEMMA PnlSides ==
  ASSUME NEW p \in PerpMarkets PROVE Side(PnlAsset(p)) /\ Side(PnlOwed(p))
<1>1. /\ PnlWeight["Maintenance"][p] \in Nat /\ Scale \in Nat /\ p \in Markets
  BY MarginAssumption DEF Markets, Types
<1> QED BY <1>1, Multipliers DEF Side, PnlAsset, PnlOwed

LEMMA SpotFeeIsNat ==
  ASSUME NEW a \in User, price \in PriceMap, NEW c \in SpotMarkets,
         NEW b \in SpotMarkets, a.spot[b] < 0
  PROVE  SpotInsuranceFee(TrackedShortage(a, price, b, Shortage(a)),
           -a.spot[b], SpotAsset(c).weight, SpotAsset(c).mult, b,
           SpotOwed(b).mult, price[b]) \in Nat
<1> DEFINE tracked == TrackedShortage(a, price, b, Shortage(a))
           n == -a.spot[b]
           weight == SpotAsset(c).weight
           mult == SpotAsset(c).mult
           owedMult == SpotOwed(b).mult
           owed == LiabilityWeight["Maintenance"][b] + Buffer
           left == Floored(Floored(owed - (weight * mult) \div owedMult)
                             - tracked \div (n * price[b]))
<1>1. weight \in Nat /\ mult \in Nat /\ owedMult \in Nat \ {0}
  <2>1. Side(SpotAsset(c)) /\ Side(SpotOwed(b)) BY SpotSides
  <2> QED BY <2>1 DEF Side
<1>2. n \in Nat \ {0}
  <2>1. a.spot[b] \in Int BY DEF User
  <2> QED BY <2>1
<1>3. /\ owed \in Nat \ {0} /\ InsuranceFee[b] \in Nat /\ Scale \in Nat
      /\ price[b] \in Nat \ {0} /\ b \in Markets
  BY MarginAssumption DEF PriceMap, Markets, Types
<1>4. tracked \in Nat BY <1>3, ShortageIsNat, TrackedIsNat
<1> HIDE DEF tracked, n, weight, mult, owedMult
<1>5. left \in Nat
  <2>1. (weight * mult) \div owedMult \in Nat BY <1>1, TimesIsNat, DivIsNat
  <2>2. tracked \div (n * price[b]) \in Nat
    BY <1>2, <1>3, <1>4, TimesIsPositive, DivIsNat
  <2> HIDE DEF owed
  <2> QED BY <1>3, <2>1, <2>2 DEF Floored, Larger
<1>6. (left * Scale) \div owed \in Nat
  <2> HIDE DEF left, owed
  <2> QED BY <1>3, <1>5, TimesIsNat, DivIsNat
<1>7. SpotInsuranceFee(tracked, n, weight, mult, b, owedMult, price[b])
        = IF weight >= owed \/ n = 0 THEN 0
          ELSE Lesser(InsuranceFee[b], (left * Scale) \div owed)
  BY DEF SpotInsuranceFee
<1>8. SpotInsuranceFee(tracked, n, weight, mult, b, owedMult, price[b]) \in Nat
  <2> HIDE DEF left, owed
  <2>1. Lesser(InsuranceFee[b], (left * Scale) \div owed) \in Nat
    BY <1>3, <1>6, LesserIn
  <2> QED BY <1>7, <2>1
<1> QED BY <1>8 DEF tracked, n, weight, mult, owedMult

LEMMA PlanSound ==
  ASSUME NEW a \in User, price \in PriceMap, slot \in Nat, NEW max \in Nat,
         NEW owed \in Nat, NEW have \in Nat, NEW liability, Side(liability),
         NEW asset, Side(asset), NEW fee \in Nat
  PROVE  LET plan == Plan(a, max, owed, have, liability, asset, fee)
         IN  plan.n \in Nat /\ plan.asset \in Int /\ plan.fee = fee
<1> DEFINE lv == liability.value
           lm == liability.mult
           lw == liability.weight + Buffer
           av == asset.value
           am == asset.mult
           aw == asset.weight
           margin == lw - (aw * am) \div lm
           gain == margin - (fee * lw) \div Scale
           cover == LiabilityToCover(Shortage(a), aw, am, lw, lm, lv, fee)
           least == IF owed * lv > SmallBorrow THEN 0 ELSE owed
           implied == LiabilityImplied(have, am, av, lm, lv)
           allowed == Allowed(a, cover)
           n == Lesser(Lesser(max, owed), Lesser(Larger(allowed, least), implied))
           sold == AssetForLiability(have, am, av, n, lm, lv)
<1>1. /\ lv \in Nat \ {0} /\ lm \in Nat \ {0} /\ av \in Nat \ {0}
      /\ am \in Nat \ {0} /\ aw \in Nat /\ lw \in Nat
      /\ Scale \in Nat \ {0} /\ PctScale \in Nat \ {0}
  BY MarginAssumption DEF Side
<1>2. Shortage(a) \in Nat /\ Pct(a) \in Nat BY ShortageIsNat, PctIsNat
<1>3. /\ Plan(a, max, owed, have, liability, asset, fee).n = n
      /\ Plan(a, max, owed, have, liability, asset, fee).asset = sold
      /\ Plan(a, max, owed, have, liability, asset, fee).fee = fee
  BY DEF Plan
<1> HIDE DEF lv, lm, lw, av, am, aw
<1>4. cover \in Int
  <2>1. (aw * am) \div lm \in Nat BY <1>1, TimesIsNat, DivIsNat
  <2>2. (fee * lw) \div Scale \in Nat BY <1>1, TimesIsNat, DivIsNat
  <2>3. margin \in Int /\ gain \in Int BY <1>1, <2>1, <2>2
  <2>4. cover = IF aw >= lw \/ margin <= 0 THEN Unbounded
                ELSE IF gain <= 0 THEN Undefined
                ELSE Larger(1, Shortage(a) \div (lv * gain))
    BY DEF LiabilityToCover
  <2> HIDE DEF margin, gain, cover
  <2>5. gain > 0 => Shortage(a) \div (lv * gain) \in Nat
    BY <1>1, <1>2, <2>3, TimesIsPositive, DivIsNat
  <2> QED BY <2>3, <2>4, <2>5 DEF Larger, Unbounded, Undefined
<1> HIDE DEF cover
<1>5. allowed \in Int
  <2>1. cover * Pct(a) \in Int BY <1>2, <1>4
  <2>2. (cover * Pct(a)) \div PctScale \in Int BY <1>1, <2>1, DivIsInt
  <2> QED BY <2>2 DEF Allowed, Lesser, Unbounded
<1>6. least \in Nat OBVIOUS
<1>7. implied \in Nat
  <2>1. have * av * lm \in Nat BY <1>1, TimesIsNat
  <2>2. lv * am \in Nat \ {0} BY <1>1, TimesIsPositive
  <2> QED BY <2>1, <2>2, UpDivIsNat DEF LiabilityImplied
<1> HIDE DEF allowed, least, implied
<1>8. n \in Nat BY <1>5, <1>6, <1>7 DEF Lesser, Larger
<1> HIDE DEF n
<1>9. sold \in Int
  <2>1. n * lv * am \in Nat BY <1>1, <1>8, TimesIsNat
  <2>2. av * lm \in Nat \ {0} BY <1>1, TimesIsPositive
  <2>3. (n * lv * am) \div (av * lm) \in Nat BY <2>1, <2>2, DivIsNat
  <2> QED BY <2>3 DEF AssetForLiability, Larger
<1> HIDE DEF sold
<1> QED BY <1>3, <1>8, <1>9
-----------------------------------------------------------------------------
(* What the operators do to the amounts of an account.                     *)

(* b is a with another status, pace or other orders.                       *)
SameAmounts(a, b) ==
  /\ b \in User /\ b.spot = a.spot
  /\ \A p \in PerpMarkets : /\ b.perp[p].base = a.perp[p].base
                           /\ b.perp[p].quote = a.perp[p].quote

LEMMA SameAmountsChain ==
  ASSUME NEW a, NEW b, NEW c, SameAmounts(a, b), SameAmounts(b, c)
  PROVE  SameAmounts(a, c)
BY DEF SameAmounts

(* Fields other than the amounts.                                          *)
LEMMA StatusSet ==
  ASSUME NEW a \in User, NEW x \in BOOLEAN, NEW n \in Nat
  PROVE  /\ SameAmounts(a, [a EXCEPT !.liquidating = x])
         /\ SameAmounts(a, [a EXCEPT !.bankrupt = x])
         /\ SameAmounts(a, [a EXCEPT !.freed = n])
         /\ SameAmounts(a, [a EXCEPT !.lastActive = n])
         /\ SameAmounts(a, [a EXCEPT !.episode = n])
BY DEF SameAmounts, User

LEMMA SpotSet ==
  ASSUME NEW a \in User, NEW s \in [SpotMarkets -> Int]
  PROVE  [a EXCEPT !.spot = s] \in User /\ [a EXCEPT !.spot = s].spot = s
         /\ [a EXCEPT !.spot = s].perp = a.perp
BY DEF User

LEMMA PerpSet ==
  ASSUME NEW a \in User, NEW s \in [PerpMarkets -> PerpPosition]
  PROVE  [a EXCEPT !.perp = s] \in User /\ [a EXCEPT !.perp = s].perp = s
         /\ [a EXCEPT !.perp = s].spot = a.spot
BY DEF User

LEMMA SpotAdded ==
  ASSUME NEW a \in User, NEW m \in SpotMarkets, NEW n \in Int
  PROVE  /\ AddSpot(a, m, n) \in User /\ AddSpot(a, m, n).perp = a.perp
         /\ \A x \in SpotMarkets :
              AddSpot(a, m, n).spot[x] = a.spot[x] + (IF x = m THEN n ELSE 0)
<1> DEFINE s == [a.spot EXCEPT ![m] = @ + n]
<1>1. a.spot \in [SpotMarkets -> Int] BY DEF User
<1>2. /\ s \in [SpotMarkets -> Int]
      /\ \A x \in SpotMarkets : s[x] = a.spot[x] + (IF x = m THEN n ELSE 0)
  BY <1>1
<1>3. AddSpot(a, m, n) = [a EXCEPT !.spot = s] BY DEF AddSpot
<1> HIDE DEF s
<1> QED BY <1>2, <1>3, SpotSet

LEMMA BaseSet ==
  ASSUME NEW P \in [PerpMarkets -> PerpPosition], NEW m \in PerpMarkets,
         NEW v \in Int, NEW R, R = [P EXCEPT ![m].base = v]
  PROVE  /\ R \in [PerpMarkets -> PerpPosition]
         /\ \A p \in PerpMarkets : /\ R[p].base = IF p = m THEN v ELSE P[p].base
                                  /\ R[p].quote = P[p].quote
<1> DEFINE q == [P[m] EXCEPT !.base = v]
<1>1. q \in PerpPosition /\ q.base = v /\ q.quote = P[m].quote BY DEF PerpPosition
<1>2. R = [P EXCEPT ![m] = q] OBVIOUS
<1> HIDE DEF q
<1> QED BY <1>1, <1>2

LEMMA QuoteSet ==
  ASSUME NEW P \in [PerpMarkets -> PerpPosition], NEW m \in PerpMarkets,
         NEW v \in Int, NEW R, R = [P EXCEPT ![m].quote = v]
  PROVE  /\ R \in [PerpMarkets -> PerpPosition]
         /\ \A p \in PerpMarkets : /\ R[p].quote = IF p = m THEN v ELSE P[p].quote
                                  /\ R[p].base = P[p].base
<1> DEFINE q == [P[m] EXCEPT !.quote = v]
<1>1. q \in PerpPosition /\ q.quote = v /\ q.base = P[m].base BY DEF PerpPosition
<1>2. R = [P EXCEPT ![m] = q] OBVIOUS
<1> HIDE DEF q
<1> QED BY <1>1, <1>2

LEMMA PerpAdded ==
  ASSUME NEW a \in User, NEW m \in PerpMarkets, NEW base \in Int, NEW quote \in Int
  PROVE  /\ AddPerp(a, m, base, quote) \in User
         /\ AddPerp(a, m, base, quote).spot = a.spot
         /\ \A p \in PerpMarkets :
              /\ AddPerp(a, m, base, quote).perp[p].base
                   = a.perp[p].base + (IF p = m THEN base ELSE 0)
              /\ AddPerp(a, m, base, quote).perp[p].quote
                   = a.perp[p].quote + (IF p = m THEN quote ELSE 0)
<1> DEFINE r == [a.perp EXCEPT ![m].base = @ + base]
           s == [r EXCEPT ![m].quote = @ + quote]
<1>1. a.perp \in [PerpMarkets -> PerpPosition] BY DEF User
<1>2. a.perp[m].base + base \in Int /\ a.perp[m].quote + quote \in Int
  BY <1>1 DEF PerpPosition
<1>3. /\ r \in [PerpMarkets -> PerpPosition]
      /\ \A p \in PerpMarkets :
           /\ r[p].base = a.perp[p].base + (IF p = m THEN base ELSE 0)
           /\ r[p].quote = a.perp[p].quote
  <2> DEFINE v == a.perp[m].base + base
  <2>1. r = [a.perp EXCEPT ![m].base = v] OBVIOUS
  <2> HIDE DEF r
  <2>2. \A p \in PerpMarkets : a.perp[p].base \in Int
    BY <1>1 DEF PerpPosition
  <2>3. v = a.perp[m].base + base /\ v \in Int BY <1>2
  <2> HIDE DEF v
  <2>4. /\ r \in [PerpMarkets -> PerpPosition]
        /\ \A p \in PerpMarkets :
             /\ r[p].base = IF p = m THEN v ELSE a.perp[p].base
             /\ r[p].quote = a.perp[p].quote
    BY <1>1, <2>1, <2>3, BaseSet
  <2> QED BY <2>2, <2>3, <2>4
<1>4. /\ s \in [PerpMarkets -> PerpPosition]
      /\ \A p \in PerpMarkets :
           /\ s[p].base = r[p].base
           /\ s[p].quote = a.perp[p].quote + (IF p = m THEN quote ELSE 0)
  <2> DEFINE v == r[m].quote + quote
  <2>1. s = [r EXCEPT ![m].quote = v] OBVIOUS
  <2> HIDE DEF r, s
  <2>2. \A p \in PerpMarkets : a.perp[p].quote \in Int
    BY <1>1 DEF PerpPosition
  <2>3. v = a.perp[m].quote + quote /\ v \in Int BY <1>2, <1>3
  <2> HIDE DEF v
  <2>4. /\ s \in [PerpMarkets -> PerpPosition]
        /\ \A p \in PerpMarkets :
             /\ s[p].quote = IF p = m THEN v ELSE r[p].quote
             /\ s[p].base = r[p].base
    BY <1>3, <2>1, <2>3, QuoteSet
  <2> QED BY <1>3, <2>2, <2>3, <2>4
<1>5. AddPerp(a, m, base, quote) = [a EXCEPT !.perp = s] BY ZenonT(60) DEF AddPerp, User
<1> HIDE DEF r, s
<1>6. \A p \in PerpMarkets :
        /\ s[p].base = a.perp[p].base + (IF p = m THEN base ELSE 0)
        /\ s[p].quote = a.perp[p].quote + (IF p = m THEN quote ELSE 0)
  BY <1>3, <1>4
<1> QED BY <1>4, <1>5, <1>6, PerpSet

LEMMA ExitSame == ASSUME NEW a \in User PROVE SameAmounts(a, Exit(a))
<1> DEFINE b == [a EXCEPT !.liquidating = FALSE]
           c == [b EXCEPT !.bankrupt = FALSE]
           d == [c EXCEPT !.freed = 0]
<1>1. SameAmounts(a, b) BY StatusSet, Zenon
<1>2. SameAmounts(b, c)
  <2> HIDE DEF b
  <2> QED BY <1>1, StatusSet, Zenon DEF SameAmounts
<1>3. SameAmounts(c, d)
  <2> HIDE DEF c
  <2>1. 0 \in Nat OBVIOUS
  <2> QED BY <1>2, <2>1, StatusSet, Zenon DEF SameAmounts
<1>4. Exit(a) = d BY DEF Exit
<1> QED BY <1>1, <1>2, <1>3, <1>4, SameAmountsChain, Zenon

LEMMA EnterBankruptcySame ==
  ASSUME NEW a \in User PROVE SameAmounts(a, EnterBankruptcy(a))
<1> DEFINE b == [a EXCEPT !.liquidating = FALSE]
           c == [b EXCEPT !.bankrupt = TRUE]
<1>1. SameAmounts(a, b) BY StatusSet, Zenon
<1>2. SameAmounts(b, c)
  <2> HIDE DEF b
  <2> QED BY <1>1, StatusSet, Zenon DEF SameAmounts
<1>3. EnterBankruptcy(a) = c BY DEF EnterBankruptcy
<1> QED BY <1>1, <1>2, <1>3, SameAmountsChain, Zenon

LEMMA EnterSame ==
  ASSUME NEW a \in User, slot \in Nat PROVE SameAmounts(a, Enter(a))
<1> DEFINE b == [a EXCEPT !.liquidating = TRUE]
           c == [b EXCEPT !.freed = 0]
           d == [c EXCEPT !.lastActive = slot]
           e == [d EXCEPT !.episode = d.episode + 1]
<1>1. SameAmounts(a, b) BY StatusSet, Zenon
<1>2. SameAmounts(b, c)
  <2> HIDE DEF b
  <2>1. 0 \in Nat OBVIOUS
  <2> QED BY <1>1, <2>1, StatusSet, ZenonT(60) DEF SameAmounts
<1>3. SameAmounts(c, d)
  <2> HIDE DEF c
  <2> QED BY <1>2, StatusSet, ZenonT(60) DEF SameAmounts
<1>4. SameAmounts(d, e)
  <2> HIDE DEF d
  <2>1. d.episode + 1 \in Nat BY <1>3 DEF SameAmounts, User
  <2> QED BY <1>3, <2>1, StatusSet, ZenonT(60) DEF SameAmounts
<1>5. Enter(a) = IF IsBeingLiquidated(a) THEN a ELSE e BY DEF Enter
<1>6. SameAmounts(a, a) BY DEF SameAmounts
<1> HIDE DEF b, c, d, e
<1> QED BY <1>1, <1>2, <1>3, <1>4, <1>5, <1>6, SameAmountsChain, Zenon

LEMMA ActiveSame ==
  ASSUME NEW a \in User, slot \in Nat PROVE SameAmounts(a, Active(a))
<1>1. SameAmounts(a, a) BY DEF SameAmounts
<1>2. SameAmounts(a, [a EXCEPT !.lastActive = slot]) BY StatusSet, Zenon
<1> QED BY <1>1, <1>2, Zenon DEF Active

LEMMA NoOrdersSame ==
  ASSUME NEW a \in User PROVE SameAmounts(a, NoOrders(a))
<1> DEFINE s == [m \in PerpMarkets |-> [a.perp[m] EXCEPT !.bids = 0, !.asks = 0]]
<1>1. a.perp \in [PerpMarkets -> PerpPosition] BY DEF User
<1>2. s \in [PerpMarkets -> PerpPosition] BY <1>1 DEF PerpPosition
<1>3. \A p \in PerpMarkets :
        s[p].base = a.perp[p].base /\ s[p].quote = a.perp[p].quote
  BY <1>1 DEF PerpPosition
<1>4. NoOrders(a) = [a EXCEPT !.perp = s] BY DEF NoOrders
<1> HIDE DEF s
<1> QED BY <1>2, <1>3, <1>4, PerpSet DEF SameAmounts

LEMMA FreedSame ==
  ASSUME NEW a \in User, NEW n \in Int
  PROVE  SameAmounts(a, [a EXCEPT !.freed = @ + Floored(n)])
<1>1. a.freed + Floored(n) \in Nat BY FlooredIsNat DEF User
<1> QED BY <1>1, StatusSet, Zenon

LEMMA OpenedSame ==
  ASSUME NEW a \in User, price \in PriceMap, slot \in Nat
  PROVE  SameAmounts(a, Opened(a))
<1> DEFINE b == NoOrders(Enter(a))
<1>1. SameAmounts(a, b)
  <2>1. SameAmounts(a, Enter(a)) BY EnterSame
  <2>2. Enter(a) \in User BY <2>1 DEF SameAmounts
  <2> QED BY <2>1, <2>2, NoOrdersSame, SameAmountsChain, Zenon
<1>2. b \in User BY <1>1 DEF SameAmounts
<1>3. Opened(a) = [b EXCEPT !.freed = @ + Floored(Shortage(a) - Shortage(b))]
  BY DEF Opened
<1> HIDE DEF b
<1>4. Shortage(a) - Shortage(b) \in Int BY <1>2, ShortageIsNat
<1> QED BY <1>1, <1>2, <1>3, <1>4, FreedSame, SameAmountsChain

LEMMA ClosedSame ==
  ASSUME NEW a \in User, price \in PriceMap, slot \in Nat, NEW s \in Nat, NEW done
  PROVE  SameAmounts(a, Closed(a, s, done))
<1> DEFINE b == [a EXCEPT !.freed = @ + Floored(s - Shortage(a))]
<1>1. s - Shortage(a) \in Int BY ShortageIsNat
<1>2. SameAmounts(a, b) BY <1>1, FreedSame
<1>3. Closed(a, s, done) = IF done THEN Exit(b)
        ELSE IF IsUserBankrupt(b) THEN EnterBankruptcy(b) ELSE b
  BY DEF Closed
<1> HIDE DEF b
<1>4. b \in User BY <1>2 DEF SameAmounts
<1>5. SameAmounts(b, Exit(b)) /\ SameAmounts(b, EnterBankruptcy(b))
  BY <1>4, ExitSame, EnterBankruptcySame
<1> QED BY <1>2, <1>3, <1>5, SameAmountsChain, Zenon

LEMMA DeclaredSame ==
  ASSUME NEW a \in User PROVE SameAmounts(a, Declared(a))
<1>1. SameAmounts(a, a) BY DEF SameAmounts
<1> QED BY <1>1, EnterBankruptcySame, Zenon DEF Declared

LEMMA ResolvedSame ==
  ASSUME NEW a \in User PROVE SameAmounts(a, Resolved(a))
<1>1. SameAmounts(a, a) BY DEF SameAmounts
<1> QED BY <1>1, ExitSame, Zenon DEF Resolved
-----------------------------------------------------------------------------
(* Sums over the accounts.                                                 *)

Bases(p, accounts) == SumFunctionOnSet([u \in Users |-> accounts[u].perp[p].base], Users)
Quotes(p, accounts) == SumFunctionOnSet([u \in Users |-> accounts[u].perp[p].quote], Users)

LEMMA SumsByName ==
  /\ \A m, A : Claims(m, A) = SumFunctionOnSet([u \in Users |-> A[u].spot[m]], Users)
  /\ \A p : PerpBase(p) = Bases(p, acct)
  /\ \A p : PerpQuote(p) = Quotes(p, acct) + earned[p] - written[p]
BY DEF Claims, PerpBase, PerpQuote, SumUsers, SumOver, Bases, Quotes

LEMMA SumsByNamePrimed ==
  /\ \A p : PerpBase(p)' = Bases(p, acct')
  /\ \A p : PerpQuote(p)' = Quotes(p, acct') + earned'[p] - written'[p]
BY DEF PerpBase, PerpQuote, SumUsers, SumOver, Bases, Quotes

LEMMA SumsAreInts ==
  ASSUME NEW A \in [Users -> User]
  PROVE  /\ \A m \in SpotMarkets : Claims(m, A) \in Int
         /\ \A p \in PerpMarkets : Bases(p, A) \in Int /\ Quotes(p, A) \in Int
<1>1. ASSUME NEW m \in SpotMarkets PROVE Claims(m, A) \in Int
  <2> DEFINE F == [u \in Users |-> A[u].spot[m]]
  <2>1. \A u \in Users : F[u] \in Int BY DEF User
  <2>2. Claims(m, A) = SumFunctionOnSet(F, Users) BY SumsByName
  <2> HIDE DEF F
  <2> QED BY <2>1, <2>2, SumIsInt, LiquidationAssumption
<1>2. ASSUME NEW p \in PerpMarkets PROVE Bases(p, A) \in Int
  <2> DEFINE F == [u \in Users |-> A[u].perp[p].base]
  <2>1. \A u \in Users : F[u] \in Int BY DEF User, PerpPosition
  <2>2. Bases(p, A) = SumFunctionOnSet(F, Users) BY DEF Bases
  <2> HIDE DEF F
  <2> QED BY <2>1, <2>2, SumIsInt, LiquidationAssumption
<1>3. ASSUME NEW p \in PerpMarkets PROVE Quotes(p, A) \in Int
  <2> DEFINE F == [u \in Users |-> A[u].perp[p].quote]
  <2>1. \A u \in Users : F[u] \in Int BY DEF User, PerpPosition
  <2>2. Quotes(p, A) = SumFunctionOnSet(F, Users) BY DEF Quotes
  <2> HIDE DEF F
  <2> QED BY <2>1, <2>2, SumIsInt, LiquidationAssumption
<1> QED BY <1>1, <1>2, <1>3

(* The accounts after one of them got the amounts of x.                    *)
Replaced(A, u, x) == [A EXCEPT ![u] = x]

LEMMA UsersFinite == IsFiniteSet(Users)
BY LiquidationAssumption

LEMMA SumChanges ==
  ASSUME NEW f \in [User -> Int], NEW A \in [Users -> User], NEW u \in Users,
         NEW b \in User
  PROVE  SumFunctionOnSet([w \in Users |-> f[Replaced(A, u, b)[w]]], Users)
           = SumFunctionOnSet([w \in Users |-> f[A[w]]], Users) + (f[b] - f[A[u]])
<1> DEFINE F == [w \in Users |-> f[A[w]]]
           G == [w \in Users |-> f[Replaced(A, u, b)[w]]]
<1>1. G[u] = f[b] /\ F[u] = f[A[u]] BY DEF Replaced
<1>2. /\ \A w \in Users : F[w] \in Int
      /\ G[u] \in Int
      /\ \A w \in Users : w # u => F[w] = G[w]
  BY DEF Replaced
<1> HIDE DEF F, G
<1>3. SumFunctionOnSet(G, Users) = SumFunctionOnSet(F, Users) + (G[u] - F[u])
  BY <1>2, SumUpdate, UsersFinite
<1> QED BY <1>1, <1>3 DEF F, G

LEMMA ReplacedIn ==
  ASSUME NEW A \in [Users -> User], NEW u \in Users, NEW x \in User
  PROVE  /\ Replaced(A, u, x) \in [Users -> User]
         /\ \A w \in Users : Replaced(A, u, x)[w] = IF w = u THEN x ELSE A[w]
BY DEF Replaced

LEMMA OneChanges ==
  ASSUME NEW A \in [Users -> User], NEW u \in Users, NEW x \in User
  PROVE  /\ \A m \in SpotMarkets :
              Claims(m, Replaced(A, u, x))
                = Claims(m, A) + (x.spot[m] - A[u].spot[m])
         /\ \A p \in PerpMarkets :
              /\ Bases(p, Replaced(A, u, x))
                   = Bases(p, A) + (x.perp[p].base - A[u].perp[p].base)
              /\ Quotes(p, Replaced(A, u, x))
                   = Quotes(p, A) + (x.perp[p].quote - A[u].perp[p].quote)
<1> DEFINE B == Replaced(A, u, x)
<1>1. B \in [Users -> User] BY ReplacedIn
<1>2. ASSUME NEW m \in SpotMarkets
      PROVE  Claims(m, B) = Claims(m, A) + (x.spot[m] - A[u].spot[m])
  <2> DEFINE f == [a \in User |-> a.spot[m]]
  <2>1. f \in [User -> Int] BY DEF User
  <2>2. /\ [w \in Users |-> f[A[w]]] = [w \in Users |-> A[w].spot[m]]
        /\ [w \in Users |-> f[B[w]]] = [w \in Users |-> B[w].spot[m]]
        /\ f[x] = x.spot[m] /\ f[A[u]] = A[u].spot[m]
    BY <1>1
  <2> HIDE DEF f
  <2>3. SumFunctionOnSet([w \in Users |-> f[B[w]]], Users)
          = SumFunctionOnSet([w \in Users |-> f[A[w]]], Users) + (f[x] - f[A[u]])
    BY <2>1, SumChanges, Zenon
  <2> QED BY <2>2, <2>3, SumsByName
<1>3. ASSUME NEW p \in PerpMarkets
      PROVE  Bases(p, B) = Bases(p, A) + (x.perp[p].base - A[u].perp[p].base)
  <2> DEFINE f == [a \in User |-> a.perp[p].base]
  <2>1. f \in [User -> Int] BY DEF User, PerpPosition
  <2>2. /\ [w \in Users |-> f[A[w]]] = [w \in Users |-> A[w].perp[p].base]
        /\ [w \in Users |-> f[B[w]]] = [w \in Users |-> B[w].perp[p].base]
        /\ f[x] = x.perp[p].base /\ f[A[u]] = A[u].perp[p].base
    BY <1>1
  <2> HIDE DEF f
  <2>3. SumFunctionOnSet([w \in Users |-> f[B[w]]], Users)
          = SumFunctionOnSet([w \in Users |-> f[A[w]]], Users) + (f[x] - f[A[u]])
    BY <2>1, SumChanges, Zenon
  <2> QED BY <2>2, <2>3 DEF Bases
<1>4. ASSUME NEW p \in PerpMarkets
      PROVE  Quotes(p, B) = Quotes(p, A) + (x.perp[p].quote - A[u].perp[p].quote)
  <2> DEFINE f == [a \in User |-> a.perp[p].quote]
  <2>1. f \in [User -> Int] BY DEF User, PerpPosition
  <2>2. /\ [w \in Users |-> f[A[w]]] = [w \in Users |-> A[w].perp[p].quote]
        /\ [w \in Users |-> f[B[w]]] = [w \in Users |-> B[w].perp[p].quote]
        /\ f[x] = x.perp[p].quote /\ f[A[u]] = A[u].perp[p].quote
    BY <1>1
  <2> HIDE DEF f
  <2>3. SumFunctionOnSet([w \in Users |-> f[B[w]]], Users)
          = SumFunctionOnSet([w \in Users |-> f[A[w]]], Users) + (f[x] - f[A[u]])
    BY <2>1, SumChanges, Zenon
  <2> QED BY <2>2, <2>3 DEF Quotes
<1> QED BY <1>2, <1>3, <1>4, Zenon

(* The same of two of them.                                                *)
Traded(A, u, x, l, y) == Replaced(Replaced(A, u, x), l, y)

LEMMA TwoChange ==
  ASSUME NEW A \in [Users -> User], NEW u \in Users, NEW l \in Users, u # l,
         NEW x \in User, NEW y \in User
  PROVE  /\ Traded(A, u, x, l, y) \in [Users -> User]
         /\ \A m \in SpotMarkets :
              Claims(m, Traded(A, u, x, l, y))
                = Claims(m, A) + (x.spot[m] - A[u].spot[m])
                               + (y.spot[m] - A[l].spot[m])
         /\ \A p \in PerpMarkets :
              /\ Bases(p, Traded(A, u, x, l, y))
                   = Bases(p, A) + (x.perp[p].base - A[u].perp[p].base)
                                 + (y.perp[p].base - A[l].perp[p].base)
              /\ Quotes(p, Traded(A, u, x, l, y))
                   = Quotes(p, A) + (x.perp[p].quote - A[u].perp[p].quote)
                                  + (y.perp[p].quote - A[l].perp[p].quote)
<1> DEFINE C == Replaced(A, u, x)
<1>2. C \in [Users -> User] /\ C[l] = A[l] BY ReplacedIn
<1>3. /\ \A m \in SpotMarkets :
           Claims(m, C) = Claims(m, A) + (x.spot[m] - A[u].spot[m])
      /\ \A p \in PerpMarkets :
           /\ Bases(p, C) = Bases(p, A) + (x.perp[p].base - A[u].perp[p].base)
           /\ Quotes(p, C) = Quotes(p, A) + (x.perp[p].quote - A[u].perp[p].quote)
  BY OneChanges, Zenon
<1>6. Traded(A, u, x, l, y) = Replaced(C, l, y) BY DEF Traded
<1> HIDE DEF C
<1> DEFINE D == Replaced(C, l, y)
<1>4. /\ \A m \in SpotMarkets :
           Claims(m, D) = Claims(m, C) + (y.spot[m] - C[l].spot[m])
      /\ \A p \in PerpMarkets :
           /\ Bases(p, D) = Bases(p, C) + (y.perp[p].base - C[l].perp[p].base)
           /\ Quotes(p, D) = Quotes(p, C) + (y.perp[p].quote - C[l].perp[p].quote)
  BY <1>2, OneChanges, Zenon
<1>5. D \in [Users -> User] BY <1>2, ReplacedIn, Zenon
<1> HIDE DEF D
<1>7. Traded(A, u, x, l, y) = D BY <1>6 DEF D
<1> QED BY <1>2, <1>3, <1>4, <1>5, <1>7
-----------------------------------------------------------------------------
(* Steps.  The type invariant is that of accounts, funds and the world.    *)

FundsTyped ==
  /\ vault \in [SpotMarkets -> Nat] /\ revenue \in [SpotMarkets -> Nat]
  /\ insurance \in [SpotMarkets -> Nat]
  /\ pools \in [PerpMarkets -> [pnl : Nat, fee : Nat, claim : Nat]]
  /\ earned \in [PerpMarkets -> Nat] /\ written \in [PerpMarkets -> Nat]

WorldTyped ==
  /\ price \in PriceMap /\ slot \in Nat
  /\ rewarded \subseteq Users /\ moves \in Nat /\ acts \in Nat

LEMMA TypesByPart ==
  TypeOK <=> acct \in [Users -> User] /\ FundsTyped /\ WorldTyped
BY DEF TypeOK, FundsTyped, WorldTyped, PriceMap

PerpSame ==
  \A p \in PerpMarkets : PerpBase(p)' = PerpBase(p) /\ PerpQuote(p)' = PerpQuote(p)

(* What is shown of every step.                                            *)
StepSound == TypeOK' /\ VaultsBacked' /\ PerpSame

(* What is owed in a market: PoolTokens and Claims with the pools and the  *)
(* accounts as parameters.                                                 *)
TokensOf(m, ps) ==
  IF m = Quote THEN SumFunctionOnSet([p \in PerpMarkets |-> ps[p].pnl + ps[p].fee],
                                     PerpMarkets)
               ELSE 0

LEMMA BackedByName ==
  \A m \in SpotMarkets :
    Backed(m) <=> vault[m] >= Claims(m, acct) + revenue[m] + TokensOf(m, pools)
BY DEF Backed, TokensOf, PoolTokens, SumOver

LEMMA BackedPrimed ==
  \A m \in SpotMarkets :
    Backed(m)' <=> vault'[m] >= Claims(m, acct') + revenue'[m] + TokensOf(m, pools')
BY DEF Backed, TokensOf, PoolTokens, SumOver, Claims, SumUsers

LEMMA TokensAreNat ==
  ASSUME NEW ps \in [PerpMarkets -> [pnl : Nat, fee : Nat, claim : Nat]], NEW m
  PROVE  TokensOf(m, ps) \in Nat
<1> DEFINE F == [p \in PerpMarkets |-> ps[p].pnl + ps[p].fee]
<1>1. \A p \in PerpMarkets : F[p] \in Nat OBVIOUS
<1>2. TokensOf(m, ps) = IF m = Quote THEN SumFunctionOnSet(F, PerpMarkets) ELSE 0
  BY DEF TokensOf
<1> HIDE DEF F
<1>3. SumFunctionOnSet(F, PerpMarkets) \in Nat
  BY <1>1, SumIsNat, MarginAssumption
<1> QED BY <1>2, <1>3

(* Tokens and perp positions go from one account to another, to the        *)
(* revenue pool and to the fees a market earned.                           *)
LEMMA TransferSound ==
  ASSUME TypeOK, VaultsBacked, NEW u \in Users, NEW l \in Users, u # l,
         NEW x \in User, NEW y \in User,
         acct' = Traded(acct, u, x, l, y), WorldTyped',
         vault' = vault, insurance' = insurance, pools' = pools, written' = written,
         revenue' \in [SpotMarkets -> Nat], earned' \in [PerpMarkets -> Nat],
         \A m \in SpotMarkets :
           x.spot[m] + y.spot[m] + revenue'[m]
             = acct[u].spot[m] + acct[l].spot[m] + revenue[m],
         \A p \in PerpMarkets :
           /\ x.perp[p].base + y.perp[p].base
                = acct[u].perp[p].base + acct[l].perp[p].base
           /\ x.perp[p].quote + y.perp[p].quote + earned'[p]
                = acct[u].perp[p].quote + acct[l].perp[p].quote + earned[p]
  PROVE  StepSound
<1>1. acct \in [Users -> User] /\ FundsTyped /\ WorldTyped
  BY TypesByPart
<1>0. /\ Traded(acct, u, x, l, y) \in [Users -> User]
      /\ \A m \in SpotMarkets :
           Claims(m, Traded(acct, u, x, l, y))
             = Claims(m, acct) + (x.spot[m] - acct[u].spot[m])
                               + (y.spot[m] - acct[l].spot[m])
      /\ \A p \in PerpMarkets :
           /\ Bases(p, Traded(acct, u, x, l, y))
                = Bases(p, acct) + (x.perp[p].base - acct[u].perp[p].base)
                                 + (y.perp[p].base - acct[l].perp[p].base)
           /\ Quotes(p, Traded(acct, u, x, l, y))
                = Quotes(p, acct) + (x.perp[p].quote - acct[u].perp[p].quote)
                                  + (y.perp[p].quote - acct[l].perp[p].quote)
  BY <1>1, TwoChange, ZenonT(120)
<1>2. /\ acct' \in [Users -> User]
      /\ \A m \in SpotMarkets :
           Claims(m, acct') = Claims(m, acct) + (x.spot[m] - acct[u].spot[m])
                                              + (y.spot[m] - acct[l].spot[m])
      /\ \A p \in PerpMarkets :
           /\ Bases(p, acct') = Bases(p, acct) + (x.perp[p].base - acct[u].perp[p].base)
                                               + (y.perp[p].base - acct[l].perp[p].base)
           /\ Quotes(p, acct') = Quotes(p, acct)
                + (x.perp[p].quote - acct[u].perp[p].quote)
                + (y.perp[p].quote - acct[l].perp[p].quote)
  BY <1>0, Zenon
<1>3. /\ \A m \in SpotMarkets : Claims(m, acct) \in Int
      /\ \A p \in PerpMarkets : Bases(p, acct) \in Int /\ Quotes(p, acct) \in Int
  BY <1>1, SumsAreInts, Zenon
<1>4. \A a \in {x, y, acct[u], acct[l]} :
        /\ \A m \in SpotMarkets : a.spot[m] \in Int
        /\ \A p \in PerpMarkets : a.perp[p].base \in Int /\ a.perp[p].quote \in Int
  <2>1. \A a \in User :
          /\ \A m \in SpotMarkets : a.spot[m] \in Int
          /\ \A p \in PerpMarkets : a.perp[p].base \in Int /\ a.perp[p].quote \in Int
    BY DEF User, PerpPosition
  <2>2. \A a \in {x, y, acct[u], acct[l]} : a \in User BY <1>1
  <2> QED BY <2>1, <2>2, Zenon
<1>5. TypeOK'
  <2>1. FundsTyped' BY <1>1 DEF FundsTyped
  <2>2. (TypeOK <=> acct \in [Users -> User] /\ FundsTyped /\ WorldTyped)'
    BY TypesByPart, PTL
  <2> QED BY <1>2, <2>1, <2>2
<1>6. VaultsBacked'
  <2> SUFFICES ASSUME NEW m \in SpotMarkets PROVE Backed(m)'
    BY DEF VaultsBacked
  <2>1. Claims(m, acct') + revenue'[m] = Claims(m, acct) + revenue[m]
    <3>1. revenue'[m] \in Int /\ revenue[m] \in Int BY <1>1 DEF FundsTyped
    <3>2. /\ x.spot[m] \in Int /\ y.spot[m] \in Int
          /\ acct[u].spot[m] \in Int /\ acct[l].spot[m] \in Int
      BY <1>4
    <3>3. /\ Claims(m, acct') = Claims(m, acct) + (x.spot[m] - acct[u].spot[m])
                                              + (y.spot[m] - acct[l].spot[m])
          /\ Claims(m, acct) \in Int
          /\ x.spot[m] + y.spot[m] + revenue'[m]
                = acct[u].spot[m] + acct[l].spot[m] + revenue[m]
      BY <1>2, <1>3
    <3> DEFINE a == acct[u].spot[m]  b == acct[l].spot[m]
               v == x.spot[m]        w == y.spot[m]
               r == revenue[m]       q == revenue'[m]
               c == Claims(m, acct)  d == Claims(m, acct')
    <3> HIDE DEF a, b, v, w, r, q, c, d
    <3>4. /\ a \in Int /\ b \in Int /\ v \in Int /\ w \in Int /\ c \in Int
          /\ r \in Int /\ q \in Int
          /\ d = c + (v - a) + (w - b) /\ v + w + q = a + b + r
      BY <3>1, <3>2, <3>3 DEF a, b, v, w, r, q, c, d
    <3>5. /\ d = c + (v + w) - (a + b) /\ v + w + q = a + b + r
          /\ c \in Int /\ (v + w) \in Int /\ (a + b) \in Int /\ r \in Int /\ q \in Int
      BY <3>4
    <3>6. d + q = c + r
      <4> DEFINE e == v + w   f == a + b
      <4>1. /\ d = c + e - f /\ e + q = f + r
            /\ c \in Int /\ e \in Int /\ f \in Int /\ r \in Int /\ q \in Int
        BY <3>5, Zenon
      <4> HIDE DEF e, f
      <4> QED BY <4>1
    <3> QED BY <3>6 DEF c, d, r, q
  <2>2. vault[m] >= Claims(m, acct) + revenue[m] + TokensOf(m, pools)
    BY BackedByName DEF VaultsBacked
  <2>3. vault'[m] >= Claims(m, acct') + revenue'[m] + TokensOf(m, pools')
    BY <2>1, <2>2
  <2> QED BY <2>3, BackedPrimed
<1>7. PerpSame
  <2> SUFFICES ASSUME NEW p \in PerpMarkets
               PROVE  PerpBase(p)' = PerpBase(p) /\ PerpQuote(p)' = PerpQuote(p)
    BY DEF PerpSame
  <2>1. Bases(p, acct') = Bases(p, acct)
    <3>1. /\ x.perp[p].base \in Int /\ y.perp[p].base \in Int
          /\ acct[u].perp[p].base \in Int /\ acct[l].perp[p].base \in Int
      BY <1>4
    <3>2. /\ Bases(p, acct') = Bases(p, acct)
               + (x.perp[p].base - acct[u].perp[p].base)
               + (y.perp[p].base - acct[l].perp[p].base)
          /\ Bases(p, acct) \in Int
          /\ x.perp[p].base + y.perp[p].base
               = acct[u].perp[p].base + acct[l].perp[p].base
      BY <1>2, <1>3
    <3> DEFINE a == acct[u].perp[p].base  b == acct[l].perp[p].base
               v == x.perp[p].base        w == y.perp[p].base
               c == Bases(p, acct)        d == Bases(p, acct')
    <3> HIDE DEF a, b, v, w, c, d
    <3>3. /\ a \in Int /\ b \in Int /\ v \in Int /\ w \in Int /\ c \in Int
          /\ d = c + (v - a) + (w - b) /\ v + w = a + b
      BY <3>1, <3>2 DEF a, b, v, w, c, d
    <3>4. d = c BY <3>3, SMTT(40)
    <3> QED BY <3>4 DEF c, d
  <2>2. Quotes(p, acct') + earned'[p] = Quotes(p, acct) + earned[p]
    <3>1. /\ x.perp[p].quote \in Int /\ y.perp[p].quote \in Int
          /\ acct[u].perp[p].quote \in Int /\ acct[l].perp[p].quote \in Int
      BY <1>4
    <3>2. /\ Quotes(p, acct') = Quotes(p, acct)
               + (x.perp[p].quote - acct[u].perp[p].quote)
               + (y.perp[p].quote - acct[l].perp[p].quote)
          /\ Quotes(p, acct) \in Int
          /\ x.perp[p].quote + y.perp[p].quote + earned'[p]
               = acct[u].perp[p].quote + acct[l].perp[p].quote + earned[p]
      BY <1>2, <1>3
    <3>3. earned'[p] \in Int /\ earned[p] \in Int BY <1>1 DEF FundsTyped
    <3> DEFINE a == acct[u].perp[p].quote  b == acct[l].perp[p].quote
               v == x.perp[p].quote        w == y.perp[p].quote
               r == earned[p]              q == earned'[p]
               c == Quotes(p, acct)        d == Quotes(p, acct')
    <3> HIDE DEF a, b, v, w, r, q, c, d
    <3>4. /\ a \in Int /\ b \in Int /\ v \in Int /\ w \in Int /\ c \in Int
          /\ r \in Int /\ q \in Int
          /\ d = c + (v - a) + (w - b) /\ v + w + q = a + b + r
      BY <3>1, <3>2, <3>3 DEF a, b, v, w, r, q, c, d
    <3>5. /\ d = c + (v + w) - (a + b) /\ v + w + q = a + b + r
          /\ c \in Int /\ (v + w) \in Int /\ (a + b) \in Int /\ r \in Int /\ q \in Int
      BY <3>4
    <3>6. d + q = c + r
      <4> DEFINE e == v + w   f == a + b
      <4>1. /\ d = c + e - f /\ e + q = f + r
            /\ c \in Int /\ e \in Int /\ f \in Int /\ r \in Int /\ q \in Int
        BY <3>5, Zenon
      <4> HIDE DEF e, f
      <4> QED BY <4>1
    <3> QED BY <3>6 DEF c, d, r, q
  <2>3. PerpQuote(p)' = PerpQuote(p)
    <3> DEFINE c == Quotes(p, acct)  d == Quotes(p, acct')
               r == earned[p]        q == earned'[p]       v == written[p]
    <3>1. /\ PerpQuote(p)' = d + (q - v) /\ PerpQuote(p) = c + (r - v)
          /\ d + q = c + r
      BY <2>2, SumsByName, SumsByNamePrimed
    <3>2. c \in Int /\ d \in Int BY <1>2, <1>3, <1>1, SumsAreInts
    <3>3. r \in Int /\ q \in Int /\ v \in Int BY <1>1 DEF FundsTyped
    <3> HIDE DEF c, d, r, q, v
    <3> QED BY <3>1, <3>2, <3>3
  <2> QED BY <2>1, <2>3, SumsByName, SumsByNamePrimed
<1> QED BY <1>5, <1>6, <1>7 DEF StepSound

(* The status, the pace or the orders of an account change.                *)
LEMMA StatusSound ==
  ASSUME TypeOK, VaultsBacked, NEW u \in Users, NEW x, SameAmounts(acct[u], x),
         acct' = Replaced(acct, u, x), WorldTyped', UNCHANGED funds
  PROVE  StepSound
<1>1. acct \in [Users -> User] /\ FundsTyped /\ x \in User
  BY TypesByPart DEF SameAmounts
<1>9. Replaced(acct, u, x) \in [Users -> User] BY <1>1, ReplacedIn
<1>2. /\ \A m \in SpotMarkets :
           Claims(m, Replaced(acct, u, x))
             = Claims(m, acct) + (x.spot[m] - acct[u].spot[m])
      /\ \A p \in PerpMarkets :
           /\ Bases(p, Replaced(acct, u, x))
                = Bases(p, acct) + (x.perp[p].base - acct[u].perp[p].base)
           /\ Quotes(p, Replaced(acct, u, x))
                = Quotes(p, acct) + (x.perp[p].quote - acct[u].perp[p].quote)
  BY <1>1, OneChanges, Zenon
<1>3. acct' \in [Users -> User] BY <1>9
<1>4. \A m \in SpotMarkets : Claims(m, acct') = Claims(m, acct)
  <2> SUFFICES ASSUME NEW m \in SpotMarkets PROVE Claims(m, acct') = Claims(m, acct)
    OBVIOUS
  <2>1. Claims(m, acct') = Claims(m, acct) + (x.spot[m] - acct[u].spot[m])
    BY <1>2
  <2>2. x.spot[m] = acct[u].spot[m] /\ acct[u].spot[m] \in Int
    BY <1>1 DEF SameAmounts, User
  <2>3. Claims(m, acct) \in Int BY <1>1, SumsAreInts
  <2> QED BY <2>1, <2>2, <2>3
<1>5. \A p \in PerpMarkets : Bases(p, acct') = Bases(p, acct)
                           /\ Quotes(p, acct') = Quotes(p, acct)
  <2> SUFFICES ASSUME NEW p \in PerpMarkets
               PROVE  /\ Bases(p, acct') = Bases(p, acct)
                      /\ Quotes(p, acct') = Quotes(p, acct)
    OBVIOUS
  <2>1. /\ Bases(p, acct') = Bases(p, acct) + (x.perp[p].base - acct[u].perp[p].base)
        /\ Quotes(p, acct') = Quotes(p, acct) + (x.perp[p].quote - acct[u].perp[p].quote)
    BY <1>2
  <2>2. /\ x.perp[p].base = acct[u].perp[p].base
        /\ x.perp[p].quote = acct[u].perp[p].quote
        /\ acct[u].perp[p].base \in Int /\ acct[u].perp[p].quote \in Int
    BY <1>1 DEF SameAmounts, User, PerpPosition
  <2>3. Bases(p, acct) \in Int /\ Quotes(p, acct) \in Int BY <1>1, SumsAreInts
  <2> QED BY <2>1, <2>2, <2>3
<1>6. TypeOK'
  <2>1. FundsTyped' BY <1>1 DEF FundsTyped, funds
  <2>2. (TypeOK <=> acct \in [Users -> User] /\ FundsTyped /\ WorldTyped)'
    BY TypesByPart, PTL
  <2> QED BY <1>3, <2>1, <2>2
<1>7. VaultsBacked'
  <2>1. \A m \in SpotMarkets :
          vault[m] >= Claims(m, acct) + revenue[m] + TokensOf(m, pools)
    BY BackedByName, Zenon DEF VaultsBacked
  <2>2. vault' = vault /\ revenue' = revenue /\ pools' = pools BY DEF funds
  <2>3. \A m \in SpotMarkets : Backed(m)' BY <1>4, <2>1, <2>2, BackedPrimed
  <2> QED BY <2>3 DEF VaultsBacked
<1>8. PerpSame
  BY <1>5, SumsByName, SumsByNamePrimed DEF PerpSame, funds
<1> QED BY <1>6, <1>7, <1>8 DEF StepSound

-----------------------------------------------------------------------------
LEMMA TypesNow ==
  ASSUME TypeOK
  PROVE  /\ acct \in [Users -> User] /\ FundsTyped /\ WorldTyped
         /\ price \in PriceMap /\ slot \in Nat
BY TypesByPart DEF WorldTyped

(* Amounts, funds and pools change for one account alone.                  *)
LEMMA OneSound ==
  ASSUME TypeOK, VaultsBacked, NEW u \in Users, NEW x \in User,
         acct' = Replaced(acct, u, x), FundsTyped', WorldTyped',
         \A m \in SpotMarkets :
           \/ Backed(m)'
           \/ vault'[m] - vault[m]
                >= x.spot[m] - acct[u].spot[m] + (revenue'[m] - revenue[m])
                   + (TokensOf(m, pools') - TokensOf(m, pools)),
         \A p \in PerpMarkets :
           /\ x.perp[p].base = acct[u].perp[p].base
           /\ x.perp[p].quote + earned'[p] - written'[p]
                = acct[u].perp[p].quote + earned[p] - written[p]
  PROVE  StepSound
<1>1. acct \in [Users -> User] /\ FundsTyped BY TypesByPart
<1>2. /\ \A m \in SpotMarkets :
           Claims(m, Replaced(acct, u, x))
             = Claims(m, acct) + (x.spot[m] - acct[u].spot[m])
      /\ \A p \in PerpMarkets :
           /\ Bases(p, Replaced(acct, u, x))
                = Bases(p, acct) + (x.perp[p].base - acct[u].perp[p].base)
           /\ Quotes(p, Replaced(acct, u, x))
                = Quotes(p, acct) + (x.perp[p].quote - acct[u].perp[p].quote)
  BY <1>1, OneChanges, Zenon
<1>3. acct' \in [Users -> User] BY <1>1, ReplacedIn
<1>4. TypeOK'
  <2>1. (TypeOK <=> acct \in [Users -> User] /\ FundsTyped /\ WorldTyped)'
    BY TypesByPart, PTL
  <2> QED BY <1>3, <2>1
<1>5. ASSUME NEW m \in SpotMarkets PROVE Backed(m)'
  <2> DEFINE a == acct[u].spot[m]   b == x.spot[m]
             c == Claims(m, acct)   d == Claims(m, acct')
             r == revenue[m]        q == revenue'[m]
             s == TokensOf(m, pools) t == TokensOf(m, pools')
             v == vault[m]          w == vault'[m]
  <2>1. a \in Int /\ b \in Int BY <1>1 DEF User
  <2>2. c \in Int /\ r \in Int /\ v \in Int
    BY <1>1, SumsAreInts DEF FundsTyped
  <2>3. q \in Int /\ w \in Int BY DEF FundsTyped
  <2>4. s \in Int
    <3>1. pools \in [PerpMarkets -> [pnl : Nat, fee : Nat, claim : Nat]]
      BY <1>1 DEF FundsTyped
    <3>2. TokensOf(m, pools) \in Nat BY <3>1, TokensAreNat
    <3> QED BY <3>2
  <2>5. t \in Int
    <3>1. pools' \in [PerpMarkets -> [pnl : Nat, fee : Nat, claim : Nat]]
      BY DEF FundsTyped
    <3>2. TokensOf(m, pools') \in Nat BY <3>1, TokensAreNat
    <3> QED BY <3>2
  <2>6. d = c + (b - a) BY <1>2
  <2>7. v >= c + r + s BY BackedByName DEF VaultsBacked
  <2>8. Backed(m)' <=> w >= d + q + t BY BackedPrimed
  <2>9. Backed(m)' \/ w - v >= b - a + (q - r) + (t - s) OBVIOUS
  <2> HIDE DEF a, b, c, d, r, q, s, t, v, w
  <2> QED BY <2>1, <2>2, <2>3, <2>4, <2>5, <2>6, <2>7, <2>8, <2>9
<1>6. ASSUME NEW p \in PerpMarkets
      PROVE  PerpBase(p)' = PerpBase(p) /\ PerpQuote(p)' = PerpQuote(p)
  <2> DEFINE a == acct[u].perp[p].quote  b == x.perp[p].quote
             c == Quotes(p, acct)        d == Quotes(p, acct')
             e == earned[p]              f == earned'[p]
             g == written[p]             h == written'[p]
             i == acct[u].perp[p].base   j == x.perp[p].base
             k == Bases(p, acct)         l == Bases(p, acct')
  <2>1. a \in Int /\ b \in Int /\ i \in Int /\ j \in Int
    BY <1>1 DEF User, PerpPosition
  <2>2. c \in Int /\ k \in Int BY <1>1, SumsAreInts
  <2>3. e \in Int /\ g \in Int BY <1>1 DEF FundsTyped
  <2>4. f \in Int /\ h \in Int BY DEF FundsTyped
  <2>5. d = c + (b - a) /\ l = k + (j - i) BY <1>2
  <2>6. b + (f - h) = a + (e - g) /\ i = j OBVIOUS
  <2>7. /\ PerpQuote(p)' = d + (f - h) /\ PerpQuote(p) = c + (e - g)
        /\ PerpBase(p)' = l /\ PerpBase(p) = k
    BY SumsByName, SumsByNamePrimed
  <2> HIDE DEF a, b, c, d, e, f, g, h, i, j, k, l
  <2> QED BY <2>1, <2>2, <2>3, <2>4, <2>5, <2>6, <2>7
<1> QED BY <1>4, <1>5, <1>6 DEF StepSound, VaultsBacked, PerpSame

LEMMA OnlySound ==
  ASSUME TypeOK, VaultsBacked, NEW u \in Users, NEW x, SameAmounts(acct[u], x),
         Only(u, x)
  PROVE  StepSound
<1>1. acct' = Replaced(acct, u, x) /\ UNCHANGED funds BY DEF Only, Replaced
<1>2. WorldTyped' BY TypesNow DEF Only, world, WorldTyped
<1> QED BY <1>1, <1>2, StatusSound, Zenon

(* The ways in which an attempt transfers nothing.                         *)
LEMMA PassiveSound ==
  ASSUME TypeOK, VaultsBacked, NEW u \in Users,
         Recovered(u) \/ Unburdened(u) \/ Only(u, Opened(acct[u]))
  PROVE  StepSound
<1>1. acct[u] \in User /\ price \in PriceMap /\ slot \in Nat BY TypesNow
<1>2. SameAmounts(acct[u], Opened(acct[u])) BY <1>1, OpenedSame
<1>3. Opened(acct[u]) \in User BY <1>2 DEF SameAmounts
<1>4. SameAmounts(acct[u], Exit(Opened(acct[u])))
  BY <1>2, <1>3, ExitSame, SameAmountsChain, Zenon
<1>5. SameAmounts(acct[u], Exit(acct[u])) BY <1>1, ExitSame
<1> QED BY <1>2, <1>4, <1>5, OnlySound, Zenon DEF Recovered, Unburdened

(* Perp base and quote go from one account to another, and a fee to the    *)
(* market.                                                                 *)
LEMMA PerpExchange ==
  ASSUME TypeOK, VaultsBacked, NEW u \in Users, NEW l \in Users, u # l,
         NEW m \in PerpMarkets, NEW a, SameAmounts(acct[u], a),
         NEW base \in Int, NEW back \in Int, base + back = 0,
         NEW give \in Int, NEW get \in Int, NEW fund \in Nat,
         give + get + fund = 0,
         NEW x, SameAmounts(AddPerp(a, m, base, give), x),
         NEW y, SameAmounts(AddPerp(acct[l], m, back, get), y),
         acct' = Traded(acct, u, x, l, y), WorldTyped',
         earned' = [earned EXCEPT ![m] = @ + fund],
         UNCHANGED <<vault, revenue, insurance, pools, written>>
  PROVE  StepSound
<1>1. acct \in [Users -> User] /\ FundsTyped /\ a \in User
  BY TypesNow DEF SameAmounts
<1> DEFINE b == AddPerp(a, m, base, give)
           c == AddPerp(acct[l], m, back, get)
<1>2. /\ b.spot = a.spot
      /\ \A p \in PerpMarkets :
           /\ b.perp[p].base = a.perp[p].base + (IF p = m THEN base ELSE 0)
           /\ b.perp[p].quote = a.perp[p].quote + (IF p = m THEN give ELSE 0)
  BY <1>1, PerpAdded
<1>3. /\ c.spot = acct[l].spot
      /\ \A p \in PerpMarkets :
           /\ c.perp[p].base = acct[l].perp[p].base + (IF p = m THEN back ELSE 0)
           /\ c.perp[p].quote = acct[l].perp[p].quote + (IF p = m THEN get ELSE 0)
  BY <1>1, PerpAdded
<1> HIDE DEF b, c
<1>4. /\ x \in User /\ x.spot = acct[u].spot
      /\ \A p \in PerpMarkets :
           /\ x.perp[p].base = acct[u].perp[p].base + (IF p = m THEN base ELSE 0)
           /\ x.perp[p].quote = acct[u].perp[p].quote + (IF p = m THEN give ELSE 0)
  BY <1>2 DEF SameAmounts, b
<1>5. /\ y \in User /\ y.spot = acct[l].spot
      /\ \A p \in PerpMarkets :
           /\ y.perp[p].base = acct[l].perp[p].base + (IF p = m THEN back ELSE 0)
           /\ y.perp[p].quote = acct[l].perp[p].quote + (IF p = m THEN get ELSE 0)
  BY <1>3 DEF SameAmounts, c
<1>6. /\ earned' \in [PerpMarkets -> Nat]
      /\ \A p \in PerpMarkets :
           earned'[p] = earned[p] + (IF p = m THEN fund ELSE 0)
  BY <1>1 DEF FundsTyped
<1>7. revenue' \in [SpotMarkets -> Nat] BY <1>1 DEF FundsTyped
<1>8. ASSUME NEW n \in SpotMarkets
      PROVE  x.spot[n] + y.spot[n] + revenue'[n]
               = acct[u].spot[n] + acct[l].spot[n] + revenue[n]
  BY <1>4, <1>5
<1>9. ASSUME NEW p \in PerpMarkets
      PROVE  /\ x.perp[p].base + y.perp[p].base
                  = acct[u].perp[p].base + acct[l].perp[p].base
             /\ x.perp[p].quote + y.perp[p].quote + earned'[p]
                  = acct[u].perp[p].quote + acct[l].perp[p].quote + earned[p]
  <2> DEFINE i == acct[u].perp[p].base   j == acct[l].perp[p].base
             v == acct[u].perp[p].quote  w == acct[l].perp[p].quote
             e == earned[p]
  <2>1. i \in Int /\ j \in Int /\ v \in Int /\ w \in Int
    BY <1>1 DEF User, PerpPosition
  <2>2. e \in Int BY <1>1 DEF FundsTyped
  <2>3. /\ x.perp[p].base = i + (IF p = m THEN base ELSE 0)
        /\ y.perp[p].base = j + (IF p = m THEN back ELSE 0)
        /\ x.perp[p].quote = v + (IF p = m THEN give ELSE 0)
        /\ y.perp[p].quote = w + (IF p = m THEN get ELSE 0)
        /\ earned'[p] = e + (IF p = m THEN fund ELSE 0)
    BY <1>4, <1>5, <1>6
  <2> HIDE DEF i, j, v, w, e
  <2>4. /\ x.perp[p].base + y.perp[p].base = i + j
        /\ x.perp[p].quote + y.perp[p].quote + earned'[p] = v + w + e
    BY <2>1, <2>2, <2>3
  <2> QED BY <2>4 DEF i, j, v, w, e
<1> QED BY <1>4, <1>5, <1>6, <1>7, <1>8, <1>9, TransferSound

(* Spot tokens go from one account to another, and a fee to the revenue    *)
(* pool.                                                                   *)
LEMMA SpotExchange ==
  ASSUME TypeOK, VaultsBacked, NEW u \in Users, NEW l \in Users, u # l,
         NEW c \in SpotMarkets, NEW b \in SpotMarkets, c # b,
         NEW a, SameAmounts(acct[u], a),
         NEW n \in Int, NEW kept \in Nat, NEW asset \in Int,
         NEW x, SameAmounts(AddSpot(AddSpot(a, b, n - kept), c, -asset), x),
         acct' = Traded(acct, u, x, l, AddSpot(AddSpot(acct[l], b, -n), c, asset)),
         WorldTyped', revenue' = [revenue EXCEPT ![b] = @ + kept],
         UNCHANGED <<vault, insurance, pools, earned, written>>
  PROVE  StepSound
<1>1. acct \in [Users -> User] /\ FundsTyped /\ a \in User
      /\ -n \in Int /\ n - kept \in Int /\ -asset \in Int
  BY TypesNow DEF SameAmounts
<1> DEFINE d == AddSpot(a, b, n - kept)
           e == AddSpot(d, c, -asset)
           f == AddSpot(acct[l], b, -n)
           y == AddSpot(f, c, asset)
<1>2. /\ d \in User /\ d.perp = a.perp
      /\ \A m \in SpotMarkets :
           d.spot[m] = a.spot[m] + (IF m = b THEN n - kept ELSE 0)
  BY <1>1, SpotAdded
<1>3. /\ f \in User /\ f.perp = acct[l].perp
      /\ \A m \in SpotMarkets :
           f.spot[m] = acct[l].spot[m] + (IF m = b THEN -n ELSE 0)
  BY <1>1, SpotAdded
<1> HIDE DEF d, f
<1>4. /\ e.perp = d.perp
      /\ \A m \in SpotMarkets :
           e.spot[m] = d.spot[m] + (IF m = c THEN -asset ELSE 0)
  BY <1>1, <1>2, SpotAdded
<1>5. /\ y \in User /\ y.perp = f.perp
      /\ \A m \in SpotMarkets :
           y.spot[m] = f.spot[m] + (IF m = c THEN asset ELSE 0)
  BY <1>3, SpotAdded, ZenonT(60)
<1> HIDE DEF e, y
<1>6. /\ x \in User /\ x.spot = e.spot
      /\ \A p \in PerpMarkets : /\ x.perp[p].base = acct[u].perp[p].base
                               /\ x.perp[p].quote = acct[u].perp[p].quote
  BY <1>2, <1>4 DEF SameAmounts, e, d
<1>7. /\ revenue' \in [SpotMarkets -> Nat]
      /\ \A m \in SpotMarkets :
           revenue'[m] = revenue[m] + (IF m = b THEN kept ELSE 0)
  BY <1>1 DEF FundsTyped
<1>8. earned' \in [PerpMarkets -> Nat] BY <1>1 DEF FundsTyped
<1>9. ASSUME NEW m \in SpotMarkets
      PROVE  x.spot[m] + y.spot[m] + revenue'[m]
               = acct[u].spot[m] + acct[l].spot[m] + revenue[m]
  <2> DEFINE i == acct[u].spot[m]  j == acct[l].spot[m]  r == revenue[m]
  <2>1. i \in Int /\ j \in Int BY <1>1 DEF User
  <2>2. r \in Int BY <1>1 DEF FundsTyped
  <2>3. a.spot[m] = i BY DEF SameAmounts
  <2>4. /\ d.spot[m] = i + (IF m = b THEN n - kept ELSE 0)
        /\ x.spot[m] = d.spot[m] + (IF m = c THEN -asset ELSE 0)
    BY <1>2, <1>4, <1>6, <2>3
  <2>5. /\ f.spot[m] = j + (IF m = b THEN -n ELSE 0)
        /\ y.spot[m] = f.spot[m] + (IF m = c THEN asset ELSE 0)
        /\ revenue'[m] = r + (IF m = b THEN kept ELSE 0)
    BY <1>3, <1>5, <1>7
  <2> HIDE DEF i, j, r
  <2>6. x.spot[m] + y.spot[m] + revenue'[m] = i + j + r
    BY <2>1, <2>2, <2>4, <2>5
  <2> QED BY <2>6 DEF i, j, r
<1>10. \A p \in PerpMarkets :
         /\ y.perp[p].base = acct[l].perp[p].base
         /\ y.perp[p].quote = acct[l].perp[p].quote
         /\ earned'[p] = earned[p]
  BY <1>3, <1>5
<1>11. acct' = Traded(acct, u, x, l, y) BY DEF y, f
<1> QED BY <1>5, <1>6, <1>7, <1>8, <1>9, <1>10, <1>11, TransferSound

(* Spot tokens go one way and settled pnl the other.                       *)
LEMMA MixedExchange ==
  ASSUME TypeOK, VaultsBacked, NEW u \in Users, NEW l \in Users, u # l,
         NEW m \in SpotMarkets, NEW p \in PerpMarkets,
         NEW a, SameAmounts(acct[u], a),
         NEW s \in Int, NEW t \in Int, s + t = 0,
         NEW g \in Int, NEW h \in Int, g + h = 0,
         NEW x, SameAmounts(AddPerp(AddSpot(a, m, s), p, 0, g), x),
         acct' = Traded(acct, u, x, l, AddPerp(AddSpot(acct[l], m, t), p, 0, h)),
         UNCHANGED <<funds, world>>
  PROVE  StepSound
<1>1. acct \in [Users -> User] /\ FundsTyped /\ a \in User
  BY TypesNow DEF SameAmounts
<1> DEFINE d == AddSpot(a, m, s)
           e == AddPerp(d, p, 0, g)
           f == AddSpot(acct[l], m, t)
           y == AddPerp(f, p, 0, h)
<1>2. /\ d \in User /\ d.perp = a.perp
      /\ \A n \in SpotMarkets : d.spot[n] = a.spot[n] + (IF n = m THEN s ELSE 0)
  BY <1>1, SpotAdded
<1>3. /\ f \in User /\ f.perp = acct[l].perp
      /\ \A n \in SpotMarkets :
           f.spot[n] = acct[l].spot[n] + (IF n = m THEN t ELSE 0)
  BY <1>1, SpotAdded, ZenonT(60)
<1> HIDE DEF d, f
<1>4. /\ e.spot = d.spot
      /\ \A q \in PerpMarkets :
           /\ e.perp[q].base = d.perp[q].base + (IF q = p THEN 0 ELSE 0)
           /\ e.perp[q].quote = d.perp[q].quote + (IF q = p THEN g ELSE 0)
  BY <1>2, PerpAdded
<1>5. /\ y \in User /\ y.spot = f.spot
      /\ \A q \in PerpMarkets :
           /\ y.perp[q].base = f.perp[q].base + (IF q = p THEN 0 ELSE 0)
           /\ y.perp[q].quote = f.perp[q].quote + (IF q = p THEN h ELSE 0)
  BY <1>3, PerpAdded
<1> HIDE DEF e, y
<1>6. /\ x \in User /\ x.spot = e.spot
      /\ \A q \in PerpMarkets : /\ x.perp[q].base = e.perp[q].base
                               /\ x.perp[q].quote = e.perp[q].quote
  BY DEF SameAmounts, e, d
<1>7. /\ revenue' \in [SpotMarkets -> Nat] /\ revenue' = revenue
      /\ earned' \in [PerpMarkets -> Nat] /\ earned' = earned
      /\ vault' = vault /\ insurance' = insurance /\ pools' = pools
      /\ written' = written
  BY <1>1 DEF FundsTyped, funds
<1>8. WorldTyped' BY TypesNow DEF WorldTyped, world
<1>9. ASSUME NEW n \in SpotMarkets
      PROVE  x.spot[n] + y.spot[n] + revenue'[n]
               = acct[u].spot[n] + acct[l].spot[n] + revenue[n]
  <2> DEFINE i == acct[u].spot[n]  j == acct[l].spot[n]  r == revenue[n]
  <2>1. i \in Int /\ j \in Int BY <1>1 DEF User
  <2>2. r \in Int BY <1>1 DEF FundsTyped
  <2>3. a.spot[n] = i BY DEF SameAmounts
  <2>4. /\ x.spot[n] = i + (IF n = m THEN s ELSE 0)
        /\ y.spot[n] = j + (IF n = m THEN t ELSE 0)
        /\ revenue'[n] = r
    BY <1>2, <1>3, <1>4, <1>5, <1>6, <1>7, <2>3
  <2> HIDE DEF i, j, r
  <2>6. x.spot[n] + y.spot[n] + revenue'[n] = i + j + r
    BY <2>1, <2>2, <2>4
  <2> QED BY <2>6 DEF i, j, r
<1>10. ASSUME NEW q \in PerpMarkets
       PROVE  /\ x.perp[q].base + y.perp[q].base
                   = acct[u].perp[q].base + acct[l].perp[q].base
              /\ x.perp[q].quote + y.perp[q].quote + earned'[q]
                   = acct[u].perp[q].quote + acct[l].perp[q].quote + earned[q]
  <2> DEFINE i == acct[u].perp[q].base   j == acct[l].perp[q].base
             v == acct[u].perp[q].quote  w == acct[l].perp[q].quote
             r == earned[q]
  <2>1. i \in Int /\ j \in Int /\ v \in Int /\ w \in Int
    BY <1>1 DEF User, PerpPosition
  <2>2. r \in Int BY <1>1 DEF FundsTyped
  <2>3. a.perp[q].base = i /\ a.perp[q].quote = v BY DEF SameAmounts
  <2>4. /\ x.perp[q].base = i + 0 /\ y.perp[q].base = j + 0
        /\ x.perp[q].quote = v + (IF q = p THEN g ELSE 0)
        /\ y.perp[q].quote = w + (IF q = p THEN h ELSE 0)
        /\ earned'[q] = r
    BY <1>2, <1>3, <1>4, <1>5, <1>6, <1>7, <2>3
  <2> HIDE DEF i, j, v, w, r
  <2>6. /\ x.perp[q].base + y.perp[q].base = i + j
        /\ x.perp[q].quote + y.perp[q].quote + earned'[q] = v + w + r
    BY <2>1, <2>2, <2>4
  <2> QED BY <2>6 DEF i, j, v, w, r
<1>11. acct' = Traded(acct, u, x, l, y) BY DEF y, f
<1> QED BY <1>5, <1>6, <1>7, <1>8, <1>9, <1>10, <1>11, TransferSound

-----------------------------------------------------------------------------
(* The liquidations.                                                       *)

LEMMA AttemptSound ==
  ASSUME TypeOK, VaultsBacked, NEW u \in Users, NEW T, T => StepSound, Attempt(u, T)
  PROVE  StepSound
BY PassiveSound, Zenon DEF Attempt

LEMMA HeldSound ==
  ASSUME TypeOK, VaultsBacked, NEW u \in Users, NEW n, Held(u, n) PROVE StepSound
BY PassiveSound, Zenon DEF Held

(* What a liquidated account becomes when it is opened.                    *)
LEMMA OpenedNow ==
  ASSUME TypeOK, NEW u \in Users
  PROVE  /\ SameAmounts(acct[u], Opened(acct[u])) /\ Opened(acct[u]) \in User
         /\ Shortage(Opened(acct[u])) \in Nat
         /\ Elapsed(Opened(acct[u])) \in Int
<1>1. acct[u] \in User /\ price \in PriceMap /\ slot \in Nat BY TypesNow
<1>2. SameAmounts(acct[u], Opened(acct[u])) BY <1>1, OpenedSame
<1> DEFINE a == Opened(acct[u])
<1>3. a \in User BY <1>2 DEF SameAmounts
<1> HIDE DEF a
<1>4. Shortage(a) \in Nat BY <1>1, <1>3, ShortageIsNat
<1>5. Elapsed(a) \in Int BY <1>1, <1>3 DEF Elapsed, User
<1> QED BY <1>2, <1>3, <1>4, <1>5 DEF a

LEMMA TowardIsInt ==
  ASSUME NEW n \in Int, NEW b PROVE Toward(n, b) \in Int
BY DEF Toward

LEMMA BothTraded ==
  ASSUME NEW u, NEW a, NEW l, NEW b, Both(u, a, l, b)
  PROVE  acct' = Traded(acct, u, a, l, b)
BY DEF Both, Traded, Replaced

LEMMA TakeOverPerpSound ==
  ASSUME TypeOK, VaultsBacked, NEW u \in Users, NEW l \in Users, u # l,
         NEW m \in PerpMarkets, NEW a \in User, SameAmounts(acct[u], a),
         NEW plan, plan.n \in Nat, plan.insured \in Nat, NEW fee \in Nat,
         TakeOverPerp(u, l, a, m, plan, fee)
  PROVE  StepSound
<1> DEFINE n == plan.n
           side == Toward(n, a.perp[m].base)
           toLiq == FeeOn(n * price[m], fee)
           toFund == FeeOn(n * price[m], plan.insured)
           give == -side * price[m] - toLiq - toFund
           get == side * price[m] + toLiq
           after == AddPerp(a, m, side, give)
           taker == AddPerp(acct[l], m, -side, get)
           done == n >= plan.cover
           x == Closed(after, Shortage(a), done)
<1>1. /\ Both(u, x, l, taker)
      /\ earned' = [earned EXCEPT ![m] = @ + toFund]
      /\ UNCHANGED <<vault, revenue, insurance, pools, written, world>>
  BY Zenon DEF TakeOverPerp
<1>2. price \in PriceMap /\ slot \in Nat /\ acct[l] \in User /\ WorldTyped
  BY TypesNow
<1>3. price[m] \in Nat BY <1>2 DEF PriceMap, Markets
<1>4. side \in Int BY TowardIsInt
<1>5. n * price[m] \in Nat BY <1>3, TimesIsNat
<1>6. toLiq \in Nat /\ toFund \in Nat BY <1>5, FeeOnIsNat
<1> HIDE DEF n, side, toLiq, toFund
<1>7. give \in Int /\ get \in Int /\ give + get + toFund = 0
  <2> DEFINE v == side * price[m]
  <2>1. v \in Int BY <1>3, <1>4
  <2>2. give = -v - toLiq - toFund /\ get = v + toLiq OBVIOUS
  <2> HIDE DEF v, give, get
  <2> QED BY <1>6, <2>1, <2>2
<1> HIDE DEF give, get
<1>8. after \in User BY <1>4, <1>7, PerpAdded
<1>9. SameAmounts(taker, taker)
  <2>1. -side \in Int BY <1>4
  <2>2. taker \in User BY <1>2, <1>7, <2>1, PerpAdded
  <2> QED BY <2>2 DEF SameAmounts
<1>10. Shortage(a) \in Nat BY <1>2, ShortageIsNat
<1> HIDE DEF done, after, taker
<1>11. SameAmounts(after, x) BY <1>2, <1>8, <1>10, ClosedSame
<1> HIDE DEF x
<1>12. acct' = Traded(acct, u, x, l, taker) BY <1>1, BothTraded
<1>13. WorldTyped' BY <1>1, <1>2 DEF WorldTyped, world
<1>14. SameAmounts(AddPerp(a, m, side, give), x) BY <1>11 DEF after
<1>15. SameAmounts(AddPerp(acct[l], m, -side, get), taker) BY <1>9 DEF taker
<1>16. UNCHANGED <<vault, revenue, insurance, pools, written>> BY <1>1
<1>17. earned' = [earned EXCEPT ![m] = @ + toFund] BY <1>1
<1>18. -side \in Int /\ side + (-side) = 0 BY <1>4
<1> QED BY <1>4, <1>6, <1>7, <1>12, <1>13, <1>14, <1>15, <1>16, <1>17, <1>18, PerpExchange

LEMMA LiquidatePerpSound ==
  ASSUME TypeOK, VaultsBacked, NEW u \in Users, NEW l \in Users,
         NEW m \in PerpMarkets, NEW max \in MaxTransfers, LiquidatePerp(u, l, m, max)
  PROVE  StepSound
<1> DEFINE a == Opened(acct[u])
           fee == LiquidationFee(m, Elapsed(a))
           plan == PerpPlan(a, m, max, fee)
<1>1. a \in User /\ SameAmounts(acct[u], a) /\ Elapsed(a) \in Int BY OpenedNow
<1>2. fee \in Nat
  <2>1. fee \in 0 .. Scale BY <1>1, LiquidationFeeBounded
  <2> QED BY <2>1, MarginAssumption
<1>3. max \in Nat /\ price \in PriceMap /\ slot \in Nat
  BY TypesNow, LiquidationAssumption
<1>4. a.perp[m].base # 0 => plan.n \in Nat /\ plan.insured \in Nat
  <2> HIDE DEF a, fee
  <2> QED BY <1>1, <1>2, <1>3, PerpPlanSound
<1>5. u # l BY DEF LiquidatePerp, CanAttempt
<1>6. a.perp[m].base # 0 /\ TakeOverPerp(u, l, a, m, plan, fee) => StepSound
  <2> HIDE DEF a, fee, plan
  <2> QED BY <1>1, <1>2, <1>4, <1>5, TakeOverPerpSound
<1>7. \/ Recovered(u)
      \/ Attempt(u, \/ a.perp[m].base = 0 /\ Only(u, a)
                    \/ a.perp[m].base # 0 /\ Held(u, plan.allowed)
                    \/ /\ a.perp[m].base # 0 /\ plan.allowed # 0
                       /\ TakeOverPerp(u, l, a, m, plan, fee))
  BY Zenon DEF LiquidatePerp
<1>8. Only(u, a) => StepSound BY PassiveSound
<1>9. Recovered(u) => StepSound BY PassiveSound
<1>10. Held(u, plan.allowed) => StepSound
  <2> HIDE DEF plan
  <2> QED BY HeldSound, Zenon
<1>11. Unburdened(u) => StepSound BY PassiveSound
<1> HIDE DEF a, fee, plan
<1> QED BY <1>6, <1>7, <1>8, <1>9, <1>10, <1>11, Zenon DEF Attempt

LEMMA FillPriceIsNat ==
  ASSUME TypeOK, NEW m \in PerpMarkets, NEW fee \in 0 .. Scale, NEW base, NEW atLimit
  PROVE  FillPrice(m, fee, base, atLimit) \in Nat
<1> DEFINE v == price[m]
           f == FeeOn(v, fee)
<1>1. v \in Nat
  <2>1. price \in PriceMap BY TypesNow
  <2> QED BY <2>1 DEF PriceMap, Markets
<1>2. Scale \in Nat \ {0} BY MarginAssumption
<1> HIDE DEF v
<1>3. f \in Nat /\ f <= v
  <2> DEFINE p == v * fee
             q == v * Scale
  <2>1. p \in Nat /\ q \in Nat BY <1>1, <1>2
  <2>2. p <= q BY <1>1, <1>2
  <2>3. q = Scale * v BY <1>1, <1>2
  <2>4. f = p \div Scale BY DEF FeeOn
  <2> HIDE DEF p
  <2>5. p \div Scale \in Nat BY <1>2, <2>1, DivIsNat
  <2>6. p \div Scale <= v
    <3> DEFINE k == p \div Scale
    <3>1. k \in Nat /\ Scale * k <= p BY <1>2, <2>1, <2>5
    <3>2. Scale * k <= Scale * v BY <1>2, <2>1, <2>2, <2>3, <3>1
    <3> HIDE DEF k
    <3>3. k <= v BY <1>1, <1>2, <3>1, <3>2
    <3> QED BY <3>3 DEF k
  <2> QED BY <2>4, <2>5, <2>6
<1>4. FillPrice(m, fee, base, atLimit) = v - (IF atLimit THEN Toward(f, -base) ELSE 0)
  BY DEF FillPrice, v
<1> HIDE DEF f
<1> QED BY <1>1, <1>3, <1>4 DEF Toward

LEMMA FillByMakerSound ==
  ASSUME TypeOK, VaultsBacked, NEW u \in Users, NEW k \in Users,
         NEW m \in PerpMarkets, NEW a \in User, SameAmounts(acct[u], a),
         NEW plan, plan.n \in Nat, plan.insured \in Nat, NEW v \in Nat,
         FillByMaker(u, k, a, m, plan, v)
  PROVE  StepSound
<1> DEFINE n == plan.n
           side == Toward(n, a.perp[m].base)
           toFund == FeeOn(n * v, plan.insured)
           fund == TakerFee + toFund
           give == -side * v - TakerFee - toFund
           get == side * v
           after == AddPerp(a, m, side, give)
           maker == AddPerp(acct[k], m, -side, get)
           done == Meets(after)
           x == Closed(after, Shortage(a), done)
<1>1. /\ Both(u, x, k, maker) /\ k # u
      /\ earned' = [earned EXCEPT ![m] = @ + TakerFee + toFund]
      /\ UNCHANGED <<vault, revenue, insurance, pools, written, world>>
  BY Zenon DEF FillByMaker
<1>2. /\ price \in PriceMap /\ slot \in Nat /\ acct[k] \in User /\ WorldTyped
      /\ FundsTyped
  BY TypesNow
<1>3. TakerFee \in Nat BY LiquidationAssumption
<1>4. side \in Int BY TowardIsInt
<1>5. n * v \in Nat BY TimesIsNat
<1>6. toFund \in Nat BY <1>5, FeeOnIsNat
<1> HIDE DEF n, side, toFund
<1>7. /\ give \in Int /\ get \in Int /\ give + get + fund = 0 /\ fund \in Nat
  <2> DEFINE w == side * v
  <2>1. w \in Int BY <1>4
  <2>2. give = -w - TakerFee - toFund /\ get = w OBVIOUS
  <2> HIDE DEF w, give, get
  <2> QED BY <1>3, <1>6, <2>1, <2>2
<1>17. earned' = [earned EXCEPT ![m] = @ + fund]
  <2>1. earned[m] \in Nat BY <1>2 DEF FundsTyped
  <2>2. earned[m] + TakerFee + toFund = earned[m] + fund BY <1>3, <1>6, <2>1
  <2> HIDE DEF fund
  <2> QED BY <1>1, <2>2
<1> HIDE DEF give, get, fund
<1>8. after \in User BY <1>4, <1>7, PerpAdded
<1>9. SameAmounts(maker, maker)
  <2>1. -side \in Int BY <1>4
  <2>2. maker \in User BY <1>2, <1>7, <2>1, PerpAdded
  <2> QED BY <2>2 DEF SameAmounts
<1>10. Shortage(a) \in Nat BY <1>2, ShortageIsNat
<1> HIDE DEF done, after, maker
<1>11. SameAmounts(after, x) BY <1>2, <1>8, <1>10, ClosedSame
<1> HIDE DEF x
<1>12. acct' = Traded(acct, u, x, k, maker) BY <1>1, BothTraded
<1>13. WorldTyped' BY <1>1, <1>2 DEF WorldTyped, world
<1>14. SameAmounts(AddPerp(a, m, side, give), x) BY <1>11 DEF after
<1>15. SameAmounts(AddPerp(acct[k], m, -side, get), maker) BY <1>9 DEF maker
<1>16. UNCHANGED <<vault, revenue, insurance, pools, written>> BY <1>1
<1>18. u # k BY <1>1
<1>19. -side \in Int /\ side + (-side) = 0 BY <1>4
<1> QED BY <1>4, <1>7, <1>12, <1>13, <1>14, <1>15, <1>16, <1>17, <1>18, <1>19,
          PerpExchange

LEMMA LiquidatePerpWithFillSound ==
  ASSUME TypeOK, VaultsBacked, NEW u \in Users, NEW l \in Users, NEW k \in Users,
         NEW m \in PerpMarkets, NEW n \in MaxTransfers, NEW atLimit,
         LiquidatePerpWithFill(u, l, k, m, n, atLimit)
  PROVE  StepSound
<1> DEFINE a == Opened(acct[u])
           base == a.perp[m].base
           fee == LiquidationFee(m, Elapsed(a))
           plan == PerpPlan(a, m, n, LiquidatorFee[m])
           v == FillPrice(m, fee, base, atLimit)
<1>1. a \in User /\ SameAmounts(acct[u], a) /\ Elapsed(a) \in Int BY OpenedNow
<1>2. fee \in 0 .. Scale BY <1>1, LiquidationFeeBounded
<1>3. v \in Nat
  <2> HIDE DEF fee, base
  <2> QED BY <1>2, FillPriceIsNat
<1>4. n \in Nat /\ price \in PriceMap /\ slot \in Nat /\ LiquidatorFee[m] \in Nat
  BY TypesNow, LiquidationAssumption, MarginAssumption DEF Markets
<1>5. base # 0 => plan.n \in Nat /\ plan.insured \in Nat
  <2> HIDE DEF a
  <2> QED BY <1>1, <1>4, PerpPlanSound
<1>6. base # 0 /\ FillByMaker(u, k, a, m, plan, v) => StepSound
  <2> HIDE DEF a, plan, v, base
  <2> QED BY <1>1, <1>3, <1>5, FillByMakerSound
<1>7. \/ Recovered(u)
      \/ Attempt(u, \/ base = 0 /\ Only(u, a)
                    \/ base # 0 /\ Held(u, plan.allowed)
                    \/ /\ base # 0 /\ plan.allowed # 0
                       /\ FillByMaker(u, k, a, m, plan, v))
  BY Zenon DEF LiquidatePerpWithFill
<1>8. Only(u, a) => StepSound BY PassiveSound
<1>9. Recovered(u) => StepSound BY PassiveSound
<1>10. Held(u, plan.allowed) => StepSound
  <2> HIDE DEF plan
  <2> QED BY HeldSound, Zenon
<1>11. Unburdened(u) => StepSound BY PassiveSound
<1> HIDE DEF a, base, plan, v
<1> QED BY <1>6, <1>7, <1>8, <1>9, <1>10, <1>11, Zenon DEF Attempt

-----------------------------------------------------------------------------
LEMMA TakeOverSpotSound ==
  ASSUME TypeOK, VaultsBacked, NEW u \in Users, NEW l \in Users, u # l,
         NEW c \in SpotMarkets, NEW b \in SpotMarkets, c # b,
         NEW a \in User, SameAmounts(acct[u], a),
         NEW plan, plan.n \in Nat, plan.fee \in Nat, plan.asset \in Int,
         TakeOverSpot(u, l, a, c, b, plan)
  PROVE  StepSound
<1> DEFINE n == plan.n
           asset == plan.asset
           kept == FeeOn(n, plan.fee)
           d == AddSpot(a, b, n - kept)
           after == AddSpot(d, c, -asset)
           taker == AddSpot(AddSpot(acct[l], b, -n), c, asset)
           done == n >= plan.cover
           x == Closed(after, Shortage(a), done)
<1>1. /\ Both(u, x, l, taker) /\ revenue' = [revenue EXCEPT ![b] = @ + kept]
      /\ UNCHANGED <<vault, insurance, pools, earned, written, world>>
  BY Zenon DEF TakeOverSpot
<1>2. price \in PriceMap /\ slot \in Nat /\ WorldTyped BY TypesNow
<1>3. kept \in Nat BY FeeOnIsNat
<1> HIDE DEF n, kept, asset
<1>4. d \in User
  <2>1. n - kept \in Int BY <1>3 DEF n
  <2> QED BY <2>1, SpotAdded
<1> HIDE DEF d
<1>5. after \in User
  <2>1. -asset \in Int BY DEF asset
  <2> QED BY <1>4, <2>1, SpotAdded
<1>6. Shortage(a) \in Nat BY <1>2, ShortageIsNat
<1> HIDE DEF done, after, taker
<1>7. SameAmounts(after, x) BY <1>2, <1>5, <1>6, ClosedSame
<1> HIDE DEF x
<1>8. acct' = Traded(acct, u, x, l, AddSpot(AddSpot(acct[l], b, -n), c, asset))
  BY <1>1, BothTraded DEF taker
<1>9. WorldTyped' BY <1>1, <1>2 DEF WorldTyped, world
<1>10. SameAmounts(AddSpot(AddSpot(a, b, n - kept), c, -asset), x)
  BY <1>7 DEF after, d
<1>11. UNCHANGED <<vault, insurance, pools, earned, written>> BY <1>1
<1>12. n \in Int /\ asset \in Int BY DEF n, asset
<1> QED BY <1>1, <1>3, <1>8, <1>9, <1>10, <1>11, <1>12, SpotExchange

LEMMA SpotPlanNow ==
  ASSUME TypeOK, NEW u \in Users, NEW l \in Users,
         NEW c \in SpotMarkets, NEW b \in SpotMarkets, NEW max \in MaxTransfers,
         LiquidateSpot(u, l, c, b, max)
  PROVE  LET plan == SpotPlan(Opened(acct[u]), c, b, max)
         IN  plan.n \in Nat /\ plan.asset \in Int /\ plan.fee \in Nat
<1> DEFINE a == Opened(acct[u])
           plan == SpotPlan(a, c, b, max)
           fee == SpotInsuranceFee(TrackedShortage(a, price, b, Shortage(a)),
                    -a.spot[b], SpotAsset(c).weight, SpotAsset(c).mult, b,
                    SpotOwed(b).mult, price[b])
<1>1. a \in User /\ SameAmounts(acct[u], a) BY OpenedNow
<1>2. max \in Nat /\ price \in PriceMap /\ slot \in Nat
  BY TypesNow, LiquidationAssumption
<1>3. u # l /\ c # b /\ acct[u].spot[c] > 0 /\ acct[u].spot[b] < 0
  BY DEF LiquidateSpot, CanAttempt
<1>4. a.spot[c] > 0 /\ a.spot[b] < 0 BY <1>1, <1>3 DEF SameAmounts
<1>5. a.spot[c] \in Nat /\ -a.spot[b] \in Nat
  <2>1. a.spot[c] \in Int /\ a.spot[b] \in Int
    <3> HIDE DEF a
    <3> QED BY <1>1 DEF User
  <2> QED BY <1>4, <2>1
<1>6. Side(SpotAsset(c)) /\ Side(SpotOwed(b)) BY <1>2, SpotSides
<1>7. plan = Plan(a, max, -a.spot[b], a.spot[c], SpotOwed(b), SpotAsset(c), fee)
  BY DEF SpotPlan, SpotOwed, SpotAsset
<1> HIDE DEF a
<1>8. fee \in Nat BY <1>1, <1>2, <1>4, SpotFeeIsNat
<1> HIDE DEF fee, plan
<1>9. plan.n \in Nat /\ plan.asset \in Int /\ plan.fee \in Nat
  <2> DEFINE q == Plan(a, max, -a.spot[b], a.spot[c], SpotOwed(b), SpotAsset(c), fee)
  <2>1. q.n \in Nat /\ q.asset \in Int
    BY <1>1, <1>2, <1>5, <1>6, <1>8, PlanSound, Zenon
  <2>2. plan = q BY <1>7
  <2>3. q.fee = fee BY DEF Plan
  <2> HIDE DEF q
  <2> QED BY <1>8, <2>1, <2>2, <2>3
<1> QED BY <1>9 DEF a, plan

LEMMA LiquidateSpotSound ==
  ASSUME TypeOK, VaultsBacked, NEW u \in Users, NEW l \in Users,
         NEW c \in SpotMarkets, NEW b \in SpotMarkets, NEW max \in MaxTransfers,
         LiquidateSpot(u, l, c, b, max)
  PROVE  StepSound
<1> DEFINE a == Opened(acct[u])
           plan == SpotPlan(a, c, b, max)
<1>1. a \in User /\ SameAmounts(acct[u], a) BY OpenedNow
<1>2. u # l /\ c # b BY DEF LiquidateSpot, CanAttempt
<1>3. plan.n \in Nat /\ plan.asset \in Int /\ plan.fee \in Nat BY SpotPlanNow
<1>4. \/ Recovered(u)
      \/ Attempt(u, /\ plan.cover # Undefined
                    /\ Held(u, plan.allowed) \/ TakeOverSpot(u, l, a, c, b, plan))
  BY Zenon DEF LiquidateSpot
<1> HIDE DEF a, plan
<1>5. TakeOverSpot(u, l, a, c, b, plan) => StepSound
  BY <1>1, <1>2, <1>3, TakeOverSpotSound
<1>6. Recovered(u) \/ Unburdened(u) => StepSound BY PassiveSound
<1>7. Held(u, plan.allowed) => StepSound BY HeldSound, Zenon
<1> QED BY <1>4, <1>5, <1>6, <1>7, Zenon DEF Attempt

LEMMA TakeOverBorrowSound ==
  ASSUME TypeOK, VaultsBacked, NEW u \in Users, NEW l \in Users, u # l,
         NEW p \in PerpMarkets, NEW b \in SpotMarkets,
         NEW a \in User, SameAmounts(acct[u], a),
         NEW plan, plan.n \in Nat, plan.asset \in Int,
         TakeOverBorrow(u, l, a, p, b, plan)
  PROVE  StepSound
<1> DEFINE s == plan.n
           t == -plan.n
           g == -plan.asset
           h == plan.asset
           d == AddSpot(a, b, s)
           after == AddPerp(d, p, 0, g)
           taker == AddPerp(AddSpot(acct[l], b, t), p, 0, h)
           done == plan.n >= plan.cover
           x == Closed(after, Shortage(a), done)
<1>1. Both(u, x, l, taker) /\ UNCHANGED <<funds, world>>
  BY Zenon DEF TakeOverBorrow
<1>2. price \in PriceMap /\ slot \in Nat BY TypesNow
<1>3. /\ s \in Int /\ t \in Int /\ s + t = 0 /\ g \in Int /\ h \in Int /\ g + h = 0
      /\ 0 \in Int
  OBVIOUS
<1> HIDE DEF s, t, g, h
<1>4. d \in User BY <1>3, SpotAdded
<1> HIDE DEF d
<1>5. after \in User BY <1>3, <1>4, PerpAdded
<1>6. Shortage(a) \in Nat BY <1>2, ShortageIsNat
<1> HIDE DEF done, after, taker
<1>7. SameAmounts(after, x) BY <1>2, <1>5, <1>6, ClosedSame
<1> HIDE DEF x
<1>8. acct' = Traded(acct, u, x, l, AddPerp(AddSpot(acct[l], b, t), p, 0, h))
  BY <1>1, BothTraded DEF taker
<1>9. SameAmounts(AddPerp(AddSpot(a, b, s), p, 0, g), x) BY <1>7 DEF after, d
<1> QED BY <1>1, <1>3, <1>8, <1>9, MixedExchange

BorrowPlan(a, p, b, max) ==
  Plan(a, max, -a.spot[b], a.perp[p].quote, SpotOwed(b), PnlAsset(p), 0)

LEMMA BorrowPlanNow ==
  ASSUME TypeOK, NEW u \in Users, NEW l \in Users,
         NEW p \in PerpMarkets, NEW b \in SpotMarkets, NEW max \in MaxTransfers,
         LiquidateBorrowForPerpPnl(u, l, p, b, max)
  PROVE  LET plan == BorrowPlan(Opened(acct[u]), p, b, max)
         IN  plan.n \in Nat /\ plan.asset \in Int
<1> DEFINE a == Opened(acct[u])
           pnl == a.perp[p].quote
           plan == Plan(a, max, -a.spot[b], pnl, SpotOwed(b), PnlAsset(p), 0)
<1>1. a \in User /\ SameAmounts(acct[u], a) BY OpenedNow
<1>2. max \in Nat /\ price \in PriceMap /\ slot \in Nat
  BY TypesNow, LiquidationAssumption
<1>3. u # l /\ pnl > 0 /\ acct[u].spot[b] < 0
  BY DEF LiquidateBorrowForPerpPnl, CanAttempt
<1>5. pnl \in Nat /\ -a.spot[b] \in Nat /\ 0 \in Nat
  <2>1. pnl \in Int /\ a.spot[b] \in Int
    <3> HIDE DEF a
    <3> QED BY <1>1 DEF User, PerpPosition
  <2>2. a.spot[b] < 0 BY <1>1, <1>3 DEF SameAmounts
  <2> QED BY <1>3, <2>1, <2>2
<1>6. Side(SpotOwed(b)) /\ Side(PnlAsset(p)) BY <1>2, SpotSides, PnlSides
<1> HIDE DEF a, pnl
<1>9. plan.n \in Nat /\ plan.asset \in Int
  BY <1>1, <1>2, <1>5, <1>6, PlanSound, Zenon
<1> QED BY <1>9 DEF BorrowPlan, a, pnl

LEMMA LiquidateBorrowSound ==
  ASSUME TypeOK, VaultsBacked, NEW u \in Users, NEW l \in Users,
         NEW p \in PerpMarkets, NEW b \in SpotMarkets, NEW max \in MaxTransfers,
         LiquidateBorrowForPerpPnl(u, l, p, b, max)
  PROVE  StepSound
<1> DEFINE a == Opened(acct[u])
           plan == BorrowPlan(a, p, b, max)
<1>1. a \in User /\ SameAmounts(acct[u], a) BY OpenedNow
<1>2. u # l BY DEF LiquidateBorrowForPerpPnl, CanAttempt
<1>3. plan.n \in Nat /\ plan.asset \in Int BY BorrowPlanNow
<1>4. \/ Recovered(u)
      \/ Attempt(u, /\ plan.cover # Undefined
                    /\ Held(u, plan.allowed) \/ TakeOverBorrow(u, l, a, p, b, plan))
  BY Zenon DEF LiquidateBorrowForPerpPnl, BorrowPlan
<1> HIDE DEF a, plan
<1>5. TakeOverBorrow(u, l, a, p, b, plan) => StepSound
  BY <1>1, <1>2, <1>3, TakeOverBorrowSound
<1>6. Recovered(u) \/ Unburdened(u) => StepSound BY PassiveSound
<1>7. Held(u, plan.allowed) => StepSound BY HeldSound, Zenon
<1> QED BY <1>4, <1>5, <1>6, <1>7, Zenon DEF Attempt

LEMMA TakeOverLossSound ==
  ASSUME TypeOK, VaultsBacked, NEW u \in Users, NEW l \in Users, u # l,
         NEW p \in PerpMarkets, NEW c \in SpotMarkets,
         NEW a \in User, SameAmounts(acct[u], a),
         NEW plan, plan.n \in Nat, plan.asset \in Int,
         TakeOverLoss(u, l, a, p, c, plan)
  PROVE  StepSound
<1> DEFINE s == -plan.asset
           t == plan.asset
           g == plan.n
           h == -plan.n
           d == AddSpot(a, c, s)
           after == AddPerp(d, p, 0, g)
           taker == AddPerp(AddSpot(acct[l], c, t), p, 0, h)
           done == plan.n >= plan.cover
           x == Closed(after, Shortage(a), done)
<1>1. Both(u, x, l, taker) /\ UNCHANGED <<funds, world>>
  BY Zenon DEF TakeOverLoss
<1>2. price \in PriceMap /\ slot \in Nat BY TypesNow
<1>3. /\ s \in Int /\ t \in Int /\ s + t = 0 /\ g \in Int /\ h \in Int /\ g + h = 0
      /\ 0 \in Int
  OBVIOUS
<1> HIDE DEF s, t, g, h
<1>4. d \in User BY <1>3, SpotAdded
<1> HIDE DEF d
<1>5. after \in User BY <1>3, <1>4, PerpAdded
<1>6. Shortage(a) \in Nat BY <1>2, ShortageIsNat
<1> HIDE DEF done, after, taker
<1>7. SameAmounts(after, x) BY <1>2, <1>5, <1>6, ClosedSame
<1> HIDE DEF x
<1>8. acct' = Traded(acct, u, x, l, AddPerp(AddSpot(acct[l], c, t), p, 0, h))
  BY <1>1, BothTraded DEF taker
<1>9. SameAmounts(AddPerp(AddSpot(a, c, s), p, 0, g), x) BY <1>7 DEF after, d
<1> QED BY <1>1, <1>3, <1>8, <1>9, MixedExchange

LossPlan(a, p, c, max) ==
  Plan(a, max, -a.perp[p].quote, a.spot[c], PnlOwed(p), SpotAsset(c), 0)

LEMMA LossPlanNow ==
  ASSUME TypeOK, NEW u \in Users, NEW l \in Users,
         NEW p \in PerpMarkets, NEW c \in SpotMarkets, NEW max \in MaxTransfers,
         LiquidatePerpPnlForDeposit(u, l, p, c, max)
  PROVE  LET plan == LossPlan(Opened(acct[u]), p, c, max)
         IN  plan.n \in Nat /\ plan.asset \in Int
<1> DEFINE a == Opened(acct[u])
           loss == -a.perp[p].quote
           plan == Plan(a, max, loss, a.spot[c], PnlOwed(p), SpotAsset(c), 0)
<1>1. a \in User /\ SameAmounts(acct[u], a) BY OpenedNow
<1>2. max \in Nat /\ price \in PriceMap /\ slot \in Nat
  BY TypesNow, LiquidationAssumption
<1>3. u # l /\ loss > 0 /\ acct[u].spot[c] > 0
  BY DEF LiquidatePerpPnlForDeposit, CanAttempt
<1>5. loss \in Nat /\ a.spot[c] \in Nat /\ 0 \in Nat
  <2>1. loss \in Int /\ a.spot[c] \in Int
    <3> HIDE DEF a
    <3> QED BY <1>1 DEF User, PerpPosition
  <2>2. a.spot[c] > 0 BY <1>1, <1>3 DEF SameAmounts
  <2> QED BY <1>3, <2>1, <2>2
<1>6. Side(PnlOwed(p)) /\ Side(SpotAsset(c)) BY <1>2, SpotSides, PnlSides
<1> HIDE DEF a, loss
<1>9. plan.n \in Nat /\ plan.asset \in Int
  BY <1>1, <1>2, <1>5, <1>6, PlanSound, Zenon
<1> QED BY <1>9 DEF LossPlan, a, loss

LEMMA LiquidateLossSound ==
  ASSUME TypeOK, VaultsBacked, NEW u \in Users, NEW l \in Users,
         NEW p \in PerpMarkets, NEW c \in SpotMarkets, NEW max \in MaxTransfers,
         LiquidatePerpPnlForDeposit(u, l, p, c, max)
  PROVE  StepSound
<1> DEFINE a == Opened(acct[u])
           plan == LossPlan(a, p, c, max)
<1>1. a \in User /\ SameAmounts(acct[u], a) BY OpenedNow
<1>2. u # l BY DEF LiquidatePerpPnlForDeposit, CanAttempt
<1>3. plan.n \in Nat /\ plan.asset \in Int BY LossPlanNow
<1>4. \/ Recovered(u)
      \/ Attempt(u,
           \/ /\ ~IsAsSafeAs(p, a) /\ NoOrders(acct[u]) # acct[u]
              /\ Only(u, a)
           \/ /\ IsAsSafeAs(p, a) /\ plan.cover # Undefined
              /\ Held(u, plan.allowed) \/ TakeOverLoss(u, l, a, p, c, plan))
  BY Zenon DEF LiquidatePerpPnlForDeposit, LossPlan
<1>5. Recovered(u) \/ Unburdened(u) \/ Only(u, a) => StepSound BY PassiveSound
<1> HIDE DEF a, plan
<1>6. TakeOverLoss(u, l, a, p, c, plan) => StepSound
  BY <1>1, <1>2, <1>3, TakeOverLossSound
<1>7. Held(u, plan.allowed) => StepSound BY HeldSound, Zenon
<1> QED BY <1>4, <1>5, <1>6, <1>7, Zenon DEF Attempt

-----------------------------------------------------------------------------
LEMMA SwapSound ==
  ASSUME TypeOK, VaultsBacked, NEW u \in Users, NEW l \in Users,
         NEW c \in SpotMarkets, NEW b \in SpotMarkets,
         NEW in \in Nat, NEW out \in Nat,
         LiquidateSpotWithSwap(u, l, c, b, in, out)
  PROVE  StepSound
<1> DEFINE a == Opened(acct[u])
           kept == FeeOn(out, InsuranceFee[b])
           d == AddSpot(a, b, out - kept)
           after == AddSpot(d, c, -in)
           done == CanExit(after)
           x == Closed(after, Shortage(a), done)
<1>1. /\ c # b /\ in <= vault[c]
      /\ acct' = [acct EXCEPT ![u] = x]
      /\ revenue' = [revenue EXCEPT ![b] = @ + kept]
      /\ vault' = [vault EXCEPT ![c] = @ - in, ![b] = @ + out]
      /\ UNCHANGED <<insurance, pools, earned, written, world>>
      /\ Backed(c)' /\ Backed(b)'
  BY Zenon DEF LiquidateSpotWithSwap, BeginSwap, EndSwap
<1>2. /\ acct \in [Users -> User] /\ FundsTyped /\ WorldTyped
      /\ price \in PriceMap /\ slot \in Nat
  BY TypesNow
<1>3. SameAmounts(acct[u], a) /\ a \in User /\ Shortage(a) \in Nat BY OpenedNow
<1>4. kept \in Nat
  <2>1. InsuranceFee[b] \in Nat BY MarginAssumption DEF Markets
  <2> QED BY <2>1, FeeOnIsNat
<1> HIDE DEF a, kept
<1>5. /\ d \in User /\ d.perp = a.perp
      /\ \A m \in SpotMarkets : d.spot[m] = a.spot[m] + (IF m = b THEN out - kept ELSE 0)
  <2>1. out - kept \in Int BY <1>4
  <2> QED BY <1>3, <2>1, SpotAdded
<1> HIDE DEF d
<1>6. /\ after \in User /\ after.perp = d.perp
      /\ \A m \in SpotMarkets : after.spot[m] = d.spot[m] + (IF m = c THEN -in ELSE 0)
  <2>1. -in \in Int OBVIOUS
  <2> QED BY <1>5, <2>1, SpotAdded
<1> HIDE DEF after, done
<1>7. SameAmounts(after, x) BY <1>2, <1>3, <1>6, ClosedSame
<1> HIDE DEF x
<1>8. acct' = Replaced(acct, u, x) /\ x \in User
  BY <1>1, <1>7 DEF Replaced, SameAmounts
<1>9. /\ vault' \in [SpotMarkets -> Nat]
      /\ \A m \in SpotMarkets : m # c /\ m # b => vault'[m] = vault[m]
  <2>1. vault \in [SpotMarkets -> Nat] BY <1>2 DEF FundsTyped
  <2>2. vault[c] - in \in Nat /\ vault[b] + out \in Nat BY <1>1, <2>1
  <2> QED BY <1>1, <2>1, <2>2
<1>10. /\ revenue' \in [SpotMarkets -> Nat]
       /\ \A m \in SpotMarkets : m # b => revenue'[m] = revenue[m]
  <2>1. revenue \in [SpotMarkets -> Nat] BY <1>2 DEF FundsTyped
  <2> QED BY <1>1, <1>4, <2>1
<1>11. FundsTyped' BY <1>1, <1>2, <1>9, <1>10 DEF FundsTyped
<1>12. WorldTyped' BY <1>1, <1>2 DEF WorldTyped, world
<1>13. ASSUME NEW m \in SpotMarkets
       PROVE  \/ Backed(m)'
              \/ vault'[m] - vault[m]
                   >= x.spot[m] - acct[u].spot[m] + (revenue'[m] - revenue[m])
                      + (TokensOf(m, pools') - TokensOf(m, pools))
  <2>1. CASE m = c \/ m = b BY <1>1, <2>1
  <2>2. CASE m # c /\ m # b
    <3> DEFINE i == acct[u].spot[m]  r == revenue[m]  v == vault[m]
               t == TokensOf(m, pools)
    <3>1. i \in Int BY <1>2 DEF User
    <3>2. r \in Int /\ v \in Int BY <1>2 DEF FundsTyped
    <3>3. t \in Int
      <4>1. TokensOf(m, pools) \in Nat BY <1>2, TokensAreNat DEF FundsTyped
      <4> QED BY <4>1
    <3>4. x.spot[m] = i + 0 + 0 BY <1>3, <1>5, <1>6, <1>7, <2>2 DEF SameAmounts
    <3>5. vault'[m] = v /\ revenue'[m] = r BY <1>9, <1>10, <2>2
    <3>6. TokensOf(m, pools') = t BY <1>1
    <3> HIDE DEF i, r, v, t
    <3>7. vault'[m] - v >= x.spot[m] - i + (revenue'[m] - r) + (TokensOf(m, pools') - t)
      BY <3>1, <3>2, <3>3, <3>4, <3>5, <3>6
    <3> QED BY <3>7 DEF i, r, v, t
  <2> QED BY <2>1, <2>2
<1>14. ASSUME NEW p \in PerpMarkets
       PROVE  /\ x.perp[p].base = acct[u].perp[p].base
              /\ x.perp[p].quote + earned'[p] - written'[p]
                   = acct[u].perp[p].quote + earned[p] - written[p]
  <2>1. x.perp[p].base = acct[u].perp[p].base /\ x.perp[p].quote = acct[u].perp[p].quote
    BY <1>3, <1>5, <1>6, <1>7 DEF SameAmounts
  <2>2. earned' = earned /\ written' = written BY <1>1
  <2> QED BY <2>1, <2>2
<1> QED BY <1>8, <1>11, <1>12, <1>13, <1>14, OneSound

LEMMA SetStatusSound ==
  ASSUME TypeOK, VaultsBacked, NEW u \in Users, SetUserStatusToBeingLiquidated(u)
  PROVE  StepSound
<1>1. acct[u] \in User /\ slot \in Nat BY TypesNow
<1>2. SameAmounts(acct[u], Enter(acct[u])) BY <1>1, EnterSame
<1> QED BY <1>2, OnlySound, Zenon DEF SetUserStatusToBeingLiquidated

LEMMA DepositSound ==
  ASSUME TypeOK, VaultsBacked, NEW u \in Users, NEW m \in SpotMarkets,
         NEW n \in Deposits, Deposit(u, m, n)
  PROVE  StepSound
<1> DEFINE a == AddSpot(acct[u], m, n)
           b == IF IsBeingLiquidated(a) /\ CanExit(a) THEN Exit(a) ELSE a
           x == Active(b)
<1>1. /\ acct' = [acct EXCEPT ![u] = x]
      /\ vault' = [vault EXCEPT ![m] = @ + n]
      /\ UNCHANGED <<revenue, insurance, pools, earned, written,
                     price, slot, rewarded, moves>>
      /\ acts' = acts + 1
  BY Zenon DEF Deposit, Acts
<1>2. /\ acct \in [Users -> User] /\ FundsTyped /\ WorldTyped
      /\ price \in PriceMap /\ slot \in Nat
  BY TypesNow
<1>3. n \in Nat BY LiquidationAssumption
<1>4. /\ a \in User /\ a.perp = acct[u].perp
      /\ \A k \in SpotMarkets : a.spot[k] = acct[u].spot[k] + (IF k = m THEN n ELSE 0)
  BY <1>2, <1>3, SpotAdded
<1> HIDE DEF a
<1>5. SameAmounts(a, b)
  <2>1. SameAmounts(a, a) BY <1>4 DEF SameAmounts
  <2>2. SameAmounts(a, Exit(a)) BY <1>4, ExitSame
  <2> QED BY <2>1, <2>2, Zenon
<1> HIDE DEF b
<1>6. SameAmounts(a, x)
  <2>1. b \in User BY <1>5 DEF SameAmounts
  <2>2. SameAmounts(b, x) BY <1>2, <2>1, ActiveSame
  <2> QED BY <1>5, <2>2, SameAmountsChain, Zenon
<1> HIDE DEF x
<1>7. acct' = Replaced(acct, u, x) /\ x \in User
  BY <1>1, <1>6 DEF Replaced, SameAmounts
<1>8. /\ vault' \in [SpotMarkets -> Nat]
      /\ \A k \in SpotMarkets : vault'[k] = vault[k] + (IF k = m THEN n ELSE 0)
  <2>1. vault \in [SpotMarkets -> Nat] BY <1>2 DEF FundsTyped
  <2> QED BY <1>1, <1>3, <2>1
<1>9. FundsTyped' BY <1>1, <1>2, <1>8 DEF FundsTyped
<1>10. WorldTyped' BY <1>1, <1>2 DEF WorldTyped
<1>11. ASSUME NEW k \in SpotMarkets
       PROVE  vault'[k] - vault[k]
                >= x.spot[k] - acct[u].spot[k] + (revenue'[k] - revenue[k])
                   + (TokensOf(k, pools') - TokensOf(k, pools))
  <2> DEFINE i == acct[u].spot[k]  r == revenue[k]  v == vault[k]
             t == TokensOf(k, pools)
  <2>1. i \in Int BY <1>2 DEF User
  <2>2. r \in Int /\ v \in Int BY <1>2 DEF FundsTyped
  <2>3. t \in Int
    <3>1. TokensOf(k, pools) \in Nat BY <1>2, TokensAreNat DEF FundsTyped
    <3> QED BY <3>1
  <2>4. x.spot[k] = i + (IF k = m THEN n ELSE 0) BY <1>4, <1>6 DEF SameAmounts
  <2>5. /\ vault'[k] = v + (IF k = m THEN n ELSE 0) /\ revenue'[k] = r
        /\ TokensOf(k, pools') = t
    BY <1>1, <1>8
  <2> HIDE DEF i, r, v, t
  <2>6. vault'[k] - v >= x.spot[k] - i + (revenue'[k] - r) + (TokensOf(k, pools') - t)
    BY <1>3, <2>1, <2>2, <2>3, <2>4, <2>5
  <2> QED BY <2>6 DEF i, r, v, t
<1>12. ASSUME NEW p \in PerpMarkets
       PROVE  /\ x.perp[p].base = acct[u].perp[p].base
              /\ x.perp[p].quote + earned'[p] - written'[p]
                   = acct[u].perp[p].quote + earned[p] - written[p]
  <2>1. x.perp[p].base = acct[u].perp[p].base /\ x.perp[p].quote = acct[u].perp[p].quote
    BY <1>4, <1>6 DEF SameAmounts
  <2>2. earned' = earned /\ written' = written BY <1>1
  <2> QED BY <2>1, <2>2
<1> QED BY <1>7, <1>9, <1>10, <1>11, <1>12, OneSound

LEMMA PlaceOrderSound ==
  ASSUME TypeOK, VaultsBacked, NEW u \in Users, NEW p \in PerpMarkets,
         NEW n \in Orders, PlaceOrder(u, p, n)
  PROVE  StepSound
<1> DEFINE a == IF IsBeingLiquidated(acct[u]) THEN Exit(acct[u]) ELSE acct[u]
           q == [a.perp[p] EXCEPT !.bids = @ + Floored(n), !.asks = @ + Floored(-n)]
           s == [a.perp EXCEPT ![p] = q]
           b == [a EXCEPT !.perp[p].bids = @ + Floored(n),
                          !.perp[p].asks = @ + Floored(-n)]
           x == Active(b)
<1>1. /\ acct' = [acct EXCEPT ![u] = x] /\ acts' = acts + 1
      /\ UNCHANGED <<funds, price, slot, rewarded, moves>>
  BY Zenon DEF PlaceOrder, Acts
<1>2. /\ acct[u] \in User /\ WorldTyped /\ slot \in Nat
  BY TypesNow
<1>3. Floored(n) \in Nat /\ Floored(-n) \in Nat
  <2>1. n \in Int /\ -n \in Int BY LiquidationAssumption
  <2> QED BY <2>1, FlooredIsNat
<1>4. SameAmounts(acct[u], a)
  <2>1. SameAmounts(acct[u], acct[u]) BY <1>2 DEF SameAmounts
  <2>2. SameAmounts(acct[u], Exit(acct[u])) BY <1>2, ExitSame
  <2> QED BY <2>1, <2>2, Zenon
<1> HIDE DEF a
<1>5. a \in User /\ a.perp \in [PerpMarkets -> PerpPosition]
  BY <1>4 DEF SameAmounts, User
<1>6. b = [a EXCEPT !.perp = s]
  <2>1. a.perp[p] \in PerpPosition BY <1>5
  <2>2. [[a.perp EXCEPT ![p].bids = @ + Floored(n)] EXCEPT ![p].asks = @ + Floored(-n)] = s
    BY <1>5, <2>1 DEF PerpPosition
  <2> HIDE DEF s
  <2>3. b = [a EXCEPT !.perp = [[a.perp EXCEPT ![p].bids = @ + Floored(n)]
                                       EXCEPT ![p].asks = @ + Floored(-n)]]
    BY <1>5, ZenonT(60) DEF User
  <2> QED BY <2>2, <2>3
<1>7. /\ s \in [PerpMarkets -> PerpPosition]
      /\ \A k \in PerpMarkets : s[k].base = a.perp[k].base /\ s[k].quote = a.perp[k].quote
  <2>1. a.perp[p] \in PerpPosition BY <1>5
  <2> DEFINE r == a.perp[p]
             i == r.bids + Floored(n)
             j == r.asks + Floored(-n)
  <2>3. i \in Nat /\ j \in Nat /\ r \in PerpPosition BY <1>3, <2>1 DEF PerpPosition
  <2>4. q = [r EXCEPT !.bids = i, !.asks = j] OBVIOUS
  <2> HIDE DEF i, j, q
  <2>5. q \in PerpPosition /\ q.base = r.base /\ q.quote = r.quote
    <3> HIDE DEF r
    <3> QED BY <2>3, <2>4 DEF PerpPosition
  <2>2. q \in PerpPosition /\ q.base = a.perp[p].base /\ q.quote = a.perp[p].quote
    BY <2>5
  <2> HIDE DEF q
  <2> QED BY <1>5, <2>2
<1> HIDE DEF s, b
<1>8. SameAmounts(a, b) BY <1>5, <1>6, <1>7, PerpSet DEF SameAmounts
<1>9. SameAmounts(acct[u], x)
  <2>1. b \in User BY <1>8 DEF SameAmounts
  <2>2. SameAmounts(b, x) BY <1>2, <2>1, ActiveSame
  <2> QED BY <1>4, <1>8, <2>2, SameAmountsChain, Zenon
<1> HIDE DEF x
<1>10. acct' = Replaced(acct, u, x) BY <1>1 DEF Replaced
<1>11. WorldTyped' BY <1>1, <1>2 DEF WorldTyped
<1>12. UNCHANGED funds BY <1>1
<1> QED BY <1>9, <1>10, <1>11, <1>12, StatusSound

LEMMA KeeperRewardSound ==
  ASSUME TypeOK, VaultsBacked, NEW v \in Users, NEW u \in Users,
         NEW p \in PerpMarkets, KeeperReward(v, u, p)
  PROVE  StepSound
<1> DEFINE a == AddPerp(acct[v], p, 0, -Reward)
           b == AddPerp(acct[u], p, 0, Reward)
           y == Active(b)
<1>1. /\ Both(v, a, u, y) /\ u # v
      /\ rewarded' = rewarded \cup {u} /\ acts' = acts + 1
      /\ UNCHANGED <<funds, price, slot, moves>>
  BY Zenon DEF KeeperReward, Acts
<1>2. /\ acct[u] \in User /\ acct[v] \in User /\ WorldTyped /\ slot \in Nat /\ FundsTyped
  BY TypesNow
<1>3. /\ Reward \in Int /\ -Reward \in Int /\ 0 \in Int /\ 0 \in Nat
      /\ -Reward + Reward + 0 = 0 /\ 0 + 0 = 0
  BY LiquidationAssumption
<1>4. SameAmounts(a, a)
  <2>1. a \in User BY <1>2, <1>3, PerpAdded
  <2> QED BY <2>1 DEF SameAmounts
<1>5. SameAmounts(b, y)
  <2>1. b \in User BY <1>2, <1>3, PerpAdded
  <2> HIDE DEF b
  <2> QED BY <1>2, <2>1, ActiveSame
<1>6. SameAmounts(acct[v], acct[v]) BY <1>2 DEF SameAmounts
<1>7. earned' = [earned EXCEPT ![p] = @ + 0]
  BY <1>1, <1>2 DEF FundsTyped, funds
<1>8. UNCHANGED <<vault, revenue, insurance, pools, written>> BY <1>1 DEF funds
<1>9. WorldTyped' BY <1>1, <1>2 DEF WorldTyped
<1>10. acct' = Traded(acct, v, a, u, y) BY <1>1, BothTraded
<1>11. SameAmounts(AddPerp(acct[v], p, 0, -Reward), a) BY <1>4
<1>12. SameAmounts(AddPerp(acct[u], p, 0, Reward), y) BY <1>5
<1> HIDE DEF a, b, y
<1> QED BY <1>1, <1>3, <1>6, <1>7, <1>8, <1>9, <1>10, <1>11, <1>12, PerpExchange

(* The accounts and the funds stand.                                       *)
LEMMA StandSound ==
  ASSUME TypeOK, VaultsBacked, UNCHANGED <<acct, funds>>, WorldTyped'
  PROVE  StepSound
<1>1. FundsTyped' BY TypesNow DEF FundsTyped, funds
<1>2. TypeOK'
  <2>1. (TypeOK <=> acct \in [Users -> User] /\ FundsTyped /\ WorldTyped)'
    BY TypesByPart, PTL
  <2>2. acct' \in [Users -> User] BY TypesNow
  <2> QED BY <1>1, <2>1, <2>2
<1>3. VaultsBacked'
  BY BackedByName, BackedPrimed DEF VaultsBacked, funds
<1>4. PerpSame BY SumsByName, SumsByNamePrimed DEF PerpSame, funds
<1> QED BY <1>2, <1>3, <1>4 DEF StepSound

LEMMA OracleMoveSound ==
  ASSUME TypeOK, VaultsBacked, NEW m \in DOMAIN Prices, NEW v \in Prices[m],
         OracleMove(m, v)
  PROVE  StepSound
<1>1. WorldTyped /\ price \in PriceMap BY TypesNow
<1>2. m \in Markets /\ v \in Nat \ {0} BY LiquidationAssumption
<1>3. price' \in PriceMap BY <1>1, <1>2 DEF OracleMove, PriceMap
<1>4. WorldTyped' BY <1>1, <1>3 DEF OracleMove, WorldTyped
<1> QED BY <1>4, StandSound DEF OracleMove

LEMMA TickSound ==
  ASSUME TypeOK, VaultsBacked, Tick \/ UNCHANGED vars PROVE StepSound
<1>1. WorldTyped BY TypesNow
<1>2. WorldTyped' BY <1>1 DEF Tick, vars, WorldTyped
<1> QED BY <1>2, StandSound DEF Tick, vars, funds

-----------------------------------------------------------------------------
(* Bankruptcies.                                                           *)

LEMMA DeclaredNow ==
  ASSUME TypeOK, NEW u \in Users
  PROVE  Declared(acct[u]) \in User /\ SameAmounts(acct[u], Declared(acct[u]))
<1>1. acct[u] \in User BY TypesNow
<1>2. SameAmounts(acct[u], Declared(acct[u])) BY <1>1, DeclaredSame
<1> QED BY <1>2 DEF SameAmounts

(* What the insurance fund pays.                                           *)
LEMMA PaidBounded ==
  ASSUME NEW loss \in Nat, NEW fund \in Nat
  PROVE  Lesser(loss, Floored(fund - 1)) \in 0 .. loss
         /\ Lesser(loss, Floored(fund - 1)) <= fund
BY DEF Lesser, Floored, Larger

LEMMA ResolvePerpSound ==
  ASSUME TypeOK, VaultsBacked, NEW u \in Users, NEW l \in Users,
         NEW p \in PerpMarkets, NEW r \in {0, revenue[Quote]},
         ResolvePerpBankruptcy(u, l, p, r)
  PROVE  StepSound
<1> DEFINE a == Declared(acct[u])
           loss == -a.perp[p].quote
           most == Lesser(loss, Floored(InsuranceAfter(Quote, r) - 1))
           paid == Lesser(most, pools[p].claim)
           fromFee == Lesser(loss - paid, pools[p].fee)
           s == [a.perp EXCEPT ![p].quote = 0]
           b == [a EXCEPT !.perp[p].quote = 0]
           x == Resolved(b)
<1>1. /\ r <= vault[Quote] /\ loss > 0
      /\ acct' = [acct EXCEPT ![u] = x]
      /\ insurance' = [insurance EXCEPT ![Quote] = @ + r - paid]
      /\ vault' = [vault EXCEPT ![Quote] = @ - r + paid]
      /\ revenue' = [revenue EXCEPT ![Quote] = @ - r]
      /\ pools' = [pools EXCEPT ![p].pnl = @ + paid, ![p].fee = @ - fromFee,
                                ![p].claim = @ - paid]
      /\ written' = [written EXCEPT ![p] = @ + loss]
      /\ UNCHANGED <<earned, world>>
  BY Zenon DEF ResolvePerpBankruptcy, CanSettle
<1>2. acct \in [Users -> User] /\ FundsTyped /\ WorldTyped BY TypesNow
<1>3. a \in User /\ SameAmounts(acct[u], a) BY DeclaredNow
<1>4. Quote \in SpotMarkets BY MarginAssumption
<1>5. /\ insurance[Quote] \in Nat /\ vault[Quote] \in Nat /\ revenue[Quote] \in Nat
      /\ pools[p].pnl \in Nat /\ pools[p].fee \in Nat /\ pools[p].claim \in Nat
      /\ written[p] \in Nat
  BY <1>2, <1>4 DEF FundsTyped
<1>6. r \in Nat /\ r <= revenue[Quote] BY <1>5
<1>7. loss \in Nat
  <2> HIDE DEF a
  <2> QED BY <1>1, <1>3 DEF User, PerpPosition
<1> HIDE DEF a
<1>18. a.perp[p].quote = -loss /\ a.perp[p].quote \in Int
  <2>1. a.perp[p].quote \in Int BY <1>3 DEF User, PerpPosition
  <2> QED BY <2>1
<1> HIDE DEF loss
<1>8. most \in 0 .. loss /\ most <= insurance[Quote] + r
  <2> DEFINE f == InsuranceAfter(Quote, r)
  <2>1. f \in Nat /\ f = insurance[Quote] + r BY <1>5, <1>6 DEF InsuranceAfter
  <2> HIDE DEF f
  <2>2. Lesser(loss, Floored(f - 1)) \in 0 .. loss /\ Lesser(loss, Floored(f - 1)) <= f
    BY <1>7, <2>1, PaidBounded
  <2> QED BY <2>1, <2>2 DEF f
<1> HIDE DEF most
<1>9. /\ paid \in Nat /\ paid <= loss /\ paid <= insurance[Quote] + r
      /\ paid <= pools[p].claim
  BY <1>5, <1>6, <1>7, <1>8 DEF Lesser
<1> HIDE DEF paid
<1>10. fromFee \in Nat /\ fromFee <= pools[p].fee
  BY <1>5, <1>7, <1>9 DEF Lesser
<1> HIDE DEF fromFee
<1>11. /\ s \in [PerpMarkets -> PerpPosition]
       /\ \A q \in PerpMarkets :
            /\ s[q].quote = IF q = p THEN 0 ELSE a.perp[q].quote
            /\ s[q].base = a.perp[q].base
  <2> DEFINE P == a.perp
  <2>1. P \in [PerpMarkets -> PerpPosition] BY <1>3 DEF User
  <2>2. s = [P EXCEPT ![p].quote = 0] OBVIOUS
  <2>3. 0 \in Int OBVIOUS
  <2> HIDE DEF P, s
  <2>4. /\ s \in [PerpMarkets -> PerpPosition]
        /\ \A q \in PerpMarkets :
             /\ s[q].quote = IF q = p THEN 0 ELSE P[q].quote
             /\ s[q].base = P[q].base
    BY <2>1, <2>2, <2>3, QuoteSet
  <2> QED BY <2>4 DEF P
<1>12. b = [a EXCEPT !.perp = s] BY <1>3 DEF User
<1> HIDE DEF s, b
<1>13. b \in User /\ b.perp = s /\ b.spot = a.spot BY <1>3, <1>11, <1>12, PerpSet
<1>14. SameAmounts(b, x) BY <1>13, ResolvedSame
<1> HIDE DEF x
<1>15. acct' = Replaced(acct, u, x) /\ x \in User
  BY <1>1, <1>14 DEF Replaced, SameAmounts
<1>16. FundsTyped'
  <2>1. insurance' \in [SpotMarkets -> Nat]
    <3>1. insurance[Quote] + r - paid \in Nat BY <1>5, <1>6, <1>9
    <3> QED BY <1>1, <1>2, <3>1 DEF FundsTyped
  <2>2. vault' \in [SpotMarkets -> Nat]
    <3>1. vault[Quote] - r + paid \in Nat BY <1>1, <1>5, <1>6, <1>9
    <3> QED BY <1>1, <1>2, <3>1 DEF FundsTyped
  <2>3. revenue' \in [SpotMarkets -> Nat]
    <3>1. revenue[Quote] - r \in Nat BY <1>5, <1>6
    <3> QED BY <1>1, <1>2, <3>1 DEF FundsTyped
  <2>4. pools' \in [PerpMarkets -> [pnl : Nat, fee : Nat, claim : Nat]]
    <3> DEFINE i == pools[p].pnl + paid
               j == pools[p].fee - fromFee
               k == pools[p].claim - paid
               q == [pools[p] EXCEPT !.pnl = i, !.fee = j, !.claim = k]
    <3>1. i \in Nat /\ j \in Nat /\ k \in Nat BY <1>5, <1>9, <1>10
    <3>2. pools \in [PerpMarkets -> [pnl : Nat, fee : Nat, claim : Nat]]
      BY <1>2 DEF FundsTyped
    <3>3. pools' = [pools EXCEPT ![p] = q] BY <1>1, <3>2
    <3> HIDE DEF i, j, k
    <3>4. q \in [pnl : Nat, fee : Nat, claim : Nat] BY <3>1, <3>2
    <3> HIDE DEF q
    <3> QED BY <3>2, <3>3, <3>4
  <2>5. written' \in [PerpMarkets -> Nat]
    <3>1. written[p] + loss \in Nat BY <1>5, <1>7
    <3> QED BY <1>1, <1>2, <3>1 DEF FundsTyped
  <2>6. earned' \in [PerpMarkets -> Nat] BY <1>1, <1>2 DEF FundsTyped
  <2> QED BY <2>1, <2>2, <2>3, <2>4, <2>5, <2>6 DEF FundsTyped
<1>17. WorldTyped' BY <1>1, <1>2 DEF WorldTyped, world
<1>19. TokensOf(Quote, pools') = TokensOf(Quote, pools) + (paid - fromFee)
  <2> DEFINE F == [q \in PerpMarkets |-> pools[q].pnl + pools[q].fee]
             G == [q \in PerpMarkets |-> pools'[q].pnl + pools'[q].fee]
  <2>1. pools \in [PerpMarkets -> [pnl : Nat, fee : Nat, claim : Nat]]
    BY <1>2 DEF FundsTyped
  <2>2. /\ pools'[p].pnl = pools[p].pnl + paid
        /\ pools'[p].fee = pools[p].fee - fromFee
        /\ \A q \in PerpMarkets : q # p => pools'[q] = pools[q]
    BY <1>1, <2>1
  <2>3. /\ \A q \in PerpMarkets : F[q] \in Int
        /\ \A q \in PerpMarkets : q # p => F[q] = G[q]
    BY <2>1, <2>2
  <2>4. F[p] = pools[p].pnl + pools[p].fee
        /\ G[p] = (pools[p].pnl + paid) + (pools[p].fee - fromFee)
    BY <2>2
  <2>5. TokensOf(Quote, pools) = SumFunctionOnSet(F, PerpMarkets)
        /\ TokensOf(Quote, pools') = SumFunctionOnSet(G, PerpMarkets)
    BY DEF TokensOf
  <2> HIDE DEF F, G
  <2>6. G[p] \in Int BY <1>5, <1>9, <1>10, <2>4
  <2>8. G[p] - F[p] = paid - fromFee BY <1>5, <1>9, <1>10, <2>4
  <2>9. IsFiniteSet(PerpMarkets) BY MarginAssumption
  <2>7. SumFunctionOnSet(G, PerpMarkets) = SumFunctionOnSet(F, PerpMarkets) + (G[p] - F[p])
    BY <2>3, <2>6, <2>9, SumUpdate
  <2> QED BY <2>5, <2>7, <2>8
<1>20. ASSUME NEW m \in SpotMarkets
       PROVE  vault'[m] - vault[m]
                >= x.spot[m] - acct[u].spot[m] + (revenue'[m] - revenue[m])
                   + (TokensOf(m, pools') - TokensOf(m, pools))
  <2> DEFINE i == acct[u].spot[m]  e == revenue[m]  v == vault[m]
             t == TokensOf(m, pools)
  <2>1. i \in Int BY <1>2 DEF User
  <2>2. e \in Int /\ v \in Int BY <1>2 DEF FundsTyped
  <2>3. t \in Int
    <3>1. TokensOf(m, pools) \in Nat BY <1>2, TokensAreNat DEF FundsTyped
    <3> QED BY <3>1
  <2>4. x.spot[m] = i BY <1>3, <1>13, <1>14 DEF SameAmounts
  <2>5. /\ vault'[m] = IF m = Quote THEN v - r + paid ELSE v
        /\ revenue'[m] = IF m = Quote THEN e - r ELSE e
    BY <1>1, <1>2 DEF FundsTyped
  <2>6. TokensOf(m, pools') = IF m = Quote THEN t + (paid - fromFee) ELSE t
    BY <1>19 DEF TokensOf
  <2> HIDE DEF i, e, v, t
  <2>7. vault'[m] - v >= x.spot[m] - i + (revenue'[m] - e) + (TokensOf(m, pools') - t)
    BY <1>6, <1>9, <1>10, <2>1, <2>2, <2>3, <2>4, <2>5, <2>6
  <2> QED BY <2>7 DEF i, e, v, t
<1>21. ASSUME NEW q \in PerpMarkets
       PROVE  /\ x.perp[q].base = acct[u].perp[q].base
              /\ x.perp[q].quote + earned'[q] - written'[q]
                   = acct[u].perp[q].quote + earned[q] - written[q]
  <2> DEFINE i == acct[u].perp[q].quote  e == earned[q]  w == written[q]
  <2>1. i \in Int BY <1>2 DEF User, PerpPosition
  <2>2. e \in Int /\ w \in Int BY <1>2 DEF FundsTyped
  <2>3. x.perp[q].base = acct[u].perp[q].base
        /\ x.perp[q].quote = IF q = p THEN 0 ELSE i
    BY <1>3, <1>11, <1>13, <1>14 DEF SameAmounts
  <2>4. earned'[q] = e /\ written'[q] = IF q = p THEN w + loss ELSE w
    BY <1>1, <1>2 DEF FundsTyped
  <2>5. q = p => i = -loss BY <1>3, <1>18 DEF SameAmounts
  <2> HIDE DEF i, e, w
  <2>6. x.perp[q].quote + (earned'[q] - written'[q]) = i + (e - w)
    BY <1>7, <2>1, <2>2, <2>3, <2>4, <2>5
  <2> QED BY <2>3, <2>6 DEF i, e, w
<1> QED BY <1>15, <1>16, <1>17, <1>20, <1>21, OneSound
-----------------------------------------------------------------------------
(* What a cut takes is enough.                                             *)
LEMMA CutSound ==
  ASSUME NEW n \in Int, NEW loss \in Nat, NEW total \in Nat \ {0}
  PROVE  /\ Cut(n, loss, total) \in Int
         /\ loss * Floored(n) <= total * (n - Cut(n, loss, total))
         /\ n \in Nat /\ loss <= total => Cut(n, loss, total) \in Nat
<1>1. CASE n <= 0
  <2>1. Cut(n, loss, total) = n /\ Floored(n) = 0
    BY <1>1 DEF Cut, Floored, Larger
  <2> QED BY <2>1
<1>2. CASE n > 0 /\ loss = 0
  <2>1. Cut(n, loss, total) = n /\ Floored(n) \in Nat
    BY <1>2 DEF Cut, Floored, Larger
  <2> QED BY <1>2, <2>1
<1>3. CASE n > 0 /\ loss # 0
  <2> DEFINE q == UpDiv(n * loss, total)
  <2>1. n * loss \in Nat BY <1>3
  <2>2. q \in Int BY <2>1, UpDivIsInt
  <2>3. total * q >= n * loss BY <2>1, UpDivCovers
  <2>4. Cut(n, loss, total) = n - q /\ Floored(n) = n
    BY <1>3 DEF Cut, Floored, Larger
  <2>5. loss <= total => q <= n
    <3> SUFFICES ASSUME loss <= total PROVE q <= n OBVIOUS
    <3>1. n * loss <= n * total BY <1>3
    <3>2. n * total = total * n OBVIOUS
    <3>3. n * loss <= total * n BY <3>1, <3>2
    <3> QED BY <2>1, <3>3, UpDivBounded
  <2> HIDE DEF q
  <2>6. n - q \in Int /\ n - (n - q) = q BY <2>2
  <2>7. loss * n = n * loss OBVIOUS
  <2> QED BY <2>2, <2>3, <2>4, <2>5, <2>6, <2>7
<1> QED BY <1>1, <1>2, <1>3

LEMMA CutSums ==
  ASSUME NEW S, IsFiniteSet(S), NEW B, NEW C, NEW D, NEW loss \in Nat, NEW total \in Nat,
         \A x \in S : /\ B[x] \in Int /\ C[x] \in Int /\ D[x] \in Int
                      /\ loss * D[x] <= total * (B[x] - C[x])
  PROVE  loss * SumFunctionOnSet(D, S)
           <= total * (SumFunctionOnSet(B, S) - SumFunctionOnSet(C, S))
<1> DEFINE Z == [x \in S |-> 0]
           F == [x \in S |-> Z[x] + (-loss) * D[x]]
           G == [x \in S |-> C[x] + (-1) * B[x]]
           d == SumFunctionOnSet(D, S)
           b == SumFunctionOnSet(B, S)
           c == SumFunctionOnSet(C, S)
           f == SumFunctionOnSet(F, S)
           g == SumFunctionOnSet(G, S)
           k == -loss
           o == -1
<1>1. \A x \in S : Z[x] \in Int /\ D[x] \in Int /\ F[x] = Z[x] + k * D[x]
  OBVIOUS
<1>2. \A x \in S : C[x] \in Int /\ B[x] \in Int /\ G[x] = C[x] + o * B[x]
  OBVIOUS
<1>3. SumFunctionOnSet(Z, S) = 0
  <2>1. \A x \in S : Z[x] = 0 OBVIOUS
  <2> HIDE DEF Z
  <2> QED BY <2>1, SumZero
<1>4. \A x \in S : F[x] \in Int /\ G[x] \in Int /\ total * G[x] <= F[x]
  <2> SUFFICES ASSUME NEW x \in S
               PROVE  F[x] \in Int /\ G[x] \in Int /\ total * G[x] <= F[x]
    OBVIOUS
  <2> DEFINE i == B[x]  j == C[x]  h == D[x]
  <2>1. i \in Int /\ j \in Int /\ h \in Int /\ loss * h <= total * (i - j) OBVIOUS
  <2>2. F[x] = 0 + (-loss) * h /\ G[x] = j + (-1) * i OBVIOUS
  <2> HIDE DEF i, j, h, F, G
  <2>3. (-loss) * h = -(loss * h) /\ loss * h \in Int BY <2>1
  <2>4. F[x] = -(loss * h) /\ G[x] = -(i - j) BY <2>1, <2>2, <2>3
  <2>5. total * (-(i - j)) = -(total * (i - j)) /\ total * (i - j) \in Int BY <2>1
  <2> QED BY <2>1, <2>3, <2>4, <2>5
<1>5. k \in Int /\ o \in Int OBVIOUS
<1> HIDE DEF Z, F, G, k, o
<1>6. f = SumFunctionOnSet(Z, S) + k * d BY <1>1, <1>5, SumLinear
<1>7. g = c + o * b BY <1>2, <1>5, SumLinear
<1>8. total * g <= f BY <1>4, SumOfParts
<1>9. b \in Int /\ c \in Int /\ d \in Int BY SumIsInt
<1> HIDE DEF b, c, d, f, g
<1>10. f = -(loss * d) /\ loss * d \in Int
  <2>1. k * d = -(loss * d) /\ loss * d \in Int BY <1>9 DEF k
  <2> QED BY <1>3, <1>6, <2>1
<1>11. g = -(b - c) BY <1>7, <1>9 DEF o
<1>12. total * (-(b - c)) = -(total * (b - c)) /\ total * (b - c) \in Int BY <1>9
<1>13. loss * d <= total * (b - c) BY <1>8, <1>10, <1>11, <1>12
<1> QED BY <1>13 DEF b, c, d

-----------------------------------------------------------------------------
(* The deposits of a market and what remains of them.                      *)
LEMMA DepositsByPart ==
  ASSUME TypeOK, NEW m \in SpotMarkets, NEW r \in Nat, r <= revenue[m]
  PROVE  LET D == [w \in Users |-> Floored(acct[w].spot[m])]
         IN  /\ SumFunctionOnSet(D, Users) \in Nat
             /\ \A w \in Users : D[w] \in 0 .. SumFunctionOnSet(D, Users)
             /\ DepositsOf(m, r) = SumFunctionOnSet(D, Users) + (revenue[m] - r)
                                   + TokensOf(m, pools)
<1> DEFINE D == [w \in Users |-> Floored(acct[w].spot[m])]
           d == SumFunctionOnSet(D, Users)
<1>1. acct \in [Users -> User] BY TypesNow
<1>2. \A w \in Users : D[w] \in Nat
  <2>1. \A w \in Users : acct[w].spot[m] \in Int BY <1>1 DEF User
  <2> QED BY <2>1, FlooredIsNat
<1>3. DepositsOf(m, r) = d + (revenue[m] - r) + TokensOf(m, pools)
  BY DEF DepositsOf, SumUsers, SumOver, TokensOf, PoolTokens
<1> HIDE DEF D
<1>4. d \in Nat BY <1>2, SumIsNat, UsersFinite
<1>5. \A w \in Users : D[w] <= d BY <1>2, SumAtLeastMember, UsersFinite
<1> HIDE DEF d
<1>6. \A w \in Users : D[w] \in 0 .. d BY <1>2, <1>4, <1>5
<1> QED BY <1>3, <1>4, <1>6 DEF D, d

(* The pools after a cut.                                                  *)
LEMMA PoolsCut ==
  ASSUME NEW ps \in [PerpMarkets -> [pnl : Nat, fee : Nat, claim : Nat]],
         NEW f \in [Nat -> Nat]
  PROVE  [p \in PerpMarkets |-> [ps[p] EXCEPT !.pnl = f[@], !.fee = f[@]]]
           \in [PerpMarkets -> [pnl : Nat, fee : Nat, claim : Nat]]
OBVIOUS

LEMMA ResolveSpotSound ==
  ASSUME TypeOK, VaultsBacked, NEW u \in Users, NEW l \in Users,
         NEW m \in SpotMarkets, NEW r \in {0, revenue[m]},
         ResolveSpotBankruptcy(u, l, m, r)
  PROVE  StepSound
<1> DEFINE a == Declared(acct[u])
           borrow == -a.spot[m]
           paid == Lesser(borrow, Floored(InsuranceAfter(m, r) - 1))
           loss == borrow - paid
           total == DepositsOf(m, r)
           cut(n) == IF total = 0 THEN n ELSE Cut(n, loss, total)
           s == [a.spot EXCEPT ![m] = 0]
           b == [a EXCEPT !.spot[m] = 0]
           x == Resolved(b)
           D == [w \in Users |-> Floored(acct[w].spot[m])]
           S == [w \in Users |-> acct[w].spot[m]]
           B == [w \in Users |-> IF w = u THEN 0 ELSE acct[w].spot[m]]
           C == [w \in Users |-> acct'[w].spot[m]]
           rest == revenue[m] - r
           tok == TokensOf(m, pools)
           dep == SumFunctionOnSet(D, Users)
<1>1. /\ r <= vault[m] /\ borrow > 0 /\ (total = 0 \/ loss <= total)
      /\ acct' = [w \in Users |->
           IF w = u THEN x ELSE [acct[w] EXCEPT !.spot[m] = cut(@)]]
      /\ insurance' = [insurance EXCEPT ![m] = @ + r - paid]
      /\ vault' = [vault EXCEPT ![m] = @ - r + paid]
      /\ revenue' = [revenue EXCEPT ![m] = cut(@ - r)]
      /\ pools' = IF m # Quote THEN pools
                  ELSE [p \in PerpMarkets |->
                          [pools[p] EXCEPT !.pnl = cut(@), !.fee = cut(@)]]
      /\ UNCHANGED <<earned, written, world>>
  BY Zenon DEF ResolveSpotBankruptcy, CanSettle
<1>2. acct \in [Users -> User] /\ FundsTyped /\ WorldTyped BY TypesNow
<1>3. a \in User /\ SameAmounts(acct[u], a) BY DeclaredNow
<1>4. insurance[m] \in Nat /\ vault[m] \in Nat /\ revenue[m] \in Nat
  BY <1>2 DEF FundsTyped
<1>5. r \in Nat /\ r <= revenue[m] /\ rest \in Nat BY <1>4
<1>6. borrow \in Nat
  <2>1. borrow > 0 BY <1>1
  <2> HIDE DEF a
  <2>2. a.spot[m] \in Int BY <1>3 DEF User
  <2> QED BY <2>1, <2>2
<1>7. acct[u].spot[m] = -borrow
  <2>1. acct[u].spot[m] \in Int /\ a.spot[m] = acct[u].spot[m]
    BY <1>2, <1>3 DEF User, SameAmounts
  <2> QED BY <2>1
<1> HIDE DEF a, borrow
<1>8. paid \in 0 .. borrow /\ paid <= insurance[m] + r
  <2> DEFINE f == InsuranceAfter(m, r)
  <2>1. f \in Nat /\ f = insurance[m] + r BY <1>4, <1>5 DEF InsuranceAfter
  <2> HIDE DEF f
  <2>2. Lesser(borrow, Floored(f - 1)) \in 0 .. borrow
        /\ Lesser(borrow, Floored(f - 1)) <= f
    BY <1>6, <2>1, PaidBounded
  <2> QED BY <2>1, <2>2 DEF f
<1> HIDE DEF paid
<1>9. loss \in Nat /\ borrow - loss = paid BY <1>6, <1>8
<1>10. tok \in Nat BY <1>2, TokensAreNat DEF FundsTyped
<1>11. /\ dep \in Nat /\ \A w \in Users : D[w] \in 0 .. dep
       /\ total = dep + rest + tok
  BY <1>5, DepositsByPart
<1> HIDE DEF tok, dep, rest, loss
<1>12. total \in Nat BY <1>5, <1>10, <1>11
<1> HIDE DEF total
<1>13. /\ \A n \in Int : cut(n) \in Int
       /\ \A n \in Nat : cut(n) \in Nat
       /\ \A n \in Int : total # 0 => loss * Floored(n) <= total * (n - cut(n))
  <2>1. total = 0 \/ loss <= total BY <1>1
  <2>2. CASE total = 0 BY <2>2
  <2>3. CASE total # 0
    <3>1. total \in Nat \ {0} /\ loss <= total BY <1>12, <2>1, <2>3
    <3>2. \A n : cut(n) = Cut(n, loss, total) BY <2>3
    <3> HIDE DEF cut
    <3>3. \A n \in Int : cut(n) \in Int BY <1>9, <3>1, <3>2, CutSound
    <3>4. \A n \in Int : loss * Floored(n) <= total * (n - cut(n))
      BY <1>9, <3>1, <3>2, CutSound
    <3>5. \A n \in Nat : cut(n) \in Nat BY <1>9, <3>1, <3>2, CutSound
    <3> QED BY <3>3, <3>4, <3>5
  <2> QED BY <2>2, <2>3
<1> HIDE DEF cut
<1>14. /\ s \in [SpotMarkets -> Int] /\ s[m] = 0
       /\ \A n \in SpotMarkets : n # m => s[n] = acct[u].spot[n]
  BY <1>3 DEF User, SameAmounts
<1>15. b = [a EXCEPT !.spot = s] BY <1>3 DEF User
<1> HIDE DEF s, b
<1>16. b \in User /\ b.spot = s /\ b.perp = a.perp BY <1>3, <1>14, <1>15, SpotSet
<1>17. SameAmounts(b, x) BY <1>16, ResolvedSame
<1> HIDE DEF x
<1>18. /\ x \in User /\ x.spot[m] = 0
       /\ \A n \in SpotMarkets : n # m => x.spot[n] = acct[u].spot[n]
       /\ \A p \in PerpMarkets : /\ x.perp[p].base = acct[u].perp[p].base
                                /\ x.perp[p].quote = acct[u].perp[p].quote
  BY <1>3, <1>14, <1>16, <1>17 DEF SameAmounts
<1>19. ASSUME NEW w \in Users, w # u
       PROVE  /\ acct'[w] \in User /\ acct'[w].spot[m] = cut(acct[w].spot[m])
              /\ acct'[w].perp = acct[w].perp
              /\ \A n \in SpotMarkets : n # m => acct'[w].spot[n] = acct[w].spot[n]
  <2> DEFINE e == acct[w]
             v == cut(e.spot[m])
             t == [e.spot EXCEPT ![m] = v]
  <2>1. e \in User /\ e.spot \in [SpotMarkets -> Int] BY <1>2 DEF User
  <2>2. acct'[w] = [e EXCEPT !.spot = t] BY <1>1, <1>19, <2>1 DEF User
  <2>3. v \in Int BY <1>13, <2>1
  <2>6. v = cut(acct[w].spot[m]) OBVIOUS
  <2> HIDE DEF v
  <2>4. /\ t \in [SpotMarkets -> Int] /\ t[m] = v
        /\ \A n \in SpotMarkets : n # m => t[n] = e.spot[n]
    BY <2>1, <2>3
  <2> HIDE DEF t, e
  <2>5. acct'[w] \in User /\ acct'[w].spot = t /\ acct'[w].perp = e.perp
    BY <2>1, <2>2, <2>4, SpotSet
  <2> QED BY <2>4, <2>5, <2>6 DEF e
<1>20. acct'[u] = x BY <1>1
<1>21. acct' \in [Users -> User]
  <2>1. \A w \in Users : acct'[w] \in User BY <1>18, <1>19, <1>20
  <2>2. acct' = [w \in Users |-> acct'[w]] BY <1>1
  <2> QED BY <2>1, <2>2
<1>22. FundsTyped'
  <2>1. insurance' \in [SpotMarkets -> Nat]
    <3>1. insurance[m] + r - paid \in Nat BY <1>4, <1>5, <1>8
    <3> QED BY <1>1, <1>2, <3>1 DEF FundsTyped
  <2>2. vault' \in [SpotMarkets -> Nat]
    <3>2. r <= vault[m] BY <1>1
    <3>1. vault[m] - r + paid \in Nat BY <1>4, <1>5, <1>6, <1>8, <3>2
    <3> QED BY <1>1, <1>2, <3>1 DEF FundsTyped
  <2>3. revenue' \in [SpotMarkets -> Nat]
    <3>1. cut(rest) \in Nat BY <1>5, <1>13
    <3>2. revenue' = [revenue EXCEPT ![m] = cut(rest)] BY <1>1 DEF rest
    <3> QED BY <1>2, <3>1, <3>2 DEF FundsTyped
  <2>4. pools' \in [PerpMarkets -> [pnl : Nat, fee : Nat, claim : Nat]]
    <3> DEFINE f == [n \in Nat |-> cut(n)]
    <3>1. pools \in [PerpMarkets -> [pnl : Nat, fee : Nat, claim : Nat]]
      BY <1>2 DEF FundsTyped
    <3>2. f \in [Nat -> Nat] BY <1>13
    <3>3. [p \in PerpMarkets |-> [pools[p] EXCEPT !.pnl = cut(@), !.fee = cut(@)]]
            = [p \in PerpMarkets |-> [pools[p] EXCEPT !.pnl = f[@], !.fee = f[@]]]
      BY <3>1
    <3> HIDE DEF f
    <3>4. [p \in PerpMarkets |-> [pools[p] EXCEPT !.pnl = f[@], !.fee = f[@]]]
            \in [PerpMarkets -> [pnl : Nat, fee : Nat, claim : Nat]]
      BY <3>1, <3>2, PoolsCut
    <3>5. pools' = IF m # Quote THEN pools
                   ELSE [p \in PerpMarkets |->
                           [pools[p] EXCEPT !.pnl = cut(@), !.fee = cut(@)]]
      BY <1>1
    <3> QED BY <3>1, <3>3, <3>4, <3>5
  <2>5. written' \in [PerpMarkets -> Nat] /\ earned' \in [PerpMarkets -> Nat]
    BY <1>1, <1>2 DEF FundsTyped
  <2> QED BY <2>1, <2>2, <2>3, <2>4, <2>5 DEF FundsTyped
<1>23. TypeOK'
  <2>1. (TypeOK <=> acct \in [Users -> User] /\ FundsTyped /\ WorldTyped)'
    BY TypesByPart, PTL
  <2>2. WorldTyped' BY <1>1, <1>2 DEF WorldTyped, world
  <2> QED BY <1>21, <1>22, <2>1, <2>2
<1>24. PerpSame
  <2>1. \A w \in Users, p \in PerpMarkets :
          /\ acct'[w].perp[p].base = acct[w].perp[p].base
          /\ acct'[w].perp[p].quote = acct[w].perp[p].quote
    BY <1>18, <1>19, <1>20
  <2>2. \A p \in PerpMarkets : Bases(p, acct') = Bases(p, acct)
                              /\ Quotes(p, acct') = Quotes(p, acct)
    BY <2>1 DEF Bases, Quotes
  <2> QED BY <1>1, <2>2, SumsByName, SumsByNamePrimed DEF PerpSame
<1>25. ASSUME NEW n \in SpotMarkets, n # m PROVE Backed(n)'
  <2>1. \A w \in Users : acct'[w].spot[n] = acct[w].spot[n]
    BY <1>18, <1>19, <1>20, <1>25
  <2>2. Claims(n, acct') = Claims(n, acct)
    <3>1. [w \in Users |-> acct'[w].spot[n]] = [w \in Users |-> acct[w].spot[n]]
      BY <2>1
    <3> QED BY <3>1, SumsByName
  <2>3. vault'[n] = vault[n] /\ revenue'[n] = revenue[n]
    BY <1>1, <1>2, <1>25 DEF FundsTyped
  <2>4. TokensOf(n, pools') = TokensOf(n, pools) BY <1>1, <1>25 DEF TokensOf
  <2>5. vault[n] >= Claims(n, acct) + revenue[n] + TokensOf(n, pools)
    BY BackedByName DEF VaultsBacked
  <2> QED BY <2>2, <2>3, <2>4, <2>5, BackedPrimed
<1> DEFINE claims == SumFunctionOnSet(S, Users)
           old == SumFunctionOnSet(B, Users)
           new == SumFunctionOnSet(C, Users)
           tok2 == TokensOf(m, pools')
           rest2 == cut(rest)
<1>26. /\ vault'[m] = vault[m] - r + paid /\ revenue'[m] = rest2
       /\ claims = Claims(m, acct) /\ new = Claims(m, acct')
  <2>1. claims = Claims(m, acct) /\ new = Claims(m, acct') BY SumsByName
  <2>2. revenue'[m] = rest2 BY <1>1, <1>2 DEF rest, FundsTyped
  <2>3. vault'[m] = vault[m] - r + paid BY <1>1, <1>2 DEF FundsTyped
  <2> QED BY <2>1, <2>2, <2>3
<1>27. \A w \in Users : /\ S[w] \in Int /\ B[w] \in Int /\ C[w] \in Int
                        /\ D[w] = Floored(S[w])
                        /\ w # u => B[w] = S[w] /\ C[w] = cut(S[w])
  <2>1. \A w \in Users : acct[w].spot[m] \in Int /\ acct'[w].spot[m] \in Int
    BY <1>2, <1>21 DEF User
  <2> QED BY <1>19, <2>1
<1>28. B[u] = 0 /\ C[u] = 0 /\ S[u] = -borrow /\ D[u] = 0
  <2>1. Floored(-borrow) = 0 BY <1>6 DEF Floored, Larger
  <2> QED BY <1>7, <1>18, <1>20, <2>1
<1> HIDE DEF S, B, C, D
<1>29. old = claims + borrow
  <2>1. old = claims + (B[u] - S[u])
    <3>1. /\ \A w \in Users : S[w] \in Int
          /\ B[u] \in Int
          /\ \A w \in Users : w # u => S[w] = B[w]
      BY <1>27
    <3> QED BY <3>1, SumUpdate, UsersFinite
  <2>2. claims \in Int BY <1>27, SumIsInt, UsersFinite
  <2> HIDE DEF old, claims
  <2> QED BY <1>6, <1>28, <2>1, <2>2
<1>30. claims \in Int /\ old \in Int /\ new \in Int
  BY <1>27, SumIsInt, UsersFinite
<1>31. tok2 \in Nat
  <2>1. pools' \in [PerpMarkets -> [pnl : Nat, fee : Nat, claim : Nat]]
    BY <1>22 DEF FundsTyped
  <2> QED BY <2>1, TokensAreNat
<1>32. vault[m] >= claims + revenue[m] + tok
  BY <1>26, BackedByName DEF VaultsBacked, tok
<1>33. rest2 \in Nat BY <1>5, <1>13
<1>34. Backed(m)' <=> vault'[m] >= new + rest2 + tok2 BY <1>26, BackedPrimed
<1>35. revenue[m] = rest + r BY <1>4, <1>5 DEF rest
<1>36. ASSUME total # 0 PROVE Backed(m)'
  <2>1. loss * dep <= total * (old - new)
    <3>1. \A w \in Users : loss * D[w] <= total * (B[w] - C[w])
      <4> SUFFICES ASSUME NEW w \in Users PROVE loss * D[w] <= total * (B[w] - C[w])
        OBVIOUS
      <4>1. CASE w = u
        <5>1. loss * 0 = 0 /\ 0 - 0 = 0 /\ total * 0 = 0 BY <1>9, <1>12
        <5> QED BY <1>28, <4>1, <5>1
      <4>2. CASE w # u
        <5>1. D[w] = Floored(S[w]) /\ B[w] = S[w] /\ C[w] = cut(S[w]) /\ S[w] \in Int
          BY <1>27, <4>2
        <5> QED BY <1>13, <1>36, <5>1
      <4> QED BY <4>1, <4>2
    <3>2. \A w \in Users : D[w] \in Int BY <1>11
    <3>3. loss * SumFunctionOnSet(D, Users)
            <= total * (SumFunctionOnSet(B, Users) - SumFunctionOnSet(C, Users))
      BY <1>9, <1>12, <1>27, <3>1, <3>2, CutSums, UsersFinite
    <3> QED BY <3>3 DEF dep
  <2>2. loss * rest <= total * (rest - rest2)
    <3>1. Floored(rest) = rest BY <1>5 DEF Floored, Larger
    <3>2. rest \in Int BY <1>5
    <3> QED BY <1>13, <1>36, <3>1, <3>2
  <2>3. loss * tok <= total * (tok - tok2)
    <3>1. CASE m # Quote
      <4>1. tok = 0 /\ tok2 = 0 BY <3>1 DEF tok, TokensOf
      <4>2. loss * 0 = 0 /\ total * 0 = 0 BY <1>9, <1>12
      <4> QED BY <4>1, <4>2
    <3>2. CASE m = Quote
      <4> DEFINE E == [p \in PerpMarkets |-> pools[p].pnl + pools[p].fee]
                 F == [p \in PerpMarkets |-> pools'[p].pnl + pools'[p].fee]
      <4>1. pools \in [PerpMarkets -> [pnl : Nat, fee : Nat, claim : Nat]]
        BY <1>2 DEF FundsTyped
      <4>2. tok = SumFunctionOnSet(E, PerpMarkets) /\ tok2 = SumFunctionOnSet(F, PerpMarkets)
        BY <3>2 DEF tok, TokensOf
      <4>3. ASSUME NEW p \in PerpMarkets
            PROVE  /\ E[p] \in Int /\ F[p] \in Int
                   /\ loss * E[p] <= total * (E[p] - F[p])
        <5> DEFINE i == pools[p].pnl  j == pools[p].fee
                   k == cut(i)        h == cut(j)
        <5>1. i \in Nat /\ j \in Nat BY <4>1
        <5>2. E[p] = i + j /\ F[p] = k + h BY <1>1, <3>2, <4>1
        <5> HIDE DEF i, j, E, F
        <5>3. Floored(i) = i /\ Floored(j) = j BY <5>1 DEF Floored, Larger
        <5>4. k \in Nat /\ h \in Nat BY <1>13, <5>1
        <5>5. loss * i <= total * (i - k) /\ loss * j <= total * (j - h)
          BY <1>13, <1>36, <5>1, <5>3
        <5> HIDE DEF k, h
        <5>6. /\ loss * (i + j) = loss * i + loss * j
              /\ total * ((i + j) - (k + h)) = total * (i - k) + total * (j - h)
          BY <1>9, <1>12, <5>1, <5>4
        <5>7. /\ loss * i \in Int /\ loss * j \in Int
              /\ total * (i - k) \in Int /\ total * (j - h) \in Int
          BY <1>9, <1>12, <5>1, <5>4
        <5>8. loss * (i + j) <= total * ((i + j) - (k + h)) BY <5>5, <5>6, <5>7
        <5> QED BY <5>1, <5>2, <5>4, <5>8
      <4> HIDE DEF E, F
      <4>4. IsFiniteSet(PerpMarkets) BY MarginAssumption
      <4>5. loss * SumFunctionOnSet(E, PerpMarkets)
              <= total * (SumFunctionOnSet(E, PerpMarkets)
                          - SumFunctionOnSet(F, PerpMarkets))
        BY <1>9, <1>12, <4>3, <4>4, CutSums
      <4> QED BY <4>2, <4>5
    <3> QED BY <3>1, <3>2
  <2> HIDE DEF old, new, tok2, rest2, claims
  <2>4. loss * total <= total * ((old - new) + (rest - rest2) + (tok - tok2))
    <3> DEFINE i == old - new  j == rest - rest2  k == tok - tok2
    <3>1. i \in Int /\ j \in Int /\ k \in Int BY <1>5, <1>10, <1>30, <1>31, <1>33
    <3>2. loss * dep <= total * i /\ loss * rest <= total * j /\ loss * tok <= total * k
      BY <2>1, <2>2, <2>3
    <3> HIDE DEF i, j, k
    <3>3. loss * total = loss * dep + loss * rest + loss * tok
      BY <1>5, <1>9, <1>10, <1>11
    <3>4. total * (i + j + k) = total * i + total * j + total * k
      BY <1>12, <3>1
    <3>5. /\ loss * dep \in Int /\ loss * rest \in Int /\ loss * tok \in Int
          /\ total * i \in Int /\ total * j \in Int /\ total * k \in Int
      BY <1>5, <1>9, <1>10, <1>11, <1>12, <3>1
    <3>6. loss * total <= total * (i + j + k) BY <3>2, <3>3, <3>4, <3>5
    <3> QED BY <3>6 DEF i, j, k
  <2>5. loss <= (old - new) + (rest - rest2) + (tok - tok2)
    <3> DEFINE t == (old - new) + (rest - rest2) + (tok - tok2)
    <3>1. t \in Int BY <1>5, <1>10, <1>30, <1>31, <1>33
    <3>2. loss * total <= total * t BY <2>4
    <3> HIDE DEF t
    <3>3. loss <= t
      <4> SUFFICES ASSUME t <= loss - 1 PROVE FALSE BY <1>9, <3>1
      <4>1. total * t <= total * (loss - 1) BY <1>9, <1>12, <3>1
      <4>2. total * (loss - 1) = loss * total - total BY <1>9, <1>12
      <4>3. loss * total \in Int /\ total * t \in Int /\ total > 0
        BY <1>9, <1>12, <1>36, <3>1
      <4> QED BY <1>12, <3>2, <4>1, <4>2, <4>3
    <3> QED BY <3>3 DEF t
  <2>6. vault'[m] >= new + rest2 + tok2
    BY <1>4, <1>5, <1>6, <1>8, <1>9, <1>10, <1>26, <1>29, <1>30, <1>31, <1>32,
       <1>33, <1>35, <2>5
  <2> QED BY <1>34, <2>6
<1>37. ASSUME total = 0 PROVE Backed(m)'
  <2>1. dep = 0 /\ rest = 0 /\ tok = 0 BY <1>5, <1>10, <1>11, <1>37
  <2>2. \A n : cut(n) = n BY <1>37 DEF cut
  <2>3. rest2 = 0 BY <2>1, <2>2
  <2>4. tok2 = 0
    <3>1. CASE m # Quote BY <3>1 DEF TokensOf
    <3>2. CASE m = Quote
      <4>1. pools' = pools
        <5>1. pools \in [PerpMarkets -> [pnl : Nat, fee : Nat, claim : Nat]]
          BY <1>2 DEF FundsTyped
        <5> QED BY <1>1, <2>2, <3>2, <5>1
      <4> QED BY <2>1, <4>1 DEF tok
    <3> QED BY <3>1, <3>2
  <2>5. new <= 0
    <3>1. \A w \in Users : C[w] <= 0
      <4> SUFFICES ASSUME NEW w \in Users PROVE C[w] <= 0 OBVIOUS
      <4>1. D[w] = 0 BY <1>11, <2>1
      <4>2. S[w] <= 0 BY <1>27, <4>1 DEF Floored, Larger
      <4>3. w # u => C[w] = S[w] BY <1>27, <2>2
      <4> QED BY <1>28, <4>2, <4>3
    <3> DEFINE Z == [w \in Users |-> 0]
    <3>2. \A w \in Users : Z[w] = 0 OBVIOUS
    <3> HIDE DEF Z
    <3>3. SumFunctionOnSet(Z, Users) = 0 BY <3>2, SumZero, UsersFinite
    <3>4. \A w \in Users : Z[w] \in Int /\ C[w] \in Int /\ 1 * C[w] <= Z[w]
      BY <1>27, <3>1, <3>2
    <3>5. 1 \in Nat OBVIOUS
    <3>6. 1 * SumFunctionOnSet(C, Users) <= SumFunctionOnSet(Z, Users)
      BY <3>4, <3>5, SumOfParts, UsersFinite
    <3>7. 1 * new = new BY <1>30
    <3> QED BY <3>3, <3>6, <3>7
  <2>6. vault'[m] \in Nat BY <1>22 DEF FundsTyped
  <2> HIDE DEF new, tok2, rest2
  <2>7. vault'[m] >= new + rest2 + tok2
    BY <1>30, <2>3, <2>4, <2>5, <2>6
  <2> QED BY <1>34, <2>7
<1>38. VaultsBacked' BY <1>25, <1>36, <1>37 DEF VaultsBacked
<1> QED BY <1>23, <1>24, <1>38 DEF StepSound

-----------------------------------------------------------------------------
LEMMA InitSound == ASSUME Init PROVE TypeOK /\ VaultsBacked
<1>1. PICK s \in Scenarios :
        /\ acct = [u \in Users |->
             [spot |-> s.spot[u], perp |-> s.perp[u], liquidating |-> FALSE,
              bankrupt |-> FALSE, freed |-> 0, lastActive |-> 0, episode |-> 1]]
        /\ price = s.price /\ insurance = s.insurance /\ pools = s.pools
  BY Zenon DEF Init
<1>2. /\ s.spot \in [Users -> [SpotMarkets -> Int]]
      /\ s.perp \in [Users -> [PerpMarkets -> PerpPosition]]
      /\ s.price \in PriceMap /\ s.insurance \in [SpotMarkets -> Nat]
      /\ s.pools \in [PerpMarkets -> [pnl : Nat, fee : Nat, claim : Nat]]
  BY LiquidationAssumption DEF PriceMap
<1>3. acct \in [Users -> User]
  <2>1. \A u \in Users : s.spot[u] \in [SpotMarkets -> Int]
                         /\ s.perp[u] \in [PerpMarkets -> PerpPosition]
    BY <1>2
  <2> QED BY <1>1, <2>1 DEF User
<1>4. /\ revenue = [m \in SpotMarkets |-> 0]
      /\ vault = [m \in SpotMarkets |-> Claims(m, acct) + PoolTokens(m)]
      /\ \A m \in SpotMarkets : vault[m] >= 0
      /\ earned = [p \in PerpMarkets |-> 0] /\ written = [p \in PerpMarkets |-> 0]
  BY Zenon DEF Init
<1>5. \A m \in SpotMarkets : TokensOf(m, pools) \in Nat
  BY <1>1, <1>2, TokensAreNat
<1>6. \A m \in SpotMarkets : vault[m] = Claims(m, acct) + TokensOf(m, pools)
  BY <1>4 DEF TokensOf, PoolTokens, SumOver
<1>7. \A m \in SpotMarkets : Claims(m, acct) \in Int BY <1>3, SumsAreInts
<1>8. vault \in [SpotMarkets -> Nat]
  <2>1. \A m \in SpotMarkets : vault[m] \in Nat BY <1>4, <1>5, <1>6, <1>7
  <2>2. vault = [m \in SpotMarkets |-> vault[m]] BY <1>4
  <2> QED BY <2>1, <2>2
<1>9. FundsTyped BY <1>1, <1>2, <1>4, <1>8 DEF FundsTyped
<1>10. WorldTyped BY <1>1, <1>2 DEF WorldTyped, Init
<1>11. \A m \in SpotMarkets : Backed(m)
  BY <1>4, <1>5, <1>6, <1>7, BackedByName
<1> QED BY <1>3, <1>9, <1>10, <1>11, TypesByPart DEF VaultsBacked

LEMMA LiquidateSound ==
  ASSUME TypeOK, VaultsBacked, NEW u \in Users, NEW l \in Users, Liquidate(u, l)
  PROVE  StepSound
<1>1. ASSUME NEW x \in Swaps PROVE x.in \in Nat /\ x.out \in Nat
  BY LiquidationAssumption
<1> QED BY <1>1, LiquidatePerpSound, LiquidatePerpWithFillSound, LiquidateSpotSound,
           SwapSound, LiquidateBorrowSound, LiquidateLossSound, Zenon DEF Liquidate

LEMMA ResolveSound ==
  ASSUME TypeOK, VaultsBacked, NEW u \in Users, NEW l \in Users, Resolve(u, l)
  PROVE  StepSound
BY ResolvePerpSound, ResolveSpotSound, Zenon DEF Resolve

LEMMA StepIsSound ==
  ASSUME TypeOK, VaultsBacked, [Next]_vars PROVE StepSound
<1>1. CASE \E u, l \in Users : Liquidate(u, l) \/ Resolve(u, l)
  BY <1>1, LiquidateSound, ResolveSound, Zenon
<1>2. CASE \E u \in Users : SetUserStatusToBeingLiquidated(u)
  BY <1>2, SetStatusSound, Zenon
<1>3. CASE \E u \in Users, m \in SpotMarkets, n \in Deposits : Deposit(u, m, n)
  BY <1>3, DepositSound, Zenon
<1>4. CASE \E u \in Users, p \in PerpMarkets, n \in Orders : PlaceOrder(u, p, n)
  BY <1>4, PlaceOrderSound, Zenon
<1>5. CASE \E v, u \in Users, p \in PerpMarkets : KeeperReward(v, u, p)
  BY <1>5, KeeperRewardSound, Zenon
<1>6. CASE \E m \in DOMAIN Prices : \E v \in Prices[m] : OracleMove(m, v)
  BY <1>6, OracleMoveSound, Zenon
<1>7. CASE Tick \/ UNCHANGED vars BY <1>7, TickSound, Zenon
<1> QED BY <1>1, <1>2, <1>3, <1>4, <1>5, <1>6, <1>7, Zenon DEF Next

(* Amounts keep their types: no vault, pool, insurance fund or price runs  *)
(* below zero, whatever a handler subtracts from it (the checked           *)
(* subtractions of controller/liquidation.rs).                             *)
THEOREM TypesHold == Spec => []TypeOK
<1>1. Init => TypeOK /\ VaultsBacked BY InitSound
<1>2. TypeOK /\ VaultsBacked /\ [Next]_vars => (TypeOK /\ VaultsBacked)'
  BY StepIsSound DEF StepSound
<1> QED BY <1>1, <1>2, PTL DEF Spec

(* Money is neither made nor lost: liquidations, swaps and bankruptcies    *)
(* leave enough tokens in each vault for what accounts and pools are owed, *)
(* and perp base and quote only change hands (controller/liquidation.rs,   *)
(* and validate_spot_market_vault_amount of the withdrawals).              *)
THEOREM MoneyStaysConserved == Spec => MoneyConserved
<1>1. Init => TypeOK /\ VaultsBacked BY InitSound
<1>2. TypeOK /\ VaultsBacked /\ [Next]_vars => (TypeOK /\ VaultsBacked)'
  BY StepIsSound DEF StepSound
<1>3. TypeOK /\ VaultsBacked /\ [Next]_vars
        => [\A p \in PerpMarkets : PerpBase(p)' = PerpBase(p)
                                 /\ PerpQuote(p)' = PerpQuote(p)]_vars
  BY StepIsSound DEF StepSound, PerpSame
<1> QED BY <1>1, <1>2, <1>3, PTL DEF Spec, MoneyConserved, PerpZeroSum
-----------------------------------------------------------------------------
(* What leaving a liquidation takes.  The buffer only ever makes the test   *)
(* harder, and the initial weights are no softer than the maintenance ones *)
(* (WeightAssumption), so whoever passes either test meets the maintenance *)
(* margin.                                                                 *)

(* b is a with another status or pace.                                     *)
SamePositions(a, b) == b.spot = a.spot /\ b.perp = a.perp

LEMMA SumAtMost ==
  ASSUME NEW S, IsFiniteSet(S), NEW F, NEW G,
         \A x \in S : F[x] \in Int /\ G[x] \in Int /\ G[x] <= F[x]
  PROVE  SumFunctionOnSet(G, S) <= SumFunctionOnSet(F, S)
<1>1. \A x \in S : F[x] \in Int /\ G[x] \in Int /\ 1 * G[x] <= F[x] OBVIOUS
<1>2. 1 * SumFunctionOnSet(G, S) <= SumFunctionOnSet(F, S) BY <1>1, SumOfParts
<1>3. SumFunctionOnSet(G, S) \in Int BY SumIsInt
<1> QED BY <1>2, <1>3

LEMMA ProductsMonotone ==
  ASSUME NEW a \in Nat, NEW x \in Int, NEW y \in Int, x <= y
  PROVE  a * x <= a * y
<1>1. y - x \in Nat OBVIOUS
<1>2. a * (y - x) \in Nat BY <1>1, TimesIsNat
<1>3. a * (y - x) = a * y - a * x /\ a * x \in Int /\ a * y \in Int OBVIOUS
<1> QED BY <1>2, <1>3

LEMMA PositionsDecide ==
  ASSUME NEW a, NEW b, SamePositions(a, b), NEW value, NEW type
  PROVE  MeetsMargin(b, value, type) <=> MeetsMargin(a, value, type)
<1>1. TotalCollateral(b, value, type) = TotalCollateral(a, value, type)
  BY DEF SamePositions, TotalCollateral, SpotCollateral, WeightedPnl, UnrealizedPnl,
         SumOver
<1>2. MarginRequirement(b, value, type) = MarginRequirement(a, value, type)
  BY DEF SamePositions, MarginRequirement, SpotRequirement, SpotLiability,
         PerpRequirement, WorstCaseBase, SumOver
<1> QED BY <1>1, <1>2, Zenon DEF MeetsMargin

LEMMA ExitIsStricter ==
  ASSUME NEW a \in User, price \in PriceMap, CanExit(a) PROVE Meets(a)
<1> DEFINE F == [m \in PerpMarkets |-> Lesser(UnrealizedPnl(a.perp[m], price[m]), 0)]
           G == [m \in SpotMarkets |-> SpotLiability(a, m, price)]
           H == [m \in PerpMarkets |-> WorstCaseBase(a.perp[m]) * price[m]]
           f == SumFunctionOnSet(F, PerpMarkets)
           g == SumFunctionOnSet(G, SpotMarkets)
           h == SumFunctionOnSet(H, PerpMarkets)
           zero == [m \in PerpMarkets |-> 0]
           c == TotalCollateral(a, price, "Maintenance")
           r == MarginRequirement(a, price, "Maintenance")
<1>1. "Maintenance" \in Types /\ Buffer \in Nat
  BY MarginAssumption DEF Types
<1>2. f \in Int /\ f <= 0
  <2>1. \A m \in PerpMarkets :
          F[m] \in Int /\ zero[m] \in Int /\ F[m] <= zero[m]
    BY <1>1, PerpTerms DEF Lesser
  <2>2. SumFunctionOnSet(zero, PerpMarkets) = 0
    <3>1. \A m \in PerpMarkets : zero[m] = 0 OBVIOUS
    <3> HIDE DEF zero
    <3> QED BY <3>1, SumZero, MarginAssumption
  <2> HIDE DEF F, zero
  <2>3. f \in Int BY <2>1, SumIsInt, MarginAssumption
  <2>4. f <= SumFunctionOnSet(zero, PerpMarkets)
    BY <2>1, SumAtMost, MarginAssumption
  <2> QED BY <2>2, <2>3, <2>4
<1>3. g \in Nat
  <2>1. \A m \in SpotMarkets : G[m] \in Nat BY <1>1, SpotTerms
  <2> HIDE DEF G
  <2> QED BY <2>1, SumIsNat, MarginAssumption
<1>4. h \in Nat
  <2>1. \A m \in PerpMarkets : H[m] \in Nat BY <1>1, PerpTerms
  <2> HIDE DEF H
  <2> QED BY <2>1, SumIsNat, MarginAssumption
<1>5. CollateralPlusBuffer(a, price) = c + Buffer * f
  BY DEF CollateralPlusBuffer, SumOver
<1>6. RequirementPlusBuffer(a, price) = r + Buffer * (g + h)
  BY DEF RequirementPlusBuffer, SumOver
<1>7. c \in Int /\ r \in Nat BY <1>1, CollateralIsInt, RequirementIsNat
<1>8. c + Buffer * f >= r + Buffer * (g + h)
  BY <1>5, <1>6, Zenon DEF CanExit, CanExitLiquidation
<1> HIDE DEF f, g, h, c, r
<1>9. Buffer * f \in Int /\ Buffer * f <= 0
  <2>1. Buffer * f <= Buffer * 0 BY <1>1, <1>2, ProductsMonotone
  <2> QED BY <1>1, <1>2, <2>1
<1>10. Buffer * (g + h) \in Nat BY <1>1, <1>3, <1>4, TimesIsNat
<1>11. c >= r BY <1>7, <1>8, <1>9, <1>10
<1> QED BY <1>11, Zenon DEF Meets, MeetsMargin, c, r

LEMMA InitialIsStricter ==
  ASSUME NEW a \in User, NEW value \in PriceMap, MeetsMargin(a, value, "Initial")
  PROVE  MeetsMargin(a, value, "Maintenance")
<1>1. "Maintenance" \in Types /\ "Initial" \in Types BY DEF Types
<1> DEFINE i == "Initial"
           k == "Maintenance"
<1>2. ASSUME NEW m \in SpotMarkets
      PROVE  /\ SpotCollateral(a, m, value, i) <= SpotCollateral(a, m, value, k)
             /\ SpotRequirement(a, m, value, k) <= SpotRequirement(a, m, value, i)
  <2>1. a.spot[m] \in Int /\ value[m] \in Nat /\ Scale \in Nat
    BY MarginAssumption DEF User, PriceMap, Markets
  <2>2. /\ AssetWeight[i][m] \in Nat /\ AssetWeight[k][m] \in Nat
        /\ LiabilityWeight[i][m] \in Nat /\ LiabilityWeight[k][m] \in Nat
    BY <1>1, MarginAssumption
  <2>3. AssetWeight[i][m] <= AssetWeight[k][m]
        /\ LiabilityWeight[k][m] <= LiabilityWeight[i][m]
    BY WeightAssumption
  <2>4. SpotLiability(a, m, value) \in Nat BY <1>1, SpotTerms
  <2>5. SpotCollateral(a, m, value, i) <= SpotCollateral(a, m, value, k)
    <3> DEFINE v == IF m = Quote THEN Scale ELSE value[m] * AssetWeight[i][m]
               w == IF m = Quote THEN Scale ELSE value[m] * AssetWeight[k][m]
    <3>1. v \in Nat /\ w \in Nat BY <2>1, <2>2, TimesIsNat
    <3>2. value[m] * AssetWeight[i][m] <= value[m] * AssetWeight[k][m]
      BY <2>1, <2>2, <2>3, ProductsMonotone
    <3>3. v <= w BY <2>1, <3>2
    <3>4. /\ SpotCollateral(a, m, value, i)
               = IF a.spot[m] > 0 THEN a.spot[m] * v ELSE 0
          /\ SpotCollateral(a, m, value, k)
               = IF a.spot[m] > 0 THEN a.spot[m] * w ELSE 0
      BY DEF SpotCollateral
    <3> HIDE DEF v, w
    <3>5. a.spot[m] > 0 => a.spot[m] * v <= a.spot[m] * w
      BY <2>1, <3>1, <3>3, ProductsMonotone
    <3> QED BY <3>4, <3>5
  <2>6. SpotRequirement(a, m, value, k) <= SpotRequirement(a, m, value, i)
    <3> DEFINE v == IF m = Quote THEN Scale ELSE LiabilityWeight[i][m]
               w == IF m = Quote THEN Scale ELSE LiabilityWeight[k][m]
    <3>1. v \in Nat /\ w \in Nat /\ w <= v BY <2>1, <2>2, <2>3
    <3>2. /\ SpotRequirement(a, m, value, i) = SpotLiability(a, m, value) * v
          /\ SpotRequirement(a, m, value, k) = SpotLiability(a, m, value) * w
      BY DEF SpotRequirement
    <3> HIDE DEF v, w
    <3> QED BY <2>4, <3>1, <3>2, ProductsMonotone
  <2> QED BY <2>5, <2>6
<1>3. ASSUME NEW m \in PerpMarkets
      PROVE  /\ WeightedPnl(a.perp[m], m, value[m], i)
                  <= WeightedPnl(a.perp[m], m, value[m], k)
             /\ PerpRequirement(a, m, value, k) <= PerpRequirement(a, m, value, i)
  <2>1. /\ PnlWeight[i][m] \in Nat /\ PnlWeight[k][m] \in Nat /\ Scale \in Nat
        /\ MarginRatio[i][m] \in Nat /\ MarginRatio[k][m] \in Nat
    BY <1>1, MarginAssumption
  <2>2. PnlWeight[i][m] <= PnlWeight[k][m] /\ MarginRatio[k][m] <= MarginRatio[i][m]
    BY WeightAssumption
  <2> DEFINE pnl == UnrealizedPnl(a.perp[m], value[m])
             size == WorstCaseBase(a.perp[m]) * value[m]
  <2>3. pnl \in Int /\ size \in Nat BY <1>1, PerpTerms
  <2>4. /\ WeightedPnl(a.perp[m], m, value[m], i)
             = pnl * (IF pnl > 0 THEN PnlWeight[i][m] ELSE Scale)
        /\ WeightedPnl(a.perp[m], m, value[m], k)
             = pnl * (IF pnl > 0 THEN PnlWeight[k][m] ELSE Scale)
    BY DEF WeightedPnl
  <2>5. /\ PerpRequirement(a, m, value, i) = size * MarginRatio[i][m]
        /\ PerpRequirement(a, m, value, k) = size * MarginRatio[k][m]
    BY DEF PerpRequirement
  <2> HIDE DEF pnl, size
  <2>6. pnl > 0 => pnl * PnlWeight[i][m] <= pnl * PnlWeight[k][m]
    BY <2>1, <2>2, <2>3, ProductsMonotone
  <2>7. pnl * Scale \in Int BY <2>1, <2>3
  <2>8. size * MarginRatio[k][m] <= size * MarginRatio[i][m]
    BY <2>1, <2>2, <2>3, ProductsMonotone
  <2> QED BY <2>4, <2>5, <2>6, <2>7, <2>8
<1>4. TotalCollateral(a, value, i) <= TotalCollateral(a, value, k)
  <2> DEFINE S(t) == [m \in SpotMarkets |-> SpotCollateral(a, m, value, t)]
             P(t) == [m \in PerpMarkets |-> WeightedPnl(a.perp[m], m, value[m], t)]
  <2>1. \A m \in SpotMarkets : /\ S(i)[m] \in Int /\ S(k)[m] \in Int
                               /\ S(i)[m] <= S(k)[m]
    BY <1>1, <1>2, SpotTerms
  <2>2. \A m \in PerpMarkets : /\ P(i)[m] \in Int /\ P(k)[m] \in Int
                               /\ P(i)[m] <= P(k)[m]
    BY <1>1, <1>3, PerpTerms
  <2>3. /\ TotalCollateral(a, value, i) = SumFunctionOnSet(S(i), SpotMarkets)
                                          + SumFunctionOnSet(P(i), PerpMarkets)
        /\ TotalCollateral(a, value, k) = SumFunctionOnSet(S(k), SpotMarkets)
                                          + SumFunctionOnSet(P(k), PerpMarkets)
    BY DEF TotalCollateral, SumOver
  <2> HIDE DEF S, P, i, k
  <2>4. SumFunctionOnSet(S(i), SpotMarkets) <= SumFunctionOnSet(S(k), SpotMarkets)
    BY <2>1, SumAtMost, MarginAssumption
  <2>5. SumFunctionOnSet(P(i), PerpMarkets) <= SumFunctionOnSet(P(k), PerpMarkets)
    BY <2>2, SumAtMost, MarginAssumption
  <2>6. /\ SumFunctionOnSet(S(i), SpotMarkets) \in Int
        /\ SumFunctionOnSet(S(k), SpotMarkets) \in Int
    BY <2>1, SumIsInt, MarginAssumption
  <2>7. /\ SumFunctionOnSet(P(i), PerpMarkets) \in Int
        /\ SumFunctionOnSet(P(k), PerpMarkets) \in Int
    BY <2>2, SumIsInt, MarginAssumption
  <2> QED BY <2>3, <2>4, <2>5, <2>6, <2>7
<1>5. MarginRequirement(a, value, k) <= MarginRequirement(a, value, i)
  <2> DEFINE S(t) == [m \in SpotMarkets |-> SpotRequirement(a, m, value, t)]
             P(t) == [m \in PerpMarkets |-> PerpRequirement(a, m, value, t)]
  <2>1. \A m \in SpotMarkets : /\ S(i)[m] \in Int /\ S(k)[m] \in Int
                               /\ S(k)[m] <= S(i)[m]
    BY <1>1, <1>2, SpotTerms
  <2>2. \A m \in PerpMarkets : /\ P(i)[m] \in Int /\ P(k)[m] \in Int
                               /\ P(k)[m] <= P(i)[m]
    BY <1>1, <1>3, PerpTerms
  <2>3. /\ MarginRequirement(a, value, i) = SumFunctionOnSet(S(i), SpotMarkets)
                                            + SumFunctionOnSet(P(i), PerpMarkets)
        /\ MarginRequirement(a, value, k) = SumFunctionOnSet(S(k), SpotMarkets)
                                            + SumFunctionOnSet(P(k), PerpMarkets)
    BY DEF MarginRequirement, SumOver
  <2> HIDE DEF S, P, i, k
  <2>4. SumFunctionOnSet(S(k), SpotMarkets) <= SumFunctionOnSet(S(i), SpotMarkets)
    BY <2>1, SumAtMost, MarginAssumption
  <2>5. SumFunctionOnSet(P(k), PerpMarkets) <= SumFunctionOnSet(P(i), PerpMarkets)
    BY <2>2, SumAtMost, MarginAssumption
  <2>6. /\ SumFunctionOnSet(S(i), SpotMarkets) \in Int
        /\ SumFunctionOnSet(S(k), SpotMarkets) \in Int
    BY <2>1, SumIsInt, MarginAssumption
  <2>7. /\ SumFunctionOnSet(P(i), PerpMarkets) \in Int
        /\ SumFunctionOnSet(P(k), PerpMarkets) \in Int
    BY <2>2, SumIsInt, MarginAssumption
  <2> QED BY <2>3, <2>4, <2>5, <2>6, <2>7
<1>6. /\ TotalCollateral(a, value, i) \in Int /\ TotalCollateral(a, value, k) \in Int
      /\ MarginRequirement(a, value, i) \in Int
      /\ MarginRequirement(a, value, k) \in Int
  BY <1>1, CollateralIsInt, RequirementIsNat
<1>7. TotalCollateral(a, value, i) >= MarginRequirement(a, value, i)
  BY DEF MeetsMargin
<1> QED BY <1>4, <1>5, <1>6, <1>7 DEF MeetsMargin
-----------------------------------------------------------------------------
(* Who leaves a liquidation.                                               *)

LEMMA ExitKeepsPositions ==
  ASSUME NEW a, IsAccount(a) PROVE SamePositions(a, Exit(a))
BY DEF IsAccount, SamePositions, Exit

LEMMA ActiveKeepsPositions ==
  ASSUME NEW a, IsAccount(a) PROVE SamePositions(a, Active(a))
BY DEF IsAccount, SamePositions, Active

LEMMA PositionsChain ==
  ASSUME NEW a, NEW b, NEW c, SamePositions(a, b), SamePositions(b, c)
  PROVE  SamePositions(a, c)
BY DEF SamePositions

(* A transfer ends the liquidation only when it took what it had to.       *)
LEMMA ClosedExits ==
  ASSUME NEW a, IsAccount(a), a.liquidating, NEW shortage, NEW done,
         PhaseOf(Closed(a, shortage, done)) = "normal"
  PROVE  done /\ SamePositions(a, Closed(a, shortage, done))
<1> DEFINE b == [a EXCEPT !.freed = @ + Floored(shortage - Shortage(a))]
<1>1. SameStatus(a, b) BY FreedOnly
<1>2. SamePositions(a, b) BY DEF IsAccount, SamePositions
<1>3. Closed(a, shortage, done) = IF done THEN Exit(b)
        ELSE IF IsUserBankrupt(b) THEN EnterBankruptcy(b) ELSE b
  BY DEF Closed
<1> HIDE DEF b
<1>4. IsAccount(b) /\ b.liquidating BY <1>1 DEF SameStatus
<1>5. EnterBankruptcy(b).bankrupt BY <1>4, BankruptcySets
<1>6. done BY <1>3, <1>4, <1>5 DEF PhaseOf
<1>7. SamePositions(b, Exit(b)) BY <1>4, ExitKeepsPositions
<1> QED BY <1>2, <1>3, <1>6, <1>7, PositionsChain, Zenon

(* What has to be shown of the account an instruction is about; the others *)
(* keep their status (OneMoves).                                           *)
LeavesHealthy(u) == LeavesUnaided(u) => Meets(acct'[u])

LEMMA OthersStay ==
  ASSUME NEW u \in Users, OneMoves(u), LeavesHealthy(u), NEW w \in Users
  PROVE  LeavesHealthy(w)
<1>1. w # u => acct'[w].liquidating = acct[w].liquidating
               /\ acct'[w].bankrupt = acct[w].bankrupt
  BY DEF OneMoves, SameStatus
<1>2. w # u => PhaseOf(acct'[w]) = PhaseOf(acct[w]) BY <1>1 DEF PhaseOf
<1> QED BY <1>2 DEF LeavesHealthy, LeavesUnaided

LEMMA RecoveredLeaves ==
  ASSUME TypeOK, Roster, NEW u \in Users, Recovered(u) PROVE LeavesHealthy(u)
<1>1. acct[u] \in User /\ IsAccount(acct[u]) /\ price \in PriceMap
  BY TypesNow DEF Roster
<1>2. acct'[u] = Exit(acct[u]) BY DEF Recovered, Only, Roster
<1>3. Meets(acct[u]) BY <1>1, ExitIsStricter DEF Recovered
<1>4. Meets(Exit(acct[u]))
  BY <1>1, <1>3, ExitKeepsPositions, PositionsDecide, Zenon DEF Meets
<1> QED BY <1>2, <1>4 DEF LeavesHealthy

LEMMA UnburdenedLeaves ==
  ASSUME TypeOK, Roster, NEW u \in Users, ~acct[u].bankrupt, Unburdened(u)
  PROVE  LeavesHealthy(u)
<1> DEFINE a == Opened(acct[u])
<1>1. IsAccount(acct[u]) /\ price \in PriceMap BY TypesNow DEF Roster
<1>2. a \in User BY OpenedNow
<1>3. IsAccount(a) BY <1>1, OpenedBegins DEF Begun
<1>4. acct'[u] = Exit(a) /\ CanExit(a) BY DEF Unburdened, Only, Roster
<1> HIDE DEF a
<1>5. Meets(a) BY <1>1, <1>2, <1>4, ExitIsStricter
<1>6. Meets(Exit(a)) BY <1>3, <1>5, ExitKeepsPositions, PositionsDecide, Zenon DEF Meets
<1> QED BY <1>4, <1>6 DEF LeavesHealthy

LEMMA OpenedStays ==
  ASSUME Roster, NEW u \in Users, ~acct[u].bankrupt, Only(u, Opened(acct[u]))
  PROVE  LeavesHealthy(u)
<1>1. acct'[u] = Opened(acct[u]) BY DEF Only, Roster
<1>2. Begun(acct[u], Opened(acct[u])) BY OpenedBegins DEF Roster
<1> QED BY <1>1, <1>2 DEF LeavesHealthy, LeavesUnaided, PhaseOf, Begun

(* An attempt ends it by an exit of one of these kinds, or by its transfer. *)
LEMMA AttemptLeaves ==
  ASSUME TypeOK, Roster, NEW u \in Users, ~acct[u].bankrupt, NEW T,
         T => LeavesHealthy(u), Recovered(u) \/ Attempt(u, T)
  PROVE  LeavesHealthy(u)
BY RecoveredLeaves, UnburdenedLeaves, Zenon DEF Attempt

LEMMA HeldLeaves ==
  ASSUME Roster, NEW u \in Users, ~acct[u].bankrupt, NEW n, Held(u, n)
  PROVE  LeavesHealthy(u)
BY OpenedStays, Zenon DEF Held

(* A transfer to a taker: it ends the liquidation unaided only if the taker *)
(* is given nothing.                                                       *)
LEMMA TransferLeaves ==
  ASSUME Roster, NEW u \in Users, NEW l \in Users, u # l,
         NEW a, Begun(acct[u], a), NEW shortage, NEW done, NEW y,
         Both(u, Closed(a, shortage, done), l, y),
         done /\ y = acct[l] => Meets(a)
  PROVE  LeavesHealthy(u)
<1> DEFINE x == Closed(a, shortage, done)
<1>1. acct'[u] = x /\ acct'[l] = y BY DEF Both, Roster
<1> SUFFICES ASSUME LeavesUnaided(u) PROVE Meets(x)
  BY <1>1 DEF LeavesHealthy
<1>2. y = acct[l] /\ PhaseOf(x) = "normal" BY <1>1 DEF LeavesUnaided
<1>3. IsAccount(a) /\ a.liquidating BY DEF Begun
<1>4. done /\ SamePositions(a, x) BY <1>2, <1>3, ClosedExits
<1> HIDE DEF x
<1> QED BY <1>2, <1>4, PositionsDecide, Zenon DEF Meets

LEMMA TakeOverPerpLeaves ==
  ASSUME TypeOK, Roster, NEW u \in Users, NEW l \in Users, u # l,
         NEW m \in PerpMarkets, NEW a, Begun(acct[u], a),
         NEW plan, plan.n \in Nat, plan.cover \in Nat \ {0}, NEW fee \in Nat,
         TakeOverPerp(u, l, a, m, plan, fee)
  PROVE  LeavesHealthy(u)
<1> DEFINE n == plan.n
           side == Toward(n, a.perp[m].base)
           toLiq == FeeOn(n * price[m], fee)
           toFund == FeeOn(n * price[m], plan.insured)
           after == AddPerp(a, m, side, -side * price[m] - toLiq - toFund)
           get == side * price[m] + toLiq
           taker == AddPerp(acct[l], m, -side, get)
           done == n >= plan.cover
<1>1. Both(u, Closed(after, Shortage(a), done), l, taker)
  BY Zenon DEF TakeOverPerp
<1>2. acct[l] \in User /\ price[m] \in Nat
  BY TypesNow DEF PriceMap, Markets
<1>3. Begun(acct[u], after)
  <2>1. \A base, quote : Begun(acct[u], AddPerp(a, m, base, quote))
    BY AddPerpKeeps, BegunStays, Zenon DEF Begun
  <2> QED BY <2>1, Zenon
<1>4. side \in Int /\ (done => side # 0) BY DEF Toward
<1>5. toLiq \in Nat BY <1>2, TimesIsNat, FeeOnIsNat
<1> HIDE DEF n, side, toLiq, toFund, after
<1>6. get \in Int
  <2>1. side * price[m] \in Int BY <1>2, <1>4
  <2> QED BY <1>5, <2>1
<1> HIDE DEF get
<1>7. -side \in Int BY <1>4
<1>8. taker.perp[m].base = acct[l].perp[m].base + (-side)
  BY <1>2, <1>6, <1>7, PerpAdded
<1>9. acct[l].perp[m].base \in Int BY <1>2 DEF User, PerpPosition
<1> HIDE DEF taker, done
<1>10. ~(done /\ taker = acct[l]) BY <1>4, <1>8, <1>9
<1> QED BY <1>1, <1>3, <1>10, TransferLeaves, Zenon

LEMMA FillByMakerLeaves ==
  ASSUME Roster, NEW u \in Users, NEW k \in Users,
         NEW a, Begun(acct[u], a), NEW m, NEW plan, NEW v,
         FillByMaker(u, k, a, m, plan, v)
  PROVE  LeavesHealthy(u)
<1>1. PICK after, maker :
        /\ k # u /\ Begun(acct[u], after)
        /\ Both(u, Closed(after, Shortage(a), Meets(after)), k, maker)
  <2>1. \A base, quote : Begun(acct[u], AddPerp(a, m, base, quote))
    BY AddPerpKeeps, BegunStays, Zenon DEF Begun
  <2> QED BY <2>1, Zenon DEF FillByMaker
<1> QED BY <1>1, TransferLeaves, Zenon

LEMMA TakeOverSpotLeaves ==
  ASSUME TypeOK, Roster, NEW u \in Users, NEW l \in Users, u # l,
         NEW c \in SpotMarkets, NEW b \in SpotMarkets, c # b,
         NEW a, Begun(acct[u], a), NEW plan, plan.n \in Nat, plan.asset \in Int,
         TakeOverSpot(u, l, a, c, b, plan)
  PROVE  LeavesHealthy(u)
<1> DEFINE kept == FeeOn(plan.n, plan.fee)
           after == AddSpot(AddSpot(a, b, plan.n - kept), c, -plan.asset)
           given == AddSpot(acct[l], b, -plan.n)
           taker == AddSpot(given, c, plan.asset)
           done == plan.n >= plan.cover
<1>1. Both(u, Closed(after, Shortage(a), done), l, taker) /\ plan.n # 0
  BY ZenonT(60) DEF TakeOverSpot, Moves
<1>2. Begun(acct[u], after) BY SpotLegs, Zenon
<1>3. acct[l] \in User BY TypesNow
<1>4. -plan.n \in Int OBVIOUS
<1>5. given \in User /\ given.spot[b] = acct[l].spot[b] + (-plan.n)
  BY <1>3, <1>4, SpotAdded
<1> HIDE DEF given
<1>6. taker.spot[b] = given.spot[b] + 0 BY <1>5, SpotAdded
<1>7. acct[l].spot[b] \in Int BY <1>3 DEF User
<1> HIDE DEF taker, after, done
<1>8. taker # acct[l] BY <1>1, <1>5, <1>6, <1>7
<1> QED BY <1>1, <1>2, <1>8, TransferLeaves, Zenon

LEMMA TakeOverMixedLeaves ==
  ASSUME TypeOK, Roster, NEW u \in Users, NEW l \in Users, u # l,
         NEW p \in PerpMarkets, NEW b \in SpotMarkets,
         NEW a, Begun(acct[u], a), NEW n \in Int, n # 0,
         NEW x, NEW y, NEW z, NEW shortage, NEW done,
         Both(u, Closed(AddPerp(AddSpot(a, b, x), p, 0, y), shortage, done),
              l, AddPerp(AddSpot(acct[l], b, n), p, 0, z)),
         z \in Int
  PROVE  LeavesHealthy(u)
<1> DEFINE after == AddPerp(AddSpot(a, b, x), p, 0, y)
           given == AddSpot(acct[l], b, n)
           taker == AddPerp(given, p, 0, z)
<1>1. Begun(acct[u], after) BY MixedLegs, Zenon
<1>2. acct[l] \in User BY TypesNow
<1>3. given \in User /\ given.spot[b] = acct[l].spot[b] + n BY <1>2, SpotAdded
<1> HIDE DEF given
<1>4. taker.spot = given.spot BY <1>3, PerpAdded
<1>5. acct[l].spot[b] \in Int BY <1>2 DEF User
<1> HIDE DEF taker, after
<1>6. taker # acct[l] BY <1>3, <1>4, <1>5
<1>7. Both(u, Closed(after, shortage, done), l, taker) BY DEF taker, given, after
<1> QED BY <1>1, <1>6, <1>7, TransferLeaves, Zenon
-----------------------------------------------------------------------------
(* The attempts again, and the other instructions.                         *)

LEMMA LiquidatePerpLeaves ==
  ASSUME TypeOK, Roster, NEW u \in Users, NEW l \in Users,
         NEW m \in PerpMarkets, NEW max \in MaxTransfers, LiquidatePerp(u, l, m, max)
  PROVE  LeavesHealthy(u)
<1> DEFINE a == Opened(acct[u])
           fee == LiquidationFee(m, Elapsed(a))
           plan == PerpPlan(a, m, max, fee)
<1>1. a \in User /\ Elapsed(a) \in Int BY OpenedNow
<1>2. u # l /\ ~acct[u].bankrupt BY DEF LiquidatePerp, CanAttempt
<1>3. Begun(acct[u], a) BY <1>2, OpenedBegins, Zenon DEF Roster
<1>4. max \in Nat /\ price \in PriceMap /\ slot \in Nat
  BY TypesNow, LiquidationAssumption
<1>5. fee \in Nat
  <2>1. fee \in 0 .. Scale BY <1>1, LiquidationFeeBounded
  <2> QED BY <2>1, MarginAssumption
<1>6. \/ Recovered(u)
      \/ Attempt(u, \/ a.perp[m].base = 0 /\ Only(u, a)
                    \/ a.perp[m].base # 0 /\ Held(u, plan.allowed)
                    \/ /\ a.perp[m].base # 0 /\ plan.allowed # 0
                       /\ TakeOverPerp(u, l, a, m, plan, fee))
  BY Zenon DEF LiquidatePerp
<1>7. Only(u, a) => LeavesHealthy(u) BY <1>2, OpenedStays
<1> HIDE DEF a, fee
<1>8. a.perp[m].base # 0 /\ plan.allowed # 0
        => plan.n \in Nat /\ plan.cover \in Nat \ {0}
  BY <1>1, <1>4, <1>5, PerpPlanSound
<1> HIDE DEF plan
<1>9. ASSUME a.perp[m].base # 0, plan.allowed # 0,
             TakeOverPerp(u, l, a, m, plan, fee)
      PROVE  LeavesHealthy(u)
  BY <1>2, <1>3, <1>5, <1>8, <1>9, TakeOverPerpLeaves
<1>10. Held(u, plan.allowed) => LeavesHealthy(u) BY <1>2, HeldLeaves, Zenon
<1> QED BY <1>2, <1>6, <1>7, <1>9, <1>10, AttemptLeaves, Zenon

LEMMA LiquidatePerpWithFillLeaves ==
  ASSUME TypeOK, Roster, NEW u \in Users, NEW l \in Users, NEW k \in Users,
         NEW m, NEW n, NEW atLimit, LiquidatePerpWithFill(u, l, k, m, n, atLimit)
  PROVE  LeavesHealthy(u)
<1> DEFINE a == Opened(acct[u])
           base == a.perp[m].base
           plan == PerpPlan(a, m, n, LiquidatorFee[m])
           v == FillPrice(m, LiquidationFee(m, Elapsed(a)), base, atLimit)
<1>1. ~acct[u].bankrupt BY DEF LiquidatePerpWithFill, CanAttempt
<1>2. Begun(acct[u], a) BY <1>1, OpenedBegins, Zenon DEF Roster
<1>3. \/ Recovered(u)
      \/ Attempt(u, \/ base = 0 /\ Only(u, a)
                    \/ base # 0 /\ Held(u, plan.allowed)
                    \/ /\ base # 0 /\ plan.allowed # 0
                       /\ FillByMaker(u, k, a, m, plan, v))
  BY Zenon DEF LiquidatePerpWithFill
<1>4. Only(u, a) => LeavesHealthy(u) BY <1>1, OpenedStays
<1> HIDE DEF a, base, plan, v
<1>5. FillByMaker(u, k, a, m, plan, v) => LeavesHealthy(u)
  BY <1>2, FillByMakerLeaves, Zenon
<1>6. Held(u, plan.allowed) => LeavesHealthy(u) BY <1>1, HeldLeaves, Zenon
<1> QED BY <1>1, <1>3, <1>4, <1>5, <1>6, AttemptLeaves, Zenon

LEMMA LiquidateSpotLeaves ==
  ASSUME TypeOK, Roster, NEW u \in Users, NEW l \in Users,
         NEW c \in SpotMarkets, NEW b \in SpotMarkets, NEW max \in MaxTransfers,
         LiquidateSpot(u, l, c, b, max)
  PROVE  LeavesHealthy(u)
<1> DEFINE a == Opened(acct[u])
           plan == SpotPlan(a, c, b, max)
<1>1. u # l /\ c # b /\ ~acct[u].bankrupt BY DEF LiquidateSpot, CanAttempt
<1>2. Begun(acct[u], a) BY <1>1, OpenedBegins, Zenon DEF Roster
<1>3. plan.n \in Nat /\ plan.asset \in Int BY SpotPlanNow
<1>4. \/ Recovered(u)
      \/ Attempt(u, /\ plan.cover # Undefined
                    /\ Held(u, plan.allowed) \/ TakeOverSpot(u, l, a, c, b, plan))
  BY Zenon DEF LiquidateSpot
<1> HIDE DEF a, plan
<1>5. TakeOverSpot(u, l, a, c, b, plan) => LeavesHealthy(u)
  BY <1>1, <1>2, <1>3, TakeOverSpotLeaves
<1>6. Held(u, plan.allowed) => LeavesHealthy(u) BY <1>1, HeldLeaves, Zenon
<1> QED BY <1>1, <1>4, <1>5, <1>6, AttemptLeaves, Zenon

LEMMA LiquidateBorrowLeaves ==
  ASSUME TypeOK, Roster, NEW u \in Users, NEW l \in Users,
         NEW p \in PerpMarkets, NEW b \in SpotMarkets, NEW max \in MaxTransfers,
         LiquidateBorrowForPerpPnl(u, l, p, b, max)
  PROVE  LeavesHealthy(u)
<1> DEFINE a == Opened(acct[u])
           plan == BorrowPlan(a, p, b, max)
<1>1. u # l /\ ~acct[u].bankrupt BY DEF LiquidateBorrowForPerpPnl, CanAttempt
<1>2. Begun(acct[u], a) BY <1>1, OpenedBegins, Zenon DEF Roster
<1>3. plan.n \in Nat /\ plan.asset \in Int BY BorrowPlanNow
<1>4. \/ Recovered(u)
      \/ Attempt(u, /\ plan.cover # Undefined
                    /\ Held(u, plan.allowed) \/ TakeOverBorrow(u, l, a, p, b, plan))
  BY Zenon DEF LiquidateBorrowForPerpPnl, BorrowPlan
<1> HIDE DEF a, plan
<1>5. ASSUME TakeOverBorrow(u, l, a, p, b, plan) PROVE LeavesHealthy(u)
  <2>1. plan.n # 0
        /\ Both(u, Closed(AddPerp(AddSpot(a, b, plan.n), p, 0, -plan.asset),
                          Shortage(a), plan.n >= plan.cover),
                l, AddPerp(AddSpot(acct[l], b, -plan.n), p, 0, plan.asset))
    BY <1>5, Zenon DEF TakeOverBorrow, Moves
  <2>2. -plan.n \in Int /\ -plan.n # 0 BY <1>3, <2>1
  <2> QED BY <1>1, <1>2, <1>3, <2>1, <2>2, TakeOverMixedLeaves, Zenon
<1>6. Held(u, plan.allowed) => LeavesHealthy(u) BY <1>1, HeldLeaves, Zenon
<1> QED BY <1>1, <1>4, <1>5, <1>6, AttemptLeaves, Zenon

LEMMA LiquidateLossLeaves ==
  ASSUME TypeOK, Roster, NEW u \in Users, NEW l \in Users,
         NEW p \in PerpMarkets, NEW c \in SpotMarkets, NEW max \in MaxTransfers,
         LiquidatePerpPnlForDeposit(u, l, p, c, max)
  PROVE  LeavesHealthy(u)
<1> DEFINE a == Opened(acct[u])
           plan == LossPlan(a, p, c, max)
<1>1. u # l /\ ~acct[u].bankrupt BY DEF LiquidatePerpPnlForDeposit, CanAttempt
<1>2. Begun(acct[u], a) BY <1>1, OpenedBegins, Zenon DEF Roster
<1>3. plan.n \in Nat /\ plan.asset \in Int BY LossPlanNow
<1>4. \/ Recovered(u)
      \/ Attempt(u,
           \/ /\ ~IsAsSafeAs(p, a) /\ NoOrders(acct[u]) # acct[u]
              /\ Only(u, a)
           \/ /\ IsAsSafeAs(p, a) /\ plan.cover # Undefined
              /\ Held(u, plan.allowed) \/ TakeOverLoss(u, l, a, p, c, plan))
  BY Zenon DEF LiquidatePerpPnlForDeposit, LossPlan
<1>5. Only(u, a) => LeavesHealthy(u) BY <1>1, OpenedStays
<1> HIDE DEF a, plan
<1>6. ASSUME TakeOverLoss(u, l, a, p, c, plan) PROVE LeavesHealthy(u)
  <2>1. plan.asset # 0
        /\ Both(u, Closed(AddPerp(AddSpot(a, c, -plan.asset), p, 0, plan.n),
                          Shortage(a), plan.n >= plan.cover),
                l, AddPerp(AddSpot(acct[l], c, plan.asset), p, 0, -plan.n))
    BY <1>6, Zenon DEF TakeOverLoss, Moves
  <2>2. -plan.n \in Int BY <1>3
  <2> QED BY <1>1, <1>2, <1>3, <2>1, <2>2, TakeOverMixedLeaves, Zenon
<1>7. Held(u, plan.allowed) => LeavesHealthy(u) BY <1>1, HeldLeaves, Zenon
<1> QED BY <1>1, <1>4, <1>5, <1>6, <1>7, AttemptLeaves, Zenon

LEMMA SwapLeaves ==
  ASSUME TypeOK, Roster, NEW u \in Users, NEW l \in Users,
         NEW c \in SpotMarkets, NEW b \in SpotMarkets,
         NEW in \in Nat, NEW out \in Nat, LiquidateSpotWithSwap(u, l, c, b, in, out)
  PROVE  LeavesHealthy(u)
<1> DEFINE a == Opened(acct[u])
           kept == FeeOn(out, InsuranceFee[b])
           d == AddSpot(a, b, out - kept)
           after == AddSpot(d, c, -in)
           x == Closed(after, Shortage(a), CanExit(after))
<1>1. ~acct[u].bankrupt /\ acct' = [acct EXCEPT ![u] = x]
  BY Zenon DEF LiquidateSpotWithSwap, EndSwap, CanAttempt
<1>2. acct'[u] = x
  <2> HIDE DEF x
  <2> QED BY <1>1 DEF Roster
<1>3. Begun(acct[u], a) BY <1>1, OpenedBegins, Zenon DEF Roster
<1>4. Begun(acct[u], after) BY <1>3, SpotLegs, Zenon
<1>5. a \in User /\ price \in PriceMap BY OpenedNow, TypesNow
<1>6. kept \in Nat
  <2>1. InsuranceFee[b] \in Nat BY MarginAssumption DEF Markets
  <2> QED BY <2>1, FeeOnIsNat
<1> HIDE DEF a, kept
<1>7. d \in User
  <2>1. out - kept \in Int BY <1>6
  <2> QED BY <1>5, <2>1, SpotAdded
<1> HIDE DEF d
<1>8. after \in User
  <2>1. -in \in Int OBVIOUS
  <2> QED BY <1>7, <2>1, SpotAdded
<1> HIDE DEF after
<1> SUFFICES ASSUME LeavesUnaided(u) PROVE Meets(x)
  BY <1>2 DEF LeavesHealthy
<1>9. PhaseOf(x) = "normal" BY <1>2 DEF LeavesUnaided
<1>10. IsAccount(after) /\ after.liquidating BY <1>4 DEF Begun
<1>11. CanExit(after) /\ SamePositions(after, x) BY <1>9, <1>10, ClosedExits
<1>12. Meets(after) BY <1>5, <1>8, <1>11, ExitIsStricter
<1> HIDE DEF x
<1> QED BY <1>11, <1>12, PositionsDecide, Zenon DEF Meets

LEMMA LiquidateLeaves ==
  ASSUME TypeOK, Roster, NEW u \in Users, NEW l \in Users, Liquidate(u, l)
  PROVE  LeavesHealthy(u)
<1>1. ASSUME NEW x \in Swaps PROVE x.in \in Nat /\ x.out \in Nat
  BY LiquidationAssumption
<1> QED BY <1>1, LiquidatePerpLeaves, LiquidatePerpWithFillLeaves, LiquidateSpotLeaves,
           SwapLeaves, LiquidateBorrowLeaves, LiquidateLossLeaves, Zenon DEF Liquidate

LEMMA SetStatusLeaves ==
  ASSUME NEW u \in Users, SetUserStatusToBeingLiquidated(u) PROVE LeavesHealthy(u)
BY DEF SetUserStatusToBeingLiquidated, LeavesHealthy, LeavesUnaided, PhaseOf,
       IsBeingLiquidated

LEMMA KeeperRewardLeaves ==
  ASSUME NEW v \in Users, NEW u, NEW p, KeeperReward(v, u, p) PROVE LeavesHealthy(v)
BY DEF KeeperReward, LeavesHealthy, LeavesUnaided, PhaseOf, IsBeingLiquidated

LEMMA DepositLeaves ==
  ASSUME TypeOK, Roster, NEW u \in Users, NEW m \in SpotMarkets,
         NEW n \in Deposits, Deposit(u, m, n)
  PROVE  LeavesHealthy(u)
<1> DEFINE a == AddSpot(acct[u], m, n)
           b == IF IsBeingLiquidated(a) /\ CanExit(a) THEN Exit(a) ELSE a
<1>1. acct' = [acct EXCEPT ![u] = Active(b)] BY Zenon DEF Deposit
<1>2. acct'[u] = Active(b)
  <2> HIDE DEF b
  <2> QED BY <1>1 DEF Roster
<1>3. acct[u] \in User /\ IsAccount(acct[u]) /\ price \in PriceMap /\ n \in Nat
  BY TypesNow, LiquidationAssumption DEF Roster
<1>4. a \in User BY <1>3, SpotAdded
<1>5. SameStatus(acct[u], a) BY <1>3, AddSpotKeeps, Zenon
<1> HIDE DEF a
<1>6. IsAccount(a) /\ IsAccount(Exit(a)) BY <1>5, ExitClears DEF SameStatus
<1> SUFFICES ASSUME LeavesUnaided(u) PROVE Meets(acct'[u]) BY DEF LeavesHealthy
<1>7. a.liquidating /\ ~a.bankrupt BY <1>5 DEF LeavesUnaided, PhaseOf, SameStatus
<1>8. PhaseOf(Active(a)) # "normal"
  BY <1>7 DEF Active, PhaseOf, IsBeingLiquidated
<1>9. CanExit(a) /\ b = Exit(a)
  <2>1. b # a BY <1>2, <1>8 DEF LeavesUnaided
  <2> QED BY <2>1
<1>10. Meets(a) BY <1>3, <1>4, <1>9, ExitIsStricter
<1>11. SamePositions(a, Active(Exit(a)))
  BY <1>6, ExitKeepsPositions, ActiveKeepsPositions, PositionsChain, Zenon
<1>12. Meets(Active(Exit(a))) BY <1>10, <1>11, PositionsDecide, Zenon DEF Meets
<1> QED BY <1>2, <1>9, <1>12

LEMMA PlaceOrderLeaves ==
  ASSUME TypeOK, Roster, NEW u \in Users, NEW p \in PerpMarkets,
         NEW n \in Orders, PlaceOrder(u, p, n)
  PROVE  LeavesHealthy(u)
<1> DEFINE a == IF IsBeingLiquidated(acct[u]) THEN Exit(acct[u]) ELSE acct[u]
           s == [a.perp EXCEPT ![p].bids = @ + Floored(n), ![p].asks = @ + Floored(-n)]
           b == [a EXCEPT !.perp[p].bids = @ + Floored(n),
                          !.perp[p].asks = @ + Floored(-n)]
<1>1. /\ acct' = [acct EXCEPT ![u] = Active(b)]
      /\ MeetsMargin(b, price, IF RiskIncreasing(acct[u].perp[p], n)
                               THEN "Initial" ELSE "Maintenance")
  BY Zenon DEF PlaceOrder
<1>2. acct'[u] = Active(b)
  <2> HIDE DEF b
  <2> QED BY <1>1 DEF Roster
<1>3. acct[u] \in User /\ IsAccount(acct[u]) /\ price \in PriceMap
  BY TypesNow DEF Roster
<1>4. a \in User
  <2>1. Exit(acct[u]) \in User BY <1>3, ExitSame DEF SameAmounts
  <2> QED BY <1>3, <2>1
<1>5. Floored(n) \in Nat /\ Floored(-n) \in Nat
  <2>1. n \in Int /\ -n \in Int BY LiquidationAssumption
  <2> QED BY <2>1, FlooredIsNat
<1>6. b = [a EXCEPT !.perp = s]
  <2> HIDE DEF a
  <2> QED BY <1>4 DEF User
<1> HIDE DEF a, b
<1>7. s \in [PerpMarkets -> PerpPosition]
  <2>1. a.perp \in [PerpMarkets -> PerpPosition] BY <1>4 DEF User
  <2> QED BY <1>5, <2>1 DEF PerpPosition
<1> HIDE DEF s
<1>8. b \in User BY <1>4, <1>6, <1>7, PerpSet
<1>9. MeetsMargin(b, price, "Maintenance")
  <2>1. CASE RiskIncreasing(acct[u].perp[p], n)
    <3>1. MeetsMargin(b, price, "Initial") BY <1>1, <2>1
    <3> QED BY <1>3, <1>8, <3>1, InitialIsStricter
  <2>2. CASE ~RiskIncreasing(acct[u].perp[p], n) BY <1>1, <2>2
  <2> QED BY <2>1, <2>2
<1>10. SamePositions(b, Active(b)) BY <1>8 DEF User, SamePositions, Active
<1>11. Meets(Active(b)) BY <1>9, <1>10, PositionsDecide, Zenon DEF Meets
<1> QED BY <1>2, <1>11 DEF LeavesHealthy

(* Without assets and, once its last loss is taken over, without debts.    *)
LEMMA FlatMeets ==
  ASSUME NEW a \in User, price \in PriceMap,
         \A m \in SpotMarkets : a.spot[m] = 0,
         \A p \in PerpMarkets : a.perp[p] = FlatPerp
  PROVE  Meets(a)
<1> DEFINE k == "Maintenance"
           F == [m \in SpotMarkets |-> SpotCollateral(a, m, price, k)]
           G == [m \in PerpMarkets |-> WeightedPnl(a.perp[m], m, price[m], k)]
           H == [m \in SpotMarkets |-> SpotRequirement(a, m, price, k)]
           I == [m \in PerpMarkets |-> PerpRequirement(a, m, price, k)]
<1>1. k \in Types BY DEF Types
<1>2. ASSUME NEW m \in SpotMarkets PROVE F[m] = 0 /\ H[m] = 0
  <2>1. LiabilityWeight[k][m] \in Nat /\ Scale \in Nat BY <1>1, MarginAssumption
  <2>2. SpotLiability(a, m, price) = 0 BY DEF SpotLiability
  <2> QED BY <2>1, <2>2 DEF SpotCollateral, SpotRequirement
<1>3. ASSUME NEW m \in PerpMarkets PROVE G[m] = 0 /\ I[m] = 0
  <2>1. /\ price[m] \in Nat /\ PnlWeight[k][m] \in Nat /\ Scale \in Nat
        /\ MarginRatio[k][m] \in Nat
    BY <1>1, MarginAssumption DEF PriceMap, Markets
  <2>2. UnrealizedPnl(a.perp[m], price[m]) = 0
    BY <2>1 DEF UnrealizedPnl, FlatPerp
  <2>3. WorstCaseBase(a.perp[m]) = 0 BY DEF WorstCaseBase, FlatPerp, Size, Larger
  <2>4. WeightedPnl(a.perp[m], m, price[m], k) = 0 BY <2>1, <2>2 DEF WeightedPnl
  <2>5. PerpRequirement(a, m, price, k) = 0 BY <2>1, <2>3 DEF PerpRequirement
  <2> QED BY <2>4, <2>5
<1>4. /\ TotalCollateral(a, price, k)
          = SumFunctionOnSet(F, SpotMarkets) + SumFunctionOnSet(G, PerpMarkets)
      /\ MarginRequirement(a, price, k)
          = SumFunctionOnSet(H, SpotMarkets) + SumFunctionOnSet(I, PerpMarkets)
  BY DEF TotalCollateral, MarginRequirement, SumOver
<1> HIDE DEF F, G, H, I
<1>5. /\ SumFunctionOnSet(F, SpotMarkets) = 0 /\ SumFunctionOnSet(G, PerpMarkets) = 0
      /\ SumFunctionOnSet(H, SpotMarkets) = 0 /\ SumFunctionOnSet(I, PerpMarkets) = 0
  BY <1>2, <1>3, SumZero, MarginAssumption
<1> QED BY <1>4, <1>5 DEF Meets, MeetsMargin

(* b is what the bankrupt a becomes when one of its debts is gone.         *)
LEMMA ClearedLeaves ==
  ASSUME TypeOK, Roster, NEW u \in Users, NEW b \in User,
         LET a == Declared(acct[u])
         IN  /\ a.bankrupt /\ SameStatus(a, b)
             /\ \A m \in SpotMarkets : b.spot[m] \in {a.spot[m], 0}
             /\ \A p \in PerpMarkets :
                  /\ b.perp[p].quote \in {a.perp[p].quote, 0}
                  /\ b.perp[p].base = a.perp[p].base
                  /\ b.perp[p].bids = a.perp[p].bids
                  /\ b.perp[p].asks = a.perp[p].asks,
         acct'[u] = Resolved(b)
  PROVE  LeavesHealthy(u)
<1> SUFFICES ASSUME LeavesUnaided(u) PROVE Meets(Resolved(b))
  BY DEF LeavesHealthy
<1> DEFINE a == Declared(acct[u])
<1>1. IsAccount(acct[u]) /\ ~acct[u].bankrupt /\ price \in PriceMap
  BY TypesNow DEF Roster, LeavesUnaided, PhaseOf
<1>2. IsUserBankrupt(acct[u]) /\ a = EnterBankruptcy(acct[u])
  BY <1>1 DEF Declared
<1>3. IsUserBankrupt(a) BY <1>1, <1>2, BankruptcySets
<1>4. a.bankrupt /\ SameStatus(a, b) OBVIOUS
<1>5. b.bankrupt /\ IsAccount(b) BY <1>4 DEF SameStatus
<1>6. ~IsUserBankrupt(b) /\ Resolved(b) = Exit(b)
  BY <1>5 DEF Resolved, LeavesUnaided, PhaseOf
<1> HIDE DEF a
<1>7. \A m \in SpotMarkets : b.spot[m] <= 0
  BY <1>3 DEF IsUserBankrupt, a
<1>8. \A p \in PerpMarkets :
        b.perp[p].base = 0 /\ b.perp[p].quote <= 0 /\ ~HasOpenOrder(b.perp[p])
  BY <1>3 DEF IsUserBankrupt, HasOpenOrder, a
<1>9. \A m \in SpotMarkets : b.spot[m] = 0
  <2>1. \A m \in SpotMarkets : b.spot[m] \in Int BY DEF User
  <2> QED BY <1>6, <1>7, <1>8, <2>1 DEF IsUserBankrupt
<1>10. \A p \in PerpMarkets : b.perp[p] = FlatPerp
  <2> TAKE p \in PerpMarkets
  <2>1. b.perp[p] \in PerpPosition BY DEF User
  <2>2. b.perp[p].quote = 0 BY <1>6, <1>7, <1>8, <2>1 DEF IsUserBankrupt, PerpPosition
  <2> QED BY <1>8, <2>1, <2>2 DEF PerpPosition, FlatPerp, HasOpenOrder
<1>11. Meets(b) BY <1>1, <1>9, <1>10, FlatMeets
<1> QED BY <1>5, <1>6, <1>11, ExitKeepsPositions, PositionsDecide, Zenon DEF Meets

LEMMA ResolvePerpLeaves ==
  ASSUME TypeOK, Roster, NEW u \in Users, NEW l, NEW p \in PerpMarkets, NEW r,
         ResolvePerpBankruptcy(u, l, p, r)
  PROVE  LeavesHealthy(u)
<1> DEFINE a == Declared(acct[u])
           s == [a.perp EXCEPT ![p].quote = 0]
           b == [a EXCEPT !.perp[p].quote = 0]
<1>1. a.bankrupt /\ acct' = [acct EXCEPT ![u] = Resolved(b)]
  BY Zenon DEF ResolvePerpBankruptcy, CanResolve
<1>2. acct'[u] = Resolved(b)
  <2> HIDE DEF b
  <2> QED BY <1>1 DEF Roster
<1>3. acct[u] \in User /\ IsAccount(acct[u]) BY TypesNow DEF Roster
<1>4. a \in User /\ IsAccount(a)
  BY <1>3, DeclaredSame, DeclaredIsAccount DEF SameAmounts
<1> HIDE DEF a
<1>5. SameStatus(a, b) BY <1>4, PerpOnly, Zenon
<1>6. b = [a EXCEPT !.perp = s] BY <1>4 DEF User
<1>7. /\ s \in [PerpMarkets -> PerpPosition]
      /\ \A q \in PerpMarkets :
           /\ s[q].quote \in {a.perp[q].quote, 0} /\ s[q].base = a.perp[q].base
           /\ s[q].bids = a.perp[q].bids /\ s[q].asks = a.perp[q].asks
  <2>1. a.perp \in [PerpMarkets -> PerpPosition] BY <1>4 DEF User
  <2> QED BY <2>1 DEF PerpPosition
<1> HIDE DEF b, s
<1>8. b \in User /\ b.perp = s /\ b.spot = a.spot BY <1>4, <1>6, <1>7, PerpSet
<1> QED BY <1>1, <1>2, <1>5, <1>7, <1>8, ClearedLeaves DEF a

LEMMA ResolveSpotLeaves ==
  ASSUME TypeOK, Roster, NEW u \in Users, NEW l, NEW m \in SpotMarkets, NEW r,
         ResolveSpotBankruptcy(u, l, m, r)
  PROVE  LeavesHealthy(u)
<1> DEFINE a == Declared(acct[u])
           s == [a.spot EXCEPT ![m] = 0]
           b == [a EXCEPT !.spot[m] = 0]
<1>1. a.bankrupt BY Zenon DEF ResolveSpotBankruptcy, CanResolve
<1>2. acct'[u] = Resolved(b)
  <2> HIDE DEF a, b
  <2>1. PICK total, loss :
          acct' = [w \in Users |->
             IF w = u THEN Resolved(b)
             ELSE [acct[w] EXCEPT !.spot[m] = IF total = 0 THEN @
                                             ELSE Cut(@, loss, total)]]
    BY Zenon DEF ResolveSpotBankruptcy, a, b
  <2> QED BY <2>1
<1>3. acct[u] \in User /\ IsAccount(acct[u]) BY TypesNow DEF Roster
<1>4. a \in User /\ IsAccount(a)
  BY <1>3, DeclaredSame, DeclaredIsAccount DEF SameAmounts
<1> HIDE DEF a
<1>5. s \in [SpotMarkets -> Int] /\ \A x \in SpotMarkets : s[x] \in {a.spot[x], 0}
  BY <1>4 DEF User
<1>6. b = [a EXCEPT !.spot = s] BY <1>4 DEF User
<1>7. s = [x \in SpotMarkets |-> s[x]] BY <1>5
<1> HIDE DEF b, s
<1>8. SameStatus(a, b) BY <1>4, <1>6, <1>7, SpotOnly
<1>9. b \in User /\ b.spot = s /\ b.perp = a.perp BY <1>4, <1>5, <1>6, SpotSet
<1> QED BY <1>1, <1>2, <1>5, <1>8, <1>9, ClearedLeaves DEF a

LEMMA StepLeaves ==
  ASSUME TypeOK, Roster, [Next]_vars
  PROVE  \A w \in Users : LeavesHealthy(w)
<1>1. CASE \E u, l \in Users : Liquidate(u, l) \/ Resolve(u, l)
  <2>1. PICK u \in Users, l \in Users : Liquidate(u, l) \/ Resolve(u, l)
    BY <1>1, Zenon
  <2>2. OneMoves(u)
    BY <2>1, LiquidateMoves, ResolvePerpMoves, ResolveSpotMoves, Zenon DEF Resolve
  <2>3. LeavesHealthy(u)
    BY <2>1, LiquidateLeaves, ResolvePerpLeaves, ResolveSpotLeaves, Zenon DEF Resolve
  <2> QED BY <2>2, <2>3, OthersStay, Zenon
<1>2. CASE \E u \in Users : SetUserStatusToBeingLiquidated(u)
  BY <1>2, SetStatusMoves, SetStatusLeaves, OthersStay, Zenon
<1>3. CASE \E u \in Users, m \in SpotMarkets, n \in Deposits : Deposit(u, m, n)
  BY <1>3, DepositMoves, DepositLeaves, OthersStay, Zenon
<1>4. CASE \E u \in Users, p \in PerpMarkets, n \in Orders : PlaceOrder(u, p, n)
  BY <1>4, PlaceOrderMoves, PlaceOrderLeaves, OthersStay, Zenon
<1>5. CASE \E v, u \in Users, p \in PerpMarkets : KeeperReward(v, u, p)
  BY <1>5, KeeperRewardMoves, KeeperRewardLeaves, OthersStay, Zenon
<1>6. CASE UNCHANGED acct
  BY <1>6 DEF LeavesHealthy, LeavesUnaided
<1>7. CASE \E m \in DOMAIN Prices : \E v \in Prices[m] : OracleMove(m, v)
  BY <1>6, <1>7, Zenon DEF OracleMove
<1>8. CASE Tick \/ UNCHANGED vars BY <1>6, <1>8, Zenon DEF Tick, vars
<1> QED BY <1>1, <1>2, <1>3, <1>4, <1>5, <1>7, <1>8, Zenon DEF Next

(* Where no other account changes, who leaves a liquidation meets the      *)
(* maintenance margin: the checks of can_exit_liquidation and              *)
(* meets_margin_requirement that the handlers of controller/liquidation.rs,*)
(* of deposits and of orders each make for themselves leave no gap.  What  *)
(* they compute for a transfer to a taker is left to ExitsHealthy.         *)
THEOREM UnaidedExitsMeetMargin == Spec => UnaidedExitsHealthy
<1>1. Init => TypeOK /\ VaultsBacked /\ Roster BY InitSound, InitRoster
<1>2. TypeOK /\ VaultsBacked /\ Roster /\ [Next]_vars
        => (TypeOK /\ VaultsBacked /\ Roster)'
  BY StepIsSound, StepMoves, RosterKept DEF StepSound
<1>3. TypeOK /\ Roster /\ [Next]_vars
        => [\A u \in Users :
              LeavesUnaided(u) => MeetsMargin(acct'[u], price, "Maintenance")]_vars
  BY StepLeaves DEF LeavesHealthy, Meets
<1> QED BY <1>1, <1>2, <1>3, PTL DEF Spec, UnaidedExitsHealthy
=============================================================================
