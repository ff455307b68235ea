---------------------------- MODULE UserAccounts ----------------------------
(***************************************************************************)
(* The life of the accounts of an authority: its statistics account, the   *)
(* sub-accounts it opens and deletes, idleness, the opening fee, and the   *)
(* two modes with a limited number of places, high leverage and protected  *)
(* maker.  The places are counted in a config account of each mode, which  *)
(* has to agree with flags spread over all accounts.                       *)
(*                                                                         *)
(* An account holds quote tokens (negative: a borrow) and a long position  *)
(* in one perp market that has a high-leverage mode; trading, liquidation  *)
(* and bankruptcy are modelled as far as they touch the account's modes,   *)
(* statuses and activity.  Account names, delegates and fuel are left out. *)
(***************************************************************************)
EXTENDS Integers, FiniteSets, FiniteSetsExt

CONSTANTS
  Authorities,
  Scale,                    \* MARGIN_PRECISION
  Ratio,                    \* margin ratios by margin mode and margin type
  DisableBuffer,            \* the extra ratio on leaving the mode, 1 percent
  Prices,                   \* of the perp market
  MaxSubAccounts,           \* state.max_number_of_sub_accounts(), 0: no limit
  MaxFee, Share,            \* highest opening fee; PERCENTAGE_PRECISION
  Places,                   \* the limits an admin gives the modes
  SlotsToDisable,           \* 2250 inactive slots: anyone may end the mode
  SlotsToIdle, SlotsToIdleFast, SmallEquity,  \* a week, an hour; 1000 quote
  SlotsToForce, DustEquity, \* three months; 1/20 quote
  FreshFor,                 \* THIRTEEN_DAY
  Amounts, Steps, CustomRatios,  \* inputs: tokens, sizes of orders, ratios
  MaxCreated, MaxOps, MaxTime    \* bounds

MarginModes == {"Default", "HighLeverage"}
Types == {"Initial", "Maintenance"}
Modes == {"high", "maker"}

ASSUME AccountsAssumption ==
  /\ IsFiniteSet(Authorities) /\ MaxCreated \in Nat
  /\ Prices \subseteq Nat /\ {DisableBuffer, MaxFee, MaxSubAccounts} \subseteq Nat
  /\ Scale \in Nat \ {0} /\ Share \in Nat \ {0}
  /\ Ratio \in [MarginModes -> [Types -> Nat]]
  /\ \A m \in MarginModes : Ratio[m]["Maintenance"] <= Ratio[m]["Initial"]
  /\ Places \subseteq Nat /\ CustomRatios \subseteq Nat /\ Amounts \cup Steps \subseteq Nat

VARIABLES
  stats,      \* UserStats of each authority, or NoStats
  account,    \* by authority and sub-account id: User, or Closed
  state,      \* State: number_of_authorities, number_of_sub_accounts
  config,     \* high_leverage_mode_config, protected_maker_mode_config
  lost,       \* places of each mode whose accounts were deleted (not stored)
  price, slot, ops

vars == <<stats, account, state, config, lost, price, slot, ops>>

Ids == 0 .. MaxCreated - 1
NoStats == [live |-> FALSE]
Closed == [live |-> FALSE]

NewStats == [live |-> TRUE, subAccounts |-> 0, created |-> 0, referrer |-> {},
             isReferrer |-> FALSE, since |-> slot]
NewUser(fee) ==
  [live |-> TRUE, mode |-> "Default", maker |-> FALSE, status |-> "Active",
   idle |-> FALSE, active |-> 0, tokens |-> 0, base |-> 0, quote |-> 0,
   orders |-> 0, custom |-> 0, fee |-> fee]

Init ==
  /\ stats = [a \in Authorities |-> NoStats]
  /\ account = [a \in Authorities |-> [i \in Ids |-> Closed]]
  /\ state = [authorities |-> 0, subAccounts |-> 0]
  /\ \E n \in Places :
       config = [m \in Modes |-> [max |-> n, current |-> 0, reduceOnly |-> FALSE]]
  /\ lost = [m \in Modes |-> 0]
  /\ price \in Prices /\ slot = 0 /\ ops = 0
-----------------------------------------------------------------------------
(* Reading accounts.                                                       *)

Larger(a, b) == IF a < b THEN b ELSE a
Opened == {k \in Authorities \X Ids : account[k[1]][k[2]].live}

Equity(u, p) == u.tokens + u.quote + u.base * p

(* An owner's own ratio counts for the initial margin only.                *)
MarginRatio(u, type) ==
  IF type = "Initial" THEN Larger(u.custom, Ratio[u.mode][type])
                      ELSE Ratio[u.mode][type]

(* A resting order counts as filled.                                       *)
MeetsWithBuffer(u, p, type, buffer) ==
  Equity(u, p) * Scale >= (u.base + u.orders) * p * (MarginRatio(u, type) + buffer)
Meets(u, p, type) == MeetsWithBuffer(u, p, type, 0)

BeingLiquidated(u) == u.status # "Active"
InMode(u, m) == IF m = "high" THEN u.mode = "HighLeverage" ELSE u.maker

(* update_last_active_slot                                                 *)
Touched(u) ==
  [u EXCEPT !.idle = FALSE, !.active = IF BeingLiquidated(u) THEN @ ELSE slot]

Inactive(u, slots) == slot - u.active >= slots
Age(a) == slot - stats[a].since                         \* get_age_ts

(* get_init_user_fee: rises from 80 to 100 percent of the accounts allowed *)
InitFeeBelowTarget(n) ==                                             \* mutant
  LET used   == (n * Share) \div Larger(MaxSubAccounts, 1)
      target == (8 * Share) \div 10
  IN  (MaxFee * (used - target)) \div (Share - target)
InitFee(n) ==
  LET used   == (n * Share) \div Larger(MaxSubAccounts, 1)
      target == (8 * Share) \div 10
  IN  IF used > target THEN (MaxFee * (used - target)) \div (Share - target)
                       ELSE 0

(* validate_user_deletion                                                  *)
DeletableReferrer(a, i, u) ==                                        \* mutant
  /\ u.status = "Active"
  /\ u.base = 0 /\ u.quote = 0 /\ u.tokens = 0 /\ u.orders = 0
  /\ MaxFee > 0 /\ Age(a) < FreshFor => u.idle
Deletable(a, i, u) ==
  /\ ~stats[a].isReferrer \/ i # 0
  /\ u.status = "Active"
  /\ u.base = 0 /\ u.quote = 0 /\ u.tokens = 0 /\ u.orders = 0
  /\ MaxFee > 0 /\ Age(a) < FreshFor => u.idle
-----------------------------------------------------------------------------
(* The configs of the modes.                                               *)

Valid(c) == c.current <= c.max
IsFull(c) == c.current >= c.max \/ c.reduceOnly
Joined(c) == [c EXCEPT !.current = @ + 1]
MayJoin(c) == ~c.reduceOnly /\ Valid(Joined(c))
Left(c) == [c EXCEPT !.current = @ - 1]
MayLeave(c) == c.current > 0 /\ Valid(Left(c))

-----------------------------------------------------------------------------
Instruction == ops < MaxOps /\ ops' = ops + 1 /\ UNCHANGED <<price, slot>>
SetUser(a, i, u) == account' = [account EXCEPT ![a][i] = u]

(* Instructions that change one account and nothing else.                  *)
Changes(a, i, u) ==
  /\ Instruction /\ SetUser(a, i, u)
  /\ UNCHANGED <<stats, state, config, lost>>

InitializeUserStats(a) ==
  /\ Instruction /\ ~stats[a].live
  /\ state' = [state EXCEPT !.authorities = @ + 1]
  /\ MaxSubAccounts = 0 \/ state'.authorities <= MaxSubAccounts
  /\ stats' = [stats EXCEPT ![a] = NewStats]
  /\ UNCHANGED <<account, config, lost>>

(* The referrer, if any, is named with the first account and has to show   *)
(* its own first account; ids are never used again.                        *)
MayRefer(r) == stats[r].live /\ account[r][0].live

InitializeUser(a, i, referrers) ==
  LET first == stats[a].created = 0
      named == IF first THEN referrers ELSE {}
  IN  /\ Instruction /\ stats[a].live /\ ~account[a][i].live
      /\ i = stats[a].created
      /\ \A r \in named : MayRefer(r)
      /\ state' = [state EXCEPT !.subAccounts = @ + 1]
      /\ MaxSubAccounts = 0 \/ state'.subAccounts <= MaxSubAccounts
      /\ stats' = [s \in Authorities |->
           IF s = a THEN [stats[a] EXCEPT !.subAccounts = @ + 1, !.created = @ + 1,
                            !.referrer = IF first THEN named ELSE @]
           ELSE IF s \in named THEN [stats[s] EXCEPT !.isReferrer = TRUE]
           ELSE stats[s]]
      /\ SetUser(a, i, NewUser(InitFee(state'.subAccounts)))
      /\ UNCHANGED <<config, lost>>

Removed(a, i) ==
  /\ stats' = [stats EXCEPT ![a].subAccounts = @ - 1]
  /\ state' = [state EXCEPT !.subAccounts = @ - 1]
  /\ SetUser(a, i, Closed)
  /\ lost' = [m \in Modes |->
                lost[m] + (IF InMode(account[a][i], m) THEN 1 ELSE 0)]
  /\ UNCHANGED config

DeleteUser(a, i) ==
  /\ Instruction /\ Deletable(a, i, account[a][i])
  /\ Removed(a, i)

(* The admin's hot wallet takes what is left, cancels the orders and pays  *)
(* a borrow, then the account must pass the usual checks.                  *)
ForceDeleteUser(a, i) ==
  LET u == account[a][i]
  IN  /\ Instruction
      /\ Equity(u, price) <= DustEquity /\ Inactive(u, SlotsToForce)
      /\ Deletable(a, i, [u EXCEPT !.tokens = 0, !.orders = 0])
      /\ Removed(a, i)

(* What was paid above the rent comes back once the statistics are old.    *)
ReclaimRent(a, i) ==
  LET u == account[a][i]
  IN  /\ u.fee > 0
      /\ MaxSubAccounts = 0 \/ Age(a) >= FreshFor
      /\ Changes(a, i, [u EXCEPT !.fee = 0])

(* validate_user_is_idle: anyone may mark an unused account.               *)
UpdateUserIdle(a, i) ==
  LET u == account[a][i]
  IN  /\ Inactive(u, IF Equity(u, price) < SmallEquity THEN SlotsToIdleFast
                                                      ELSE SlotsToIdle)
      /\ u.status = "Active" /\ u.base = 0 /\ u.quote = 0
      /\ u.tokens >= 0 /\ u.orders = 0 /\ ~u.idle
      /\ Changes(a, i, [u EXCEPT !.idle = TRUE])

UpdateUserCustomMarginRatio(a, i, r) ==
  /\ account[a][i].custom # r
  /\ Changes(a, i, [account[a][i] EXCEPT !.custom = r])
-----------------------------------------------------------------------------
(* The modes.                                                              *)

SetConfig(m, c) == config' = [config EXCEPT ![m] = c]

(* The maintenance margin is computed but its answer is not looked at.     *)
EnableHighLeverage(a, i) ==
  /\ Instruction
  /\ account[a][i].mode # "HighLeverage"
  /\ MayJoin(config["high"])
  /\ SetConfig("high", Joined(config["high"]))
  /\ SetUser(a, i, [account[a][i] EXCEPT !.mode = "HighLeverage"])
  /\ UNCHANGED <<stats, state, lost>>

(* The margin test of leaving: as without the owner's own ratio.           *)
MayDisableInMode(u) ==                                               \* mutant
  u.base + u.orders # 0 =>
    MeetsWithBuffer([u EXCEPT !.custom = 0], price, "Initial", DisableBuffer)
MayDisable(u) ==
  LET left == [u EXCEPT !.mode = "Default", !.custom = 0]
  IN  u.base + u.orders # 0 =>
        MeetsWithBuffer(left, price, "Initial", DisableBuffer)

DisableHighLeverage(a, i, byOwner) ==
  LET u == account[a][i]
  IN  /\ Instruction /\ u.mode = "HighLeverage"
      /\ MayDisable(u)
      /\ byOwner \/ Inactive(u, SlotsToDisable) \/ u.idle
      /\ MayLeave(config["high"])
      /\ SetConfig("high", Left(config["high"]))
      /\ SetUser(a, i, [u EXCEPT !.mode = "Default"])
      /\ UNCHANGED <<stats, state, lost>>

UpdateProtectedMakerAgain(a, i, on) ==                               \* mutant
  LET u == account[a][i]
      c == config["maker"]
  IN  /\ Instruction /\ ~BeingLiquidated(u)
      /\ IF on THEN MayJoin(c) ELSE MayLeave(c)
      /\ SetConfig("maker", IF on THEN Joined(c) ELSE Left(c))
      /\ SetUser(a, i, [u EXCEPT !.maker = on])
      /\ UNCHANGED <<stats, state, lost>>
UpdateProtectedMaker(a, i, on) ==
  LET u == account[a][i]
      c == config["maker"]
  IN  /\ Instruction /\ ~BeingLiquidated(u) /\ u.maker # on
      /\ IF on THEN MayJoin(c) ELSE MayLeave(c)
      /\ SetConfig("maker", IF on THEN Joined(c) ELSE Left(c))
      /\ SetUser(a, i, [u EXCEPT !.maker = on])
      /\ UNCHANGED <<stats, state, lost>>

(* An admin sets the limit, and may correct the count to the true number.  *)
Members(m) == {k \in Opened : InMode(account[k[1]][k[2]], m)}
UpdateModeConfig(m, max, only, correct) ==
  LET n == IF correct THEN Cardinality(Members(m)) ELSE config[m].current
      c == [max |-> max, reduceOnly |-> only, current |-> n]
  IN  /\ Instruction /\ Valid(c) /\ c # config[m]
      /\ SetConfig(m, c)
      /\ lost' = IF correct THEN [lost EXCEPT ![m] = 0] ELSE lost
      /\ UNCHANGED <<stats, account, state>>
-----------------------------------------------------------------------------
(* What else an account does, as far as it matters here.                   *)

Deposit(a, i, n) ==
  /\ Changes(a, i, Touched([account[a][i] EXCEPT !.tokens = @ + n]))

Withdraw(a, i, n) ==
  LET u == Touched([account[a][i] EXCEPT !.tokens = @ - n])
  IN  /\ account[a][i].status = "Active"
      /\ Meets(u, price, "Initial") /\ Equity(u, price) >= 0
      /\ Changes(a, i, u)

(* place_perp_order with the high-leverage bit: the mode comes first, and  *)
(* is left out when its places are taken unless the order asks for the     *)
(* highest leverage; then the order itself, of n steps, needs its margin.  *)
Promoted(u, max) ==
  IF u.mode = "HighLeverage" \/ (IsFull(config["high"]) /\ ~max) THEN u
  ELSE [u EXCEPT !.mode = "HighLeverage"]

PlacePerpOrder(a, i, n, highLeverage, max) ==
  LET u == account[a][i]
      v == IF highLeverage THEN Promoted(u, max) ELSE u
      joins == u.mode # v.mode
  IN  /\ Instruction /\ u.status = "Active"
      /\ joins => MayJoin(config["high"])
      /\ u.orders = 0
      /\ Meets([v EXCEPT !.base = @ + n, !.quote = @ - n * price], price, "Initial")
      /\ SetUser(a, i, Touched([v EXCEPT !.orders = n]))
      /\ IF joins THEN SetConfig("high", Joined(config["high"])) ELSE UNCHANGED config
      /\ UNCHANGED <<stats, state, lost>>

(* The order is filled (its margin checked again) or cancelled.            *)
FillOrder(a, i) ==
  LET u == account[a][i]
      v == [u EXCEPT !.orders = 0, !.base = @ + u.orders,
                     !.quote = @ - u.orders * price]
  IN  /\ u.orders > 0 /\ u.status = "Active" /\ Meets(v, price, "Maintenance")
      /\ Changes(a, i, Touched(v))

CancelOrder(a, i) ==
  /\ account[a][i].orders > 0
  /\ Changes(a, i, Touched([account[a][i] EXCEPT !.orders = 0]))

(* Closes the position and settles its profit or loss.                     *)
Flat(u) ==
  [u EXCEPT !.base = 0, !.quote = 0, !.orders = 0, !.tokens = Equity(u, price)]
ClosePosition(a, i) ==
  LET u == account[a][i]
  IN  /\ u.base > 0 /\ u.status = "Active"
      /\ Meets(Flat(u), price, "Maintenance")
      /\ Changes(a, i, Touched(Flat(u)))

EnterLiquidation(a, i) ==
  LET u == account[a][i]
  IN  /\ u.status = "Active" /\ ~Meets(u, price, "Maintenance")
      /\ Changes(a, i, [u EXCEPT !.status = "BeingLiquidated", !.active = slot,
                                 !.orders = 0])

(* The position is taken over; a debt that remains is a bankruptcy, which  *)
(* others pay.                                                             *)
EndLiquidation(a, i) ==
  LET u == account[a][i]
      v == Flat(u)
  IN  \/ /\ u.status = "BeingLiquidated"
         /\ Changes(a, i, [v EXCEPT !.status =
                             IF v.tokens < 0 THEN "Bankrupt" ELSE "Active"])
      \/ /\ u.status = "Bankrupt"
         /\ Changes(a, i, [u EXCEPT !.status = "Active", !.tokens = 0])

Tick ==
  /\ slot < MaxTime /\ slot' = slot + 1 /\ price' \in Prices
  /\ UNCHANGED <<stats, account, state, config, lost, ops>>

UserSteps(a, i) ==
  \/ DeleteUser(a, i) \/ ForceDeleteUser(a, i)
  \/ ReclaimRent(a, i) \/ UpdateUserIdle(a, i)
  \/ \E r \in CustomRatios : UpdateUserCustomMarginRatio(a, i, r)
  \/ EnableHighLeverage(a, i)
  \/ \E b \in BOOLEAN : DisableHighLeverage(a, i, b)
  \/ \E on \in BOOLEAN : UpdateProtectedMaker(a, i, on)
  \/ \E n \in Amounts : Deposit(a, i, n) \/ Withdraw(a, i, n)
  \/ \E n \in Steps, high, max \in BOOLEAN :
       PlacePerpOrder(a, i, n, high, max)
  \/ FillOrder(a, i) \/ CancelOrder(a, i) \/ ClosePosition(a, i)
  \/ EnterLiquidation(a, i) \/ EndLiquidation(a, i)

Next ==
  \/ \E a \in Authorities : InitializeUserStats(a)
  \/ \E a \in Authorities, i \in Ids, r \in {{}} \cup {{x} : x \in Authorities} :
       InitializeUser(a, i, r)
  \/ \E k \in Opened : UserSteps(k[1], k[2])
  \/ \E m \in Modes, n \in Places, only, correct \in BOOLEAN :
       UpdateModeConfig(m, n, only, correct)
  \/ Tick

Spec == Init /\ [][Next]_vars
-----------------------------------------------------------------------------
(* Properties.                                                             *)

UserType ==
  [live : {TRUE}, mode : MarginModes, maker : BOOLEAN,
   status : {"Active", "BeingLiquidated", "Bankrupt"}, idle : BOOLEAN,
   active : Nat, tokens : Int, base : Nat, quote : Int, orders : Nat,
   custom : Nat, fee : Nat]
StatsType ==
  [live : {TRUE}, subAccounts : Nat, created : Nat,
   referrer : SUBSET Authorities, isReferrer : BOOLEAN, since : Nat]

TypeOK ==
  /\ \A a \in Authorities : stats[a] = NoStats \/ stats[a] \in StatsType
  /\ \A a \in Authorities, i \in Ids :
       account[a][i] = Closed \/ account[a][i] \in UserType
  /\ state \in [authorities : Nat, subAccounts : Nat]
  /\ config \in [Modes -> [max : Nat, current : Nat, reduceOnly : BOOLEAN]]
  /\ lost \in [Modes -> Nat] /\ price \in Prices /\ slot \in Nat /\ ops \in Nat

(* However accounts enter, leave, trade, are liquidated and deleted, the   *)
(* places a mode's config counts (current_users) are those of its members  *)
(* and of members that were deleted, since no deletion gives a place back  *)
(* (instructions/user.rs:3284); leaving therefore never fails for want of  *)
(* a place to give back.                                                   *)
PlacesAccounted ==
  \A m \in Modes :
    /\ config[m].current = Cardinality(Members(m)) + lost[m]
    /\ Valid(config[m])

(* The counters of an authority and of the program are those of the open   *)
(* accounts, every id was given out once, and the account a referrer is    *)
(* paid on exists as long as there is anyone it referred.                  *)
RosterSound ==
  /\ TypeOK
  /\ state.subAccounts = Cardinality(Opened)
  /\ state.authorities = Cardinality({a \in Authorities : stats[a].live})
  /\ \A a \in Authorities :
       LET open == {i \in Ids : account[a][i].live}
       IN  IF ~stats[a].live THEN open = {}
           ELSE /\ Cardinality(open) = stats[a].subAccounts
                /\ \A i \in open : i < stats[a].created
                /\ \A r \in stats[a].referrer : account[r][0].live

(* Whoever takes an account out of high leverage, at whatever price and    *)
(* with whatever orders resting, does not make it liquidatable: a          *)
(* maintenance margin that held holds under the ratios that apply now.     *)
DisableIsHarmless ==
  [][\A k \in Opened :
       LET u == account[k[1]][k[2]]
           v == account'[k[1]][k[2]]
           leaves == v.live /\ u.mode = "HighLeverage" /\ v.mode = "Default"
       IN  leaves /\ Meets(u, price, "Maintenance")
             => Meets(v, price, "Maintenance")]_vars
=============================================================================
