--------------------------- MODULE InsuranceFund ---------------------------
(***************************************************************************)
(* The insurance fund of one spot market (the quote market): stakers buy   *)
(* shares of a token vault, ask to leave, wait a cooldown and withdraw;    *)
(* the vault grows by the revenue keepers settle into it and shrinks when  *)
(* it pays for bankruptcies and pnl deficits.  After a large loss shares   *)
(* are rebased by a power of Radix: the fund at once, each stake lazily,   *)
(* when its owner next touches it.                                         *)
(*                                                                         *)
(* Every instruction of the program is atomic: either all its checks pass  *)
(* and all its effects happen, or nothing does.                            *)
(***************************************************************************)
EXTENDS FundMath

CONSTANTS
  Users,               \* authorities, each with one stake in this market
  Amounts,             \* token amounts instructions are called with
  UnstakingPeriod,     \* insurance_fund.unstaking_period
  SettlePeriod,        \* insurance_fund.revenue_settle_period, 0 = never
  UserFactor,          \* insurance_fund.user_factor
  TotalFactor,         \* insurance_fund.total_factor
  AprNumerator,        \* the APR cap of a settlement, as a fraction of
  AprDenominator,      \* the vault: AprNumerator / AprDenominator
  RevenueDivisor,      \* a settlement takes at most 1/RevenueDivisor (10)
  Pools,               \* what settlements may find in the spot market
  MaxTime, MaxVault, MaxBase                  \* bounds of the model

ASSUME FundAssumption ==
  /\ IsFiniteSet(Users)
  /\ Amounts \subseteq Nat \ {0}
  /\ UnstakingPeriod \in Nat /\ SettlePeriod \in Nat
  /\ UserFactor \in Nat /\ TotalFactor \in Nat /\ UserFactor <= TotalFactor
  /\ AprNumerator \in Nat /\ AprDenominator \in Nat \ {0}
  /\ RevenueDivisor \in Nat \ {0}
  /\ MaxTime \in Nat /\ MaxVault \in Nat /\ MaxBase \in Nat
  /\ Pools \subseteq [revenue : Nat, claim : Nat]

VARIABLES
  now,       \* Clock::unix_timestamp
  fund,      \* InsuranceFund of the spot market and its vault's balance
  stake,     \* InsuranceFundStake of every user
  staked     \* UserStats.if_staked_quote_asset_amount

vars == <<now, fund, stake, staked>>

Fund == [vault : Nat, total : Nat, user : Nat, base : Nat, settledAt : Nat]
Stake == [shares : Nat, base : Nat,
          reqShares : Nat, reqValue : Nat, reqTs : Nat]

NewStake ==
  [shares |-> 0, base |-> 0, reqShares |-> 0, reqValue |-> 0, reqTs |-> 0]

Init ==
  /\ now = 0
  /\ fund = [vault |-> 0, total |-> 0, user |-> 0, base |-> 0, settledAt |-> 0]
  /\ stake = [u \in Users |-> NewStake]
  /\ staked = [u \in Users |-> 0]
-----------------------------------------------------------------------------
(* Helpers on the fund and the stakes. *)

ToShares(amount, f) == VaultAmountToIfShares(amount, f.total, f.vault)
ToAmount(n, f) == IfSharesToVaultAmount(n, f.total, f.vault)
AmountDefined(n, f) == n <= f.total

RebaseFundUserUp(f) ==                                               \* mutant
  IF f.vault # 0 /\ f.vault < f.total
  THEN LET divisor == Power[RebaseExpo(f.total, f.vault)]
       IN  [f EXCEPT !.total = @ \div divisor,
                     !.user = (@ + divisor - 1) \div divisor,
                     !.base = @ + RebaseExpo(f.total, f.vault)]
  ELSE f
RebaseFund(f) ==
  LET expo == RebaseExpo(f.total, f.vault)
      f1   == IF f.vault # 0 /\ f.vault < f.total
              THEN [f EXCEPT !.total = @ \div Power[expo],
                             !.user = @ \div Power[expo],
                             !.base = @ + expo]
              ELSE f
  IN  IF f1.vault # 0 /\ f1.total = 0 THEN [f1 EXCEPT !.total = f1.vault]
                                      ELSE f1

(* The validate! on the order of the bases, and 10_u128.pow's range. *)
RebaseDefined(s, f) == s.base <= f.base /\ f.base - s.base <= MaxExpo

RebaseStakeUp(s, f) ==                                               \* mutant
  LET divisor == Power[f.base - s.base]
  IN  [s EXCEPT !.base = f.base,
                !.shares = (@ + divisor - 1) \div divisor,
                !.reqShares = @ \div divisor]
RebaseStake(s, f) ==
  LET divisor == Power[f.base - s.base]
  IN  [s EXCEPT !.base = f.base,
                !.shares = @ \div divisor,
                !.reqShares = @ \div divisor]

(* update_user_stats_if_stake_amount: the stake's value once delta tokens  *)
(* have entered or left the vault.                                         *)
StakedAmount(shares, f, delta) ==
  ToAmount(shares, [f EXCEPT !.vault = @ + delta])

(* Shares given up when a request is cancelled after the fund appreciated. *)
SharesLostOfWholeFund(s, f) ==                                       \* mutant
  IF ToAmount(s.reqShares, f) > s.reqValue
  THEN s.reqShares - VaultAmountToIfShares(s.reqValue, f.total,
                                           f.vault - s.reqValue)
  ELSE 0
SharesLost(s, f) ==
  IF ToAmount(s.reqShares, f) > s.reqValue
  THEN s.reqShares - VaultAmountToIfShares(s.reqValue, f.total - s.reqShares,
                                           f.vault - s.reqValue)
  ELSE 0

(* The validates and checked subtractions of calculate_if_shares_lost. *)
SharesLostDefined(s, f) ==
  /\ AmountDefined(s.reqShares, f)
  /\ ToAmount(s.reqShares, f) > s.reqValue =>
       /\ s.reqValue <= f.vault
       /\ SharesDefined(f.total - s.reqShares, f.vault - s.reqValue)
       /\ SharesLost(s, f) >= 0
-----------------------------------------------------------------------------
(* Revenue settlement.  The spot market is the fund's environment here: an *)
(* instruction finds any pool of Pools, the tokens of its revenue pool and *)
(* the depositors' claim (deposits less borrows) on its vault.             *)

SettleDue == /\ SettlePeriod > 0
             /\ OnTheHourUpdate(now, fund.settledAt, SettlePeriod) = 0

SettleAmount(pool) ==
  LET available == IF pool.claim < pool.revenue
                   THEN pool.claim \div 2 ELSE pool.revenue
      aprCap    == (fund.vault * AprNumerator) \div AprDenominator
  IN  IF fund.user > 0
      THEN Least(available \div RevenueDivisor, aprCap) ELSE available

ProtocolCut(amount) == (amount * (TotalFactor - UserFactor)) \div TotalFactor

(* Minting the protocol's cut needs a vault that agrees with its shares. *)
SettleDefined ==
  UserFactor < TotalFactor => SharesDefined(fund.total, fund.vault)

SettledFund(amount) ==
  [fund EXCEPT
     !.vault = @ + amount,
     !.total = @ + (IF UserFactor < TotalFactor
                    THEN ToShares(ProtocolCut(amount), fund) ELSE 0),
     !.settledAt = now]

(* attempt_settle_revenue_to_insurance_fund: the fund the rest of the      *)
(* instruction works on.                                                   *)
AttemptDefined == SettleDue => SettleDefined
FundAfterAttempt(pool) ==
  IF SettleDue THEN SettledFund(SettleAmount(pool)) ELSE fund

(* A keeper settles the revenue of the elapsed period. *)
SettleRevenue(pool) ==
  /\ SettleDue /\ SettleDefined
  /\ SettleAmount(pool) # 0
  /\ fund.vault + SettleAmount(pool) <= MaxVault
  /\ fund' = SettledFund(SettleAmount(pool))
  /\ UNCHANGED <<now, stake, staked>>
-----------------------------------------------------------------------------
(* The staker's instructions. *)

(* add_insurance_fund_stake of the controller, on the fund f. *)
AddInsuranceFundStake(u, amount, before) ==
  LET f == RebaseFund(before)
      s == RebaseStake(stake[u], f)
      n == ToShares(amount, f)
      grown == [f EXCEPT !.total = @ + n, !.user = @ + n]
  IN  /\ ~(before.vault = 0 /\ before.total # 0)
      /\ RebaseDefined(stake[u], f)
      /\ AmountDefined(s.shares + n, grown)
      /\ f.vault + amount <= MaxVault
      /\ fund' = [grown EXCEPT !.vault = @ + amount]
      /\ stake' = [stake EXCEPT ![u] = [s EXCEPT !.shares = @ + n]]
      /\ staked' = [staked EXCEPT ![u] =
                      StakedAmount(s.shares + n, grown, amount)]

AddStake(u, amount, pool) ==
  /\ stake[u].reqShares = 0 /\ stake[u].reqValue = 0
  /\ AttemptDefined
  /\ AddInsuranceFundStake(u, amount, FundAfterAttempt(pool))
  /\ UNCHANGED now

(* The request is counted in shares of the fund as it was before the       *)
(* instruction rebases it, and is divided by that rebase.                  *)
RequestRemoveInsuranceFundStake(u, n) ==
  LET f == RebaseFund(fund)
      s == RebaseStake([stake[u] EXCEPT !.reqShares = n], f)
  IN  /\ RebaseDefined(stake[u], f)
      /\ s.reqShares <= s.shares
      /\ AmountDefined(s.shares, f)
      /\ fund' = f
      /\ stake' = [stake EXCEPT ![u] =
           [s EXCEPT !.reqValue = Least(ToAmount(s.reqShares, f),
                                        Greatest(f.vault - 1, 0)),
                     !.reqTs = now]]
      /\ staked' = [staked EXCEPT ![u] = StakedAmount(s.shares, f, 0)]

RequestRemove(u, amount) ==
  LET n == ToShares(amount, fund)
  IN  /\ stake[u].reqShares = 0
      /\ SharesDefined(fund.total, fund.vault)
      /\ n > 0
      /\ stake[u].base = fund.base
      /\ stake[u].shares >= n
      /\ RequestRemoveInsuranceFundStake(u, n)
      /\ UNCHANGED now

(* The checks of a cancellation: those of its handler, of the rebases, of  *)
(* calculate_if_shares_lost, and the subtractions of the shares lost.      *)
CancelAllowed(u) ==
  LET f == RebaseFund(fund)
      s == RebaseStake(stake[u], f)
      lost == SharesLost(s, f)
  IN  /\ stake[u].reqShares # 0
      /\ RebaseDefined(stake[u], f)
      /\ s.reqShares # 0
      /\ SharesLostDefined(s, f)
      /\ lost <= s.shares /\ lost <= f.user /\ lost <= f.total
      /\ AmountDefined(s.shares - lost, [f EXCEPT !.total = @ - lost])

CancelRequestRemoveInsuranceFundStake(u) ==
  LET f == RebaseFund(fund)
      s == RebaseStake(stake[u], f)
      lost == SharesLost(s, f)
      left == [f EXCEPT !.total = @ - lost, !.user = @ - lost]
  IN  /\ fund' = left
      /\ stake' = [stake EXCEPT ![u] =
           [s EXCEPT !.shares = @ - lost, !.reqShares = 0,
                     !.reqValue = 0, !.reqTs = now]]
      /\ staked' = [staked EXCEPT ![u] = StakedAmount(s.shares - lost, left, 0)]

CancelRequest(u) ==
  /\ CancelAllowed(u)
  /\ CancelRequestRemoveInsuranceFundStake(u)
  /\ UNCHANGED now

(* A withdrawal pays the lower of the request's worth now and then. *)
WithdrawAmount(s, f) == Least(ToAmount(s.reqShares, f), s.reqValue)

RemoveInsuranceFundStake(u) ==
  LET f == RebaseFund(fund)
      s == RebaseStake(stake[u], f)
      n == s.reqShares
      paid == WithdrawAmount(s, f)
      left == [f EXCEPT !.total = @ - n, !.user = @ - n]
  IN  /\ now - stake[u].reqTs >= UnstakingPeriod
      /\ RebaseDefined(stake[u], f)
      /\ n > 0 /\ s.shares >= n
      /\ SharesLostDefined(s, f)
      /\ n <= f.user /\ n <= f.total
      /\ AmountDefined(s.shares - n, left)
      /\ fund' = [left EXCEPT !.vault = @ - paid]
      /\ stake' = [stake EXCEPT ![u] =
           [s EXCEPT !.shares = @ - n, !.reqShares = 0,
                     !.reqValue = 0, !.reqTs = now]]
      /\ staked' = [staked EXCEPT ![u] = StakedAmount(s.shares - n, left, -paid)]

(* The vault must not be emptied.  (The handler also wants the spot market *)
(* at a healthy utilization, which may hold or not at any time.)           *)
RemoveStake(u) ==
  /\ RemoveInsuranceFundStake(u)
  /\ fund'.vault > 0
  /\ UNCHANGED now
-----------------------------------------------------------------------------
(* The rest of the program, as far as the fund sees it. *)

(* The vault pays what it can, short of its last token. *)
InsurancePaymentUncapped(loss, f) == loss                            \* mutant
InsurancePaymentDraining(loss, f) == Least(loss, f.vault)            \* mutant
InsurancePayment(loss, f) == Least(loss, Greatest(f.vault - 1, 0))

(* resolve_perp_bankruptcy, resolve_spot_bankruptcy and                    *)
(* resolve_perp_pnl_deficit: after an attempt to settle, the vault pays a  *)
(* loss into the market, always keeping at least one token.                *)
PayFromInsurance(loss, pool) ==
  LET f == FundAfterAttempt(pool)
      paid == InsurancePayment(loss, f)
  IN  /\ AttemptDefined
      /\ paid > 0
      /\ fund.base < MaxBase /\ f.vault - paid <= MaxVault
      /\ fund' = [f EXCEPT !.vault = @ - paid]
      /\ UNCHANGED <<now, stake, staked>>

Tick ==
  /\ now < MaxTime
  /\ now' = now + 1
  /\ UNCHANGED <<fund, stake, staked>>

Next ==
  \/ Tick
  \/ \E pool \in Pools : SettleRevenue(pool)
  \/ \E u \in Users, amount \in Amounts, pool \in Pools :
       AddStake(u, amount, pool)
  \/ \E u \in Users, amount \in Amounts : RequestRemove(u, amount)
  \/ \E u \in Users : CancelRequest(u)
  \/ \E u \in Users : RemoveStake(u)
  \/ \E loss \in Amounts, pool \in Pools : PayFromInsurance(loss, pool)

Spec == Init /\ [][Next]_vars
-----------------------------------------------------------------------------
(* Properties. *)

(* The amounts, shares and times of the program are unsigned.              *)
TypeOK ==
  /\ now \in Nat
  /\ fund \in Fund
  /\ stake \in [Users -> Stake]
  /\ staked \in [Users -> Nat]

(* What a stake is worth in shares of the fund's base; nothing any more    *)
(* once it is so many rebases behind that it can no longer apply them.     *)
EffectiveShares ==
  [u \in Users |-> IF RebaseDefined(stake[u], fund)
                   THEN RebaseStake(stake[u], fund).shares ELSE 0]

(* What the stakes are worth once rebased never adds up to more shares     *)
(* than the fund has issued to users: the checked subtractions of cancel   *)
(* and remove cannot underflow although fund and stakes are rebased, and   *)
(* rounded, at different times.                                            *)
StakesBacked == SumFunctionOnSet(EffectiveShares, Users) <= fund.user

(* The users' shares are some of all shares, no stake has applied a rebase *)
(* the fund has not, and no request exceeds its stake: the order every     *)
(* validate! and checked subtraction of the instructions relies on, kept   *)
(* through independent roundings of the four quantities.                   *)
SharesOrdered ==
  /\ fund.user <= fund.total
  /\ \A u \in Users : /\ stake[u].base <= fund.base
                      /\ stake[u].reqShares <= stake[u].shares

(* A fund with shares has tokens, so add_insurance_fund_stake's "balance   *)
(* should be non-zero for new stakers to enter" never closes the fund and  *)
(* minting the protocol's cut never fails.                                 *)
FundStaysOpen == fund.total > 0 => fund.vault > 0

(* Both of them: what every instruction of the fund takes for granted.     *)
FundSound == SharesOrdered /\ FundStaysOpen

(* A pending request can be cancelled as long as the rebases since leave a *)
(* share of it: whatever losses, rebases and settlements came in between,  *)
(* no check of calculate_if_shares_lost nor a checked subtraction after it *)
(* refuses.  When they leave none, the cancellation is refused (no request *)
(* in progress, or a power beyond u128).                                   *)
Outlasts(s, base) ==
  base - s.base <= MaxExpo /\ Power[base - s.base] <= s.reqShares
RequestCancellable ==
  \A u \in Users : stake[u].reqShares # 0 =>
    (CancelAllowed(u) <=> Outlasts(stake[u], RebaseFund(fund).base))

(* No instruction but the payment of a loss lowers the tokens a share is   *)
(* worth: deposits, requests, cancellations, withdrawals and settlements   *)
(* all round against whoever acts.  Shares are compared in units of the    *)
(* later base.                                                             *)
NoDilution ==
  [][ \/ fund.total = 0 \/ fund'.total = 0
      \/ fund'.vault * fund.total
           >= fund.vault * fund'.total * Power[fund'.base - fund.base]
      \/ \E loss \in Amounts, pool \in Pools : PayFromInsurance(loss, pool) ]_vars

=============================================================================
