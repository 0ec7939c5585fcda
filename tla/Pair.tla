-------------------------------- MODULE Pair --------------------------------
(***************************************************************************)
(* The choice_pair contract together with the parts of the chain it acts   *)
(* through: the bank and CW20 balances of its two assets, and the token    *)
(* factory denom of its LP token.  One action is one transaction: the      *)
(* handler with every message it sends.  A handler that returns an error   *)
(* or panics, or a message that fails, reverts the transaction, so its     *)
(* action is not enabled.                                                  *)
(*                                                                         *)
(* Native funds reach the pair BEFORE its handler reads the balances, and  *)
(* so do the CW20 tokens of a Receive hook; the tokens of a CW20 deposit   *)
(* are pulled after it.  An operator called faulty is a variant that no    *)
(* action uses.                                                            *)
(***************************************************************************)
EXTENDS PairMath, Transfers, FiniteSets

CONSTANTS
  Users,          (* Accounts that send transactions.                      *)
  Receivers,      (* Accounts they name as receiver of LP tokens, or as to *)
                  (* of a swap; any address that is one will do.           *)
  PairAddr,       (* The account of the contract.                          *)
  FeeWallet,      (* fee_wallet_address.                                   *)
  BurnAddr,       (* burn_address, the send-to-auction contract.           *)
  NativeAssets,   (* The assets that are bank denoms; the others are CW20. *)
  Genesis,        (* Genesis[i][u]: what user u owns of asset i at first.  *)
  Amounts,        (* The amounts users write in their messages.            *)
  Prices,         (* Belief prices, in atomics, and None.                  *)
  Limits,         (* Spread and slippage limits, in atomics, and None.     *)
  Minimums,       (* min_assets arguments, and None.                       *)
  Deadlines,      (* Deadlines, and None.                                  *)
  MaxTime         (* Bounds the clock.                                     *)

VARIABLES
  bank,     (* bank[i][a]: the balance of account a in asset i.            *)
  lp,       (* lp[a]: the balance of account a in LP tokens.               *)
  supply,   (* The total supply of the LP denom.                           *)
  now       (* env.block.time in seconds.                                  *)

vars == <<bank, lp, supply, now>>

Accounts == Users \union {PairAddr, FeeWallet, BurnAddr}

ASSUME AccountsAssumption ==
  /\ Users \intersect {PairAddr, FeeWallet, BurnAddr} = {}
  /\ PairAddr # FeeWallet /\ PairAddr # BurnAddr /\ FeeWallet # BurnAddr
  /\ Receivers \subseteq Accounts
  /\ IsFiniteSet(Users)
ASSUME InputsAssumption ==
  /\ NativeAssets \subseteq Assets
  /\ Genesis \in [Assets -> [Users -> Nat]]
  /\ Amounts \subseteq Nat
  /\ MaxTime \in Nat

-----------------------------------------------------------------------------
(* query_pools: what the pair owns of each asset. *)
Pools(balances) == [i \in Assets |-> balances[i][PairAddr]]

Init ==
  /\ bank = [i \in Assets |-> [a \in Accounts |->
                IF a \in Users THEN Genesis[i][a] ELSE 0]]
  /\ lp = [a \in Accounts |-> 0]
  /\ supply = 0
  /\ now = 0

-----------------------------------------------------------------------------
(* provide_liquidity                                                       *)

(* The balances the handler reads: native deposits are already there. *)
Credited(u, deposit) ==
  [i \in Assets |-> IF i \in NativeAssets
                    THEN Move(bank[i], u, PairAddr, deposit[i])
                    ELSE bank[i]]

(* The pools without the native deposits. *)
PoolsBefore(credited, deposit) ==
  [i \in Assets |-> IF i \in NativeAssets
                    THEN credited[i][PairAddr] - deposit[i]
                    ELSE credited[i][PairAddr]]

(* What is refunded of a native deposit; a CW20 deposit is not sent, only  *)
(* what is desired of it is pulled, so the code sets its remainder to 0.   *)
Remainder(i, deposit, desired) ==
  IF i \in NativeAssets THEN deposit[i] - desired[i] ELSE 0

(* When a limit is given, what remains of a deposit must stay below it.    *)
(* Faulty: the limit is taken of what remains.                             *)
SlippageOfRemainder(remainder, deposit, slippage) ==
  slippage # None => MulFloor(remainder, slippage) <= deposit
SlippageMet(remainder, deposit, slippage) ==
  slippage # None => remainder <= MulFloor(deposit, slippage)

(* The effects common to both branches: refund or pull. *)
SettleDeposit(u, deposit, desired, credited, slippage) ==
  /\ \A i \in Assets :
       /\ desired[i] <= deposit[i]
       /\ SlippageMet(Remainder(i, deposit, desired), deposit[i], slippage)
       /\ i \notin NativeAssets => bank[i][u] >= desired[i]
  /\ bank' = [i \in Assets |->
                IF i \in NativeAssets
                THEN Move(credited[i], PairAddr, u, Remainder(i, deposit, desired))
                ELSE Move(credited[i], u, PairAddr, desired[i])]

(* assert_sent_native_token_balance: the funds are what the message says,  *)
(* and the bank has taken them from the sender.                            *)
(* Faulty: the funds are not compared with the message.                    *)
FundsUnchecked(u, deposit) == TRUE
FundsSent(u, deposit) == \A i \in NativeAssets : bank[i][u] >= deposit[i]

(* The mint messages: the locked minimum goes to the pair itself. *)
(* Faulty: the locked minimum is minted once more to the receiver.         *)
MintUndeducted(balances, receiver, share) ==
  [balances EXCEPT ![receiver] = @ + share + MinimumLiquidity]
Mint(balances, receiver, share) == [balances EXCEPT ![receiver] = @ + share]
MintFirst(receiver, share) ==
  Mint(Mint(lp, PairAddr, MinimumLiquidity), receiver, share)

(* LpSupplyOverflow: the supply stays a Uint128. *)
SupplyFits(share) == FitsUint128(supply + share)

(* The first deposit sets the price and locks MinimumLiquidity. *)
ProvideFirst(u, deposit, receiver, slippage, deadline) ==
  LET credited == Credited(u, deposit)
      share    == InitialShare(deposit)
  IN  /\ supply = 0
      /\ DeadlineMet(now, deadline)
      /\ FundsSent(u, deposit)
      /\ InitialShareDefined(deposit)
      /\ share > 0
      /\ SettleDeposit(u, deposit, deposit, credited, slippage)
      /\ lp' = MintFirst(receiver, share)
      /\ supply' = supply + MinimumLiquidity + share
      /\ UNCHANGED now

(* A later deposit joins at the price of the pool. *)
ProvideMore(u, deposit, receiver, slippage, deadline) ==
  LET credited == Credited(u, deposit)
      pools    == PoolsBefore(credited, deposit)
      share    == Share(deposit, pools, supply)
      desired  == [i \in Assets |-> DesiredAmount(pools[i], share, supply)]
  IN  /\ supply > 0
      /\ DeadlineMet(now, deadline)
      /\ FundsSent(u, deposit)
      /\ ShareDefined(deposit, pools, supply)
      /\ share > 0
      /\ SupplyFits(share)
      /\ SettleDeposit(u, deposit, desired, credited, slippage)
      /\ lp' = Mint(lp, receiver, share)
      /\ supply' = supply + share
      /\ UNCHANGED now

-----------------------------------------------------------------------------
(* withdraw_liquidity: the LP tokens arrive as funds, the refunds are sent *)
(* to the sender and the tokens are burnt from the pair's own balance.     *)

(* The LP balances as the handler runs: its funds have been transferred. *)
(* Faulty: the tokens stay with their holder.                              *)
NotReceived(u, amount) == lp
Received(u, amount) == Move(lp, u, PairAddr, amount)

(* What is sent for the tokens, of each asset. *)
Refunds(amount) == [i \in Assets |-> Refund(Pools(bank)[i], amount, supply)]

(* Neither the handler nor one of its messages fails. *)
WithdrawAllowed(u, amount, minAssets, deadline) ==
  /\ DeadlineMet(now, deadline)
  /\ amount > 0 /\ lp[u] >= amount
  /\ amount <= supply
  /\ MinimumMet(Refunds(amount), minAssets)
  /\ \A i \in Assets : Sendable(i \in NativeAssets, Refunds(amount)[i])

WithdrawLiquidity(u, amount, minAssets, deadline) ==
  /\ WithdrawAllowed(u, amount, minAssets, deadline)
  /\ bank' = [i \in Assets |-> Move(bank[i], PairAddr, u, Refunds(amount)[i])]
  /\ lp' = [Received(u, amount) EXCEPT ![PairAddr] = @ - amount]
  /\ supply' = supply - amount
  /\ UNCHANGED now

-----------------------------------------------------------------------------
(* swap                                                                    *)

(* The offer pool without the offer, which the balance already holds. *)
(* Faulty: the offer is counted twice.                                     *)
InflatedPool(received, offer) == received[PairAddr]
OfferPool(received, offer) == received[PairAddr] - offer

(* The three transfers of the asked asset, in the order they are sent. *)
PayOut(balance, to, return, burnAmount, feeWalletAmount) ==
  LET afterReturn == Move(balance, PairAddr, to, return)
      afterBurn   == Move(afterReturn, PairAddr, BurnAddr, burnAmount)
  IN  Move(afterBurn, PairAddr, FeeWallet, feeWalletAmount)

Swap(u, i, offer, beliefPrice, maxSpread, to, deadline) ==
  LET j               == Other(i)
      received        == Move(bank[i], u, PairAddr, offer)
      offerPool       == OfferPool(received, offer)
      askPool         == bank[j][PairAddr]
      result          == ComputeSwap(i, offerPool, askPool, offer)
      feeWalletAmount == FeeCut(result.commission)
      burnAmount      == FeeCut(result.commission)
  IN  /\ DeadlineMet(now, deadline)
      /\ bank[i][u] >= offer
      /\ ComputeSwapDefined(i, offerPool, askPool, offer)
      /\ SpreadAccepted(i, offer, result.return, result.spread,
                        beliefPrice, maxSpread)
      /\ askPool >= result.return + burnAmount + feeWalletAmount
      /\ bank' = [k \in Assets |->
                    IF k = i THEN received
                             ELSE PayOut(bank[j], to, result.return,
                                         burnAmount, feeWalletAmount)]
      /\ UNCHANGED <<lp, supply, now>>

(* ExecuteMsg::Swap is refused for a CW20 offer ...                        *)
SwapNative(u, i, offer, beliefPrice, maxSpread, to, deadline) ==
  /\ i \in NativeAssets
  /\ Swap(u, i, offer, beliefPrice, maxSpread, to, deadline)

(* ... which comes by the Receive hook of a token contract of the pair.    *)
ReceiveCw20(u, i, offer, beliefPrice, maxSpread, to, deadline) ==
  /\ i \notin NativeAssets
  /\ Swap(u, i, offer, beliefPrice, maxSpread, to, deadline)

-----------------------------------------------------------------------------
(* The environment: what any account may do without the contract running. *)

(* Assets sent to the pair outside its handlers, or as extra funds. *)
Donate(u, i, n) ==
  /\ n > 0 /\ bank[i][u] >= n
  /\ bank' = [bank EXCEPT ![i] = Move(@, u, PairAddr, n)]
  /\ UNCHANGED <<lp, supply, now>>

(* LP tokens change hands, or are thrown at the pair itself. *)
TransferLp(u, to, n) ==
  /\ n > 0 /\ lp[u] >= n
  /\ lp' = Move(lp, u, to, n)
  /\ UNCHANGED <<bank, supply, now>>

(* A block passes. *)
Tick ==
  /\ now < MaxTime
  /\ now' = now + 1
  /\ UNCHANGED <<bank, lp, supply>>

-----------------------------------------------------------------------------
Deposits == [Assets -> Amounts]

Next ==
  \/ \E u \in Users, deposit \in Deposits, receiver \in Receivers,
        slippage \in Limits, deadline \in Deadlines :
       \/ ProvideFirst(u, deposit, receiver, slippage, deadline)
       \/ ProvideMore(u, deposit, receiver, slippage, deadline)
  \/ \E u \in Users, amount \in Amounts, minAssets \in Minimums,
        deadline \in Deadlines :
       WithdrawLiquidity(u, amount, minAssets, deadline)
  \/ \E u \in Users, i \in Assets, offer \in Amounts, beliefPrice \in Prices,
        maxSpread \in Limits, to \in Receivers, deadline \in Deadlines :
       \/ SwapNative(u, i, offer, beliefPrice, maxSpread, to, deadline)
       \/ ReceiveCw20(u, i, offer, beliefPrice, maxSpread, to, deadline)
  \/ \E u \in Users, i \in Assets, n \in Amounts : Donate(u, i, n)
  \/ \E u \in Users, to \in Receivers, n \in Amounts : TransferLp(u, to, n)
  \/ Tick

Spec == Init /\ [][Next]_vars
=============================================================================
