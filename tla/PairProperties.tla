--------------------------- MODULE PairProperties ---------------------------
(***************************************************************************)
(* What makes a choice_pair correct.                                       *)
(***************************************************************************)
EXTENDS Pair

TypeOK ==
  /\ bank \in [Assets -> [Accounts -> Nat]]
  /\ lp \in [Accounts -> Nat]
  /\ supply \in Nat
  /\ now \in Nat

(* The pair implements the abstract pool, with its own balances for the    *)
(* reserves and the LP denom's supply for the tokens in existence.         *)
Pool == INSTANCE LiquidityPool WITH x <- bank[0][PairAddr],
                                    y <- bank[1][PairAddr],
                                    t <- supply

(* Every transaction of the contract, and every donation to it, is a step  *)
(* of the abstract pool: a deposit pays in each asset at least the share   *)
(* it mints, a redemption takes at most the share it burns, and a swap     *)
(* does not lower the product of the reserves, all after rounding.         *)
ImplementsPool == Pool!Spec

(* The geometric mean of the reserves never falls below the LP supply:     *)
(* rounding in provide_liquidity, withdraw_liquidity and swap, iterated    *)
(* in any order, never lets the pool issue an unbacked LP token.           *)
LpBacked == Pool!Backed

(* No transaction makes the LP tokens that remain worth less.              *)
SharePriceNeverFalls == Pool!SharePriceNeverFalls

(* Once the pool is open the pair itself holds the locked minimum, although *)
(* withdraw_liquidity burns from that very balance.                         *)
MinimumLocked == supply > 0 => lp[PairAddr] >= MinimumLiquidity

(* The LP supply always fits a Uint128: the first deposit mints in all the *)
(* square root that it has converted to one, the later ones are checked.   *)
LpSupplyFits == FitsUint128(supply)

(* No holder of LP tokens is stuck: he can redeem all of them at once,     *)
(* whatever happened before, unless his refund in a coin is rounded to     *)
(* nothing, which the bank refuses to send.                                *)
ExitPossible ==
  \A u \in Users :
    /\ lp[u] > 0
    /\ \A i \in NativeAssets : Refunds(lp[u])[i] > 0
    => WithdrawAllowed(u, lp[u], None, None)

-----------------------------------------------------------------------------
(* Properties of quotes and of pairs of transactions, in every reachable   *)
(* state and for every amount a user may write.                            *)

(* query_simulation. *)
Simulation(i, offer) ==
  ComputeSwap(i, Pools(bank)[i], Pools(bank)[Other(i)], offer)

SimulationDefined(i, offer) ==
  ComputeSwapDefined(i, Pools(bank)[i], Pools(bank)[Other(i)], offer)

(* query_reverse_simulation; it ignores the decimals of the assets. *)
ReverseSimulation(i, ask) ==
  OfferAmount(Pools(bank)[Other(i)], Pools(bank)[i], ask)

ReverseSimulationDefined(i, ask) ==
  OfferAmountDefined(Pools(bank)[Other(i)], Pools(bank)[i], ask)

(* A swap pays its receiver exactly what the simulation query answers in   *)
(* the state before it, although the handler reads balances that already   *)
(* hold the offer and the query does not.  (The first conjunct is implied  *)
(* by the second and spares TLC the arithmetic of most steps.)             *)
SimulationMatchesSwap ==
  [][\A u, to \in Users, i \in Assets, offer \in Amounts :
       /\ bank'[i] = Move(bank[i], u, PairAddr, offer)
       /\ SwapNative(u, i, offer, None, None, to, None)
          \/ ReceiveCw20(u, i, offer, None, None, to, None)
       => /\ SimulationDefined(i, offer)
          /\ bank'[Other(i)][to] - bank[Other(i)][to]
               = Simulation(i, offer).return]_vars

(* Swapping there and back never returns more than was offered.            *)
SwapRoundTripLoses ==
  \A i \in Assets, offer \in Amounts :
    SimulationDefined(i, offer) =>
      LET there == Simulation(i, offer)
          cut   == FeeCut(there.commission)
          poolI == Pools(bank)[i] + offer
          poolJ == Pools(bank)[Other(i)] - there.return - 2 * cut
      IN  ComputeSwapDefined(Other(i), poolJ, poolI, there.return) =>
            ComputeSwap(Other(i), poolJ, poolI, there.return).return <= offer

(* A deposit that mints never asks for more than was deposited, so the     *)
(* subtraction of the desired amount from it cannot underflow; and         *)
(* redeeming the share at once returns no more than was paid for it.       *)
DepositRoundTripLoses ==
  supply > 0 =>
    \A deposit \in Deposits :
      LET pools == Pools(bank)
          share == Share(deposit, pools, supply)
      IN  ShareDefined(deposit, pools, supply) /\ share > 0 =>
            \A i \in Assets :
              LET desired == DesiredAmount(pools[i], share, supply) IN
              /\ desired <= deposit[i]
              /\ Refund(pools[i] + desired, share, supply + share) <= desired

(* Offering what the reverse simulation quotes buys at least the amount    *)
(* that was asked for, or one unit less; the rate the query divides by is  *)
(* rounded to a Decimal, which costs another unit for each One asked for.  *)
ReverseQuoteSuffices ==
  \A i \in Assets, ask \in Amounts :
    ReverseSimulationDefined(i, ask) =>
      LET offer == ReverseSimulation(i, ask).offer IN
      SimulationDefined(Other(i), offer) =>
        Simulation(Other(i), offer).return >= ask - (1 + ask \div One)
=============================================================================
