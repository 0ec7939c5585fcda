---------------------------- MODULE PairMempool -----------------------------
(***************************************************************************)
(* Between signing and execution the pool moves.  A user writes the limits *)
(* of a transaction from what the pair's queries answer him; other traders *)
(* are executed first, blocks pass, and transactions overtake each other   *)
(* or are dropped.  The limits are all that protects him.                  *)
(***************************************************************************)
EXTENDS PairProperties

CONSTANTS
  Signers,      (* The users who sign with limits.                         *)
  MaxSigned,    (* Bounds the transactions that are signed.                *)
  MaxOthers,    (* Bounds the transactions of traders without limits.      *)
  Tolerances,   (* The max_spread and slippage_tolerance they write.       *)
  Expiries      (* The deadlines they write.                               *)

ASSUME MempoolAssumption == Signers \subseteq Users /\ Tolerances \subseteq Nat

VARIABLES
  mempool,      (* The transactions that are signed and not yet executed.  *)
  signed,       (* How many have been signed.                              *)
  others        (* How many transactions of others have been executed.     *)

queue == <<mempool, signed, others>>

MempoolInit == Init /\ mempool = {} /\ signed = 0 /\ others = 0

-----------------------------------------------------------------------------
(* Signing: the limits come from the state in which the user signs. *)

Submit(order) ==
  /\ signed < MaxSigned
  /\ mempool' = mempool \union {order}
  /\ signed' = signed + 1
  /\ UNCHANGED <<vars, others>>

(* A belief_price is the price of an offered unit: what query_simulation   *)
(* answered, both amounts in the larger number of decimals.                *)
BeliefPrice(i, offer, quote) ==
  FromRatio(offer * Scale[i], quote * Scale[Other(i)])

SignSwap(u, i, offer, tolerance, expiry) ==
  /\ SimulationDefined(i, offer)
  /\ Simulation(i, offer).return > 0
  /\ Submit([kind |-> "swap", user |-> u, id |-> signed, asset |-> i,
             offer |-> offer, quote |-> Simulation(i, offer).return,
             belief |-> BeliefPrice(i, offer, Simulation(i, offer).return),
             tolerance |-> tolerance, expiry |-> expiry])

SignWithdrawal(u, amount, expiry) ==
  /\ supply > 0
  /\ Submit([kind |-> "withdraw", user |-> u, id |-> signed, amount |-> amount,
             minimum |-> [i \in Assets |-> Refund(Pools(bank)[i], amount, supply)],
             expiry |-> expiry])

SignDeposit(u, deposit, tolerance, expiry) ==
  /\ supply > 0
  /\ Submit([kind |-> "deposit", user |-> u, id |-> signed, deposit |-> deposit,
             tolerance |-> tolerance, expiry |-> expiry])

-----------------------------------------------------------------------------
(* A block executes one of the signed transactions, in any order. *)

Execute(o) ==
  \/ /\ o.kind = "swap"
     /\ \/ SwapNative(o.user, o.asset, o.offer, o.belief, o.tolerance,
                      o.user, o.expiry)
        \/ ReceiveCw20(o.user, o.asset, o.offer, o.belief, o.tolerance,
                       o.user, o.expiry)
  \/ /\ o.kind = "withdraw"
     /\ WithdrawLiquidity(o.user, o.amount, o.minimum, o.expiry)
  \/ /\ o.kind = "deposit"
     /\ ProvideMore(o.user, o.deposit, o.user, o.tolerance, o.expiry)

Deliver(o) ==
  /\ Execute(o)
  /\ mempool' = mempool \ {o}
  /\ UNCHANGED <<signed, others>>

(* Reverted, or evicted. *)
Drop(o) ==
  /\ mempool' = mempool \ {o}
  /\ UNCHANGED <<vars, signed, others>>

(* The pair's own actions are those of traders who set no limits. *)
Others ==
  /\ Next
  /\ others' = others + (IF now' = now THEN 1 ELSE 0)
  /\ others' <= MaxOthers
  /\ UNCHANGED <<mempool, signed>>

MempoolNext ==
  \/ \E u \in Signers, i \in Assets, offer \in Amounts,
        tolerance \in Tolerances, expiry \in Expiries :
       SignSwap(u, i, offer, tolerance, expiry)
  \/ \E u \in Signers, amount \in Amounts, expiry \in Expiries :
       SignWithdrawal(u, amount, expiry)
  \/ \E u \in Signers, deposit \in Deposits,
        tolerance \in Tolerances, expiry \in Expiries :
       SignDeposit(u, deposit, tolerance, expiry)
  \/ \E o \in mempool : Deliver(o) \/ Drop(o)
  \/ Others

MempoolSpec == MempoolInit /\ [][MempoolNext]_<<vars, queue>>

-----------------------------------------------------------------------------
(* What the limits guarantee.  A transaction leaves the mempool and the    *)
(* balances change when, and only when, it has been executed.              *)

Executed == IF bank' = bank THEN {} ELSE mempool \ mempool'

Gain(u, i) == bank'[i][u] - bank[i][u]

(* The price, its reciprocal and the spread are rounded to a Decimal: that *)
(* costs two units, and another for each One of the offer and the quote.   *)
LostToRounding(o) == 2 + (o.offer * Scale[o.asset]) \div One + o.quote \div One

(* A swap with a belief_price pays at least the quoted return less the     *)
(* tolerated part of it, up to the units lost to rounding, whatever was    *)
(* traded since the quote.                                                 *)
SwapHonoursQuote ==
  [][\A o \in Executed : o.kind = "swap" =>
       (Gain(o.user, Other(o.asset)) + LostToRounding(o)) * One
         >= o.quote * (One - o.tolerance)]_vars

(* A withdrawal pays at least the refund that was quoted, of each asset. A *)
(* deposit leaves at most the tolerated part of a native coin unused, and  *)
(* never costs more than it says.                                          *)
LiquidityHonoursLimits ==
  [][\A o \in Executed, i \in Assets :
       /\ o.kind = "withdraw" => Gain(o.user, i) >= o.minimum[i]
       /\ o.kind = "deposit" =>
            LET used == -Gain(o.user, i) IN
            /\ used <= o.deposit[i]
            /\ i \in NativeAssets =>
                 used * One >= o.deposit[i] * (One - o.tolerance)]_vars

(* "Users can specify a slippage tolerance to limit how much discrepancy   *)
(* is acceptable": of each asset of a deposit, not only of the native ones. *)
DepositDiscrepancyLimited ==
  [][\A o \in Executed : o.kind = "deposit" =>
       \A i \in Assets :
         -Gain(o.user, i) * One >= o.deposit[i] * (One - o.tolerance)]_vars
=============================================================================
