----------------------------- MODULE MCPairMath -----------------------------
(***************************************************************************)
(* The arithmetic of PairMath against reference definitions, over every    *)
(* combination of small inputs: one initial state for each, and no step.   *)
(***************************************************************************)
EXTENDS PairMath

CONSTANTS PoolSizes, Offers

VARIABLES x, y, n    (* Two pool sizes (or a pool and a supply), an amount. *)

vars == <<x, y, n>>

Init == x \in PoolSizes /\ y \in PoolSizes /\ n \in Offers
Next == UNCHANGED vars
Spec == Init /\ [][Next]_vars

EvenScale == [i \in Assets |-> 1]
Scale10   == [i \in Assets |-> IF i = 0 THEN 10 ELSE 1]

CeilDiv(a, b) == -((-a) \div b)

-----------------------------------------------------------------------------
(* What provide_liquidity charges for n of y shares of a pool of x is the  *)
(* exact proportional part rounded up, not one more and not one less.      *)
DesiredIsCeiling == n <= y => DesiredAmount(x, n, y) = CeilDiv(x * n, y)

(* withdraw_liquidity never refunds more than the exact part, and costs    *)
(* its holder less than one unit beyond the precision of the share ratio,  *)
(* which is one part in One of the whole pool.                             *)
RefundIsFair ==
  n <= y => LET exact == x * n IN
            /\ Refund(x, n, y) * y <= exact
            /\ (Refund(x, n, y) + 1) * y * One >= exact * One - x * y

(* The commission is at least the nominal rate of what the curve returns,  *)
(* less than a unit above its rounding up, and never more than the return. *)
CommissionCoversRate ==
  \A gross \in {x * y, n} :
    /\ Commission(gross) * One >= gross * CommissionRate
    /\ Commission(gross) * One <= gross * CommissionRate + One
    /\ Commission(gross) <= gross

(* The swap ends on or above the curve, and not a unit further than the    *)
(* commission: the trader gets all that rounding leaves.                   *)
SwapStaysOnCurve ==
  SwapRawDefined(x, y, n) =>
    LET swap == SwapRaw(x, y, n)
        left == y - swap.return - swap.commission
    IN  /\ (x + n) * left >= x * y
        /\ (x + n) * (left - 1) < x * y

(* More offered is never less returned, whatever the rounding: no amount   *)
(* of an offer is worth holding back.                                      *)
SwapIsMonotone ==
  SwapRawDefined(x, y, n) /\ SwapRawDefined(x, y, n + 1) =>
    SwapRaw(x, y, n + 1).return >= SwapRaw(x, y, n).return

(* The subtraction of the spread panics for no pool below 10^18 units.     *)
NoSpreadPanicBelowOne ==
  x <= One => IdealReturn(x, y, n) >= GrossReturn(x, y, n)

(* Scaling decimals up and down again pays no more than the unscaled       *)
(* curve, and at most one unit less.                                       *)
ScalingOnlyRounds ==
  \A i \in Assets :
    ComputeSwapDefined(i, x, y, n) /\ SwapRawDefined(x, y, n) =>
      LET scaled == ComputeSwap(i, x, y, n)
          gross  == GrossReturn(x, y, n)
      IN  /\ scaled.return + 2 * FeeCut(scaled.commission) <= gross
          /\ scaled.return >= SwapRaw(x, y, n).return - 1

-----------------------------------------------------------------------------
(* Rounding keeps the shares of the liquidity providers to their price:    *)
(* a deposit costs exactly its proportion, and a redemption pays it.       *)
SharesAreFair == DesiredIsCeiling /\ RefundIsFair

(* Rounding keeps a swap on the curve and its commission to the rate, with *)
(* scaled decimals too, and no pool below One panics on it.                *)
SwapIsFair ==
  /\ CommissionCoversRate
  /\ SwapStaysOnCurve
  /\ NoSpreadPanicBelowOne
  /\ ScalingOnlyRounds
=============================================================================
