------------------------------ MODULE PairMath ------------------------------
(***************************************************************************)
(* The pure arithmetic of a choice_pair: the constant-product swap with    *)
(* its commission, the quotes, the shares minted for a deposit and the     *)
(* assets refunded for a share.  Where the code returns an error or panics *)
(* on a checked operation, a predicate named ...Defined is FALSE: the      *)
(* transaction is reverted.  An operator called faulty is a variant that   *)
(* nothing uses; the properties are tested by putting it in the place of   *)
(* the operator that follows it.                                           *)
(***************************************************************************)
EXTENDS FixedPoint

CONSTANTS
  CommissionRate,     (* Atomics of permille(3); the pool's fee.           *)
  FeeDivisor,         (* 6: burn and fee wallet each get 1/6 of the fee.   *)
  MinimumLiquidity,   (* 1000: LP tokens minted to the pair for ever.      *)
  Uint256Max,         (* Bound of the Decimal256 that holds the product.   *)
  Scale,              (* Scale[i]: 10^(larger decimals - decimals of i).   *)
  Uint64Max,          (* Bound of the 10u64.pow of assert_max_spread.      *)
  None                (* An Option that is not given.                      *)

(* The two assets of the pair, pools[0] and pools[1]. *)
Assets == {0, 1}
Other(i) == 1 - i

ASSUME RateAssumption    == CommissionRate \in 1 .. One - 1
ASSUME DivisorAssumption == FeeDivisor \in Nat /\ FeeDivisor >= 2
ASSUME MinimumAssumption == MinimumLiquidity \in Nat \ {0}
ASSUME ScaleAssumption   == /\ Scale \in [Assets -> Nat \ {0}]
                            /\ \E i \in Assets : Scale[i] = 1
ASSUME WidthAssumption   == Uint256Max \in Nat /\ Uint64Max \in Nat
ASSUME NoneAssumption    == None \notin Nat /\ None \notin [Assets -> Nat]

-----------------------------------------------------------------------------
(* Swap: compute_swap_raw and compute_swap.                                *)

(* What the curve returns for the offer, before the commission. *)
(* Faulty: the price of the untouched pools.                               *)
SpotReturn(offerPool, askPool, offer) == (askPool * offer) \div offerPool
(* Faulty: what is left of the ask pool, not what leaves it.               *)
AskPoolAfter(offerPool, askPool, offer) ==
  (offerPool * askPool) \div (offerPool + offer)
GrossReturn(offerPool, askPool, offer) ==
  (askPool * offer) \div (offerPool + offer)

(* What the offer would return at the price of the untouched pools. *)
IdealReturn(offerPool, askPool, offer) ==
  MulFloor(offer, FromRatio(askPool, offerPool))

(* The commission, rounded up unless it divides the return exactly. *)
Commission(gross) ==
  LET floored == MulFloor(gross, CommissionRate)
  IN  IF gross # MulFloor(floored, Reciprocal(CommissionRate))
      THEN floored + 1
      ELSE floored

(* An empty offer pool divides by zero; the spread is a subtraction that   *)
(* panics when the ideal return was rounded below the gross one.           *)
SwapRawDefined(offerPool, askPool, offer) ==
  LET gross == GrossReturn(offerPool, askPool, offer)
      ideal == IdealReturn(offerPool, askPool, offer)
  IN  /\ offerPool > 0
      /\ ideal >= gross
      /\ FitsUint128(ideal - gross)

(* Faulty: the commission is not deducted.                                 *)
SwapUntaxed(offerPool, askPool, offer) ==
  LET gross == GrossReturn(offerPool, askPool, offer)
  IN  [return |-> gross, spread |-> 0, commission |-> Commission(gross)]
SwapRaw(offerPool, askPool, offer) ==
  LET gross      == GrossReturn(offerPool, askPool, offer)
      commission == Commission(gross)
  IN  [return     |-> gross - commission,
       spread     |-> IdealReturn(offerPool, askPool, offer) - gross,
       commission |-> commission]

(* The amounts are scaled up to the larger number of decimals, swapped and *)
(* the results scaled back down to the decimals of the asked asset.        *)
ComputeSwapDefined(i, offerPool, askPool, offer) ==
  LET j == Other(i) IN
  /\ FitsUint128(offerPool * Scale[i])
  /\ FitsUint128(askPool * Scale[j])
  /\ FitsUint128(offer * Scale[i])
  /\ SwapRawDefined(offerPool * Scale[i], askPool * Scale[j], offer * Scale[i])

ComputeSwap(i, offerPool, askPool, offer) ==
  LET j   == Other(i)
      raw == SwapRaw(offerPool * Scale[i], askPool * Scale[j], offer * Scale[i])
  IN  [return     |-> raw.return \div Scale[j],
       spread     |-> raw.spread \div Scale[j],
       commission |-> raw.commission \div Scale[j]]

(* The part of the commission sent to each of fee wallet and burn address. *)
FeeCut(commission) == MultiplyRatio(commission, 1, FeeDivisor)

-----------------------------------------------------------------------------
(* Slippage, deadline and minimum checks: every one takes an Option.       *)

(* assert_max_spread, for an offer of asset i.  The spread is measured     *)
(* against belief_price when both are given, else against the pool's own.  *)
(* Faulty: the pool's own spread is checked, whatever was believed.        *)
BeliefIgnored(i, offer, return, spread, beliefPrice, maxSpread) ==
  maxSpread # None =>
    /\ return + spread > 0
    /\ FromRatio(spread, return + spread) <= maxSpread
SpreadAccepted(i, offer, return, spread, beliefPrice, maxSpread) ==
  LET j        == Other(i)
      offer1   == offer * Scale[i]
      return1  == return * Scale[j]
      spread1  == spread * Scale[j]
      expected == MulFloor(offer1, Reciprocal(beliefPrice))
  IN  /\ Scale[i] <= Uint64Max /\ Scale[j] <= Uint64Max
      /\ \A n \in {offer1, return1, spread1} : FitsUint128(n)
      /\ maxSpread # None /\ beliefPrice # None =>
           /\ beliefPrice > 0
           /\ return1 < expected =>
                FromRatio(expected - return1, expected) <= maxSpread
      /\ maxSpread # None /\ beliefPrice = None =>
           /\ return1 + spread1 > 0
           /\ FromRatio(spread1, return1 + spread1) <= maxSpread

(* assert_minimum_assets. *)
MinimumMet(refund, minAssets) ==
  minAssets # None => \A i \in Assets : refund[i] >= minAssets[i]

(* assert_deadline: the deadline itself is already too late. *)
DeadlineMet(now, deadline) == deadline # None => now < deadline

-----------------------------------------------------------------------------
(* Liquidity: the shares of a deposit and the refund of a share.           *)

(* The integer part of Decimal256::sqrt. *)
ISqrt(n) == CHOOSE r \in 0 .. n : r * r <= n /\ n < (r + 1) * (r + 1)

(* The first deposit: the geometric mean, of which MinimumLiquidity is     *)
(* withheld; the product has to fit a Decimal256.                          *)
InitialShareDefined(deposit) ==
  LET product == deposit[0] * deposit[1] IN
  /\ product * One <= Uint256Max
  /\ FitsUint128(ISqrt(product))
  /\ ISqrt(product) >= MinimumLiquidity

InitialShare(deposit) == ISqrt(deposit[0] * deposit[1]) - MinimumLiquidity

(* A later deposit: the smaller of the two proportional shares. *)
ShareDefined(deposit, pool, total) ==
  \A i \in Assets : /\ pool[i] > 0
                    /\ FitsUint128(MultiplyRatio(deposit[i], total, pool[i]))

Share(deposit, pool, total) ==
  LET share0 == MultiplyRatio(deposit[0], total, pool[0])
      share1 == MultiplyRatio(deposit[1], total, pool[1])
  IN  IF share0 <= share1 THEN share0 ELSE share1

(* What the minted share is worth, rounded up: the rest is refunded. *)
(* Faulty: rounded down, or always one more.                               *)
DesiredFloored(pool, share, total) == MultiplyRatio(pool, share, total)
DesiredPlusOne(pool, share, total) == MultiplyRatio(pool, share, total) + 1
DesiredAmount(pool, share, total) ==
  LET floored == MultiplyRatio(pool, share, total)
  IN  IF MultiplyRatio(floored, total, share) # pool
      THEN floored + 1
      ELSE floored

(* What amount LP tokens are worth, through a ratio rounded to One. *)
(* Faulty: a unit more than the rounded ratio.                             *)
RefundRoundedUp(pool, amount, total) ==
  MulFloor(pool, FromRatio(amount, total)) + 1
Refund(pool, amount, total) == MulFloor(pool, FromRatio(amount, total))

-----------------------------------------------------------------------------
(* The reverse quote: compute_offer_amount.                                *)

(* The ask amount with its commission added back, rounded up. *)
(* Faulty: the commission is forgotten.                                    *)
AskUnadjusted(ask) == ask
BeforeCommission(ask) ==
  LET rest    == One - CommissionRate
      floored == MulFloor(ask, Reciprocal(rest))
  IN  IF MulFloor(floored, rest) # ask THEN floored + 1 ELSE floored

OfferAmount(offerPool, askPool, ask) ==
  LET gross     == BeforeCommission(ask)
      product   == offerPool * askPool
      floored   == product \div (askPool - gross)
      afterPool == IF floored * (askPool - gross) # product
                   THEN floored + 1
                   ELSE floored
      ideal     == IdealReturn(offerPool, askPool, afterPool - offerPool)
  IN  [offer      |-> afterPool - offerPool,
       spread     |-> IF ideal > gross THEN ideal - gross ELSE 0,
       commission |-> gross - ask]

(* An empty pool divides by zero; asking for all of it panics. *)
OfferAmountDefined(offerPool, askPool, ask) ==
  /\ offerPool > 0
  /\ askPool > BeforeCommission(ask)
  /\ \A n \in {OfferAmount(offerPool, askPool, ask)[f] :
                 f \in {"offer", "spread", "commission"}} : FitsUint128(n)
=============================================================================
