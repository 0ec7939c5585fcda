--------------------------- MODULE PairMathProofs ---------------------------
(***************************************************************************)
(* What the rounding of PairMath guarantees for every size of pool, share, *)
(* offer and commission, and how little it takes.                          *)
(***************************************************************************)
EXTENDS PairMath, ArithmeticProofs

-----------------------------------------------------------------------------
(* The integer square root exists, so CHOOSE returns it. *)
LEMMA ISqrtBounds ==
  ASSUME NEW n \in Nat
  PROVE  ISqrt(n) \in Nat /\ ISqrt(n) * ISqrt(n) <= n
<1> DEFINE T == {k \in Nat : n < (k + 1) * (k + 1)}
<1>1. n \in T
  OBVIOUS
<1>2. PICK m \in T : \A k \in T : m <= k
  BY <1>1, LeastNatural
<1>3. m \in Nat /\ n < (m + 1) * (m + 1)
  BY <1>2
<1>4. m * m <= n
  <2>1. CASE m = 0
    BY <2>1
  <2>2. CASE m # 0
    <3>1. m - 1 \in Nat /\ ~ (m <= m - 1)
      BY <1>3, <2>2
    <3>2. m - 1 \notin T
      BY <1>2, <3>1
    <3>3. ~ (n < ((m - 1) + 1) * ((m - 1) + 1))
      BY <3>1, <3>2
    <3>4. (m - 1) + 1 = m
      BY <1>3
    <3> QED  BY <1>3, <3>3, <3>4
  <2> QED  BY <2>1, <2>2
<1>5. m <= m * m
  BY <1>3
<1>6. m \in 0 .. n
  BY <1>3, <1>4, <1>5
<1> DEFINE P(r) == r * r <= n /\ n < (r + 1) * (r + 1)
<1>7. \E r \in 0 .. n : P(r)
  BY <1>3, <1>4, <1>6
<1>8. ISqrt(n) \in 0 .. n /\ P(ISqrt(n))
  BY <1>7 DEF ISqrt
<1> QED  BY <1>8

-----------------------------------------------------------------------------
(* provide_liquidity: the desired amount is at least the proportional part *)
(* and, when the share was rounded down from the deposit, not above it.    *)

LEMMA DesiredCoversShare ==
  ASSUME NEW pool \in Nat, NEW share \in Nat \ {0}, NEW total \in Nat \ {0}
  PROVE  /\ DesiredAmount(pool, share, total) \in Nat
         /\ pool * share <= DesiredAmount(pool, share, total) * total
<1> DEFINE part    == pool * share
           floored == part \div total
           back    == (floored * total) \div share
<1>1. part \in Nat
  BY TimesNat
<1>2. floored \in Nat /\ floored * total <= part /\ part < floored * total + total
  BY <1>1, DivBounds
<1>3. floored * total \in Nat
  BY <1>2, TimesNat
<1>4. back \in Nat /\ back * share <= floored * total
  BY <1>3, DivBounds
<1>5. DesiredAmount(pool, share, total) = IF back # pool THEN floored + 1 ELSE floored
  BY DEF DesiredAmount, MultiplyRatio
<1>6. CASE back # pool
  <2>1. (floored + 1) * total = floored * total + total
    BY <1>2
  <2> QED  BY <1>1, <1>2, <1>3, <1>5, <1>6, <2>1
<1>7. CASE back = pool
  BY <1>2, <1>4, <1>5, <1>7
<1> QED  BY <1>6, <1>7

LEMMA DesiredWithinDeposit ==
  ASSUME NEW pool \in Nat, NEW share \in Nat \ {0}, NEW total \in Nat \ {0},
         NEW deposit \in Nat, share * pool <= deposit * total
  PROVE  DesiredAmount(pool, share, total) <= deposit
<1> DEFINE part    == pool * share
           floored == part \div total
           back    == (floored * total) \div share
<1>1. part \in Nat /\ part <= deposit * total
  BY TimesNat
<1>2. floored \in Nat /\ floored * total <= part
  BY <1>1, DivBounds
<1>3. DesiredAmount(pool, share, total) = IF back # pool THEN floored + 1 ELSE floored
  BY DEF DesiredAmount, MultiplyRatio
<1>4. floored <= deposit
  <2>1. floored * total <= deposit * total
    BY <1>1, <1>2, TimesNat
  <2> QED  BY <1>2, <2>1, TimesCancel
<1>5. CASE back = pool
  BY <1>3, <1>4, <1>5
<1>6. CASE back # pool
  <2>1. floored * total # part
    <3> SUFFICES ASSUME floored * total = part
                 PROVE  FALSE
      OBVIOUS
    <3>1. back \in Nat /\ back * share <= part /\ part < back * share + share
      BY <1>1, DivBounds
    <3>2. back <= pool
      BY <3>1, TimesCancel
    <3>3. pool * share < (back + 1) * share
      BY <3>1
    <3>4. pool < back + 1
      BY <3>1, <3>3
    <3> QED  BY <1>6, <3>1, <3>2, <3>4
  <2>2. floored # deposit
    BY <1>1, <1>2, <2>1
  <2> QED  BY <1>2, <1>3, <1>4, <1>6, <2>2
<1> QED  BY <1>5, <1>6

(* The share minted is not more than the part either deposit pays for.     *)
LEMMA ShareWithinDeposits ==
  ASSUME NEW deposit \in [Assets -> Nat], NEW pool \in [Assets -> Nat],
         NEW total \in Nat, ShareDefined(deposit, pool, total)
  PROVE  /\ Share(deposit, pool, total) \in Nat
         /\ \A i \in Assets :
              Share(deposit, pool, total) * pool[i] <= deposit[i] * total
<1> DEFINE part(i) == MultiplyRatio(deposit[i], total, pool[i])
<1>1. ASSUME NEW i \in Assets
      PROVE  part(i) \in Nat /\ part(i) * pool[i] <= deposit[i] * total
  <2>1. pool[i] \in Nat \ {0}
    BY DEF ShareDefined
  <2>2. deposit[i] * total \in Nat
    BY TimesNat
  <2> QED  BY <2>1, <2>2, DivBounds DEF MultiplyRatio
<1>2. 0 \in Assets /\ 1 \in Assets /\ \A i \in Assets : i = 0 \/ i = 1
  BY DEF Assets
<1>3. /\ Share(deposit, pool, total) \in Nat
      /\ \A i \in Assets : Share(deposit, pool, total) <= part(i)
  BY <1>1, <1>2 DEF Share
<1>4. ASSUME NEW i \in Assets
      PROVE  Share(deposit, pool, total) * pool[i] <= deposit[i] * total
  <2>1. Share(deposit, pool, total) * pool[i] <= part(i) * pool[i]
    BY <1>1, <1>3, TimesMonotone
  <2>2. /\ Share(deposit, pool, total) * pool[i] \in Nat
        /\ part(i) * pool[i] \in Nat
        /\ deposit[i] * total \in Nat
    BY <1>1, <1>3, TimesNat
  <2> QED  BY <1>1, <2>1, <2>2
<1> QED  BY <1>3, <1>4

-----------------------------------------------------------------------------
(* withdraw_liquidity: the refund is not more than the burnt part.         *)

LEMMA RefundWithinPart ==
  ASSUME NEW pool \in Nat, NEW amount \in Nat, NEW total \in Nat \ {0},
         amount <= total
  PROVE  /\ Refund(pool, amount, total) \in Nat
         /\ Refund(pool, amount, total) * total <= pool * amount
         /\ Refund(pool, amount, total) <= pool
<1> DEFINE ratio  == (amount * One) \div total
           refund == (pool * ratio) \div One
<1>0. Refund(pool, amount, total) = refund
  BY DEF Refund, MulFloor, FromRatio
<1>1. One \in Nat \ {0}
  BY OneAssumption
<1>2. ratio \in Nat /\ ratio * total <= amount * One
  BY <1>1, TimesNat, DivBounds
<1>3. refund \in Nat /\ refund * One <= pool * ratio
  BY <1>1, <1>2, TimesNat, DivBounds
<1> HIDE DEF ratio, refund
<1>4. refund * total <= pool * amount
  <2>1. (refund * One) * total <= (pool * ratio) * total
    BY <1>1, <1>2, <1>3, TimesNat, TimesMonotone
  <2>2. pool * (ratio * total) <= pool * (amount * One)
    BY <1>1, <1>2, TimesNat, TimesMonotone
  <2>3. (pool * ratio) * total = pool * (ratio * total)
    BY <1>2
  <2>4. (refund * One) * total = (refund * total) * One
    BY <1>1, <1>3
  <2>5. pool * (amount * One) = (pool * amount) * One
    BY <1>1
  <2>6. (refund * total) * One <= (pool * amount) * One
    BY <1>1, <1>2, <1>3, <2>1, <2>2, <2>3, <2>4, <2>5
  <2>7. refund * total \in Nat /\ pool * amount \in Nat
    BY <1>3, TimesNat
  <2> QED  BY <1>1, <2>6, <2>7, TimesCancel
<1>5. refund <= pool
  <2>1. pool * amount <= pool * total
    BY TimesMonotone
  <2>2. refund * total <= pool * total
    BY <1>3, <1>4, <2>1, TimesNat
  <2> QED  BY <1>3, <2>2, TimesCancel
<1> QED  BY <1>0, <1>3, <1>4, <1>5

-----------------------------------------------------------------------------
(* swap: the commission is a part of the return, and return and fees leave *)
(* the product of the pools at least where it was.                         *)

LEMMA CommissionWithinGross ==
  ASSUME NEW gross \in Nat
  PROVE  Commission(gross) \in Nat /\ Commission(gross) <= gross
<1> DEFINE floored == (gross * CommissionRate) \div One
<1>1. One \in Nat \ {0} /\ CommissionRate \in Nat \ {0} /\ CommissionRate + 1 <= One
  BY OneAssumption, RateAssumption
<1>2. floored \in Nat /\ floored * One <= gross * CommissionRate
  BY <1>1, TimesNat, DivBounds
<1>3. MulFloor(gross, CommissionRate) = floored
  BY DEF MulFloor
<1> HIDE DEF floored
<1>4. CASE gross = 0
  <2>1. floored * One <= 0
    BY <1>1, <1>2, <1>4
  <2>2. floored = 0
    BY <1>1, <1>2, <2>1
  <2>3. Reciprocal(CommissionRate) \in Nat
    BY <1>1, TimesNat, DivBounds DEF Reciprocal
  <2>4. MulFloor(floored, Reciprocal(CommissionRate)) = 0
    BY <1>1, <2>2, <2>3 DEF MulFloor
  <2> QED  BY <1>3, <1>4, <2>2, <2>4 DEF Commission
<1>5. CASE gross # 0
  <2>1. gross * CommissionRate + gross <= gross * One
    BY <1>1
  <2>2. floored * One < gross * One
    BY <1>1, <1>2, <1>5, <2>1, TimesNat
  <2>3. floored < gross
    BY <1>1, <1>2, <2>2
  <2> QED  BY <1>2, <1>3, <2>3 DEF Commission
<1> QED  BY <1>4, <1>5

LEMMA FeeCutWithinCommission ==
  ASSUME NEW commission \in Nat
  PROVE  FeeCut(commission) \in Nat /\ 2 * FeeCut(commission) <= commission
<1> DEFINE cut == commission \div FeeDivisor
<1>1. FeeCut(commission) = cut
  BY DEF FeeCut, MultiplyRatio
<1>2. cut \in Nat /\ cut * FeeDivisor <= commission
  BY DivisorAssumption, DivBounds
<1>3. cut * 2 <= cut * FeeDivisor
  BY <1>2, DivisorAssumption, TimesMonotone
<1>4. cut * FeeDivisor \in Nat
  BY <1>2, DivisorAssumption, TimesNat
<1> QED  BY <1>1, <1>2, <1>3, <1>4

(* What leaves the ask pool, at the curve, is within what the offer buys.  *)
LEMMA GrossOnCurve ==
  ASSUME NEW offerPool \in Nat \ {0}, NEW askPool \in Nat, NEW offer \in Nat
  PROVE  /\ GrossReturn(offerPool, askPool, offer) \in Nat
         /\ GrossReturn(offerPool, askPool, offer) * (offerPool + offer)
              <= askPool * offer
<1>1. askPool * offer \in Nat /\ offerPool + offer \in Nat \ {0}
  BY TimesNat
<1>2. GrossReturn(offerPool, askPool, offer)
        = (askPool * offer) \div (offerPool + offer)
  BY DEF GrossReturn
<1> QED  BY <1>1, <1>2, DivBounds

(* Paying out no more than the offer buys keeps the product of the pools.  *)
LEMMA PayoutKeepsProduct ==
  ASSUME NEW offerPool \in Nat \ {0}, NEW askPool \in Nat, NEW offer \in Nat,
         NEW out \in Nat, out * (offerPool + offer) <= askPool * offer
  PROVE  /\ out <= askPool
         /\ offerPool * askPool <= (offerPool + offer) * (askPool - out)
<1> DEFINE after == offerPool + offer
<1>1. after \in Nat \ {0} /\ offer <= after
  OBVIOUS
<1>2. out * after <= askPool * offer
  OBVIOUS
<1>3. askPool * offer <= askPool * after
  BY <1>1, TimesMonotone
<1>4. out * after <= askPool * after
  BY <1>1, <1>2, <1>3, TimesNat
<1>5. out <= askPool
  BY <1>1, <1>4, TimesCancel
<1>6. after * (askPool - out) = after * askPool - out * after
  BY <1>1
<1>7. after * askPool = offerPool * askPool + askPool * offer
  OBVIOUS
<1>8. /\ after * askPool \in Nat /\ out * after \in Nat
      /\ offerPool * askPool \in Nat /\ askPool * offer \in Nat
  BY <1>1, TimesNat
<1>9. offerPool * askPool <= after * (askPool - out)
  BY <1>2, <1>6, <1>7, <1>8
<1> QED  BY <1>5, <1>9

(* The factors by which the decimals are scaled cancel out of the curve.   *)
LEMMA UnscalePayout ==
  ASSUME NEW offerPool \in Nat, NEW askPool \in Nat, NEW offer \in Nat,
         NEW out \in Nat, NEW f \in Nat \ {0}, NEW g \in Nat \ {0},
         NEW gross \in Nat, out * g <= gross,
         gross * (offerPool * f + offer * f) <= (askPool * g) * (offer * f)
  PROVE  out * (offerPool + offer) <= askPool * offer
<1> DEFINE after == offerPool + offer
           fg    == f * g
<1>1. after \in Nat /\ after * f \in Nat /\ fg \in Nat \ {0}
  OBVIOUS
<1>2. (out * g) * (after * f) <= gross * (after * f)
  BY <1>1, TimesNat, TimesMonotone
<1>3. after * f = offerPool * f + offer * f
  OBVIOUS
<1>4. (out * g) * (after * f) <= (askPool * g) * (offer * f)
  <2>1. /\ (out * g) * (after * f) \in Nat
        /\ gross * (after * f) \in Nat
        /\ (askPool * g) * (offer * f) \in Nat
    BY <1>1, TimesNat
  <2> QED  BY <1>2, <1>3, <2>1
<1>5. (out * g) * (after * f) = (out * after) * fg
  BY <1>1
<1>6. (askPool * g) * (offer * f) = (askPool * offer) * fg
  OBVIOUS
<1>7. out * after \in Nat /\ askPool * offer \in Nat
  BY <1>1, TimesNat
<1>8. (out * after) * fg <= (askPool * offer) * fg
  BY <1>4, <1>5, <1>6
<1> QED  BY <1>1, <1>7, <1>8, TimesCancel

(* Return and the two fee cuts of a swap, in the decimals of its asset,    *)
(* stay within the ask pool and keep the product of the pools.             *)
LEMMA SwapKeepsProduct ==
  ASSUME NEW i \in Assets, NEW offerPool \in Nat, NEW askPool \in Nat,
         NEW offer \in Nat, ComputeSwapDefined(i, offerPool, askPool, offer)
  PROVE  LET result == ComputeSwap(i, offerPool, askPool, offer)
             cut    == FeeCut(result.commission)
             out    == result.return + 2 * cut
         IN  /\ result.return \in Nat /\ cut \in Nat
             /\ out <= askPool
             /\ offerPool * askPool <= (offerPool + offer) * (askPool - out)
<1> DEFINE j          == Other(i)
           f          == Scale[i]
           g          == Scale[j]
           offerPool1 == offerPool * f
           askPool1   == askPool * g
           offer1     == offer * f
           gross      == GrossReturn(offerPool1, askPool1, offer1)
           commission == Commission(gross)
           result     == ComputeSwap(i, offerPool, askPool, offer)
           cut        == FeeCut(result.commission)
           out        == result.return + 2 * cut
<1>1. j \in Assets
  BY DEF Assets, Other
<1>2. f \in Nat \ {0} /\ g \in Nat \ {0}
  BY <1>1, ScaleAssumption
<1>3. offerPool1 \in Nat /\ askPool1 \in Nat /\ offer1 \in Nat
  BY <1>2, TimesNat
<1>4. offerPool1 > 0
  BY DEF ComputeSwapDefined, SwapRawDefined
<1>5. offerPool > 0
  BY <1>2, <1>4
<1> HIDE DEF offerPool1, askPool1, offer1
<1>6. gross \in Nat /\ gross * (offerPool1 + offer1) <= askPool1 * offer1
  BY <1>3, <1>4, GrossOnCurve
<1>7. commission \in Nat /\ commission <= gross
  BY <1>6, CommissionWithinGross
<1>8. /\ result.return = (gross - commission) \div g
      /\ result.commission = commission \div g
  BY DEF ComputeSwap, SwapRaw, offerPool1, askPool1, offer1
<1> HIDE DEF gross, commission, f, g
<1>9. gross - commission \in Nat
  BY <1>6, <1>7
<1>10. /\ result.return \in Nat /\ result.return * g <= gross - commission
       /\ result.commission \in Nat /\ result.commission * g <= commission
  BY <1>2, <1>7, <1>8, <1>9, DivBounds
<1>11. cut \in Nat /\ 2 * cut <= result.commission
  BY <1>10, FeeCutWithinCommission
<1> HIDE DEF result, cut
<1>12. out \in Nat /\ out * g <= gross
  <2>1. (2 * cut) * g <= result.commission * g
    BY <1>2, <1>10, <1>11, TimesMonotone
  <2>2. out * g = result.return * g + (2 * cut) * g
    BY <1>2, <1>10, <1>11
  <2>3. /\ result.return * g \in Nat /\ (2 * cut) * g \in Nat
        /\ result.commission * g \in Nat
    BY <1>2, <1>10, <1>11, TimesNat
  <2> QED  BY <1>6, <1>7, <1>10, <1>11, <2>1, <2>2, <2>3
<1> HIDE DEF out
<1>13. out * (offerPool + offer) <= askPool * offer
  BY <1>2, <1>6, <1>12, UnscalePayout DEF offerPool1, askPool1, offer1
<1>14. /\ out <= askPool
       /\ offerPool * askPool <= (offerPool + offer) * (askPool - out)
  BY <1>5, <1>12, <1>13, PayoutKeepsProduct
<1> QED  BY <1>10, <1>11, <1>14 DEF out, cut, result

-----------------------------------------------------------------------------
(* assert_max_spread with a belief_price that was computed from a quote q  *)
(* for the offer x: whatever the swap returns, it is accepted only when it *)
(* is the tolerated part of the quote, but for the rounding of the price,  *)
(* of its reciprocal and of the spread.                                    *)
LEMMA BeliefHonoured ==
  ASSUME NEW x \in Nat, NEW q \in Nat \ {0}, NEW return \in Nat, NEW tolerance \in Nat,
         NEW believed, believed = FromRatio(x, q), believed > 0,
         NEW expected, expected = MulFloor(x, Reciprocal(believed)),
         return < expected => FromRatio(expected - return, expected) <= tolerance
  PROVE  q * (One - tolerance) <= return * One + (x \div One + 1) * One + q
<1> DEFINE r == (One * One) \div believed
           k == x \div One
<1>1. One \in Nat \ {0} /\ One * One \in Nat /\ x * One \in Nat
  BY OneAssumption, TimesNat
<1>2. believed \in Nat \ {0} /\ believed * q <= x * One
  BY <1>1, DivBounds DEF FromRatio
<1>3. r \in Nat /\ One * One < r * believed + believed
  BY <1>1, <1>2, DivBounds
<1>4. k \in Nat /\ x < k * One + One
  BY <1>1, DivBounds
<1>5. expected = (x * r) \div One
  BY DEF MulFloor, Reciprocal
<1> HIDE DEF r, k
<1>6. expected \in Nat /\ x * r < expected * One + One
  <2>1. x * r \in Nat
    BY <1>3, TimesNat
  <2>2. expected \in Nat /\ x * r < expected * One + One
    BY <1>1, <1>5, <2>1, DivBounds
  <2> QED  BY <2>2
(* What is expected falls short of the quote by k + 1 at most. *)
<1>7. One * q < (r + 1) * x
  <2>1. (One * One) * q < ((r + 1) * believed) * q
    <3>1. (r + 1) * believed = r * believed + believed
      BY <1>2, <1>3
    <3>2. (r + 1) * believed \in Nat
      BY <1>2, <1>3
    <3>3. One * One + 1 <= (r + 1) * believed
      BY <1>1, <1>3, <3>1, <3>2
    <3>4. (One * One + 1) * q <= ((r + 1) * believed) * q
      BY <1>1, <3>2, <3>3, TimesMonotone
    <3>5. (One * One + 1) * q = (One * One) * q + q
      BY <1>1
    <3>6. (One * One) * q \in Nat /\ ((r + 1) * believed) * q \in Nat
      BY <1>1, <3>2, TimesNat
    <3> QED  BY <3>4, <3>5, <3>6
  <2>2. ((r + 1) * believed) * q = (r + 1) * (believed * q)
    <3>1. r + 1 \in Nat /\ believed \in Nat
      BY <1>2, <1>3
    <3> QED  BY <3>1, TimesAssociates
  <2>3. (r + 1) * (believed * q) <= (r + 1) * (x * One)
    <3>1. r + 1 \in Nat /\ believed * q \in Nat /\ x * One \in Nat
      BY <1>1, <1>2, <1>3, TimesNat
    <3>2. believed * q <= x * One /\ r + 1 <= r + 1
      BY <1>2, <1>3
    <3> QED  BY ONLY <3>1, <3>2, TimesMonotone
  <2>4. (One * One) * q = (One * q) * One
    BY <1>1
  <2>5. (r + 1) * (x * One) = ((r + 1) * x) * One
    BY <1>1, <1>3
  <2>6. /\ One * q \in Nat /\ (r + 1) * x \in Nat
        /\ (One * q) * One \in Nat /\ ((r + 1) * x) * One \in Nat
        /\ (r + 1) * (believed * q) \in Nat
    BY <1>1, <1>2, <1>3, TimesNat
  <2>7. (One * q) * One < ((r + 1) * x) * One
    BY <2>1, <2>2, <2>3, <2>4, <2>5, <2>6
  <2> QED  BY <1>1, <2>6, <2>7, LessCancel
<1>8. q <= expected + k + 1
  <2>1. (r + 1) * x = x * r + x
    BY <1>3
  <2>2. (expected + k + 2) * One = expected * One + One + k * One + One
    BY <1>1, <1>4, <1>6
  <2>3. q * One = One * q
    BY <1>1
  <2>4. /\ x * r \in Nat /\ expected * One \in Nat /\ k * One \in Nat
        /\ One * q \in Nat
    BY <1>1, <1>3, <1>4, <1>6, TimesNat
  <2>5. q * One < (expected + k + 2) * One
    BY <1>1, <1>4, <1>6, <1>7, <2>1, <2>2, <2>3, <2>4
  <2>6. q < expected + k + 2
    BY <1>1, <1>4, <1>6, <2>5, LessCancel
  <2> QED  BY <1>4, <1>6, <2>6
<1> DEFINE rest == (k + 1) * One
<1>9. rest \in Nat /\ return * One \in Nat
  BY <1>1, <1>4, TimesNat
<1>10. SUFFICES q * (One - tolerance) <= return * One + rest + q
  BY DEF k
<1>11. CASE tolerance >= One
  <2>1. q * (One - tolerance) <= 0
    <3>1. tolerance - One \in Nat /\ q * (tolerance - One) \in Nat
      BY <1>1, <1>11, TimesNat
    <3>2. q * (One - tolerance) = 0 - q * (tolerance - One)
      BY <1>1
    <3> QED  BY <3>1, <3>2
  <2> HIDE DEF rest
  <2>2. q * (One - tolerance) \in Int
    BY <1>1
  <2> QED  BY <1>9, <2>1, <2>2
<1>12. CASE tolerance < One
  <2> DEFINE w == One - tolerance - 1
             enough == expected + k + 1
  <2>1. w \in Nat /\ w <= One /\ One - tolerance = w + 1
    BY <1>1, <1>12
  <2>2. enough \in Nat /\ q <= enough
    BY <1>4, <1>6, <1>8
  <2>3. q * (w + 1) = q * w + q
    BY <2>1
  <2>4. q * w <= enough * w
    BY <2>1, <2>2, TimesMonotone
  <2>5. enough * w = expected * w + (k + 1) * w
    BY <1>4, <1>6, <2>1
  <2>6. (k + 1) * w <= rest
    BY <1>1, <1>4, <2>1, TimesMonotone
  <2>7. expected * w <= return * One
    <3>1. CASE expected <= return
      BY <1>1, <1>6, <2>1, <3>1, TimesMonotone
    <3>2. CASE return < expected
      <4> DEFINE short == expected - return
                 spread == (short * One) \div expected
      <4>1. short \in Nat /\ expected \in Nat \ {0} /\ short * One \in Nat
        BY <1>1, <1>6, <3>2, TimesNat
      <4>2. spread \in Nat /\ short * One < spread * expected + expected
        BY <4>1, DivBounds
      <4>3. spread <= tolerance
        BY <3>2 DEF FromRatio
      <4> HIDE DEF spread
      <4>4. spread * expected <= tolerance * expected
        BY <1>6, <4>2, <4>3, TimesMonotone
      <4>5. short * One = expected * One - return * One
        BY <1>1, <1>6
      <4>6. expected * w = expected * One - tolerance * expected - expected
        BY <1>1, <1>6
      <4>7. /\ expected * One \in Nat /\ tolerance * expected \in Nat
            /\ spread * expected \in Nat /\ expected * w \in Nat
        BY <1>1, <1>6, <2>1, <4>2, TimesNat
      <4> HIDE DEF short, w
      <4> QED  BY <1>6, <1>9, <4>1, <4>2, <4>4, <4>5, <4>6, <4>7
    <3> QED  BY <1>6, <3>1, <3>2
  <2>8. /\ q * w \in Nat /\ expected * w \in Nat /\ (k + 1) * w \in Nat
        /\ enough * w \in Nat
    BY <1>4, <1>6, <2>1, <2>2, TimesNat
  <2> HIDE DEF w, rest, enough
  <2> QED  BY <1>9, <2>1, <2>3, <2>4, <2>5, <2>6, <2>7, <2>8
<1> QED  BY <1>1, <1>11, <1>12

(* The same for the amounts as they are written, without their decimals:   *)
(* x, the quote and the return are multiples of the scale of their asset.  *)
LEMMA QuoteHonoured ==
  ASSUME NEW k \in Nat, NEW quote \in Nat, NEW g \in Nat \ {0},
         NEW return \in Nat, NEW tolerance \in Nat,
         (quote * g) * (One - tolerance)
           <= (return * g) * One + (k + 1) * One + quote * g
  PROVE  quote * (One - tolerance) <= (return + (2 + k + quote \div One)) * One
<1> DEFINE q    == quote \div One
           rest == (k + 1) * One
           most == return * One + rest + quote
<1>1. One \in Nat \ {0} /\ g \in Nat \ {0} /\ 1 <= g
  BY OneAssumption
<1>2. q \in Nat /\ quote < q * One + One
  BY <1>1, DivBounds
<1> HIDE DEF q
<1>3. rest \in Nat /\ return * One \in Nat /\ q * One \in Nat
  BY <1>1, <1>2, TimesNat
<1> DEFINE all == (return + (2 + k + q)) * One
<1>4. all = return * One + rest + (q * One + One) /\ all \in Nat
  BY <1>1, <1>2
<1> HIDE DEF rest, all
<1>5. most \in Nat /\ most <= all
  BY <1>1, <1>2, <1>3, <1>4
<1>6. CASE tolerance >= One
  <2>1. tolerance - One \in Nat /\ quote * (tolerance - One) \in Nat
    BY <1>1, <1>6, TimesNat
  <2>2. quote * (One - tolerance) = 0 - quote * (tolerance - One)
    BY <1>1
  <2> HIDE DEF most
  <2>3. quote * (One - tolerance) <= all
    BY <1>4, <1>5, <2>1, <2>2
  <2> QED  BY <2>3 DEF all, q
<1>7. CASE tolerance < One
  <2> DEFINE w == One - tolerance
  <2>1. w \in Nat /\ quote * w \in Nat
    BY <1>1, <1>7, TimesNat
  <2>2. (quote * g) * w = (quote * w) * g
    BY <2>1
  <2>3. most * g = (return * g) * One + rest * g + quote * g
    BY <1>1, <1>3
  <2>4. rest <= rest * g
    <3>1. rest * 1 <= rest * g
      BY <1>1, <1>3, TimesMonotone
    <3> QED  BY <1>3, <3>1
  <2>5. /\ (return * g) * One \in Nat /\ rest * g \in Nat /\ quote * g \in Nat
        /\ (quote * w) * g \in Nat /\ most * g \in Nat
    BY <1>1, <1>3, <1>5, <2>1, TimesNat
  <2>6. (quote * g) * w <= (return * g) * One + rest + quote * g
    BY DEF rest
  <2> HIDE DEF w, most
  <2>7. (quote * w) * g <= most * g
    BY <1>3, <2>2, <2>3, <2>4, <2>5, <2>6
  <2>8. quote * w <= most
    BY <1>1, <1>5, <2>1, <2>7, TimesCancel
  <2>9. quote * w <= all
    BY <1>4, <1>5, <2>1, <2>8
  <2> QED  BY <2>9 DEF w, all, q
<1> QED  BY <1>1, <1>6, <1>7

-----------------------------------------------------------------------------
(* compute_offer_amount: what it quotes buys what was asked for, but for   *)
(* the rounding of the commission and of the reciprocal of its rate.       *)

(* What is left of the grossed-up amount after the commission. *)
LEMMA BeforeCommissionCovers ==
  ASSUME NEW ask \in Nat
  PROVE  /\ BeforeCommission(ask) \in Nat
         /\ ask * One <= BeforeCommission(ask) * (One - CommissionRate) + ask
<1> DEFINE rest    == One - CommissionRate
           r       == (One * One) \div rest
           floored == (ask * r) \div One
           back    == (floored * rest) \div One
           before  == BeforeCommission(ask)
<1>1. /\ One \in Nat \ {0} /\ rest \in Nat \ {0} /\ rest + 1 <= One
      /\ One * One \in Nat
  BY OneAssumption, RateAssumption, TimesNat
<1>2. before = IF back # ask THEN floored + 1 ELSE floored
  BY DEF BeforeCommission, MulFloor, Reciprocal
<1> HIDE DEF before, rest
<1>3. r \in Nat /\ One * One < r * rest + rest
  BY <1>1, DivBounds
<1> HIDE DEF r
<1>4. floored \in Nat /\ ask * r < floored * One + One
  <2>1. ask * r \in Nat
    BY <1>3, TimesNat
  <2> QED  BY <1>1, <2>1, DivBounds
<1> HIDE DEF floored
<1>5. back \in Nat /\ back * One <= floored * rest
  <2>1. floored * rest \in Nat
    BY <1>1, <1>4, TimesNat
  <2> QED  BY <1>1, <2>1, DivBounds
<1> HIDE DEF back
<1>6. CASE back = ask
  <2>1. before = floored
    BY <1>2, <1>6
  <2>2. ask * One \in Nat /\ floored * rest \in Nat
    BY <1>1, <1>4, TimesNat
  <2>3. ask * One <= floored * rest
    BY <1>5, <1>6
  <2>4. ask * One <= floored * rest + ask
    BY <2>2, <2>3
  <2> QED  BY <1>4, <2>1, <2>4 DEF before, rest
<1>7. CASE back # ask
  <2>1. before = floored + 1 /\ before \in Nat
    BY <1>2, <1>4, <1>7
  <2>2. ask * r <= before * One
    <3>1. before * One = floored * One + One
      BY <1>1, <1>4, <2>1
    <3>2. ask * r \in Nat /\ floored * One \in Nat
      BY <1>1, <1>3, <1>4, TimesNat
    <3> QED  BY <1>1, <1>4, <3>1, <3>2
  <2>3. (ask * r) * rest <= (before * One) * rest
    BY <1>1, <1>3, <2>1, <2>2, TimesNat, TimesMonotone
  <2>4. ask * (One * One) <= ask * (r * rest + rest)
    <3>1. r * rest \in Nat
      BY <1>1, <1>3, TimesNat
    <3> QED  BY <1>1, <1>3, <3>1, TimesMonotone
  <2>5. ask * (r * rest + rest) = (ask * r) * rest + ask * rest
    BY <1>1, <1>3
  <2>6. ask * rest <= ask * One
    BY <1>1, TimesMonotone
  <2>7. ask * (One * One) = (ask * One) * One
    BY <1>1
  <2>8. (before * One) * rest = (before * rest) * One
    BY <1>1, <2>1
  <2>9. (before * rest + ask) * One = (before * rest) * One + ask * One
    BY <1>1, <2>1
  <2>10. /\ ask * One \in Nat /\ ask * rest \in Nat /\ (ask * r) * rest \in Nat
         /\ before * rest \in Nat /\ (before * rest) * One \in Nat
         /\ (ask * One) * One \in Nat /\ before * rest + ask \in Nat
    BY <1>1, <1>3, <2>1, TimesNat
  <2>11. (ask * One) * One <= (before * rest + ask) * One
    BY <2>3, <2>4, <2>5, <2>6, <2>7, <2>8, <2>9, <2>10
  <2>12. ask * One <= before * rest + ask
    BY <1>1, <2>10, <2>11, TimesCancel
  <2> QED  BY <2>1, <2>12 DEF before, rest
<1> QED  BY <1>6, <1>7

(* Rounding the quoted offer up makes the curve return the grossed-up      *)
(* amount.                                                                 *)
LEMMA OfferCoversGross ==
  ASSUME NEW offerPool \in Nat, NEW askPool \in Nat, NEW ask \in Nat,
         OfferAmountDefined(offerPool, askPool, ask),
         NEW offer, offer = OfferAmount(offerPool, askPool, ask).offer
  PROVE  /\ offer \in Nat
         /\ BeforeCommission(ask) * (offerPool + offer) <= askPool * offer
<1> DEFINE gross   == BeforeCommission(ask)
           left    == askPool - gross
           product == offerPool * askPool
           floored == product \div left
           after   == IF floored * left # product THEN floored + 1 ELSE floored
<1>1. gross \in Nat /\ askPool > gross
  BY BeforeCommissionCovers DEF OfferAmountDefined
<1>2. offer = after - offerPool
  BY DEF OfferAmount
<1> HIDE DEF gross
<1>3. left \in Nat \ {0} /\ left <= askPool /\ askPool \in Nat \ {0}
      /\ gross = askPool - left
  BY <1>1
<1> HIDE DEF left
<1>4. product \in Nat
  BY TimesNat
<1> HIDE DEF product
<1>5. /\ floored \in Nat /\ floored * left <= product
      /\ product < floored * left + left
  BY <1>3, <1>4, DivBounds
<1> HIDE DEF floored
<1>6. after \in Nat /\ product <= after * left
  <2>1. CASE floored * left = product
    BY <1>4, <1>5, <2>1
  <2>2. CASE floored * left # product
    <3>1. after = floored + 1
      BY <2>2
    <3>2. (floored + 1) * left = floored * left + left
      BY <1>3, <1>5
    <3>3. floored * left \in Nat
      BY <1>3, <1>5, TimesNat
    <3> HIDE DEF after
    <3> QED  BY <1>3, <1>4, <1>5, <3>1, <3>2, <3>3
  <2> QED  BY <2>1, <2>2
<1> HIDE DEF after
<1>7. offerPool <= after
  <2>1. after * left <= after * askPool
    BY <1>3, <1>6, TimesMonotone
  <2>2. after * left \in Nat /\ after * askPool \in Nat
    BY <1>3, <1>6, TimesNat
  <2>3. offerPool * askPool <= after * askPool
    BY <1>4, <1>6, <2>1, <2>2 DEF product
  <2> QED  BY <1>3, <1>6, <2>3, TimesCancel
<1>8. offer \in Nat /\ offerPool + offer = after
  BY <1>2, <1>6, <1>7
<1>9. gross * after <= askPool * offer
  <2>1. gross * after = askPool * after - after * left
    BY <1>3, <1>6
  <2>2. askPool * offer = askPool * after - product
    BY <1>2, <1>6 DEF product
  <2>3. askPool * after \in Nat /\ after * left \in Nat
    BY <1>3, <1>6, TimesNat
  <2> QED  BY <1>4, <1>6, <2>1, <2>2, <2>3
<1> QED  BY <1>8, <1>9 DEF gross

LEMMA CommissionBounds ==
  ASSUME NEW gross \in Nat
  PROVE  Commission(gross) * One <= gross * CommissionRate + One
<1> DEFINE floored == (gross * CommissionRate) \div One
<1>1. One \in Nat \ {0} /\ CommissionRate \in Nat /\ gross * CommissionRate \in Nat
  BY OneAssumption, RateAssumption, TimesNat
<1>2. floored \in Nat /\ floored * One <= gross * CommissionRate
  BY <1>1, DivBounds
<1>3. MulFloor(gross, CommissionRate) = floored
  BY DEF MulFloor
<1> HIDE DEF floored
<1>4. Commission(gross) = floored \/ Commission(gross) = floored + 1
  BY <1>3 DEF Commission
<1>5. (floored + 1) * One = floored * One + One /\ floored * One \in Nat
  BY <1>1, <1>2, TimesNat
<1> QED  BY <1>1, <1>2, <1>4, <1>5

(* What is left of the return after its commission, when the return is at  *)
(* least the grossed-up amount in units of g.                              *)
LEMMA AskIsLeft ==
  ASSUME NEW ask \in Nat, NEW g \in Nat \ {0}, NEW gross \in Nat,
         BeforeCommission(ask) * g <= gross
  PROVE  (gross - Commission(gross)) \div g >= ask - (1 + ask \div One)
<1> DEFINE rest   == One - CommissionRate
           before == BeforeCommission(ask)
           net    == gross - Commission(gross)
           m      == ask \div One
<1>1. One \in Nat \ {0} /\ CommissionRate \in Nat /\ rest \in Nat \ {0}
  BY OneAssumption, RateAssumption
<1>2. before \in Nat /\ ask * One <= before * rest + ask
  BY BeforeCommissionCovers
<1>3. before * g <= gross
  OBVIOUS
<1>4. net \in Nat /\ gross * rest <= net * One + One
  <2> DEFINE c == Commission(gross)
  <2>1. c \in Nat /\ c <= gross /\ c * One <= gross * CommissionRate + One
    BY CommissionWithinGross, CommissionBounds
  <2> HIDE DEF c
  <2>2. gross - c \in Nat
    BY <2>1
  <2>3. (gross - c) * One = gross * One - c * One
    BY <1>1, <2>1
  <2>4. gross * rest = gross * One - gross * CommissionRate
    BY <1>1
  <2>5. gross * One \in Nat /\ c * One \in Nat /\ gross * CommissionRate \in Nat
    BY <1>1, <2>1, TimesNat
  <2> HIDE DEF rest
  <2>6. gross * rest <= (gross - c) * One + One
    BY <1>1, <2>1, <2>3, <2>4, <2>5
  <2> QED  BY <2>2, <2>6 DEF c
<1>5. m \in Nat /\ ask < m * One + One
  BY <1>1, DivBounds
<1> HIDE DEF rest, before, net, m
<1>6. CASE ask <= m + 1
  <2>1. net \div g \in Nat
    BY <1>4, DivBounds
  <2> QED  BY <1>5, <1>6, <2>1 DEF net, m
<1>7. CASE ask > m + 1
  <2> DEFINE w == ask - (1 + m)
             d == w * g
  <2>1. w \in Nat /\ d \in Nat /\ ask = w + 1 + m
    BY <1>5, <1>7, TimesNat
  <2>2. (before * rest) * g = (before * g) * rest
    BY <1>1, <1>2
  <2>3. (before * g) * rest <= gross * rest
    BY <1>1, <1>2, <1>3, TimesNat, TimesMonotone
  <2>4. w * One < before * rest
    <3>1. ask * One = w * One + One + m * One
      BY <1>1, <1>5, <2>1
    <3>2. /\ w * One \in Nat /\ m * One \in Nat /\ before * rest \in Nat
          /\ ask * One \in Nat
      BY <1>1, <1>2, <1>5, <2>1, TimesNat
    <3> HIDE DEF w
    <3> QED  BY <1>1, <1>2, <1>5, <3>1, <3>2
  <2> HIDE DEF w
  <2>5. (w * One + 1) * g <= (before * rest) * g
    <3>1. w * One + 1 \in Nat /\ before * rest \in Nat
      BY <1>1, <1>2, <2>1, TimesNat
    <3>2. w * One + 1 <= before * rest /\ g <= g
      BY <2>4, <3>1, <1>1, <2>1
    <3> QED  BY ONLY g \in Nat \ {0}, <3>1, <3>2, TimesMonotone
  <2>6. (w * One + 1) * g = d * One + g
    BY <1>1, <2>1
  <2> HIDE DEF d
  <2>7. d * One < (net + 1) * One
    <3>1. (net + 1) * One = net * One + One
      BY <1>1, <1>4
    <3>2. /\ d * One \in Nat /\ net * One \in Nat /\ gross * rest \in Nat
          /\ (before * g) * rest \in Nat
      BY <1>1, <1>2, <1>4, <2>1, TimesNat
    <3> QED  BY <1>1, <1>4, <2>2, <2>3, <2>5, <2>6, <3>1, <3>2
  <2>8. d < net + 1
    BY <1>1, <1>4, <2>1, <2>7, LessCancel
  <2>9. w * g <= net
    BY <1>4, <2>1, <2>8 DEF d
  <2>10. w <= net \div g
    BY <1>4, <2>1, <2>9, DivAtLeast
  <2>11. net \div g \in Nat
    BY <1>4, DivBounds
  <2> QED  BY <2>1, <2>10, <2>11 DEF w, net, m
<1> QED  BY <1>1, <1>5, <1>6, <1>7

(* A swap of the quoted offer, with the decimals of both assets. *)
LEMMA ReverseQuotePays ==
  ASSUME NEW i \in Assets, NEW offerPool \in Nat, NEW askPool \in Nat,
         NEW ask \in Nat, OfferAmountDefined(offerPool, askPool, ask),
         NEW offer, offer = OfferAmount(offerPool, askPool, ask).offer,
         ComputeSwapDefined(i, offerPool, askPool, offer)
  PROVE  ComputeSwap(i, offerPool, askPool, offer).return
           >= ask - (1 + ask \div One)
<1> DEFINE f          == Scale[i]
           g          == Scale[Other(i)]
           before     == BeforeCommission(ask)
           offerPool1 == offerPool * f
           askPool1   == askPool * g
           offer1     == offer * f
           gross      == (askPool1 * offer1) \div (offerPool1 + offer1)
<1>1. f \in Nat \ {0} /\ g \in Nat \ {0}
  BY ScaleAssumption DEF Assets, Other
<1>2. before \in Nat
  BY BeforeCommissionCovers
<1>3. offer \in Nat /\ before * (offerPool + offer) <= askPool * offer
  BY OfferCoversGross
<1>4. /\ offerPool1 \in Nat \ {0} /\ askPool1 \in Nat /\ offer1 \in Nat
      /\ ComputeSwap(i, offerPool, askPool, offer).return
           = (gross - Commission(gross)) \div g
  <2>1. offerPool1 > 0
    BY DEF ComputeSwapDefined, SwapRawDefined
  <2>2. offerPool1 \in Nat /\ askPool1 \in Nat /\ offer1 \in Nat
    BY <1>1, <1>3, TimesNat
  <2> QED  BY <2>1, <2>2 DEF ComputeSwap, SwapRaw, GrossReturn
<1> HIDE DEF f, g, before
<1>5. gross \in Nat /\ before * g <= gross
  <2>1. offerPool1 + offer1 \in Nat \ {0} /\ askPool1 * offer1 \in Nat
    BY <1>4, TimesNat
  <2>2. (before * g) * (offerPool1 + offer1) = (before * (offerPool + offer)) * (g * f)
    BY <1>1, <1>2, <1>3
  <2>3. askPool1 * offer1 = (askPool * offer) * (g * f)
    BY <1>1, <1>3
  <2>4. /\ before * (offerPool + offer) \in Nat /\ askPool * offer \in Nat
        /\ g * f \in Nat /\ before * g \in Nat
    BY <1>1, <1>2, <1>3, TimesNat
  <2>5. (before * (offerPool + offer)) * (g * f) <= (askPool * offer) * (g * f)
    BY <1>3, <2>4, TimesMonotone
  <2> HIDE DEF offerPool1, askPool1, offer1
  <2>6. (before * g) * (offerPool1 + offer1) <= askPool1 * offer1
    BY <2>2, <2>3, <2>5
  <2> QED  BY <2>1, <2>4, <2>6, DivBounds, DivAtLeast
<1> HIDE DEF gross
<1>6. (gross - Commission(gross)) \div g >= ask - (1 + ask \div One)
  BY <1>1, <1>5, AskIsLeft DEF before
<1> QED  BY <1>4, <1>6

-----------------------------------------------------------------------------
(* The arithmetic of PairMath is exact but for its rounding: the lemmas    *)
(* behind the properties of MCPairMath.                                    *)

(* Rounding up, as the floor of the opposite. *)
LEMMA CeilingBounds ==
  ASSUME NEW n \in Nat, NEW d \in Nat \ {0}, NEW c \in Nat,
         n <= c * d, c * d < n + d
  PROVE  -((-n) \div d) = c
<1> DEFINE q == (-n) \div d
<1>1. q \in Int /\ q * d <= -n /\ -n < q * d + d
  OBVIOUS
<1> HIDE DEF q
<1>2. (q + c) * d = q * d + c * d /\ c * d \in Nat /\ q * d \in Int
  BY <1>1, TimesNat
<1>3. (q + c) * d < d /\ -d < (q + c) * d
  BY <1>1, <1>2
<1>4. CASE q + c >= 1
  <2>1. (q + c) * d >= d
    BY <1>1, <1>4
  <2> QED  BY <1>1, <1>2, <1>3, <2>1
<1>5. CASE q + c <= -1
  <2>1. (q + c) * d <= -d
    BY <1>1, <1>5
  <2> QED  BY <1>1, <1>2, <1>3, <2>1
<1> QED  BY <1>1, <1>4, <1>5 DEF q

LEMMA DesiredIsExact ==
  ASSUME NEW pool \in Nat, NEW share \in Nat \ {0}, NEW total \in Nat \ {0}
  PROVE  DesiredAmount(pool, share, total) = -((-(pool * share)) \div total)
<1> DEFINE part    == pool * share
           floored == part \div total
           back    == (floored * total) \div share
<1>1. /\ part \in Nat /\ floored \in Nat
      /\ floored * total <= part /\ part < floored * total + total
  BY TimesNat, DivBounds
<1>2. DesiredAmount(pool, share, total) = IF back # pool THEN floored + 1 ELSE floored
  BY DEF DesiredAmount, MultiplyRatio
<1> HIDE DEF floored
<1>3. /\ floored * total \in Nat
      /\ (floored + 1) * total = floored * total + total
  BY <1>1, TimesNat
<1>4. back \in Nat /\ back * share <= floored * total
  BY <1>3, DivBounds
<1>5. CASE floored * total = part
  <2>1. pool <= back
    BY <1>3, <1>5, DivAtLeast
  <2>2. back <= pool
    <3>1. back * share <= pool * share
      BY <1>4, <1>5
    <3> HIDE DEF back
    <3> QED  BY <1>4, <3>1, TimesCancel
  <2> HIDE DEF back, part
  <2>3. DesiredAmount(pool, share, total) = floored
    BY <1>2, <1>4, <2>1, <2>2
  <2>4. -((-part) \div total) = floored
    BY <1>1, <1>3, <1>5, CeilingBounds
  <2> QED  BY <2>3, <2>4 DEF part
<1>6. CASE floored * total # part
  <2>1. back # pool
    BY <1>1, <1>3, <1>4, <1>6
  <2> HIDE DEF back, part
  <2>2. DesiredAmount(pool, share, total) = floored + 1
    BY <1>2, <2>1
  <2>3. floored + 1 \in Nat /\ part <= (floored + 1) * total
        /\ (floored + 1) * total < part + total
    BY <1>1, <1>3, <1>6
  <2>4. -((-part) \div total) = floored + 1
    BY <1>1, <2>3, CeilingBounds
  <2> QED  BY <2>2, <2>4 DEF part
<1> QED  BY <1>5, <1>6

(* A refund is short of its part by less than a unit and what the ratio    *)
(* loses.                                                                  *)
LEMMA RefundNearPart ==
  ASSUME NEW pool \in Nat, NEW amount \in Nat, NEW total \in Nat \ {0}
  PROVE  ((Refund(pool, amount, total) + 1) * total) * One
           >= (pool * amount) * One - pool * total
<1> DEFINE ratio  == (amount * One) \div total
           part   == pool * ratio
           refund == part \div One
<1>1. One \in Nat \ {0} /\ amount * One \in Nat
  BY OneAssumption, TimesNat
<1>2. ratio \in Nat /\ amount * One < ratio * total + total
  BY <1>1, DivBounds
<1>3. Refund(pool, amount, total) = refund
  BY DEF Refund, MulFloor, FromRatio
<1> HIDE DEF ratio
<1>4. part \in Nat /\ refund \in Nat /\ part < refund * One + One
  BY <1>1, <1>2, TimesNat, DivBounds
<1> HIDE DEF refund
<1>5. part <= (refund + 1) * One
  BY <1>1, <1>4
<1>6. part * total <= ((refund + 1) * One) * total
  BY <1>1, <1>4, <1>5, TimesNat, TimesMonotone
<1>7. ((refund + 1) * One) * total = ((refund + 1) * total) * One
  BY <1>1, <1>4
<1>8. pool * (amount * One) <= pool * (ratio * total + total)
  BY <1>1, <1>2, TimesNat, TimesMonotone
<1>9. /\ pool * (amount * One) = (pool * amount) * One
      /\ pool * (ratio * total + total) = part * total + pool * total
  BY <1>1, <1>2
<1>10. /\ part * total \in Nat /\ pool * total \in Nat
       /\ ((refund + 1) * total) * One \in Nat /\ (pool * amount) * One \in Nat
  BY <1>1, <1>4, TimesNat
<1> QED  BY <1>3, <1>6, <1>7, <1>8, <1>9, <1>10

(* The commission is the nominal rate of the return rounded up, or the     *)
(* next unit.                                                              *)
LEMMA CommissionFacts ==
  ASSUME NEW gross \in Nat
  PROVE  LET floored == (gross * CommissionRate) \div One
         IN  /\ Commission(gross) = floored \/ Commission(gross) = floored + 1
             /\ gross * CommissionRate <= Commission(gross) * One
<1> DEFINE floored == (gross * CommissionRate) \div One
           recip   == (One * One) \div CommissionRate
           back    == (floored * recip) \div One
<1>1. /\ One \in Nat \ {0} /\ CommissionRate \in Nat \ {0} /\ One * One \in Nat
      /\ gross * CommissionRate \in Nat
  BY OneAssumption, RateAssumption, TimesNat
<1>2. /\ floored \in Nat
      /\ gross * CommissionRate < floored * One + One
  BY <1>1, DivBounds
<1>3. recip \in Nat /\ recip * CommissionRate <= One * One
  BY <1>1, DivBounds
<1>4. Commission(gross) = IF gross # back THEN floored + 1 ELSE floored
  BY DEF Commission, MulFloor, Reciprocal
<1> HIDE DEF floored, recip
<1>5. floored * recip \in Nat
  BY <1>2, <1>3, TimesNat
<1>6. back \in Nat /\ back * One <= floored * recip
  BY <1>1, <1>5, DivBounds
<1> HIDE DEF back
<1>7. CASE gross # back
  <2>1. Commission(gross) = floored + 1
    BY <1>4, <1>7
  <2>2. (floored + 1) * One = floored * One + One
    BY <1>1, <1>2
  <2> QED  BY <1>1, <1>2, <2>1, <2>2 DEF floored
<1>8. CASE gross = back
  <2>1. Commission(gross) = floored
    BY <1>4, <1>8
  <2>2. (gross * One) * CommissionRate <= (floored * recip) * CommissionRate
    BY <1>1, <1>5, <1>6, <1>8, TimesNat, TimesMonotone
  <2>3. floored * (recip * CommissionRate) <= floored * (One * One)
    BY <1>1, <1>2, <1>3, TimesNat, TimesMonotone
  <2>4. /\ (gross * One) * CommissionRate = (gross * CommissionRate) * One
        /\ (floored * recip) * CommissionRate = floored * (recip * CommissionRate)
        /\ floored * (One * One) = (floored * One) * One
    BY <1>1, <1>2, <1>3
  <2>5. /\ (gross * CommissionRate) * One \in Nat /\ floored * One \in Nat
        /\ floored * (recip * CommissionRate) \in Nat
        /\ (floored * One) * One \in Nat
    BY <1>1, <1>2, <1>3, TimesNat
  <2>6. (gross * CommissionRate) * One <= (floored * One) * One
    BY <2>2, <2>3, <2>4, <2>5
  <2>7. gross * CommissionRate <= floored * One
    BY <1>1, <2>5, <2>6, TimesCancel
  <2> QED  BY <2>1, <2>7 DEF floored
<1> QED  BY <1>7, <1>8

(* More return never costs more commission than it is more. *)
LEMMA CommissionSlope ==
  ASSUME NEW g \in Nat, NEW h \in Nat, g <= h
  PROVE  Commission(h) - Commission(g) <= h - g
<1> DEFINE floored(n) == (n * CommissionRate) \div One
           d == h - g
           c == Commission(g)
           r == CommissionRate
<1>1. /\ One \in Nat \ {0} /\ r \in Nat \ {0} /\ r + 1 <= One
  BY OneAssumption, RateAssumption
<1>2. c \in Nat /\ Commission(h) \in Nat
  BY CommissionWithinGross
<1>3. CASE h = g
  BY <1>2, <1>3
<1>4. CASE h # g
  <2>1. d \in Nat \ {0} /\ h * r = g * r + d * r
    BY <1>1, <1>4
  <2>2. /\ floored(h) \in Nat /\ floored(h) * One <= h * r
        /\ floored(g) \in Nat /\ g * r < floored(g) * One + One
    BY <1>1, TimesNat, DivBounds
  <2>3. /\ Commission(h) <= floored(h) + 1
        /\ c = floored(g) \/ c = floored(g) + 1
        /\ g * r <= c * One
    BY <2>2, CommissionFacts
  <2>4. d * r + d <= d * One
    BY <1>1, <2>1
  <2> DEFINE a == floored(h)
             b == floored(g)
  <2> HIDE DEF floored, c, d, r
  <2>5. /\ h * r \in Nat /\ g * r \in Nat /\ d * r \in Nat /\ d * One \in Nat
        /\ c * One \in Nat /\ a * One \in Nat /\ b * One \in Nat
    BY <1>1, <1>2, <2>1, <2>2, TimesNat
  <2> HIDE DEF a, b
  <2>6. CASE c = b
    <3>1. a * One < (c + d) * One
      <4>1. (c + d) * One = c * One + d * One
        BY <1>1, <1>2, <2>1
      <4> QED  BY <2>1, <2>2, <2>3, <2>4, <2>5, <4>1 DEF a
    <3>2. a < c + d
      BY <1>1, <1>2, <2>1, <2>2, <3>1, LessCancel DEF a
    <3> QED  BY <1>2, <2>1, <2>2, <2>3, <3>2 DEF a, c, d
  <2>7. CASE c = b + 1
    <3>1. a * One < (c + d) * One
      <4>1. /\ (c + d) * One = c * One + d * One /\ c * One = b * One + One
        BY <1>1, <1>2, <2>1, <2>2, <2>7 DEF b
      <4> QED  BY <2>1, <2>2, <2>4, <2>5, <4>1 DEF a, b
    <3>2. a < c + d
      BY <1>1, <1>2, <2>1, <2>2, <3>1, LessCancel DEF a
    <3> QED  BY <1>2, <2>1, <2>2, <2>3, <3>2 DEF a, c, d
  <2> QED  BY <2>3, <2>6, <2>7 DEF b
<1> QED  BY <1>3, <1>4

(* A swap ends on the curve, and less than a unit from it. *)
LEMMA GrossBounds ==
  ASSUME NEW offerPool \in Nat \ {0}, NEW askPool \in Nat, NEW offer \in Nat
  PROVE  LET gross == GrossReturn(offerPool, askPool, offer)
         IN  /\ gross \in Nat
             /\ gross * (offerPool + offer) <= askPool * offer
             /\ askPool * offer < (gross + 1) * (offerPool + offer)
<1> DEFINE gross == (askPool * offer) \div (offerPool + offer)
<1>1. askPool * offer \in Nat /\ offerPool + offer \in Nat \ {0}
  BY TimesNat
<1>2. GrossReturn(offerPool, askPool, offer) = gross
  BY DEF GrossReturn
<1>3. /\ gross \in Nat /\ gross * (offerPool + offer) <= askPool * offer
      /\ askPool * offer < gross * (offerPool + offer) + (offerPool + offer)
  BY <1>1, DivBounds
<1> HIDE DEF gross
<1>4. (gross + 1) * (offerPool + offer)
        = gross * (offerPool + offer) + (offerPool + offer)
  BY <1>1, <1>3
<1> QED  BY <1>2, <1>3, <1>4

LEMMA SwapEndsOnCurve ==
  ASSUME NEW x \in Nat \ {0}, NEW y \in Nat, NEW n \in Nat
  PROVE  LET swap == SwapRaw(x, y, n)
             left == y - swap.return - swap.commission
         IN  /\ (x + n) * left >= x * y
             /\ (x + n) * (left - 1) < x * y
<1> DEFINE gross == GrossReturn(x, y, n)
           swap  == SwapRaw(x, y, n)
           after == x + n
<1>1. /\ gross \in Nat /\ gross * after <= y * n
      /\ y * n < (gross + 1) * after
  BY GrossBounds
<1>2. Commission(gross) \in Nat
  BY <1>1, CommissionWithinGross
<1>3. y - swap.return - swap.commission = y - gross
  BY <1>1, <1>2 DEF SwapRaw
<1> HIDE DEF gross
<1>4. after \in Nat /\ x * y + n * y = after * y /\ n * y = y * n
  OBVIOUS
<1>5. /\ after * (y - gross) = after * y - gross * after
      /\ after * ((y - gross) - 1) = after * y - (gross + 1) * after
  BY <1>1
<1>6. /\ x * y \in Nat /\ n * y \in Nat /\ y * n \in Nat /\ after * y \in Nat
      /\ gross * after \in Nat /\ (gross + 1) * after \in Nat
  BY <1>1, TimesNat
<1>7. after * (y - gross) >= x * y /\ after * ((y - gross) - 1) < x * y
  BY <1>1, <1>4, <1>5, <1>6
<1> QED  BY <1>3, <1>7

(* More offered is no less returned, before and after the commission. *)
LEMMA GrossRises ==
  ASSUME NEW x \in Nat \ {0}, NEW y \in Nat, NEW n \in Nat, NEW m \in Nat, n <= m
  PROVE  GrossReturn(x, y, n) <= GrossReturn(x, y, m)
<1> DEFINE gross == GrossReturn(x, y, n)
<1>1. gross \in Nat /\ gross * (x + n) <= y * n
  BY GrossBounds
<1> HIDE DEF gross
<1>2. gross <= y
  <2>1. y * n <= y * (x + n)
    BY TimesMonotone
  <2>2. gross * (x + n) <= y * (x + n)
    BY <1>1, <2>1, TimesNat
  <2> QED  BY <1>1, <2>2, TimesCancel
<1>3. gross * (m - n) <= y * (m - n)
  BY <1>1, <1>2, TimesMonotone
<1>4. /\ gross * (x + m) = gross * (x + n) + gross * (m - n)
      /\ y * m = y * n + y * (m - n)
  BY <1>1
<1>5. /\ gross * (x + n) \in Nat /\ gross * (m - n) \in Nat /\ y * n \in Nat
      /\ y * (m - n) \in Nat /\ y * m \in Nat
  BY <1>1, TimesNat
<1>6. gross * (x + m) <= y * m
  BY <1>1, <1>3, <1>4, <1>5
<1>7. gross <= (y * m) \div (x + m)
  BY <1>1, <1>5, <1>6, DivAtLeast
<1> QED  BY <1>7 DEF gross, GrossReturn

LEMMA ReturnRises ==
  ASSUME NEW x \in Nat \ {0}, NEW y \in Nat, NEW n \in Nat, NEW m \in Nat, n <= m
  PROVE  SwapRaw(x, y, n).return <= SwapRaw(x, y, m).return
<1>1. /\ GrossReturn(x, y, n) \in Nat /\ GrossReturn(x, y, m) \in Nat
      /\ GrossReturn(x, y, n) <= GrossReturn(x, y, m)
  BY GrossBounds, GrossRises
<1>2. /\ Commission(GrossReturn(x, y, n)) \in Nat
      /\ Commission(GrossReturn(x, y, m)) \in Nat
  BY <1>1, CommissionWithinGross
<1>3. Commission(GrossReturn(x, y, m)) - Commission(GrossReturn(x, y, n))
        <= GrossReturn(x, y, m) - GrossReturn(x, y, n)
  BY <1>1, CommissionSlope
<1> QED  BY <1>1, <1>2, <1>3 DEF SwapRaw

(* The spread of a swap does not panic while the offered pool has no more  *)
(* than One units: a return of a unit or more leaves the truncated price   *)
(* enough of a margin.                                                     *)
LEMMA IdealCoversGross ==
  ASSUME NEW x \in Nat \ {0}, NEW y \in Nat, NEW n \in Nat, x <= One
  PROVE  IdealReturn(x, y, n) >= GrossReturn(x, y, n)
<1> DEFINE gross == GrossReturn(x, y, n)
           price == (y * One) \div x
<1>1. One \in Nat \ {0} /\ y * One \in Nat
  BY OneAssumption, TimesNat
<1>2. gross \in Nat /\ gross * (x + n) <= y * n
  BY GrossBounds
<1>3. price \in Nat /\ y * One < price * x + x
  BY <1>1, DivBounds
<1>4. IdealReturn(x, y, n) = (n * price) \div One
  BY DEF IdealReturn, MulFloor, FromRatio
<1> HIDE DEF gross, price
<1>5. n * price \in Nat /\ (n * price) \div One \in Nat
  BY <1>1, <1>3, TimesNat, DivBounds
<1>6. CASE gross = 0
  BY <1>4, <1>5, <1>6 DEF gross
<1>7. CASE gross > 0
  <2>1. n * (y * One) <= n * (price * x + x)
    BY <1>1, <1>3, TimesNat, TimesMonotone
  <2>2. (gross * (x + n)) * One <= (y * n) * One
    BY <1>1, <1>2, TimesNat, TimesMonotone
  <2>3. n * x <= (gross * n) * One
    <3>1. n * x <= n * One
      BY <1>1, TimesMonotone
    <3>2. 1 * (n * One) <= gross * (n * One)
      BY <1>1, <1>2, <1>7, TimesNat, TimesMonotone
    <3>3. gross * (n * One) = (gross * n) * One /\ n * x \in Nat /\ n * One \in Nat
          /\ (gross * n) * One \in Nat
      BY <1>1, <1>2, TimesNat
    <3> QED  BY <3>1, <3>2, <3>3
  <2>4. /\ n * (y * One) = (y * n) * One
        /\ n * (price * x + x) = (n * price) * x + n * x
        /\ (gross * (x + n)) * One = (gross * One) * x + (gross * n) * One
    BY <1>1, <1>2, <1>3
  <2>5. /\ (y * n) * One \in Nat /\ (n * price) * x \in Nat /\ n * x \in Nat
        /\ (gross * One) * x \in Nat /\ (gross * n) * One \in Nat
        /\ gross * One \in Nat
    BY <1>1, <1>2, <1>3, <1>5, TimesNat
  <2>6. (gross * One) * x <= (n * price) * x
    BY <2>1, <2>2, <2>3, <2>4, <2>5
  <2>7. gross * One <= n * price
    BY <1>5, <2>5, <2>6, TimesCancel
  <2>8. gross <= (n * price) \div One
    BY <1>1, <1>2, <1>5, <2>7, DivAtLeast
  <2> QED  BY <1>4, <2>8 DEF gross
<1> QED  BY <1>2, <1>6, <1>7

(* Scaled decimals pay no more than the curve, fees included, and at most  *)
(* a unit less.                                                            *)
LEMMA ScalingRounds ==
  ASSUME NEW i \in Assets, NEW x \in Nat \ {0}, NEW y \in Nat, NEW n \in Nat,
         ComputeSwapDefined(i, x, y, n)
  PROVE  LET scaled == ComputeSwap(i, x, y, n)
         IN  /\ scaled.return + 2 * FeeCut(scaled.commission) <= GrossReturn(x, y, n)
             /\ scaled.return >= SwapRaw(x, y, n).return - 1
<1> DEFINE j      == Other(i)
           f      == Scale[i]
           g      == Scale[j]
           gross  == GrossReturn(x, y, n)
           large  == GrossReturn(x * f, y * g, n * f)
           scaled == ComputeSwap(i, x, y, n)
           out    == scaled.return + 2 * FeeCut(scaled.commission)
<1>1. f \in Nat \ {0} /\ g \in Nat \ {0}
  <2>1. j \in Assets
    BY DEF Assets, Other
  <2> QED  BY <2>1, ScaleAssumption
<1>2. /\ gross \in Nat /\ gross * (x + n) <= y * n
  BY GrossBounds
<1>3. out <= gross
  <2>1. /\ out \in Nat /\ out <= y /\ x * y <= (x + n) * (y - out)
    BY SwapKeepsProduct
  <2> HIDE DEF out
  <2>2. /\ (x + n) * (y - out) = x * y + y * n - out * (x + n)
    BY <2>1
  <2>3. /\ x * y \in Nat /\ y * n \in Nat /\ out * (x + n) \in Nat
    BY <2>1, TimesNat
  <2>4. out * (x + n) <= y * n
    BY <2>1, <2>2, <2>3
  <2>5. out <= (y * n) \div (x + n)
    BY <2>1, <2>3, <2>4, DivAtLeast
  <2> QED  BY <2>5 DEF GrossReturn
<1>4. gross * g <= large
  <2> HIDE DEF gross, f, g
  <2>1. /\ x * f + n * f \in Nat \ {0} /\ gross * g \in Nat
        /\ (y * g) * (n * f) \in Nat /\ f * g \in Nat
    BY <1>1, <1>2, TimesNat
  <2>2. (gross * (x + n)) * (f * g) <= (y * n) * (f * g)
    BY <1>2, <2>1, TimesNat, TimesMonotone
  <2>3. /\ (gross * g) * (x * f + n * f) = (gross * (x + n)) * (f * g)
        /\ (y * g) * (n * f) = (y * n) * (f * g)
    BY <1>1, <1>2
  <2>4. (gross * g) * (x * f + n * f) <= (y * g) * (n * f)
    BY <2>2, <2>3
  <2>5. gross * g <= ((y * g) * (n * f)) \div (x * f + n * f)
    BY <2>1, <2>4, DivAtLeast
  <2> QED  BY <2>5 DEF GrossReturn, f, g
<1>5. large \in Nat
  <2>1. x * f \in Nat \ {0} /\ y * g \in Nat /\ n * f \in Nat
    BY <1>1, TimesNat
  <2> QED  BY <2>1, GrossBounds
<1>6. /\ Commission(gross) \in Nat /\ Commission(gross) <= gross
      /\ Commission(large) \in Nat /\ Commission(large) <= large
  BY <1>2, <1>5, CommissionWithinGross
<1>7. /\ scaled.return = (large - Commission(large)) \div g
      /\ SwapRaw(x, y, n).return = gross - Commission(gross)
  BY DEF ComputeSwap, SwapRaw
<1> HIDE DEF gross, large
<1>8. Commission(gross * g) <= Commission(gross) * g + g
  <2> DEFINE r == CommissionRate
             c == Commission(gross)
             l == Commission(gross * g)
  <2>1. One \in Nat \ {0} /\ r \in Nat /\ gross * g \in Nat
    BY <1>1, <1>2, OneAssumption, RateAssumption, TimesNat
  <2> DEFINE h == gross * g
  <2>a. h \in Nat
    BY <2>1
  <2> HIDE DEF h
  <2>b. Commission(h) \in Nat /\ Commission(h) * One <= h * r + One
    BY <2>a, CommissionWithinGross, CommissionBounds
  <2>2. l \in Nat /\ l * One <= (gross * g) * r + One
    BY <2>b DEF h
  <2>3. gross * r <= c * One
    BY <1>2, CommissionFacts
  <2> HIDE DEF c, l, r
  <2>4. (gross * r) * g <= (c * One) * g
    BY <1>1, <1>2, <1>6, <2>1, <2>3, TimesNat, TimesMonotone DEF c
  <2>5. /\ (gross * r) * g = (gross * g) * r
        /\ (c * g + g) * One = (c * One) * g + g * One
    BY <1>1, <1>2, <1>6, <2>1 DEF c
  <2>6. One <= g * One
    BY <1>1, <2>1
  <2>7. /\ (gross * g) * r \in Nat /\ (c * One) * g \in Nat /\ g * One \in Nat
        /\ l * One \in Nat /\ c * g + g \in Nat /\ (c * g + g) * One \in Nat
    BY <1>1, <1>2, <1>6, <2>1, <2>2, TimesNat DEF c
  <2>8. l * One <= (c * g + g) * One
    <3> DEFINE left  == l * One
               rated == (gross * g) * r
               cost  == (c * One) * g
               more  == g * One
               most  == (c * g + g) * One
    <3>1. left <= rated + One /\ rated <= cost /\ One <= more /\ most = cost + more
      BY <2>2, <2>4, <2>5, <2>6
    <3>2. left \in Nat /\ rated \in Nat /\ cost \in Nat /\ more \in Nat
          /\ One \in Nat
      BY <2>1, <2>7
    <3> HIDE DEF left, rated, cost, more, most
    <3>3. left <= most
      BY <3>1, <3>2
    <3> QED  BY <3>3 DEF left, most
  <2>9. l <= c * g + g
    BY <2>1, <2>2, <2>7, <2>8, TimesCancel
  <2> QED  BY <2>9 DEF c, l
<1>9. scaled.return >= SwapRaw(x, y, n).return - 1
  <2> DEFINE net == gross - Commission(gross)
             big == large - Commission(large)
  <2>1. gross * g \in Nat /\ Commission(gross * g) \in Nat
    BY <1>1, <1>2, TimesNat, CommissionWithinGross
  <2>2. Commission(large) - Commission(gross * g) <= large - gross * g
    BY <1>4, <1>5, <2>1, CommissionSlope
  <2>3. net * g = gross * g - Commission(gross) * g /\ Commission(gross) * g \in Nat
    BY <1>1, <1>2, <1>6, TimesNat
  <2>4. net * g - g <= big
    BY <1>1, <1>5, <1>6, <1>8, <2>1, <2>2, <2>3
  <2>5. net \in Nat /\ big \in Nat /\ big \div g \in Nat
    BY <1>1, <1>2, <1>5, <1>6, DivBounds
  <2> HIDE DEF net, big
  <2>6. CASE net = 0
    BY <1>7, <2>5, <2>6 DEF net, big
  <2>7. CASE net # 0
    <3>1. net - 1 \in Nat /\ (net - 1) * g = net * g - g
      BY <1>1, <2>5, <2>7
    <3>2. net - 1 <= big \div g
      BY <1>1, <2>4, <2>5, <3>1, DivAtLeast
    <3> QED  BY <1>7, <3>2 DEF net, big
  <2> QED  BY <2>6, <2>7
<1> QED  BY <1>3, <1>9 DEF gross

-----------------------------------------------------------------------------
(* The properties of MCPairMath, for pools of a and b units and c offered. *)
Reference(a, b, c) == INSTANCE MCPairMath WITH
  PoolSizes <- Nat \ {0}, Offers <- Nat \ {0}, x <- a, y <- b, n <- c

(* provide_liquidity charges the exact proportional part, rounded up, and  *)
(* withdraw_liquidity pays it but for less than what rounding the ratio    *)
(* of the shares to One can cost, whatever the sizes of pool and supply.   *)
THEOREM SharesAlwaysFair ==
  ASSUME NEW a \in Nat \ {0}, NEW b \in Nat \ {0}, NEW c \in Nat \ {0}
  PROVE  Reference(a, b, c)!SharesAreFair
<1>1. DesiredAmount(a, c, b) = -((-(a * c)) \div b)
  BY DesiredIsExact
<1>2. CASE c <= b
  <2>1. Refund(a, c, b) * b <= a * c
    BY <1>2, RefundWithinPart
  <2>2. ((Refund(a, c, b) + 1) * b) * One >= (a * c) * One - a * b
    BY RefundNearPart
  <2> QED  BY <1>1, <2>1, <2>2
       DEF Reference!SharesAreFair, Reference!DesiredIsCeiling,
           Reference!RefundIsFair, Reference!DesiredAmount, Reference!Refund,
           Reference!CeilDiv, Reference!MulFloor, Reference!FromRatio,
           Reference!MultiplyRatio, DesiredAmount, Refund, MulFloor, FromRatio,
           MultiplyRatio
<1>3. CASE ~(c <= b)
  BY <1>3 DEF Reference!SharesAreFair, Reference!DesiredIsCeiling,
              Reference!RefundIsFair
<1> QED  BY <1>2, <1>3

(* The operators of PairMath, as MCPairMath has them. *)
LEMMA ReferenceSwap ==
  ASSUME NEW a, NEW b, NEW c, NEW p, NEW q, NEW o
  PROVE  /\ Reference(a, b, c)!GrossReturn(p, q, o) = GrossReturn(p, q, o)
         /\ Reference(a, b, c)!IdealReturn(p, q, o) = IdealReturn(p, q, o)
         /\ Reference(a, b, c)!SwapRaw(p, q, o) = SwapRaw(p, q, o)
         /\ Reference(a, b, c)!SwapRawDefined(p, q, o) <=> SwapRawDefined(p, q, o)
<1>1. ASSUME NEW n, NEW d
      PROVE  Reference(a, b, c)!MulFloor(n, d) = MulFloor(n, d)
  BY DEF Reference!MulFloor, MulFloor
<1>2. ASSUME NEW n
      PROVE  Reference(a, b, c)!Commission(n) = Commission(n)
  BY <1>1 DEF Reference!Commission, Commission, Reference!Reciprocal, Reciprocal
<1>3. Reference(a, b, c)!GrossReturn(p, q, o) = GrossReturn(p, q, o)
  BY DEF Reference!GrossReturn, GrossReturn
<1>4. Reference(a, b, c)!IdealReturn(p, q, o) = IdealReturn(p, q, o)
  BY <1>1 DEF Reference!IdealReturn, IdealReturn, Reference!FromRatio, FromRatio
<1>5. Reference(a, b, c)!SwapRaw(p, q, o) = SwapRaw(p, q, o)
  BY <1>2, <1>3, <1>4 DEF Reference!SwapRaw, SwapRaw
<1>6. Reference(a, b, c)!SwapRawDefined(p, q, o) <=> SwapRawDefined(p, q, o)
  BY <1>3, <1>4 DEF Reference!SwapRawDefined, SwapRawDefined,
                    Reference!FitsUint128, FitsUint128
<1> QED  BY <1>3, <1>4, <1>5, <1>6

LEMMA ReferenceCommission ==
  ASSUME NEW a, NEW b, NEW c, NEW n
  PROVE  /\ Reference(a, b, c)!Commission(n) = Commission(n)
         /\ Reference(a, b, c)!FeeCut(n) = FeeCut(n)
BY DEF Reference!Commission, Commission, Reference!MulFloor, MulFloor,
       Reference!Reciprocal, Reciprocal, Reference!FeeCut, FeeCut,
       Reference!MultiplyRatio, MultiplyRatio

LEMMA ReferenceComputeSwap ==
  ASSUME NEW a, NEW b, NEW c, NEW i, NEW p, NEW q, NEW o
  PROVE  /\ Reference(a, b, c)!ComputeSwap(i, p, q, o) = ComputeSwap(i, p, q, o)
         /\ Reference(a, b, c)!ComputeSwapDefined(i, p, q, o)
              <=> ComputeSwapDefined(i, p, q, o)
<1>1. Reference(a, b, c)!Other(i) = Other(i)
  BY DEF Reference!Other, Other
<1> QED  BY <1>1, ReferenceSwap
     DEF Reference!ComputeSwap, ComputeSwap, Reference!ComputeSwapDefined,
         ComputeSwapDefined, Reference!FitsUint128, FitsUint128

(* More offered to compute_swap is never less returned. *)
THEOREM SwapIsAlwaysMonotone ==
  ASSUME NEW a \in Nat \ {0}, NEW b \in Nat \ {0}, NEW c \in Nat \ {0}
  PROVE  Reference(a, b, c)!SwapIsMonotone
<1>1. SwapRaw(a, b, c).return <= SwapRaw(a, b, c + 1).return
  BY ReturnRises
<1>2. SwapRaw(a, b, c).return \in Int /\ SwapRaw(a, b, c + 1).return \in Int
  <2>1. GrossReturn(a, b, c) \in Nat /\ GrossReturn(a, b, c + 1) \in Nat
    <3> DEFINE more == c + 1
    <3>1. more \in Nat
      OBVIOUS
    <3> HIDE DEF more
    <3>2. GrossReturn(a, b, c) \in Nat /\ GrossReturn(a, b, more) \in Nat
      BY <3>1, GrossBounds
    <3> QED  BY <3>2 DEF more
  <2>2. /\ Commission(GrossReturn(a, b, c)) \in Nat
        /\ Commission(GrossReturn(a, b, c + 1)) \in Nat
    BY <2>1, CommissionWithinGross
  <2> QED  BY <2>1, <2>2 DEF SwapRaw
<1>3. SwapRaw(a, b, c + 1).return >= SwapRaw(a, b, c).return
  BY <1>1, <1>2
<1> QED  BY <1>3, ReferenceSwap DEF Reference!SwapIsMonotone

(* compute_swap ends on the curve and not a unit further than its          *)
(* commission, which is the nominal rate rounded up; scaling decimals up   *)
(* and down costs the trader a unit at most; and the subtraction of the    *)
(* spread does not panic for an offer pool of up to One units.             *)
THEOREM SwapIsAlwaysFair ==
  ASSUME NEW a \in Nat \ {0}, NEW b \in Nat \ {0}, NEW c \in Nat \ {0}
  PROVE  Reference(a, b, c)!SwapIsFair
<1>1. Reference(a, b, c)!CommissionCoversRate
  <2>1. ASSUME NEW gross \in Nat
        PROVE  /\ Commission(gross) * One >= gross * CommissionRate
               /\ Commission(gross) * One <= gross * CommissionRate + One
               /\ Commission(gross) <= gross
    <3>1. /\ Commission(gross) \in Nat /\ Commission(gross) <= gross
          /\ gross * CommissionRate <= Commission(gross) * One
          /\ Commission(gross) * One <= gross * CommissionRate + One
      BY CommissionWithinGross, CommissionFacts, CommissionBounds
    <3>2. Commission(gross) * One \in Nat /\ gross * CommissionRate \in Nat
      BY <3>1, OneAssumption, RateAssumption, TimesNat
    <3> QED  BY <3>1, <3>2
  <2>2. a * b \in Nat
    BY TimesNat
  <2> QED  BY <2>1, <2>2, ReferenceCommission DEF Reference!CommissionCoversRate
<1>2. Reference(a, b, c)!SwapStaysOnCurve
  <2>1. LET swap == SwapRaw(a, b, c)
            left == b - swap.return - swap.commission
        IN  (a + c) * left >= a * b /\ (a + c) * (left - 1) < a * b
    BY SwapEndsOnCurve
  <2>2. Reference(a, b, c)!SwapRaw(a, b, c) = SwapRaw(a, b, c)
    BY ReferenceSwap
  <2> QED  BY ONLY <2>1, <2>2 DEF Reference!SwapStaysOnCurve
<1>3. Reference(a, b, c)!NoSpreadPanicBelowOne
  BY IdealCoversGross, ReferenceSwap DEF Reference!NoSpreadPanicBelowOne
<1>4. Reference(a, b, c)!ScalingOnlyRounds
  <2>1. Reference(a, b, c)!Assets = Assets
    BY DEF Reference!Assets, Assets
  <2>2. ASSUME NEW i \in Assets, ComputeSwapDefined(i, a, b, c)
        PROVE  LET scaled == ComputeSwap(i, a, b, c)
               IN  /\ scaled.return + 2 * FeeCut(scaled.commission)
                        <= GrossReturn(a, b, c)
                   /\ scaled.return >= SwapRaw(a, b, c).return - 1
    BY <2>2, ScalingRounds
  <2> QED  BY <2>1, <2>2, ReferenceComputeSwap, ReferenceSwap, ReferenceCommission
           DEF Reference!ScalingOnlyRounds
<1> QED  BY <1>1, <1>2, <1>3, <1>4 DEF Reference!SwapIsFair

-----------------------------------------------------------------------------
(* What a swap returns, asked for in reverse.                              *)

(* Of what is left after the commission, the commission is added back to   *)
(* no more than there was.                                                 *)
LEMMA BeforeCommissionWithin ==
  ASSUME NEW gross \in Nat, NEW ask \in Nat, ask + Commission(gross) <= gross
  PROVE  BeforeCommission(ask) \in Nat /\ BeforeCommission(ask) <= gross
<1> DEFINE c       == Commission(gross)
           rest    == One - CommissionRate
           r       == (One * One) \div rest
           floored == (ask * r) \div One
           back    == (floored * rest) \div One
<1>1. /\ One \in Nat \ {0} /\ rest \in Nat \ {0} /\ CommissionRate \in Nat
      /\ rest + CommissionRate = One /\ One * One \in Nat
  BY OneAssumption, RateAssumption, TimesNat
<1>2. BeforeCommission(ask) = IF back # ask THEN floored + 1 ELSE floored
  BY DEF BeforeCommission, MulFloor, Reciprocal
<1>3. BeforeCommission(ask) \in Nat
  BY BeforeCommissionCovers
<1>4. /\ c \in Nat /\ ask + c <= gross
      /\ gross * CommissionRate <= c * One
  BY CommissionWithinGross, CommissionFacts
<1> HIDE DEF c, rest
<1>5. ask * One <= gross * rest
  <2>1. (ask + c) * One <= gross * One
    BY <1>1, <1>4, TimesMonotone
  <2>2. /\ (ask + c) * One = ask * One + c * One
        /\ gross * One = gross * rest + gross * CommissionRate
    <3>1. gross * (rest + CommissionRate) = gross * rest + gross * CommissionRate
      BY <1>1
    <3> QED  BY <1>1, <1>4, <3>1
  <2>3. /\ ask * One \in Nat /\ c * One \in Nat /\ gross * rest \in Nat
        /\ gross * CommissionRate \in Nat
    BY <1>1, <1>4, TimesNat
  <2> QED  BY <1>4, <2>1, <2>2, <2>3
<1>6. r \in Nat /\ r * rest <= One * One
  BY <1>1, DivBounds
<1> HIDE DEF r
<1>7. floored \in Nat /\ floored * One <= ask * r
  BY <1>1, <1>6, TimesNat, DivBounds
<1> HIDE DEF floored
<1>8. floored * rest <= ask * One
  <2>1. (floored * One) * rest <= (ask * r) * rest
    BY <1>1, <1>6, <1>7, TimesNat, TimesMonotone
  <2>2. ask * (r * rest) <= ask * (One * One)
    BY <1>1, <1>6, TimesNat, TimesMonotone
  <2>3. /\ (floored * One) * rest = (floored * rest) * One
        /\ (ask * r) * rest = ask * (r * rest)
        /\ ask * (One * One) = (ask * One) * One
    BY <1>1, <1>6, <1>7
  <2>4. /\ floored * rest \in Nat /\ ask * One \in Nat
        /\ (floored * rest) * One \in Nat /\ (ask * One) * One \in Nat
        /\ ask * (r * rest) \in Nat
    BY <1>1, <1>6, <1>7, TimesNat
  <2>5. (floored * rest) * One <= (ask * One) * One
    BY <2>1, <2>2, <2>3, <2>4
  <2> QED  BY <1>1, <2>4, <2>5, TimesCancel
<1>9. floored <= gross
  <2>1. floored * rest \in Nat /\ ask * One \in Nat /\ gross * rest \in Nat
    BY <1>1, <1>7, TimesNat
  <2>2. floored * rest <= gross * rest
    BY <1>5, <1>8, <2>1
  <2> QED  BY <1>1, <1>7, <2>2, TimesCancel
<1>10. CASE floored = gross
  <2>1. floored * rest \in Nat /\ ask * One \in Nat
    BY <1>1, <1>7, TimesNat
  <2>2. floored * rest = ask * One
    BY <1>5, <1>8, <1>10, <2>1
  <2>3. (ask * One) \div One = ask
    BY <1>1
  <2>4. back = ask
    BY <2>2, <2>3
  <2> QED  BY <1>2, <1>3, <1>10, <2>4
<1>11. CASE floored # gross
  <2>1. floored + 1 <= gross
    BY <1>7, <1>9, <1>11
  <2> HIDE DEF back
  <2> QED  BY <1>2, <1>3, <1>7, <1>9, <2>1
<1> QED  BY <1>10, <1>11

(* Asked for what a swap returns, or for less, the reverse quote asks for  *)
(* no more than was offered.                                               *)
LEMMA OfferWithin ==
  ASSUME NEW x \in Nat \ {0}, NEW y \in Nat \ {0}, NEW n \in Nat,
         NEW ask \in Nat, ask <= SwapRaw(x, y, n).return
  PROVE  OfferAmount(x, y, ask).offer \in Nat /\ OfferAmount(x, y, ask).offer <= n
<1> DEFINE gross   == GrossReturn(x, y, n)
           before  == BeforeCommission(ask)
           left    == y - before
           product == x * y
           floored == product \div left
           after   == IF floored * left # product THEN floored + 1 ELSE floored
           sum     == x + n
<1>1. gross \in Nat /\ gross * sum <= y * n
  BY GrossBounds
<1>2. Commission(gross) \in Nat /\ ask + Commission(gross) <= gross
  <2>1. Commission(gross) \in Nat
    BY <1>1, CommissionWithinGross
  <2>2. ask <= gross - Commission(gross)
    BY DEF SwapRaw
  <2> HIDE DEF gross
  <2> QED  BY <1>1, <2>1, <2>2
<1>3. OfferAmount(x, y, ask).offer = after - x
  BY DEF OfferAmount
<1> HIDE DEF gross
<1>4. before \in Nat /\ before <= gross
  BY <1>1, <1>2, BeforeCommissionWithin
<1> HIDE DEF before
<1>5. sum \in Nat \ {0} /\ n \in Nat /\ sum = x + n
  OBVIOUS
<1>6. left \in Int /\ product \in Nat \ {0} /\ left * sum >= product
  <2>1. left \in Int
    BY <1>4
  <2>2. product \in Nat \ {0}
    BY TimesNat
  <2>3. before * sum <= gross * sum
    BY <1>1, <1>4, <1>5, TimesMonotone
  <2>4. left * sum = y * sum - before * sum /\ y * sum = product + y * n
    <3>1. y * (x + n) = x * y + y * n
      OBVIOUS
    <3>2. (y - before) * sum = y * sum - before * sum
      BY <1>4, <1>5
    <3> QED  BY <3>1, <3>2
  <2>5. y * sum \in Nat /\ before * sum \in Nat /\ gross * sum \in Nat /\ y * n \in Nat
    BY <1>1, <1>4, <1>5, TimesNat
  <2> HIDE DEF product, sum, left
  <2> QED  BY <1>1, <2>1, <2>2, <2>3, <2>4, <2>5
<1>7. left \in Nat \ {0} /\ left <= y
  <2> HIDE DEF sum, product
  <2>1. left <= y
    BY <1>4
  <2> HIDE DEF left
  <2>2. ASSUME left <= 0 PROVE FALSE
    <3>1. left * sum <= 0
      BY <1>5, <1>6, <2>2
    <3>2. left * sum \in Int
      BY <1>5, <1>6
    <3> QED  BY <1>6, <3>1, <3>2
  <2> QED  BY <1>6, <2>1, <2>2
<1> HIDE DEF left
<1>8. product = x * y
  OBVIOUS
<1> HIDE DEF product, sum
<1>9. /\ floored \in Nat /\ floored * left <= product
      /\ product < floored * left + left
  BY <1>6, <1>7, DivBounds
<1> HIDE DEF floored
<1>10. floored <= sum
  <2>1. floored * left \in Nat /\ sum * left \in Nat /\ left * sum = sum * left
    BY <1>5, <1>7, <1>9, TimesNat
  <2>2. floored * left <= sum * left
    BY <1>6, <1>9, <2>1
  <2> QED  BY <1>5, <1>7, <1>9, <2>2, TimesCancel
<1>11. after \in Nat /\ after <= sum
  <2>1. CASE floored = sum
    <3>1. floored * left \in Nat /\ left * sum = sum * left
      BY <1>5, <1>7, <1>9, TimesNat
    <3>2. floored * left = product
      BY <1>6, <1>9, <2>1, <3>1
    <3> QED  BY <1>5, <2>1, <3>2
  <2>2. CASE floored # sum
    <3>1. floored + 1 <= sum
      BY <1>5, <1>9, <1>10, <2>2
    <3> QED  BY <1>5, <1>9, <1>10, <3>1
  <2> QED  BY <2>1, <2>2
<1>12. product <= after * left
  <2>1. floored * left \in Nat
    BY <1>7, <1>9, TimesNat
  <2>2. CASE floored * left = product
    BY <1>6, <2>2
  <2>3. CASE floored * left # product
    <3>1. after = floored + 1
      BY <2>3
    <3>2. (floored + 1) * left = floored * left + left
      BY <1>7, <1>9
    <3> HIDE DEF after
    <3> QED  BY <1>6, <1>7, <1>9, <2>1, <3>1, <3>2
  <2> QED  BY <2>2, <2>3
<1> HIDE DEF after
<1>13. x <= after
  <2>1. after * left <= after * y
    BY <1>7, <1>11, TimesMonotone
  <2>2. after * left \in Nat /\ after * y \in Nat
    BY <1>7, <1>11, TimesNat
  <2>3. x * y <= after * y
    BY <1>6, <1>8, <1>12, <2>1, <2>2
  <2> QED  BY <1>11, <2>3, TimesCancel
<1> QED  BY <1>3, <1>5, <1>11, <1>13

(* Decimals that only the offered asset lacks are not rounded to.          *)
LEMMA OfferScaled ==
  ASSUME NEW x \in Nat \ {0}, NEW y \in Nat, NEW n \in Nat, NEW s \in Nat \ {0}
  PROVE  SwapRaw(x * s, y, n * s).return = SwapRaw(x, y, n).return
<1> DEFINE q    == GrossReturn(x, y, n)
           sum  == x + n
           all  == (y * n) * s
           more == all \div (sum * s)
<1>1. q \in Nat /\ q * sum <= y * n /\ y * n < (q + 1) * sum
  BY GrossBounds
<1>2. GrossReturn(x * s, y, n * s) = more
  <2>1. y * (n * s) = all /\ x * s + n * s = sum * s
    OBVIOUS
  <2> QED  BY <2>1 DEF GrossReturn
<1> HIDE DEF q
<1>3. sum \in Nat \ {0} /\ y * n \in Nat /\ sum * s \in Nat \ {0} /\ all \in Nat
  BY TimesNat
<1> DEFINE m == y * n
<1>4. more \in Nat /\ more * (sum * s) <= m * s
  BY <1>3, DivBounds
<1>5. q * (sum * s) <= m * s
  <2>1. (q * sum) * s <= m * s
    BY <1>1, <1>3, TimesNat, TimesMonotone
  <2> HIDE DEF sum, m
  <2> QED  BY <1>1, <1>3, <2>1
<1>6. q <= more
  <2> HIDE DEF sum, m
  <2>1. all = m * s
    BY DEF m
  <2> HIDE DEF all
  <2> QED  BY <1>1, <1>3, <1>5, <2>1, DivAtLeast
<1> HIDE DEF more, sum, m
<1>7. more < q + 1
  <2>1. m \in Nat /\ (more * sum) * s = more * (sum * s)
    BY <1>3, <1>4 DEF m
  <2>2. more * sum \in Nat /\ (q + 1) * sum \in Nat
    BY <1>1, <1>3, <1>4, TimesNat
  <2>3. more * sum <= m
    BY <1>4, <2>1, <2>2, TimesCancel
  <2>4. more * sum < (q + 1) * sum
    BY <1>1, <2>1, <2>2, <2>3 DEF m
  <2> QED  BY <1>1, <1>3, <1>4, <2>4, LessCancel
<1>8. more = q
  BY <1>1, <1>4, <1>6, <1>7
<1> QED  BY <1>2, <1>8 DEF SwapRaw, q
=============================================================================
