------------------------ MODULE LiquidityPoolProofs -------------------------
(***************************************************************************)
(* The abstract pool keeps its tokens backed, whatever the sizes of the    *)
(* deposits, redemptions and trades.                                       *)
(***************************************************************************)
EXTENDS LiquidityPool, TLAPS

-----------------------------------------------------------------------------
(* The arithmetic of reserves and tokens.                                  *)

LEMMA TimesMonotone ==
  ASSUME NEW a \in Nat, NEW b \in Nat, NEW c \in Nat, NEW d \in Nat,
         a <= c, b <= d
  PROVE  a * b <= c * d
OBVIOUS

(* An unopened pool has nothing to cover. *)
LEMMA NothingCovered ==
  ASSUME NEW a \in Nat, NEW b \in Nat
  PROVE  Covers(a, b, 0)
<1>1. a * b \in Nat
  OBVIOUS
<1> QED  BY <1>1 DEF Covers

(* Keeping the part of each reserve keeps the price of a token. *)
LEMMA PartsKeepPrice ==
  ASSUME NEW a \in Nat, NEW b \in Nat, NEW r \in Nat,
         NEW c \in Nat, NEW d \in Nat, NEW s \in Nat,
         PartKept(a, r, c, s), PartKept(b, r, d, s)
  PROVE  PriceKept(a, b, r, c, d, s)
<1>1. (a * s) * (b * s) <= (c * r) * (d * r)
  <2>1. a * s \in Nat /\ b * s \in Nat /\ c * r \in Nat /\ d * r \in Nat
    OBVIOUS
  <2> QED  BY <2>1, TimesMonotone DEF PartKept
<1>2. (a * s) * (b * s) = (a * b) * (s * s)
  OBVIOUS
<1>3. (c * r) * (d * r) = (c * d) * (r * r)
  OBVIOUS
<1> QED  BY <1>1, <1>2, <1>3 DEF PriceKept

(* A product that does not fall, over as many tokens, keeps their price. *)
LEMMA TradeKeepsPrice ==
  ASSUME NEW a \in Nat, NEW b \in Nat, NEW c \in Nat, NEW d \in Nat,
         NEW r \in Nat, a * b <= c * d
  PROVE  PriceKept(a, b, r, c, d, r)
<1>1. a * b \in Nat /\ c * d \in Nat /\ r * r \in Nat
  OBVIOUS
<1> QED  BY <1>1, TimesMonotone DEF PriceKept

(* A price that does not fall keeps the tokens covered. *)
LEMMA PriceKeepsCover ==
  ASSUME NEW a \in Nat, NEW b \in Nat, NEW r \in Nat \ {0},
         NEW c \in Nat, NEW d \in Nat, NEW s \in Nat,
         Covers(a, b, r), PriceKept(a, b, r, c, d, s)
  PROVE  Covers(c, d, s)
<1> DEFINE ab == a * b
           cd == c * d
           rr == r * r
           ss == s * s
<1>1. ab \in Nat /\ cd \in Nat /\ rr \in Nat \ {0} /\ ss \in Nat
  OBVIOUS
<1>2. rr <= ab /\ ab * ss <= cd * rr
  BY DEF Covers, PriceKept
<1> HIDE DEF ab, cd, rr, ss
<1>3. rr * ss <= ab * ss
  BY <1>1, <1>2
<1>4. ss * rr <= cd * rr
  BY <1>1, <1>2, <1>3
<1>5. ss <= cd
  BY <1>1, <1>4
<1> QED  BY <1>5 DEF Covers, ss, cd

(* The reserves cover the first tokens when what was added covers them. *)
LEMMA AddedCovers ==
  ASSUME NEW a \in Nat, NEW b \in Nat, NEW c \in Nat, NEW d \in Nat,
         NEW s \in Nat, a <= c, b <= d, Covers(c - a, d - b, s)
  PROVE  Covers(c, d, s)
<1> DEFINE u == c - a
           v == d - b
<1>1. u \in Nat /\ v \in Nat /\ u <= c /\ v <= d /\ s * s <= u * v
  BY DEF Covers
<1> HIDE DEF u, v
<1>2. u * v <= c * d
  BY <1>1, TimesMonotone
<1>3. s * s \in Nat /\ u * v \in Nat /\ c * d \in Nat
  BY <1>1
<1> QED  BY <1>1, <1>2, <1>3 DEF Covers

-----------------------------------------------------------------------------
(* A step of an open pool keeps the price of a token. *)
LEMMA StepKeepsPrice ==
  ASSUME TypeOK, TypeOK', Next, t > 0
  PROVE  PriceKept(x, y, t, x', y', t')
<1>1. /\ x \in Nat /\ y \in Nat /\ t \in Nat
      /\ x' \in Nat /\ y' \in Nat /\ t' \in Nat
  BY DEF TypeOK
<1>2. CASE Open
  BY <1>2 DEF Open
<1>3. CASE Deposit \/ Redeem
  BY <1>1, <1>3, PartsKeepPrice DEF Deposit, Redeem
<1>4. CASE Trade
  BY <1>1, <1>4, TradeKeepsPrice DEF Trade
<1> QED  BY <1>2, <1>3, <1>4 DEF Next

(* TypeOK: no redemption or trade overdraws a reserve. *)
THEOREM TypeCorrect == Spec => []TypeOK
<1>1. Init => TypeOK
  BY DEF Init, TypeOK
<1>2. TypeOK /\ [Next]_vars => TypeOK'
  BY DEF TypeOK, Next, vars, Open, Deposit, Redeem, Trade
<1> QED  BY <1>1, <1>2, PTL DEF Spec

(* Backed: the reserves always cover the tokens, from the first deposit on. *)
THEOREM AlwaysBacked == Spec => []Backed
<1>1. Init => Backed
  BY NothingCovered DEF Init, Backed
<1>2. TypeOK /\ TypeOK' /\ Backed /\ [Next]_vars => Backed'
  <2> SUFFICES ASSUME TypeOK, TypeOK', Backed, [Next]_vars
               PROVE  Backed'
    OBVIOUS
  <2>1. /\ x \in Nat /\ y \in Nat /\ t \in Nat
        /\ x' \in Nat /\ y' \in Nat /\ t' \in Nat
    BY DEF TypeOK
  <2>2. CASE UNCHANGED vars
    BY <2>2 DEF vars, Backed
  <2>3. CASE Next /\ t > 0
    <3>1. PriceKept(x, y, t, x', y', t')
      BY <2>3, StepKeepsPrice
    <3>2. t \in Nat \ {0}
      BY <2>1, <2>3
    <3> QED  BY <2>1, <3>1, <3>2, PriceKeepsCover DEF Backed
  <2>4. CASE Open
    BY <2>1, <2>4, AddedCovers DEF Open, Backed
  <2>5. CASE Trade /\ t = 0
    BY <2>1, <2>5, NothingCovered DEF Trade, Backed
  <2> QED  BY <2>1, <2>2, <2>3, <2>4, <2>5 DEF Next, Deposit, Redeem
<1> QED  BY <1>1, <1>2, TypeCorrect, PTL DEF Spec

(* SharePriceNeverFalls: no step dilutes the tokens that remain. *)
THEOREM PriceNeverFalls == Spec => SharePriceNeverFalls
<1>1. TypeOK /\ TypeOK' /\ [Next]_vars =>
        [t > 0 => PriceKept(x, y, t, x', y', t')]_vars
  BY StepKeepsPrice
<1> QED  BY <1>1, TypeCorrect, PTL DEF Spec, SharePriceNeverFalls
=============================================================================
