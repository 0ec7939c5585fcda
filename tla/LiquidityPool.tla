--------------------------- MODULE LiquidityPool ----------------------------
(***************************************************************************)
(* What a choice_pair promises its liquidity providers, without a word on  *)
(* accounts, fees, slippage or rounding: two reserves x and y back the t   *)
(* LP tokens in existence, a provider never takes out more than his part   *)
(* nor pays in less than it, and a trade never lowers the product.         *)
(***************************************************************************)
EXTENDS Integers

VARIABLES
  x, y,   (* The reserves of the two assets.   *)
  t       (* The LP tokens in existence.       *)

vars == <<x, y, t>>

(* A reserve of b over s tokens is worth no less per token than a over r.  *)
PartKept(a, r, b, s) == a * s <= b * r

(* The reserves (c, d) over s tokens have no smaller a product per squared *)
(* token than (a, b) over r: a token is worth no less.                     *)
PriceKept(a, b, r, c, d, s) == (a * b) * (s * s) <= (c * d) * (r * r)

(* r tokens are not worth more than the geometric mean of a and b. *)
Covers(a, b, r) == r * r <= a * b

Init == x \in Nat /\ y \in Nat /\ t = 0

(* The first deposit is worth at least the tokens it mints. *)
Open ==
  /\ t = 0 /\ t' > 0
  /\ x' >= x /\ y' >= y
  /\ Covers(x' - x, y' - y, t')

(* A later deposit pays, in each asset, at least the part it mints. *)
Deposit ==
  /\ t > 0 /\ t' > t
  /\ x' >= x /\ y' >= y
  /\ PartKept(x, t, x', t') /\ PartKept(y, t, y', t')

(* A redemption takes, of each asset, at most the part it burns. *)
Redeem ==
  /\ t > 0 /\ t' >= 0 /\ t' < t
  /\ x' \in 0 .. x /\ y' \in 0 .. y
  /\ PartKept(x, t, x', t') /\ PartKept(y, t, y', t')

(* A trade moves the reserves along or above the curve. *)
Trade ==
  /\ t' = t
  /\ x' >= 0 /\ y' >= 0
  /\ x * y <= x' * y'

Next ==
  /\ x' \in Int /\ y' \in Int /\ t' \in Int
  /\ Open \/ Deposit \/ Redeem \/ Trade

Spec == Init /\ [][Next]_vars

-----------------------------------------------------------------------------
TypeOK == x \in Nat /\ y \in Nat /\ t \in Nat

(* Every LP token is backed: the geometric mean of the reserves is never   *)
(* below the supply that provide_liquidity and withdraw_liquidity keep.    *)
Backed == Covers(x, y, t)

(* No step makes the LP tokens that remain worth less. *)
SharePriceNeverFalls == [][t > 0 => PriceKept(x, y, t, x', y', t')]_vars
=============================================================================
