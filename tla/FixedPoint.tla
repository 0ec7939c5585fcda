----------------------------- MODULE FixedPoint -----------------------------
(***************************************************************************)
(* The unsigned integer and decimal arithmetic of cosmwasm-std that the    *)
(* contracts of choice_exchange are written in: Uint128, Decimal and       *)
(* Decimal256.  A decimal is represented by its atomics, a natural number  *)
(* of units of 1/One; every operation rounds down, as the library does.    *)
(***************************************************************************)
EXTENDS Integers

CONSTANTS
  One,          (* The atomics of the decimal 1: 10^18 in the library.     *)
  Uint128Max    (* The largest Uint128: 2^128 - 1 in the library.          *)

ASSUME OneAssumption     == One \in Nat \ {0}
ASSUME Uint128Assumption == Uint128Max \in Nat

(* Decimal::from_ratio(n, d): the caller guards d # 0, where the code panics. *)
FromRatio(n, d) == (n * One) \div d

(* Uint128::mul_floor(x, decimal). *)
MulFloor(x, decimal) == (x * decimal) \div One

(* Uint128::multiply_ratio(x, n, d): the caller guards d # 0. *)
MultiplyRatio(x, n, d) == (x * n) \div d

(* Decimal::one() / decimal. *)
Reciprocal(decimal) == (One * One) \div decimal

(* The value is a Uint128: checked_add, checked_sub and try_into succeed,  *)
(* and +, - and += do not panic.                                           *)
FitsUint128(n) == n \in 0 .. Uint128Max
=============================================================================
