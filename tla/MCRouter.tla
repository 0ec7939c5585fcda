------------------------------ MODULE MCRouter ------------------------------
(***************************************************************************)
(* A small instance of the router for TLC: three tokens and two pairs, one *)
(* of native coins and one of a coin and a CW20 token.                     *)
(***************************************************************************)
EXTENDS RouterProperties

CONSTANTS Alice, Bob, Inj, Usd, Cw, InjUsd, UsdCw, MaxHops

(* The first token of a pair has fewer decimals than the second: a swap of *)
(* Inj for Usd or of Usd for Cw keeps them, one the other way rounds.      *)
TwoDecimals == [i \in Assets |-> IF i = 0 THEN 2 ELSE 1]

TwoPairs ==
  [p \in PairAddrs |-> [i \in Assets |->
     IF p = InjUsd THEN (IF i = 0 THEN Inj ELSE Usd)
                   ELSE (IF i = 0 THEN Usd ELSE Cw)]]

Uneven ==
  [p \in PairAddrs |-> [i \in Assets |->
     IF p = InjUsd THEN (IF i = 0 THEN 24 ELSE 30)
                   ELSE (IF i = 0 THEN 20 ELSE 60)]]

(* Alice pays in coins; Bob has coins to trade with too. *)
Purses == [t \in Tokens |-> [u \in Users |->
             IF u = Alice THEN (IF t = Cw THEN 0 ELSE 12)
             ELSE IF t = Usd THEN 12 ELSE 0]]

(* Coins, tokens by the Receive hook, or nothing. *)
Paid(t, n) == [token |-> t, amount |-> n]
SomePayments == {Paid(Inj, 12), Paid(Usd, 12), Paid(Cw, 5), Paid(Usd, 0)}

(* Every route of up to MaxHops swaps of the listed pairs, and one swap of *)
(* two tokens that are not paired.                                         *)
Operations ==
  {[offer |-> Sides[p][i], ask |-> Sides[p][Other(i)]] : p \in PairAddrs, i \in Assets}

AllRoutes ==
  UNION {[1 .. n -> Operations] : n \in 0 .. MaxHops}
    \union {<<[offer |-> Inj, ask |-> Cw]>>}
=============================================================================
