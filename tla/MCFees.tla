------------------------------- MODULE MCFees -------------------------------
(***************************************************************************)
(* A native / CW20 pair and an auction contract with two adapters, one of  *)
(* which converts the token.                                               *)
(***************************************************************************)
EXTENDS FeeForwarding, TLC

CONSTANTS Inj, Usdt, Stray, Cw, Trader, Admin, Able, Unable

(* The pair trades Inj for Cw. *)
Traded == 0 :> Inj @@ 1 :> Cw
Even   == 0 :> 1 @@ 1 :> 1

Knows == {<<Able, Cw>>}

(* The administrator sends the auction contract coins of his own. *)
Start ==
  [t \in Tokens |-> [a \in Accounts |->
     IF t \in {Inj, Cw} /\ a = Trader THEN 8
     ELSE IF t \in {Usdt, Stray} /\ a = Admin THEN 1
     ELSE 0]]

Coin(t, n) == [d \in Denoms |-> IF d = t THEN n ELSE 0]
Attachable == {Coin(Usdt, 1), Coin(Stray, 1), Coin(Stray, 0),
               [Coin(Usdt, 1) EXCEPT ![Stray] = 1]}
=============================================================================
