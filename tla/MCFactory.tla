----------------------------- MODULE MCFactory ------------------------------
(***************************************************************************)
(* Small instances of the factory for TLC.                                 *)
(***************************************************************************)
EXTENDS FactoryMessages

CONSTANTS Alice, Bob, Inj, Usd, Cw

(* Distinct first bytes: no key can be read in two ways. *)
PlainNames == [t \in Tokens |-> IF t = Inj THEN <<50>>
                                ELSE IF t = Usd THEN <<60, 50>> ELSE <<40, 2>>]

BobsDenom == [d \in Natives |-> IF d = Usd THEN Bob ELSE None]
Six == [t \in Cw20s |-> 6]

(* Nothing, or the least deposit.  That others are refused adds no state:  *)
(* a transaction may fail after any message.                               *)
Deposits == {[i \in Sides |-> 0], [i \in Sides |-> 1]}

(* The creation fee alone, with a deposit of either coin, or nothing. *)
SentAlong == {[d \in Natives |-> IF d = Inj THEN 1 ELSE 0],
              [d \in Natives |-> IF d = Inj THEN 2 ELSE 1],
              [d \in Natives |-> 0]}

(* Bob has the coins; Alice gets some if she owns the contract.            *)
Purses == [t \in Tokens |-> [a \in Users \union {FactoryAddr} |->
             IF a # Bob THEN 0 ELSE IF t = Inj THEN 3 ELSE 1]]
=============================================================================
