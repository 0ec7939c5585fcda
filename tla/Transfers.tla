----------------------------- MODULE Transfers ------------------------------
(***************************************************************************)
(* How tokens change hands on the chain: bank sends of native denoms and   *)
(* CW20 transfers.  The balances of one token are a function from accounts *)
(* to amounts.                                                             *)
(***************************************************************************)
EXTENDS Integers

(* A transfer of n units; the caller guards that from owns them. *)
Move(balance, from, to, n) ==
  LET debited == [balance EXCEPT ![from] = @ - n]
  IN  [debited EXCEPT ![to] = @ + n]

(* The bank rejects a send of no coins, a CW20 transfer of zero succeeds. *)
Sendable(native, n) == native => n > 0
=============================================================================
