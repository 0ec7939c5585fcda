------------------------------ MODULE Exchange -------------------------------
(***************************************************************************)
(* What swapping along a route promises to everybody, whatever the route:  *)
(* at once, one account pays no more than it has sent and nobody else      *)
(* loses anything, no token is made or lost, and no pair gives away more   *)
(* than its curve does.                                                    *)
(***************************************************************************)
EXTENDS Naturals, Functions

CONSTANTS
  Users,            (* Accounts that send transactions.                    *)
  Earners,          (* Accounts that only receive.                         *)
  PairAddrs,        (* The accounts of the pairs.                          *)
  Sides,            (* Sides[p][i]: the token that is asset i of pair p.   *)
  Tokens,           (* The tokens that are swapped.                        *)
  Payments          (* What users send along: tokens with amounts.         *)

VARIABLE bank       (* bank[t][a]: the balance of account a in token t.    *)

Owned(t) == SumFunction(bank[t])
Product(p) == bank[Sides[p][0]][p] * bank[Sides[p][1]][p]

Pay(u, paid) ==
  /\ bank[paid.token][u] >= paid.amount
  /\ \A t \in Tokens, v \in Users :
       bank'[t][v] + (IF u = v /\ t = paid.token THEN paid.amount ELSE 0)
         >= bank[t][v]
  /\ \A t \in Tokens, a \in Earners : bank'[t][a] >= bank[t][a]
  /\ \A t \in Tokens : Owned(t)' = Owned(t)
  /\ \A p \in PairAddrs : Product(p)' >= Product(p)

Spec == [][\E u \in Users, paid \in Payments : Pay(u, paid)]_bank
=============================================================================
