-------------------------- MODULE RouterProperties --------------------------
(***************************************************************************)
(* What makes the choice_router correct.                                   *)
(***************************************************************************)
EXTENDS Router

(* The balances in token t right after the payment of the transaction. *)
AfterPaying(t) ==
  Move(tx.before[t], tx.sender, RouterAddr,
       IF t = tx.paid.token THEN tx.paid.amount ELSE 0)

(* What the receiver has gained of the token the route ends in. *)
Gained ==
  LET t == Target(tx.operations) IN bank[t][tx.to] - AfterPaying(t)[tx.to]

Offered == {tx.operations[n].offer : n \in DOMAIN tx.operations}
Asked   == {tx.operations[n].ask : n \in DOMAIN tx.operations}

(* Each swap offers what the one before it asked for, and the first one    *)
(* what was paid.                                                          *)
Connected ==
  /\ tx.operations[1].offer = tx.paid.token
  /\ \A n \in 2 .. Len(tx.operations) :
       tx.operations[n].offer = tx.operations[n - 1].ask

(* No pair is visited twice. *)
PairsDiffer ==
  \A m, n \in DOMAIN tx.operations :
    m # n => PairOf(tx.operations[m]) # PairOf(tx.operations[n])

Committed == committed' # committed /\ tx # None

-----------------------------------------------------------------------------
(* A transaction with a minimum_receive commits only if its receiver got   *)
(* that much out of it, counted from the moment he had paid: also when the *)
(* route returns to the token he paid in, and whatever he owned before.    *)
MinimumReceived ==
  [][Committed /\ tx.minimum # None => Gained >= tx.minimum]_vars

(* A connected route leaves nothing behind: all that was paid or returned  *)
(* on the way has been swapped on, and the rest of the router's balances   *)
(* is as it was.                                                           *)
NothingLeftBehind ==
  [][Committed /\ Connected /\ tx.to # RouterAddr =>
       \A t \in Tokens :
         bank[t][RouterAddr] =
           IF t \in Offered THEN 0 ELSE tx.before[t][RouterAddr]]_vars

(* "The contract will check whether the resulting token is swapped into    *)
(* one token": of all accepted routes, connected or not, the router is     *)
(* left with no token that a swap returned, but the one the route ends in. *)
SwappedIntoOneToken ==
  [][Committed =>
       \A t \in Asked \ {Target(tx.operations)} : bank[t][RouterAddr] = 0]_vars

(* No swap asks for an asset that has fewer decimals than the offered one, *)
(* so that no amount of the route is rounded to them.                      *)
DecimalsKept ==
  \A n \in DOMAIN tx.operations :
    LET op == tx.operations[n]
    IN  Scale[Other(SideOf(PairOf(op), op.offer))] = 1

(* A connected route over different pairs pays a user exactly what the     *)
(* simulation query answers before it, if the router owns nothing that it  *)
(* offers: neither the payment nor the swaps of the route change what the  *)
(* next pair of it was asked.  And the reverse query, asked for what was   *)
(* paid out, never answers that it takes more than what was paid in, if no *)
(* swap rounds to fewer decimals, of which that query knows nothing.       *)
SimulationExact ==
  [][ /\ Committed /\ Connected /\ PairsDiffer /\ tx.to \in Users
      /\ \A t \in Offered : tx.before[t][RouterAddr] = 0
      => /\ Gained = SimulateSwapOperations(tx.before, tx.paid.amount,
                                            tx.operations)
         /\ DecimalsKept =>
              ReverseSimulateSwapOperations(tx.before, Gained, tx.operations)
                <= tx.paid.amount]_vars

(* The balances that everybody else sees: those before a transaction,      *)
(* until it is over.                                                       *)
Settled == INSTANCE Exchange WITH
  Earners <- {FeeWallet, BurnAddr},
  bank    <- IF tx = None THEN bank ELSE tx.before

(* Handler, swaps and assertion together are one exchange: whatever the    *)
(* route is, the tokens of others, of the wallets and of the pairs are     *)
(* safe from it, and one that fails on the way has not happened.           *)
ImplementsExchange == Settled!Spec
=============================================================================
