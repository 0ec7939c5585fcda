------------------------------- MODULE Router -------------------------------
(***************************************************************************)
(* The choice_router contract, which swaps a user's funds along a route of *)
(* pairs.  Its handler only checks the route and sends messages to itself: *)
(* one for every swap, and one that asserts the minimum.  They are run one *)
(* by one within the same transaction, so a transaction is a sequence of   *)
(* steps here, during which no other is executed; one that fails, or runs  *)
(* out of gas, reverts all of them.                                        *)
(*                                                                         *)
(* The pairs are instances of module Pair that share the balances of the   *)
(* chain; a swap of a route is the action of that module.  An operator     *)
(* called faulty is a variant that no action uses.                         *)
(***************************************************************************)
EXTENDS PairMath, Transfers, Sequences, FiniteSets

CONSTANTS
  Users,            (* Accounts that send transactions.                    *)
  RouterAddr,       (* The account of the contract.                        *)
  PairAddrs,        (* The accounts of the pairs the factory lists.        *)
  Sides,            (* Sides[p][i]: the token that is asset i of pair p.   *)
  Reserves,         (* Reserves[p][i]: what p holds of it at first.        *)
  Tokens,           (* The tokens that are swapped.                        *)
  NativeTokens,     (* Those that are bank denoms; the others are CW20.    *)
  Genesis,          (* Genesis[t][u]: what user u owns of token t.         *)
  FeeWallet, BurnAddr,  (* Where the pairs send their fees.                *)
  Routes,           (* The operations users write: sequences of swaps.     *)
  Payments,         (* What they send along: tokens with amounts.          *)
  Minimums,         (* minimum_receive arguments, and None.                *)
  Recipients,       (* The accounts they name in to.                       *)
  Deadlines,        (* Deadlines, and None.                                *)
  MaxTime,          (* Bounds the clock.                                   *)
  MaxCommitted      (* Bounds the transactions that are committed.         *)

VARIABLES
  bank,       (* bank[t][a]: the balance of account a in token t.          *)
  tx,         (* The transaction that is being executed, or None.          *)
  committed,  (* How many transactions have been executed to their end.    *)
  now         (* env.block.time in seconds.                                *)

vars == <<bank, tx, committed, now>>

Accounts == Users \union PairAddrs \union {RouterAddr, FeeWallet, BurnAddr}

(* The pair p as it was instantiated, acting on the balances of the chain. *)
Pool(p) == INSTANCE Pair WITH
  PairAddr     <- p,
  Users        <- Accounts \ {p, FeeWallet, BurnAddr},
  Receivers    <- {},
  NativeAssets <- {i \in Assets : Sides[p][i] \in NativeTokens},
  Genesis <- <<>>, Amounts <- {}, Prices <- {}, Limits <- {},
  bank   <- [i \in Assets |-> bank[Sides[p][i]]],
  lp     <- [a \in Accounts |-> 0],
  supply <- 0

(* The factory lists at most one pair for two tokens. *)
Lists(p, t, u) == {Sides[p][i] : i \in Assets} = {t, u}

ASSUME RouterAccountsAssumption ==
  /\ Users \intersect PairAddrs = {}
  /\ {RouterAddr, FeeWallet, BurnAddr} \intersect (Users \union PairAddrs) = {}
  /\ RouterAddr # FeeWallet /\ RouterAddr # BurnAddr /\ FeeWallet # BurnAddr
ASSUME RouterPairsAssumption ==
  /\ Sides \in [PairAddrs -> [Assets -> Tokens]]
  /\ \A p \in PairAddrs : Sides[p][0] # Sides[p][1]
  /\ \A p, q \in PairAddrs : Lists(p, Sides[q][0], Sides[q][1]) => p = q
  /\ Reserves \in [PairAddrs -> [Assets -> Nat \ {0}]]
  /\ MaxTime \in Nat /\ MaxCommitted \in Nat
ASSUME RouterInputsAssumption ==
  /\ IsFiniteSet(Users) /\ IsFiniteSet(PairAddrs)
  /\ Genesis \in [Tokens -> [Users -> Nat]]
  /\ Payments \subseteq [token : Tokens, amount : Nat]
  /\ Routes \subseteq Seq([offer : Tokens, ask : Tokens])
  /\ Recipients \subseteq Accounts

-----------------------------------------------------------------------------
(* Routes.  A SwapOperation is a record of an offered and an asked token.  *)

Target(operations) == operations[Len(operations)].ask

(* query_pair_info; an error when the factory lists no such pair. *)
PairOf(op) == CHOOSE p \in PairAddrs : Lists(p, op.offer, op.ask)
SideOf(p, t) == CHOOSE i \in Assets : Sides[p][i] = t

(* assert_operations: what was asked for and not offered again is, in the  *)
(* end, one token.                                                         *)
Outputs(operations) ==
  LET after[n \in 0 .. Len(operations)] ==
        IF n = 0 THEN {}
        ELSE (after[n - 1] \ {operations[n].offer}) \union {operations[n].ask}
  IN  after[Len(operations)]

(* Faulty: any route that ends somewhere is accepted.                      *)
OutputsUncounted(operations) == Outputs(operations) # {}
OneOutput(operations) == Cardinality(Outputs(operations)) = 1

(* Faulty: every pair is asked with what was paid.                         *)
SimulateUncarried(balances, offer, operations) ==
  LET op == operations[Len(operations)]
      p  == PairOf(op)
  IN  ComputeSwap(SideOf(p, op.offer), balances[op.offer][p],
                  balances[op.ask][p], offer).return
(* simulate_swap_operations: each pair is asked with what the one before   *)
(* returned, in the balances of now.                                       *)
SimulateSwapOperations(balances, offer, operations) ==
  LET amount[n \in 0 .. Len(operations)] ==
        IF n = 0 THEN offer
        ELSE LET op == operations[n]
                 p  == PairOf(op)
             IN  ComputeSwap(SideOf(p, op.offer), balances[op.offer][p],
                             balances[op.ask][p], amount[n - 1]).return
  IN  amount[Len(operations)]

(* reverse_simulate_swap_operations: backwards, each pair is asked what it  *)
(* takes to get what the one after it takes.                               *)
ReverseSimulateSwapOperations(balances, ask, operations) ==
  LET amount[n \in 0 .. Len(operations)] ==
        IF n = 0 THEN ask
        ELSE LET op == operations[Len(operations) - n + 1]
                 p  == PairOf(op)
             IN  OfferAmount(balances[op.offer][p], balances[op.ask][p],
                             amount[n - 1]).offer
  IN  amount[Len(operations)]

-----------------------------------------------------------------------------
Init ==
  /\ bank = [t \in Tokens |-> [a \in Accounts |->
       IF a \in Users THEN Genesis[t][a]
       ELSE IF a \in PairAddrs /\ \E i \in Assets : Sides[a][i] = t
            THEN Reserves[a][SideOf(a, t)]
            ELSE 0]]
  /\ tx = None
  /\ committed = 0
  /\ now = 0

(* The messages of a route: every swap but the last pays the router.       *)
(* Faulty: so does the last.                                               *)
MessagesToRouter(operations, to) ==
  [n \in DOMAIN operations |-> [op |-> operations[n], to |-> RouterAddr]]
Messages(operations, to) ==
  [n \in DOMAIN operations |->
     [op |-> operations[n],
      to |-> IF n = Len(operations) THEN to ELSE RouterAddr]]

(* The chain takes the payment from its sender.                            *)
Funded(u, paid) == bank[paid.token][u] >= paid.amount

(* ExecuteSwapOperations, or the Receive hook: the payment has arrived     *)
(* when the handler records the receiver's balance.  A route may be run    *)
(* without a payment, on what the router owns.                             *)
ExecuteSwapOperations(u, paid, operations, minimum, to, deadline) ==
  /\ tx = None /\ committed < MaxCommitted
  /\ Funded(u, paid)
  /\ Len(operations) > 0
  /\ OneOutput(operations)
  /\ bank' = [bank EXCEPT ![paid.token] = Move(@, u, RouterAddr, paid.amount)]
  /\ tx' = [sender     |-> u,
            paid       |-> paid,
            operations |-> operations,
            queue      |-> Messages(operations, to),
            to         |-> to,
            minimum    |-> minimum,
            prev       |-> bank'[Target(operations)][to],
            deadline   |-> deadline,
            before     |-> bank]
  /\ UNCHANGED <<committed, now>>

(* The swap of pair p, without a belief_price and a max_spread. *)
SwapAt(p, i, from, offer, to, deadline) ==
  LET offered  == Sides[p][i]
      asked    == Sides[p][Other(i)]
      received == Move(bank[offered], from, p, offer)
      result   == ComputeSwap(i, Pool(p)!OfferPool(received, offer),
                              bank[asked][p], offer)
      fee      == FeeCut(result.commission)
  IN  /\ bank' = [bank EXCEPT
           ![offered] = received,
           ![asked]   = Pool(p)!PayOut(@, to, result.return, fee, fee)]
      /\ Pool(p)!Swap(from, i, offer, None, None, to, deadline)

(* All the router owns of the offered token goes into the swap. *)
OfferedAmount(t) == bank[t][RouterAddr]

(* The next message of the transaction. *)
ExecuteSwapOperation ==
  /\ tx # None /\ tx.queue # <<>>
  /\ LET message == Head(tx.queue)
         op      == message.op
         amount  == OfferedAmount(op.offer)
     IN  /\ Sendable(op.offer \in NativeTokens, amount)
         /\ \E p \in PairAddrs, i \in Assets :
              /\ Lists(p, op.offer, op.ask) /\ Sides[p][i] = op.offer
              /\ SwapAt(p, i, RouterAddr, amount, message.to, tx.deadline)
  /\ tx' = [tx EXCEPT !.queue = Tail(@)]
  /\ UNCHANGED <<committed, now>>

(* assert_minimum_receive: the last message, if there is a minimum.        *)
(* Faulty: what the receiver owned before counts.                          *)
BalanceReached(prev, balance, minimum) == balance >= minimum
MinimumReached(prev, balance, minimum) ==
  balance >= prev /\ balance - prev >= minimum

Commit ==
  /\ tx # None /\ tx.queue = <<>>
  /\ tx.minimum # None =>
       MinimumReached(tx.prev, bank[Target(tx.operations)][tx.to], tx.minimum)
  /\ tx' = None
  /\ committed' = committed + 1
  /\ UNCHANGED <<bank, now>>

Revert ==
  /\ tx # None
  /\ bank' = tx.before
  /\ tx' = None
  /\ UNCHANGED <<committed, now>>

-----------------------------------------------------------------------------
(* The environment: users trade with the pairs themselves, blocks pass.    *)

(* Tokens reach the router outside a route.  So do, for what a route sees, *)
(* the other coins attached to its message: the handler ignores them.      *)
Send(u, paid) ==
  /\ tx = None /\ committed < MaxCommitted
  /\ Funded(u, paid)
  /\ Sendable(paid.token \in NativeTokens, paid.amount)
  /\ bank' = [bank EXCEPT ![paid.token] = Move(@, u, RouterAddr, paid.amount)]
  /\ committed' = committed + 1
  /\ UNCHANGED <<tx, now>>

Trade(u, p, i, offer) ==
  /\ tx = None /\ committed < MaxCommitted
  /\ Sides[p][i] = offer.token
  /\ Sendable(offer.token \in NativeTokens, offer.amount)
  /\ SwapAt(p, i, u, offer.amount, u, None)
  /\ committed' = committed + 1
  /\ UNCHANGED <<tx, now>>

Tick ==
  /\ tx = None /\ now < MaxTime
  /\ now' = now + 1
  /\ UNCHANGED <<bank, tx, committed>>

-----------------------------------------------------------------------------
Next ==
  \/ \E u \in Users, paid \in Payments, operations \in Routes,
        minimum \in Minimums, to \in Recipients, deadline \in Deadlines :
       ExecuteSwapOperations(u, paid, operations, minimum, to, deadline)
  \/ ExecuteSwapOperation
  \/ Commit
  \/ Revert
  \/ \E u \in Users, p \in PairAddrs, i \in Assets, offer \in Payments :
       Trade(u, p, i, offer)
  \/ \E u \in Users, paid \in Payments : Send(u, paid)
  \/ Tick

Spec == Init /\ [][Next]_vars
=============================================================================
