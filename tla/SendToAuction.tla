--------------------------- MODULE SendToAuction ---------------------------
(***************************************************************************)
(* The choice_send_to_auction contract: whatever token it is sent, it puts *)
(* into the burn auction of the chain's exchange module, which holds coins *)
(* in subaccounts.  A CW20 token is first turned into a coin of its own by *)
(* an adapter contract.  One action is one transaction: the handler and    *)
(* the messages it sends, of which one that fails reverts all.  Exchange   *)
(* and adapter are not part of the repository; they are modelled as the    *)
(* contract uses them.  An operator called faulty is a variant that no     *)
(* action uses.                                                            *)
(***************************************************************************)
EXTENDS Ownership, Transfers

CONSTANTS
  AuctionAddr,         (* The account of the contract.                     *)
  Holders,             (* Accounts that own tokens and send none here.     *)
  Coins, Cw20s,        (* The bank denoms and the CW20 tokens.             *)
  Adapters,            (* The accounts that may be configured as adapter.  *)
  Registered,          (* The adapters and the tokens they convert: pairs. *)
  OwnSubaccount,       (* The contract's subaccount of nonce 1.            *)
  AuctionSubaccounts,  (* The burn auction subaccounts of a configuration. *)
  Genesis,             (* Genesis[t][a]: what is owned at first.           *)
  Funds,               (* The coins users attach to a message.             *)
  Amounts              (* The amounts users write in their messages.       *)

VARIABLES
  adapterContract,        (* config.adapter_contract                       *)
  burnAuctionSubaccount,  (* config.burn_auction_subaccount                *)
  bank,                   (* bank[t][a]: the balance of account a.         *)
  deposits                (* deposits[d][s]: what subaccount s holds of d. *)

config == <<adapterContract, burnAuctionSubaccount>>
vars   == <<ownership, config, bank, deposits>>

(* The coin "factory/<adapter>/<cw20>" that an adapter mints for a token.  *)
Converted(adapter, token) == <<adapter, token>>

Denoms      == Coins \union (Adapters \X Cw20s)
Tokens      == Denoms \union Cw20s
Accounts    == Users \union Holders \union Adapters \union {AuctionAddr}
Subaccounts == AuctionSubaccounts \union {OwnSubaccount}

ASSUME AuctionTokensAssumption ==
  /\ Denoms \intersect Cw20s = {} /\ Coins \intersect (Adapters \X Cw20s) = {}
  /\ Registered \subseteq Adapters \X Cw20s
ASSUME AuctionAccountsAssumption ==
  /\ AuctionAddr \notin Users \union Holders \union Adapters
  /\ Adapters \intersect (Users \union Holders) = {}
  /\ OwnSubaccount \notin AuctionSubaccounts
ASSUME AuctionInputsAssumption ==
  /\ Genesis \in [Tokens -> [Accounts -> Nat]]
  /\ Funds \subseteq [Denoms -> Nat]
  /\ Amounts \subseteq Nat

Init ==
  /\ OwnershipInit
  /\ adapterContract \in Adapters
  /\ burnAuctionSubaccount \in AuctionSubaccounts
  /\ bank = Genesis
  /\ deposits = [d \in Denoms |-> [s \in Subaccounts |-> 0]]

-----------------------------------------------------------------------------
(* send_to_burn_auction, on the balances as the handler finds them: what   *)
(* was attached or sent has already arrived.                               *)

(* Deposit and ExternalTransfer: a coin of the contract goes into its own  *)
(* subaccount, and from there into the auction's.                          *)
(* Faulty: it is deposited and not transferred.                            *)
OnlyDeposited(d, n) == [deposits[d] EXCEPT ![OwnSubaccount] = @ + n]
Auctioned(d, n) ==
  Move([deposits[d] EXCEPT ![OwnSubaccount] = @ + n],
       OwnSubaccount, burnAuctionSubaccount, n)

CanBurn(arrived, d, n) == n > 0 /\ arrived[d][AuctionAddr] >= n

Burn(arrived, d, n) ==
  /\ bank' = [arrived EXCEPT ![d][AuctionAddr] = @ - n]
  /\ deposits' = [deposits EXCEPT ![d] = Auctioned(d, n)]

(* Of the coins attached, the named one has to be there in the amount that *)
(* is written; the others are not looked at.                               *)
(* Faulty: it is enough that some coin is attached.                        *)
SomeFunds(d, n, funds) == \E c \in Denoms : funds[c] > 0
FundsMatch(d, n, funds) == funds[d] > 0 /\ funds[d] = n

(* The CW20 tokens go to the adapter, which mints as many coins for them.  *)
Adapted(arrived, token, n) ==
  LET d == Converted(adapterContract, token)
  IN  [arrived EXCEPT
         ![token] = Move(@, AuctionAddr, adapterContract, n),
         ![d][AuctionAddr] = @ + n]

-----------------------------------------------------------------------------
(* The transactions. *)

(* All coins attached to a message are the contract's before it runs. *)
Attached(u, funds) ==
  [t \in Tokens |-> IF t \in Denoms THEN Move(bank[t], u, AuctionAddr, funds[t])
                                    ELSE bank[t]]

(* Neither the handler nor one of its messages fails. *)
NativeAccepted(u, token, n, funds) ==
  /\ \A d \in Denoms : bank[d][u] >= funds[d]
  /\ token \in Denoms
  /\ FundsMatch(token, n, funds)
  /\ CanBurn(Attached(u, funds), token, n)

SendNative(u, token, n, funds) ==
  /\ NativeAccepted(u, token, n, funds)
  /\ Burn(Attached(u, funds), token, n)
  /\ UNCHANGED <<ownership, config>>

(* The Receive hook of a token contract, to which u has said Send. *)
Received(u, token, n) == [bank EXCEPT ![token] = Move(@, u, AuctionAddr, n)]

Cw20Accepted(u, token, n) ==
  /\ bank[token][u] >= n
  /\ <<adapterContract, token>> \in Registered
  /\ Received(u, token, n)[token][AuctionAddr] >= n
  /\ CanBurn(Adapted(Received(u, token, n), token, n),
             Converted(adapterContract, token), n)

ReceiveCw20(u, token, n) ==
  /\ Cw20Accepted(u, token, n)
  /\ Burn(Adapted(Received(u, token, n), token, n),
          Converted(adapterContract, token), n)
  /\ UNCHANGED <<ownership, config>>

Given(option, otherwise) == IF option = None THEN otherwise ELSE option

UpdateConfig(u, adapter, subaccount) ==
  /\ IsOwner(u)
  /\ adapterContract' = Given(adapter, adapterContract)
  /\ burnAuctionSubaccount' = Given(subaccount, burnAuctionSubaccount)
  /\ UNCHANGED <<ownership, bank, deposits>>

(* Plain transfers to the contract, which do not run it. *)
Transfer(u, token, n) ==
  /\ n > 0 /\ bank[token][u] >= n
  /\ bank' = [bank EXCEPT ![token] = Move(@, u, AuctionAddr, n)]
  /\ UNCHANGED <<ownership, config, deposits>>

Next ==
  \/ \E u \in Users, token \in Tokens, n \in Amounts :
       \/ \E funds \in Funds : SendNative(u, token, n, funds)
       \/ token \in Cw20s /\ ReceiveCw20(u, token, n)
       \/ Transfer(u, token, n)
  \/ \E u \in Users, adapter \in Adapters \union {None},
        subaccount \in AuctionSubaccounts \union {None} :
       UpdateConfig(u, adapter, subaccount)
  \/ OwnershipNext /\ UNCHANGED <<config, bank, deposits>>

Spec == Init /\ [][Next]_vars

-----------------------------------------------------------------------------
TypeOK ==
  /\ adapterContract \in Adapters
  /\ burnAuctionSubaccount \in AuctionSubaccounts
  /\ bank \in [Tokens -> [Accounts -> Nat]]
  /\ deposits \in [Denoms -> [Subaccounts -> Nat]]

(* What is deposited on the way is transferred in full: nothing is ever    *)
(* left in the contract's own subaccount, out of which no message pays.    *)
OwnSubaccountEmpty == \A d \in Denoms : deposits[d][OwnSubaccount] = 0

Basket == INSTANCE BurnBasket WITH
  held     <- [t \in Tokens |-> bank[t][AuctionAddr]],
  proceeds <- [d \in Denoms |-> [s \in AuctionSubaccounts |-> deposits[d][s]]]

(* The contract keeps the promise of BurnBasket: what it forwards is what  *)
(* arrived in the same transaction, in one coin and to one auction, and    *)
(* what others have left with it never pays for them.                      *)
ImplementsBasket == Basket!Spec
=============================================================================
