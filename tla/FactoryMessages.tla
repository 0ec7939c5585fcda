--------------------------- MODULE FactoryMessages ---------------------------
(***************************************************************************)
(* A create_pair message by message, as the chain executes it: the handler *)
(* only checks and saves, the instantiation of the pair is a submessage,   *)
(* the reply to it lists the pair and sends the messages of the first      *)
(* deposit, and an error in any of them reverts them all.  It is shown to  *)
(* implement module Factory, where the whole of it is one action.          *)
(*                                                                         *)
(* The allowance that the reply gives to the pair is not kept: it is spent *)
(* at once by the message that needs it.  An operator called faulty is a   *)
(* variant that no action uses.                                            *)
(***************************************************************************)
EXTENDS Factory

VARIABLE
  tx      (* The create_pair that is being executed, or None.              *)

(* What a transaction may change, and is put back when it fails. *)
Current == [pairs |-> pairs, tmpPairInfo |-> tmpPairInfo,
            contracts |-> contracts, bank |-> bank]

MessagesInit == Init /\ tx = None

-----------------------------------------------------------------------------
(* Faulty: what an earlier create_pair saved is not saved again.           *)
SavedOnce(u, assets, amounts) ==
  IF tmpPairInfo = None THEN TmpPairInfo(u, assets, amounts) ELSE tmpPairInfo
Saved(u, assets, amounts) == TmpPairInfo(u, assets, amounts)

(* execute_create_pair, when the funds have arrived. *)
HandleCreatePair(u, assets, amounts, funds) ==
  /\ tx = None
  /\ assets[0] # assets[1]
  /\ \A i \in Sides : DecimalsOf(assets[i]) # None
  /\ NotListed(assets)
  /\ \A d \in Natives : bank[d][u] >= funds[d]
  /\ FeeSent(funds)
  /\ tmpPairInfo' = Saved(u, assets, amounts)
  /\ bank' = [t \in Tokens |->
       IF t \in Natives THEN Move(bank[t], u, FactoryAddr, funds[t]) ELSE bank[t]]
  /\ tx' = [before |-> Current,
            queue  |-> <<[does |-> "instantiate",
                          info |-> PairInfo(assets, [i \in Sides |->
                                              DecimalsOf(assets[i])])]>>]
  /\ UNCHANGED <<ownership, config, decimals, pairs, contracts>>

(* Its messages are executed in their order. *)
Executes(does) == tx # None /\ tx.queue # <<>> /\ Head(tx.queue).does = does
ThenExecute(messages) ==
  tx' = [tx EXCEPT !.queue = messages \o Tail(@)]

(* The pair's instantiate: it passes the fee to the token factory for the  *)
(* denom of its shares.  The reply is the next to be executed.             *)
InstantiatePair ==
  LET n == Len(contracts) + 1
  IN  /\ Executes("instantiate")
      /\ n \in Pairs
      /\ bank[FeeDenom][FactoryAddr] >= FeeAmount
      /\ bank' = [bank EXCEPT ![FeeDenom][FactoryAddr] = @ - FeeAmount]
      /\ contracts' = Append(contracts, [info   |-> Head(tx.queue).info,
                                         codeId |-> config.pairCodeId])
      /\ ThenExecute(<<[does |-> "reply", contract |-> n]>>)
      /\ UNCHANGED <<ownership, config, decimals, pairs, tmpPairInfo>>

(* The messages of a first deposit; there are none if both amounts are     *)
(* zero.                                                                   *)
Pull(i) == [does |-> "transfer_from", token |-> tmpPairInfo.assets[i],
            amount |-> tmpPairInfo.amounts[i]]
Pulls(i) == IF tmpPairInfo.assets[i] \in Cw20s THEN <<Pull(i)>> ELSE <<>>
DepositMessages(n) ==
  IF tmpPairInfo.amounts = [i \in Sides |-> 0] THEN <<>>
  ELSE Pulls(0) \o Pulls(1) \o <<[does |-> "provide_liquidity", contract |-> n]>>

(* reply, which knows of the handler only what that has saved. *)
Reply ==
  LET n == Head(tx.queue).contract
  IN  /\ Executes("reply")
      /\ pairs' = [pairs EXCEPT ![tmpPairInfo.key] =
                     [contract |-> n,
                      info |-> PairInfo(tmpPairInfo.assets, tmpPairInfo.decimals)]]
      /\ ThenExecute(DepositMessages(n))
      /\ UNCHANGED <<ownership, config, decimals, tmpPairInfo, contracts, bank>>

(* The CW20 tokens of the first deposit are pulled from its sender ... *)
TransferFrom ==
  LET message == Head(tx.queue)
  IN  /\ Executes("transfer_from")
      /\ bank[message.token][tmpPairInfo.sender] >= message.amount
      /\ bank' = [bank EXCEPT ![message.token] =
                    Move(@, tmpPairInfo.sender, FactoryAddr, message.amount)]
      /\ ThenExecute(<<>>)
      /\ UNCHANGED <<ownership, config, decimals, pairs, tmpPairInfo, contracts>>

(* ... and the factory provides both, coins along with the message.        *)
ProvideLiquidity ==
  LET n       == Head(tx.queue).contract
      assets  == tmpPairInfo.assets
      amounts == tmpPairInfo.amounts
  IN  /\ Executes("provide_liquidity")
      /\ amounts[0] * amounts[1] \in LeastProduct .. GreatestProduct
      /\ \A i \in Sides : bank[assets[i]][FactoryAddr] >= amounts[i]
      /\ bank' = [t \in Tokens |->
           Move(bank[t], FactoryAddr, n, Deposited(t, assets, amounts))]
      /\ ThenExecute(<<>>)
      /\ UNCHANGED <<ownership, config, decimals, pairs, tmpPairInfo, contracts>>

Commit ==
  /\ tx # None /\ tx.queue = <<>>
  /\ tx' = None
  /\ UNCHANGED vars

(* A message has failed, or the gas is used up. *)
Revert ==
  /\ tx # None
  /\ pairs' = tx.before.pairs /\ tmpPairInfo' = tx.before.tmpPairInfo
  /\ contracts' = tx.before.contracts /\ bank' = tx.before.bank
  /\ tx' = None
  /\ UNCHANGED <<ownership, config, decimals>>

-----------------------------------------------------------------------------
MessagesNext ==
  \/ \E u \in Users, assets \in AssetPairs, amounts \in FirstDeposits,
        funds \in Funds :
       HandleCreatePair(u, assets, amounts, funds)
  \/ InstantiatePair
  \/ Reply
  \/ TransferFrom
  \/ ProvideLiquidity
  \/ Commit
  \/ Revert
  \/ tx = None /\ Administration /\ UNCHANGED tx

MessagesSpec == MessagesInit /\ [][MessagesNext]_<<vars, tx>>

-----------------------------------------------------------------------------
(* What everybody else sees: nothing of a transaction before it is over. *)
Visible == IF tx = None THEN Current ELSE tx.before

Whole == INSTANCE Factory WITH
  pairs       <- Visible.pairs,
  tmpPairInfo <- Visible.tmpPairInfo,
  contracts   <- Visible.contracts,
  bank        <- Visible.bank

(* Handler, submessage, reply and messages together are CreatePair: the    *)
(* pair that is listed is the one that was instantiated, with the assets,  *)
(* the sender and the amounts of this create_pair and not of an earlier    *)
(* one, and a creation that fails halfway leaves nothing behind.           *)
ImplementsFactory == Whole!Spec

(* The directory is right whenever somebody can read it. *)
DirectoryIsRight ==
  tx = None => OnePairPerAssets /\ QueryAnswersAskedPair /\ AllPairsListed

PagesAreComplete == tx = None => PagesListAll

(* What the factory owns in coins leaves it in two ways only: to its owner *)
(* of that moment, or as liquidity of a pair that is created, which gets   *)
(* all of it.  No user can make the factory pay the fee of a denom.        *)
CoinsLeaveToOwnerOrPair ==
  [][\A d \in Natives :
       LET lost == Visible.bank[d][FactoryAddr] - Visible'.bank[d][FactoryAddr]
           new  == Len(Visible'.contracts)
       IN  lost > 0 =>
             \/ Visible'.bank[d][owner] = Visible.bank[d][owner] + lost
             \/ /\ new = Len(Visible.contracts) + 1
                /\ Visible'.bank[d][new] >= lost]_<<vars, tx>>
=============================================================================
