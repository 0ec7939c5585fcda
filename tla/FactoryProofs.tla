---------------------------- MODULE FactoryProofs ----------------------------
(***************************************************************************)
(* Proofs about the choice_factory, message by message: a creation is one  *)
(* action to everybody else, its coins and its ownership do not get lost,  *)
(* its directory is right if no two pairs of tokens run together to the    *)
(* same key, and reading it page by page skips no pair.                    *)
(***************************************************************************)
EXTENDS FactoryMessages, SequenceTheorems, ArithmeticProofs

(* What a proof about the directory has to assume of the names of tokens.  *)
(* pair_key does not see to it: run factory_collision shows names that     *)
(* break it.                                                               *)
KeysUnambiguous ==
  \A a, b \in AssetPairs : PairKey(a) = PairKey(b) <=> SameAssets(a, b)

-----------------------------------------------------------------------------
(* The transfer of ownership.                                              *)

(* An open proposal is the last one that the owner of now has made.        *)
ProposalIsOwners ==
  proposedOwner # None => consent = {<<owner, proposedOwner>>}

LEMMA ProposalStaysOwners ==
  ASSUME ProposalIsOwners, OwnershipNext \/ UNCHANGED ownership
  PROVE  ProposalIsOwners' /\ (owner' # owner => <<owner, owner'>> \in consent)
<1>1. ASSUME NEW u \in Users, NEW new \in Users, ProposeNewOwner(u, new)
      PROVE  ProposalIsOwners' /\ owner' = owner
  BY <1>1 DEF ProposeNewOwner, IsOwner, ProposalIsOwners
<1>2. ASSUME NEW u \in Users, AcceptOwnership(u)
      PROVE  ProposalIsOwners' /\ <<owner, owner'>> \in consent
  BY <1>2, UsersAssumption DEF AcceptOwnership, ProposalIsOwners
<1>3. ASSUME NEW u \in Users, CancelOwnershipProposal(u)
      PROVE  ProposalIsOwners' /\ owner' = owner
  BY <1>3 DEF CancelOwnershipProposal, ProposalIsOwners
<1>4. ASSUME UNCHANGED ownership
      PROVE  ProposalIsOwners' /\ owner' = owner
  BY <1>4 DEF ownership, ProposalIsOwners
<1> QED  BY <1>1, <1>2, <1>3, <1>4 DEF OwnershipNext

LEMMA MessagesTouchOwnership ==
  ASSUME [MessagesNext]_<<vars, tx>>
  PROVE  OwnershipNext \/ UNCHANGED ownership
  BY DEF MessagesNext, HandleCreatePair, InstantiatePair, Reply, TransferFrom,
         ProvideLiquidity, Commit, Revert, Administration,
         AddNativeTokenDecimals, UpdateConfig, MigratePair, WithdrawNative,
         Send, vars, ownership

(* The owner of the factory changes only by an offer of the owner of that  *)
(* moment, neither taken back nor replaced, whoever else is trading: the   *)
(* two steps of execute_propose_new_owner and execute_accept_ownership.    *)
THEOREM FactoryHandedOver == MessagesSpec => HandedOver
<1>1. MessagesInit => ProposalIsOwners
  BY DEF MessagesInit, Init, OwnershipInit, ProposalIsOwners
<1>2. ProposalIsOwners /\ [MessagesNext]_<<vars, tx>>
        => /\ ProposalIsOwners'
           /\ [owner' # owner => <<owner, owner'>> \in consent]_ownership
  BY MessagesTouchOwnership, ProposalStaysOwners
<1> QED  BY <1>1, <1>2, PTL DEF MessagesSpec, HandedOver

-----------------------------------------------------------------------------
(* The directory.                                                          *)

Contract == [info : Info, codeId : CodeIds]
Listings == [Keys -> [contract : Pairs, info : Info] \union {None}]

(* A directory P of the contracts C: each of them is listed under its key, *)
(* and each entry is under the key of what it lists.                       *)
Describes(P, C) ==
  /\ P \in Listings
  /\ C \in Seq(Contract)
  /\ \A n \in DOMAIN C :
       P[PairKey(C[n].info.assets)] = [contract |-> n, info |-> C[n].info]
  /\ \A key \in Keys : P[key] # None => PairKey(P[key].info.assets) = key

LEMMA KeysAreKeys ==
  ASSUME NEW assets \in AssetPairs
  PROVE  PairKey(assets) \in Keys
  BY DEF Keys

(* The pair that is listed next gets the next number and a free key.       *)
LEMMA NextDescribed ==
  ASSUME NEW P, NEW C, Describes(P, C),
         NEW c \in Contract, Len(C) + 1 \in Pairs,
         P[PairKey(c.info.assets)] = None
  PROVE  Describes([P EXCEPT ![PairKey(c.info.assets)] =
                      [contract |-> Len(C) + 1, info |-> c.info]],
                   Append(C, c))
<1> DEFINE key == PairKey(c.info.assets)
           n   == Len(C) + 1
           entry == [contract |-> n, info |-> c.info]
           Q   == [P EXCEPT ![key] = entry]
           D   == Append(C, c)
<1>1. /\ P \in Listings /\ C \in Seq(Contract)
      /\ \A m \in DOMAIN C :
           P[PairKey(C[m].info.assets)] = [contract |-> m, info |-> C[m].info]
      /\ \A k \in Keys : P[k] # None => PairKey(P[k].info.assets) = k
  BY DEF Describes
<1>2. c.info \in Info /\ c.info.assets \in AssetPairs /\ key \in Keys
  BY KeysAreKeys DEF Contract, Info
<1>3. entry \in [contract : Pairs, info : Info]
  BY <1>2
<1>4. Q \in Listings /\ Q[key] = entry /\ \A k \in Keys \ {key} : Q[k] = P[k]
  BY <1>1, <1>2, <1>3 DEF Listings
<1>5. D \in Seq(Contract) /\ DOMAIN D = DOMAIN C \union {n} /\ D[n] = c
      /\ \A m \in DOMAIN C : D[m] = C[m]
  BY <1>1
<1>6. ASSUME NEW m \in DOMAIN D
      PROVE  Q[PairKey(D[m].info.assets)] = [contract |-> m, info |-> D[m].info]
  <2>1. CASE m \in DOMAIN C
    <3>1. C[m] \in Contract /\ m \in Pairs
      BY <1>1, <2>1, FactoryNamesAssumption DEF Pairs
    <3>2. /\ PairKey(C[m].info.assets) \in Keys
          /\ P[PairKey(C[m].info.assets)] = [contract |-> m, info |-> C[m].info]
      BY <1>1, <2>1, <3>1, KeysAreKeys DEF Contract, Info
    <3>3. [contract |-> m, info |-> C[m].info] # None
      BY <3>1, FactoryTypesAssumption DEF Contract
    <3>4. PairKey(C[m].info.assets) # key
      BY <3>2, <3>3
    <3> QED  BY <1>4, <1>5, <2>1, <3>2, <3>4
  <2>2. CASE m = n
    BY <1>4, <1>5, <2>2
  <2> QED  BY <1>5, <2>1, <2>2
<1>7. ASSUME NEW k \in Keys, Q[k] # None
      PROVE  PairKey(Q[k].info.assets) = k
  BY <1>1, <1>4, <1>7
<1> QED  BY <1>4, <1>5, <1>6, <1>7 DEF Describes

(* None is told from any transaction. *)
NoneIsNoTransaction ==
  \A before, queue : [before |-> before, queue |-> queue] # None

(* While a transaction is executed, the directory it began with is right,  *)
(* and so is the one it has made so far; a pair that is instantiated and   *)
(* not yet listed is the last one, and its key is free.                    *)
Saves ==
  /\ tmpPairInfo.assets \in AssetPairs
  /\ tmpPairInfo.amounts \in [Sides -> Nat]
  /\ tmpPairInfo.decimals \in [Sides -> Nat]
  /\ tmpPairInfo.key = PairKey(tmpPairInfo.assets)

SavedInfo == PairInfo(tmpPairInfo.assets, tmpPairInfo.decimals)

Instantiating ==
  /\ Saves
  /\ tx.queue = <<[does |-> "instantiate", info |-> SavedInfo]>>
  /\ Describes(pairs, contracts)
  /\ pairs[tmpPairInfo.key] = None

Replying ==
  \E C \in Seq(Contract), codeId \in CodeIds :
    /\ Saves
    /\ Len(C) + 1 \in Pairs
    /\ tx.queue = <<[does |-> "reply", contract |-> Len(C) + 1]>>
    /\ Describes(pairs, C)
    /\ contracts = Append(C, [info |-> SavedInfo, codeId |-> codeId])
    /\ pairs[tmpPairInfo.key] = None

DepositMessage ==
  [does : {"transfer_from"}, token : Tokens, amount : Nat]
    \union [does : {"provide_liquidity"}, contract : Pairs]

Depositing ==
  /\ tx.queue \in Seq(DepositMessage)
  /\ Describes(pairs, contracts)

DirectoryKept ==
  /\ config \in [pairCodeId : CodeIds, burnAddress : Burners, feeWallet : Wallets]
  /\ decimals \in [Natives -> Nat \union {None}]
  /\ tx = None => Describes(pairs, contracts)
  /\ tx # None => /\ tx = [before |-> tx.before, queue |-> tx.queue]
                  /\ Describes(tx.before.pairs, tx.before.contracts)
                  /\ Instantiating \/ Replying \/ Depositing

LEMMA KeptAtFirst ==
  ASSUME MessagesInit
  PROVE  DirectoryKept
<1>1. /\ config \in [pairCodeId : CodeIds, burnAddress : Burners, feeWallet : Wallets]
      /\ decimals = [d \in Natives |-> None] /\ tx = None
      /\ pairs = [key \in Keys |-> None] /\ contracts = <<>>
  BY DEF MessagesInit, Init
<1>2. Describes(pairs, contracts)
  BY <1>1 DEF Describes, Listings
<1> QED  BY <1>1, <1>2 DEF DirectoryKept

LEMMA InfoIsInfo ==
  ASSUME DirectoryKept, NEW assets \in AssetPairs,
         NEW assetDecimals \in [Sides -> Nat]
  PROVE  PairInfo(assets, assetDecimals) \in Info
  BY DEF DirectoryKept, PairInfo, Info

LEMMA HandlerKeeps ==
  ASSUME DirectoryKept, NEW u \in Users, NEW assets \in AssetPairs,
         NEW amounts \in FirstDeposits, NEW funds \in Funds,
         HandleCreatePair(u, assets, amounts, funds)
  PROVE  DirectoryKept'
<1> DEFINE given == [i \in Sides |-> DecimalsOf(assets[i])]
<1>1. /\ config' = config /\ decimals' = decimals
      /\ pairs' = pairs /\ contracts' = contracts
      /\ tmpPairInfo' = TmpPairInfo(u, assets, amounts)
      /\ tx = None /\ NotListed(assets)
      /\ \A i \in Sides : DecimalsOf(assets[i]) # None
      /\ tx' = [before |-> Current,
                queue  |-> <<[does |-> "instantiate",
                              info |-> PairInfo(assets, given)]>>]
  BY DEF HandleCreatePair, Saved
<1>2. Describes(pairs, contracts)
  BY <1>1 DEF DirectoryKept
<1>3. given \in [Sides -> Nat]
  <2>1. ASSUME NEW i \in Sides
        PROVE  DecimalsOf(assets[i]) \in Nat
    <3>1. assets[i] \in Natives \/ assets[i] \in Cw20s
      BY DEF AssetPairs, Tokens
    <3> QED  BY <1>1, <3>1, FactoryTypesAssumption
             DEF DecimalsOf, DirectoryKept
  <2> QED  BY <2>1
<1>4. Saves'
  BY <1>1, <1>3, FactoryTypesAssumption DEF Saves, TmpPairInfo
<1>5. pairs'[tmpPairInfo'.key] = None
  BY <1>1 DEF NotListed, TmpPairInfo
<1>6. SavedInfo' = PairInfo(assets, given)
  BY <1>1 DEF SavedInfo, PairInfo, TmpPairInfo
<1>7. Instantiating'
  BY <1>1, <1>2, <1>4, <1>5, <1>6 DEF Instantiating
<1>8. /\ tx' = [before |-> tx'.before, queue |-> tx'.queue]
      /\ tx'.before.pairs = pairs /\ tx'.before.contracts = contracts
  BY <1>1 DEF Current
<1> QED  BY <1>1, <1>2, <1>7, <1>8 DEF DirectoryKept

(* Which message is next tells how far the transaction is. *)
LEMMA StageOfMessage ==
  ASSUME DirectoryKept, tx # None
  PROVE  /\ Executes("instantiate") => Instantiating
         /\ Executes("reply") => Replying
         /\ Executes("transfer_from") => Depositing
         /\ Executes("provide_liquidity") => Depositing
<1>1. Instantiating => tx.queue # <<>> /\ Head(tx.queue).does = "instantiate"
  BY DEF Instantiating
<1>2. Replying => tx.queue # <<>> /\ Head(tx.queue).does = "reply"
  BY DEF Replying
<1>3. Depositing /\ tx.queue # <<>>
        => Head(tx.queue).does \in {"transfer_from", "provide_liquidity"}
  BY DEF Depositing, DepositMessage
<1> QED  BY <1>1, <1>2, <1>3 DEF DirectoryKept, Executes

LEMMA InstantiationKeeps ==
  ASSUME NoneIsNoTransaction, DirectoryKept, InstantiatePair
  PROVE  DirectoryKept'
<1> DEFINE n == Len(contracts) + 1
<1>1. /\ config' = config /\ decimals' = decimals /\ pairs' = pairs
      /\ tmpPairInfo' = tmpPairInfo
      /\ tx # None /\ Executes("instantiate") /\ n \in Pairs
      /\ contracts' = Append(contracts, [info   |-> Head(tx.queue).info,
                                         codeId |-> config.pairCodeId])
      /\ tx' = [tx EXCEPT !.queue =
                  <<[does |-> "reply", contract |-> n]>> \o Tail(@)]
  BY DEF InstantiatePair, Executes, ThenExecute
<1>2. Instantiating
  BY <1>1, StageOfMessage
<1>3. /\ Saves
      /\ tx.queue = <<[does |-> "instantiate", info |-> SavedInfo]>>
      /\ Describes(pairs, contracts)
      /\ pairs[tmpPairInfo.key] = None
  BY <1>2 DEF Instantiating
<1>4. Tail(tx.queue) = <<>> /\ Head(tx.queue).info = SavedInfo
  BY <1>3
<1>5. <<[does |-> "reply", contract |-> n]>> \o <<>>
        = <<[does |-> "reply", contract |-> n]>>
  OBVIOUS
<1>6. tx' = [before |-> tx.before,
             queue  |-> <<[does |-> "reply", contract |-> n]>>]
  BY <1>1, <1>4, <1>5 DEF DirectoryKept
<1>7. Saves' /\ SavedInfo' = SavedInfo
  BY <1>1, <1>3 DEF Saves, SavedInfo, PairInfo
<1>8. Replying'
  <2>1. contracts \in Seq(Contract) /\ config.pairCodeId \in CodeIds
    BY <1>3 DEF Describes, DirectoryKept
  <2>2. /\ Saves' /\ Len(contracts) + 1 \in Pairs
        /\ tx'.queue = <<[does |-> "reply", contract |-> Len(contracts) + 1]>>
        /\ Describes(pairs', contracts)
        /\ contracts' = Append(contracts, [info   |-> SavedInfo',
                                           codeId |-> config.pairCodeId])
        /\ pairs'[tmpPairInfo'.key] = None
    BY <1>1, <1>3, <1>4, <1>6, <1>7
  <2> QED  BY <2>1, <2>2 DEF Replying
<1>9. Describes(tx.before.pairs, tx.before.contracts)
  BY <1>1 DEF DirectoryKept
<1> QED  BY <1>1, <1>6, <1>8, <1>9
         DEF DirectoryKept, NoneIsNoTransaction

LEMMA MessagesOfDeposit ==
  ASSUME Saves, NEW n \in Pairs
  PROVE  DepositMessages(n) \in Seq(DepositMessage)
<1>1. ASSUME NEW i \in Sides
      PROVE  Pulls(i) \in Seq(DepositMessage)
  <2>1. Pull(i) \in DepositMessage
    BY DEF Saves, Pull, DepositMessage, AssetPairs
  <2> QED  BY <2>1 DEF Pulls
<1>2. <<[does |-> "provide_liquidity", contract |-> n]>> \in Seq(DepositMessage)
  BY DEF DepositMessage
<1>3. Pulls(0) \o Pulls(1) \in Seq(DepositMessage)
  BY <1>1 DEF Sides
<1> QED  BY <1>2, <1>3 DEF DepositMessages

LEMMA ReplyKeeps ==
  ASSUME NoneIsNoTransaction, DirectoryKept, Reply
  PROVE  DirectoryKept'
<1> DEFINE n == Head(tx.queue).contract
<1>1. /\ config' = config /\ decimals' = decimals /\ contracts' = contracts
      /\ tx # None /\ Executes("reply")
      /\ pairs' = [pairs EXCEPT ![tmpPairInfo.key] =
                     [contract |-> n, info |-> SavedInfo]]
      /\ tx' = [tx EXCEPT !.queue = DepositMessages(n) \o Tail(@)]
  BY DEF Reply, Executes, ThenExecute, SavedInfo
<1>2. Replying
  BY <1>1, StageOfMessage
<1>3. PICK C \in Seq(Contract), codeId \in CodeIds :
        /\ Saves
        /\ Len(C) + 1 \in Pairs
        /\ tx.queue = <<[does |-> "reply", contract |-> Len(C) + 1]>>
        /\ Describes(pairs, C)
        /\ contracts = Append(C, [info |-> SavedInfo, codeId |-> codeId])
        /\ pairs[tmpPairInfo.key] = None
  BY <1>2 DEF Replying
<1> DEFINE c == [info |-> SavedInfo, codeId |-> codeId]
<1>4. c \in Contract /\ tmpPairInfo.key = PairKey(c.info.assets)
  BY <1>3, InfoIsInfo DEF Saves, SavedInfo, Contract, PairInfo
<1>5. Tail(tx.queue) = <<>> /\ n = Len(C) + 1
  BY <1>3
<1>6. Describes(pairs', contracts')
  <2>1. Describes([pairs EXCEPT ![PairKey(c.info.assets)] =
                     [contract |-> Len(C) + 1, info |-> c.info]], Append(C, c))
    BY <1>3, <1>4, NextDescribed
  <2> QED  BY <1>1, <1>3, <1>4, <1>5, <2>1
<1>7. DepositMessages(n) \o <<>> \in Seq(DepositMessage)
  BY <1>3, <1>5, MessagesOfDeposit
<1>8. tx' = [before |-> tx.before, queue |-> DepositMessages(n) \o <<>>]
  BY <1>1, <1>5 DEF DirectoryKept
<1>9. Depositing'
  BY <1>6, <1>7, <1>8 DEF Depositing
<1>10. Describes(tx.before.pairs, tx.before.contracts)
  BY <1>1 DEF DirectoryKept
<1> QED  BY <1>1, <1>8, <1>9, <1>10
         DEF DirectoryKept, NoneIsNoTransaction

LEMMA DepositKeeps ==
  ASSUME NoneIsNoTransaction, DirectoryKept, TransferFrom \/ ProvideLiquidity
  PROVE  DirectoryKept'
<1>1. /\ config' = config /\ decimals' = decimals /\ contracts' = contracts
      /\ pairs' = pairs
      /\ tx # None /\ (Executes("transfer_from") \/ Executes("provide_liquidity"))
      /\ tx.queue # <<>>
      /\ tx' = [tx EXCEPT !.queue = <<>> \o Tail(@)]
  BY DEF TransferFrom, ProvideLiquidity, Executes, ThenExecute
<1>2. tx.queue \in Seq(DepositMessage) /\ Describes(pairs, contracts)
  BY <1>1, StageOfMessage DEF Depositing
<1>3. <<>> \o Tail(tx.queue) \in Seq(DepositMessage)
  BY <1>1, <1>2
<1>4. tx' = [before |-> tx.before, queue |-> <<>> \o Tail(tx.queue)]
  BY <1>1 DEF DirectoryKept
<1>5. Depositing'
  BY <1>1, <1>2, <1>3, <1>4 DEF Depositing
<1>6. Describes(tx.before.pairs, tx.before.contracts)
  BY <1>1 DEF DirectoryKept
<1> QED  BY <1>1, <1>4, <1>5, <1>6
         DEF DirectoryKept, NoneIsNoTransaction

LEMMA EndKeeps ==
  ASSUME DirectoryKept, Commit \/ Revert
  PROVE  DirectoryKept'
<1>1. /\ config' = config /\ decimals' = decimals
      /\ tx # None /\ tx' = None
  BY DEF Commit, Revert, vars, factory
<1>2. CASE Commit
  <2>1. tx.queue = <<>> /\ pairs' = pairs /\ contracts' = contracts
    BY <1>2 DEF Commit, vars, factory
  <2>2. ~Instantiating /\ ~Replying
    BY <2>1 DEF Instantiating, Replying
  <2>3. Describes(pairs, contracts)
    BY <1>1, <2>2 DEF DirectoryKept, Depositing
  <2> QED  BY <1>1, <2>1, <2>3 DEF DirectoryKept
<1>3. CASE Revert
  <2>1. Describes(pairs', contracts')
    BY <1>1, <1>3 DEF Revert, DirectoryKept
  <2> QED  BY <1>1, <2>1 DEF DirectoryKept
<1> QED  BY <1>2, <1>3

LEMMA MigrationKeeps ==
  ASSUME DirectoryKept, tx = None, tx' = tx,
         NEW u \in Users, NEW n \in DOMAIN contracts,
         NEW codeId \in CodeIds \union {None}, MigratePair(u, n, codeId)
  PROVE  DirectoryKept'
<1> DEFINE new == Given(codeId, config.pairCodeId)
<1> DEFINE c == [info |-> contracts[n].info, codeId |-> new]
<1>1. /\ config' = config /\ decimals' = decimals /\ pairs' = pairs
      /\ contracts' = [contracts EXCEPT ![n] = c]
  BY DEF MigratePair
<1>2. Describes(pairs, contracts) /\ new \in CodeIds
  BY DEF DirectoryKept, Given
<1>3. contracts \in Seq(Contract)
  BY <1>2 DEF Describes
<1>4. contracts[n] \in Contract
  BY <1>3
<1>5. c \in Contract /\ c.info = contracts[n].info
  BY <1>2, <1>4 DEF Contract
<1> HIDE DEF c
<1>6. /\ contracts' \in Seq(Contract) /\ DOMAIN contracts' = DOMAIN contracts
      /\ \A m \in DOMAIN contracts : contracts'[m].info = contracts[m].info
  BY <1>1, <1>3, <1>5
<1>7. Describes(pairs', contracts')
  BY <1>1, <1>2, <1>6 DEF Describes
<1> QED  BY <1>1, <1>7 DEF DirectoryKept

LEMMA AdministrationKeeps ==
  ASSUME DirectoryKept, tx = None, tx' = tx, Administration
  PROVE  DirectoryKept'
<1>1. ASSUME NEW u \in Users, NEW d \in Natives, NEW n \in Decimals,
             AddNativeTokenDecimals(u, d, n)
      PROVE  DirectoryKept'
  <2>1. /\ config' = config /\ pairs' = pairs /\ contracts' = contracts
        /\ decimals' \in [Natives -> Nat \union {None}]
    BY <1>1, FactoryTypesAssumption DEF AddNativeTokenDecimals, DirectoryKept
  <2> QED  BY <2>1 DEF DirectoryKept
<1>2. ASSUME NEW u \in Users, NEW codeId \in CodeIds \union {None},
             NEW burner \in Burners \union {None},
             NEW wallet \in Wallets \union {None},
             UpdateConfig(u, codeId, burner, wallet)
      PROVE  DirectoryKept'
  BY <1>2 DEF UpdateConfig, Given, DirectoryKept
<1>3. ASSUME NEW u \in Users, NEW n \in DOMAIN contracts,
             NEW codeId \in CodeIds \union {None}, MigratePair(u, n, codeId)
      PROVE  DirectoryKept'
  BY <1>3, MigrationKeeps
<1>4. ASSUME \/ \E u \in Users, d \in Natives : WithdrawNative(u, d, 1) \/ Send(u, d, 1)
             \/ UNCHANGED factory
      PROVE  DirectoryKept'
  <2>1. /\ config' = config /\ decimals' = decimals
        /\ pairs' = pairs /\ contracts' = contracts
    BY <1>4 DEF WithdrawNative, Send, factory
  <2> QED  BY <2>1 DEF DirectoryKept
<1> QED  BY <1>1, <1>2, <1>3, <1>4 DEF Administration

LEMMA StepKeeps ==
  ASSUME NoneIsNoTransaction, DirectoryKept, [MessagesNext]_<<vars, tx>>
  PROVE  DirectoryKept'
<1>1. ASSUME UNCHANGED <<vars, tx>>
      PROVE  DirectoryKept'
  <2>1. /\ config' = config /\ decimals' = decimals /\ pairs' = pairs
        /\ contracts' = contracts /\ tmpPairInfo' = tmpPairInfo /\ tx' = tx
    BY <1>1 DEF vars, factory
  <2> QED  BY <2>1 DEF DirectoryKept, Instantiating, Replying, Depositing,
                       Saves, SavedInfo, PairInfo
<1>2. ASSUME tx = None, Administration, UNCHANGED tx
      PROVE  DirectoryKept'
  BY <1>2, AdministrationKeeps
<1> QED  BY <1>1, <1>2, HandlerKeeps, InstantiationKeeps, ReplyKeeps,
            DepositKeeps, EndKeeps DEF MessagesNext

-----------------------------------------------------------------------------
LEMMA KeptIsRight ==
  ASSUME KeysUnambiguous, DirectoryKept
  PROVE  DirectoryIsRight
<1> SUFFICES ASSUME tx = None
             PROVE  OnePairPerAssets /\ QueryAnswersAskedPair /\ AllPairsListed
  BY DEF DirectoryIsRight
<1>1. /\ pairs \in Listings
      /\ contracts \in Seq(Contract)
      /\ \A n \in DOMAIN contracts :
           pairs[PairKey(contracts[n].info.assets)] =
             [contract |-> n, info |-> contracts[n].info]
      /\ \A key \in Keys :
           pairs[key] # None => PairKey(pairs[key].info.assets) = key
  BY DEF DirectoryKept, Describes
<1>2. AllPairsListed
  BY <1>1 DEF AllPairsListed
<1>3. ASSUME NEW m \in DOMAIN contracts, NEW n \in DOMAIN contracts,
             SameAssets(contracts[m].info.assets, contracts[n].info.assets)
      PROVE  m = n
  <2>1. /\ contracts[m].info.assets \in AssetPairs
        /\ contracts[n].info.assets \in AssetPairs
    <3>1. contracts[m] \in Contract /\ contracts[n] \in Contract
      BY <1>1
    <3> QED  BY <3>1 DEF Contract, Info
  <2>2. PairKey(contracts[m].info.assets) = PairKey(contracts[n].info.assets)
    BY <1>3, <2>1 DEF KeysUnambiguous
  <2>3. [contract |-> m, info |-> contracts[m].info].contract
          = [contract |-> n, info |-> contracts[n].info].contract
    BY <1>1, <2>2
  <2> QED  BY <2>3
<1>4. ASSUME NEW assets \in AssetPairs, ~NotListed(assets)
      PROVE  SameAssets(pairs[PairKey(assets)].info.assets, assets)
  <2>1. PairKey(assets) \in Keys /\ pairs[PairKey(assets)] # None
    BY <1>4, KeysAreKeys DEF NotListed
  <2>2. pairs[PairKey(assets)].info.assets \in AssetPairs
    BY <1>1, <2>1 DEF Listings, Info
  <2>3. PairKey(pairs[PairKey(assets)].info.assets) = PairKey(assets)
    BY <1>1, <2>1
  <2> QED  BY <2>2, <2>3 DEF KeysUnambiguous
<1> QED  BY <1>2, <1>3, <1>4 DEF OnePairPerAssets, QueryAnswersAskedPair

(* If no two pairs of tokens have the same key, then whenever a query can  *)
(* read it, the directory lists every pair that create_pair and reply have *)
(* made, as it was instantiated, once for two tokens, and under no other   *)
(* tokens; a transaction may fail after any of its messages.               *)
THEOREM DirectoryAlwaysRight ==
  ASSUME KeysUnambiguous, NoneIsNoTransaction
  PROVE  MessagesSpec => []DirectoryIsRight
<1>1. MessagesInit => DirectoryKept
  BY KeptAtFirst
<1>2. DirectoryKept /\ [MessagesNext]_<<vars, tx>> => DirectoryKept'
  BY StepKeeps
<1>3. DirectoryKept => DirectoryIsRight
  BY KeptIsRight
<1> QED  BY <1>1, <1>2, <1>3, PTL DEF MessagesSpec

-----------------------------------------------------------------------------
(* The order of the keys, byte by byte.                                    *)

(* What an order of bytes is: the first place where two names differ, or   *)
(* the end of the shorter one.                                             *)
Differ(a, b, n) ==
  /\ n <= Len(a) /\ n < Len(b)
  /\ \A i \in 1 .. n : a[i] = b[i]
  /\ n = Len(a) \/ a[n + 1] < b[n + 1]

LEMMA BelowMeans ==
  ASSUME NEW a \in Seq(Nat), NEW b \in Seq(Nat)
  PROVE  IsBelow(a, b) <=> \E n \in Nat : Differ(a, b, n)
<1>1. ASSUME NEW n \in Nat, n <= Len(a), n <= Len(b)
      PROVE  SubSeq(a, 1, n) = SubSeq(b, 1, n) <=> \A i \in 1 .. n : a[i] = b[i]
  <2>1. /\ SubSeq(a, 1, n) = [i \in 1 .. n |-> a[i]]
        /\ SubSeq(b, 1, n) = [i \in 1 .. n |-> b[i]]
    BY <1>1
  <2> QED  BY <2>1
<1>2. ASSUME IsBelow(a, b)
      PROVE  \E n \in Nat : Differ(a, b, n)
  <2>1. PICK n \in 0 .. Len(a) :
          /\ n <= Len(b) /\ SubSeq(a, 1, n) = SubSeq(b, 1, n)
          /\ n < Len(b) /\ (n = Len(a) \/ a[n + 1] < b[n + 1])
    BY <1>2 DEF IsBelow
  <2>2. n \in Nat /\ n <= Len(a)
    OBVIOUS
  <2> WITNESS n \in Nat
  <2> QED  BY <1>1, <2>1, <2>2 DEF Differ
<1>3. ASSUME NEW n \in Nat, Differ(a, b, n)
      PROVE  IsBelow(a, b)
  <2>1. n \in 0 .. Len(a) /\ n <= Len(b) /\ n < Len(b)
        /\ (n = Len(a) \/ a[n + 1] < b[n + 1]) /\ \A i \in 1 .. n : a[i] = b[i]
    BY <1>3 DEF Differ
  <2>2. SubSeq(a, 1, n) = SubSeq(b, 1, n)
    BY <1>1, <2>1
  <2> QED  BY <2>1, <2>2 DEF IsBelow
<1> QED  BY <1>2, <1>3

LEMMA BelowIrreflexive ==
  ASSUME NEW a \in Seq(Nat)
  PROVE  ~IsBelow(a, a)
<1>1. \A n \in Nat : n < Len(a) => a[n + 1] \in Nat
  OBVIOUS
<1> QED  BY <1>1, BelowMeans DEF Differ

LEMMA BelowTransitive ==
  ASSUME NEW a \in Seq(Nat), NEW b \in Seq(Nat), NEW c \in Seq(Nat),
         IsBelow(a, b), IsBelow(b, c)
  PROVE  IsBelow(a, c)
<1>1. PICK m \in Nat : Differ(a, b, m)
  BY BelowMeans
<1>2. PICK n \in Nat : Differ(b, c, n)
  BY BelowMeans
<1>3. /\ Len(a) \in Nat /\ Len(b) \in Nat /\ Len(c) \in Nat
      /\ \A i \in 1 .. Len(a) : a[i] \in Nat
      /\ \A i \in 1 .. Len(b) : b[i] \in Nat
      /\ \A i \in 1 .. Len(c) : c[i] \in Nat
  OBVIOUS
<1>4. CASE m < n
  <2>1. m < Len(b) /\ m + 1 \in 1 .. n /\ n <= Len(b) /\ n < Len(c)
    <3>1. m \in Nat /\ n \in Nat /\ m < Len(b) /\ n <= Len(b) /\ n < Len(c)
      BY <1>1, <1>2 DEF Differ
    <3> QED  BY <1>3, <1>4, <3>1
  <2>2. b[m + 1] = c[m + 1]
    BY <1>2, <2>1 DEF Differ
  <2>3. \A i \in 1 .. m : a[i] = b[i] /\ b[i] = c[i]
    BY <1>1, <1>2, <1>4 DEF Differ
  <2>4. Differ(a, c, m)
    BY <1>1, <1>3, <1>4, <2>1, <2>2, <2>3 DEF Differ
  <2> QED  BY <2>4, BelowMeans
<1>5. CASE n < m
  <2>1. n + 1 \in 1 .. m /\ n < Len(b) /\ n # Len(b) /\ m <= Len(a) /\ n < Len(a)
    <3>1. m \in Nat /\ n \in Nat /\ m < Len(b) /\ n <= Len(b) /\ m <= Len(a)
      BY <1>1, <1>2 DEF Differ
    <3> QED  BY <1>3, <1>5, <3>1
  <2>2. a[n + 1] = b[n + 1] /\ b[n + 1] < c[n + 1]
    BY <1>1, <1>2, <2>1 DEF Differ
  <2>3. ASSUME NEW i \in 1 .. n
        PROVE  a[i] = b[i] /\ b[i] = c[i]
    <3>1. i \in 1 .. m
      BY <1>5
    <3> QED  BY <1>1, <1>2, <3>1 DEF Differ
  <2>4. Differ(a, c, n)
    BY <1>2, <1>3, <2>1, <2>2, <2>3 DEF Differ
  <2> QED  BY <2>4, BelowMeans
<1>6. CASE n = m
  <2>1. \A i \in 1 .. m : a[i] = b[i] /\ b[i] = c[i]
    BY <1>1, <1>2, <1>6 DEF Differ
  <2>2. /\ m <= Len(a) /\ m < Len(b) /\ m < Len(c)
        /\ m = Len(a) \/ a[m + 1] < b[m + 1]
        /\ b[m + 1] < c[m + 1]
    BY <1>1, <1>2, <1>3, <1>6 DEF Differ
  <2>3. m = Len(a) \/ a[m + 1] < c[m + 1]
    <3>1. m + 1 \in 1 .. Len(b) /\ m + 1 \in 1 .. Len(c)
          /\ (m # Len(a) => m + 1 \in 1 .. Len(a))
      BY <1>3, <2>2
    <3>2. b[m + 1] \in Nat /\ c[m + 1] \in Nat /\ (m # Len(a) => a[m + 1] \in Nat)
      BY <1>3, <3>1
    <3> QED  BY <2>2, <3>2
  <2>4. Differ(a, c, m)
    BY <2>1, <2>2, <2>3 DEF Differ
  <2> QED  BY <2>4, BelowMeans
<1> QED  BY <1>4, <1>5, <1>6

LEMMA BelowTotal ==
  ASSUME NEW a \in Seq(Nat), NEW b \in Seq(Nat), a # b
  PROVE  IsBelow(a, b) \/ IsBelow(b, a)
<1> DEFINE D == {n \in Nat : n < Len(a) /\ n < Len(b) /\ a[n + 1] # b[n + 1]}
<1>1. /\ Len(a) \in Nat /\ Len(b) \in Nat
      /\ \A i \in 1 .. Len(a) : a[i] \in Nat
      /\ \A i \in 1 .. Len(b) : b[i] \in Nat
  OBVIOUS
<1>2. CASE D = {}
  <2>1. ASSUME NEW i \in Nat, i # 0, i <= Len(a), i <= Len(b)
        PROVE  a[i] = b[i]
    <3>1. i - 1 \in Nat /\ i - 1 < Len(a) /\ i - 1 < Len(b) /\ (i - 1) + 1 = i
      BY <1>1, <2>1
    <3>2. i - 1 \notin D
      BY <1>2
    <3> QED  BY <3>1, <3>2
  <2>2. Len(a) # Len(b)
    <3>1. SUFFICES ASSUME Len(a) = Len(b) PROVE FALSE
      OBVIOUS
    <3>2. \A i \in 1 .. Len(a) : a[i] = b[i]
      BY <1>1, <2>1, <3>1
    <3> QED  BY <3>1, <3>2
  <2>3. CASE Len(a) < Len(b)
    <3>1. Differ(a, b, Len(a))
      BY <1>1, <2>1, <2>3 DEF Differ
    <3> QED  BY <1>1, <3>1, BelowMeans
  <2>4. CASE Len(b) < Len(a)
    <3>1. Differ(b, a, Len(b))
      BY <1>1, <2>1, <2>4 DEF Differ
    <3> QED  BY <1>1, <3>1, BelowMeans
  <2> QED  BY <1>1, <2>2, <2>3, <2>4
<1>3. CASE D # {}
  <2>1. PICK n \in D : \A k \in D : n <= k
    BY <1>3, LeastNatural
  <2>2. n \in Nat /\ n < Len(a) /\ n < Len(b) /\ a[n + 1] # b[n + 1]
        /\ a[n + 1] \in Nat /\ b[n + 1] \in Nat
    BY <1>1, <2>1
  <2>3. ASSUME NEW i \in 1 .. n
        PROVE  a[i] = b[i]
    <3>1. i - 1 \in Nat /\ i - 1 < n /\ i - 1 < Len(a) /\ i - 1 < Len(b)
          /\ (i - 1) + 1 = i
      BY <1>1, <2>2
    <3>2. i - 1 \notin D
      BY <2>1, <2>2, <3>1
    <3> QED  BY <3>1, <3>2
  <2>4. Differ(a, b, n) \/ Differ(b, a, n)
    BY <1>1, <2>2, <2>3 DEF Differ
  <2> QED  BY <2>2, <2>4, BelowMeans
<1> QED  BY <1>2, <1>3

(* One more byte is above, and nothing else is between. *)
LEMMA BelowNext ==
  ASSUME NEW a \in Seq(Nat), NEW b \in Seq(Nat),
         Len(b) > Len(a) /\ SubSeq(b, 1, Len(a)) = a => b[Len(a) + 1] > 1
  PROVE  /\ a \o <<1>> \in Seq(Nat)
         /\ IsBelow(a, b) <=> IsBelow(a \o <<1>>, b)
<1> DEFINE c == a \o <<1>>
<1>1. /\ c \in Seq(Nat) /\ Len(c) = Len(a) + 1 /\ Len(a) \in Nat /\ Len(b) \in Nat
      /\ \A i \in 1 .. Len(a) : c[i] = a[i]
      /\ c[Len(a) + 1] = 1
  OBVIOUS
<1> HIDE DEF c
<1>2. ASSUME IsBelow(c, b)
      PROVE  IsBelow(a, b)
  <2>1. Differ(a, c, Len(a))
    BY <1>1 DEF Differ
  <2>2. IsBelow(a, c)
    BY <1>1, <2>1, BelowMeans
  <2> QED  BY <1>1, <1>2, <2>2, BelowTransitive
<1>3. ASSUME IsBelow(a, b)
      PROVE  IsBelow(c, b)
  <2>1. PICK n \in Nat : Differ(a, b, n)
    BY <1>3, BelowMeans
  <2>2. CASE n < Len(a)
    <3>1. n + 1 \in 1 .. Len(a) /\ \A i \in 1 .. n : i \in 1 .. Len(a)
      BY <1>1, <2>2
    <3>2. /\ n < Len(b) /\ a[n + 1] < b[n + 1]
          /\ \A i \in 1 .. n : a[i] = b[i]
      BY <1>1, <2>1, <2>2 DEF Differ
    <3>3. c[n + 1] < b[n + 1] /\ \A i \in 1 .. n : c[i] = b[i]
      BY <1>1, <3>1, <3>2
    <3>4. Differ(c, b, n)
      BY <1>1, <2>2, <3>2, <3>3 DEF Differ
    <3> QED  BY <1>1, <3>4, BelowMeans
  <2>3. CASE n = Len(a)
    <3>1. Len(b) > Len(a) /\ \A i \in 1 .. Len(a) : a[i] = b[i]
      BY <1>1, <2>1, <2>3 DEF Differ
    <3>2. SubSeq(b, 1, Len(a)) = [i \in 1 .. Len(a) |-> b[i]]
      BY <1>1, <3>1
    <3>3. a = [i \in 1 .. Len(a) |-> a[i]]
      OBVIOUS
    <3>4. b[Len(a) + 1] > 1
      BY <3>1, <3>2, <3>3
    <3>5. Differ(c, b, Len(a))
      BY <1>1, <3>1, <3>4 DEF Differ
    <3> QED  BY <1>1, <3>5, BelowMeans
  <2>4. n <= Len(a)
    BY <2>1 DEF Differ
  <2> QED  BY <1>1, <2>2, <2>3, <2>4
<1> QED  BY <1>1, <1>2, <1>3 DEF c

(* Some name of a finite set is the first, and some is the last.           *)
LEMMA LowestName ==
  ASSUME NEW S, S \subseteq Seq(Nat), IsFiniteSet(S), S # {}
  PROVE  \E k \in S : \A j \in S : ~IsBelow(j, k)
<1> DEFINE R == {p \in S \X S : IsBelow(p[1], p[2])}
<1>1. \A a, b \in S : <<a, b>> \in R <=> IsBelow(a, b)
  OBVIOUS
<1>2. \A a \in S : a \in Seq(Nat)
  OBVIOUS
<1> HIDE DEF R
<1>3. \A a \in S : <<a, a>> \notin R
  BY <1>1, <1>2, BelowIrreflexive
<1>4. \A a, b, c \in S : <<a, b>> \in R /\ <<b, c>> \in R => <<a, c>> \in R
  BY <1>1, <1>2, BelowTransitive
<1>5. PICK k \in S : \A j \in S : <<j, k>> \notin R
  BY <1>3, <1>4, ExtremeExists
<1> QED  BY <1>1, <1>5

LEMMA HighestName ==
  ASSUME NEW S, S \subseteq Seq(Nat), IsFiniteSet(S), S # {}
  PROVE  \E k \in S : \A j \in S : ~IsBelow(k, j)
<1> DEFINE R == {p \in S \X S : IsBelow(p[2], p[1])}
<1>1. \A a, b \in S : <<a, b>> \in R <=> IsBelow(b, a)
  OBVIOUS
<1>2. \A a \in S : a \in Seq(Nat)
  OBVIOUS
<1> HIDE DEF R
<1>3. \A a \in S : <<a, a>> \notin R
  BY <1>1, <1>2, BelowIrreflexive
<1>4. \A a, b, c \in S : <<a, b>> \in R /\ <<b, c>> \in R => <<a, c>> \in R
  BY <1>1, <1>2, BelowTransitive
<1>5. PICK k \in S : \A j \in S : <<j, k>> \notin R
  BY <1>3, <1>4, ExtremeExists
<1> QED  BY <1>1, <1>5

(* The first of a range: so many that fewer than that are below any.       *)
FirstOf(range, size) ==
  {key \in range : Cardinality({k \in range : IsBelow(k, key)}) < size}

LEMMA FirstFacts ==
  ASSUME NEW range, range \subseteq Seq(Nat), IsFiniteSet(range),
         NEW size \in Nat \ {0}
  PROVE  /\ FirstOf(range, size) \subseteq range
         /\ range # {} => FirstOf(range, size) # {}
         /\ \A k \in FirstOf(range, size), j \in range :
              IsBelow(j, k) => j \in FirstOf(range, size)
<1> DEFINE Under(k) == {j \in range : IsBelow(j, k)}
<1>1. \A k \in range : /\ Under(k) \in SUBSET range
                       /\ IsFiniteSet(Under(k)) /\ Cardinality(Under(k)) \in Nat
  <2> TAKE k \in range
  <2>1. Under(k) \in SUBSET range
    OBVIOUS
  <2>2. IsFiniteSet(Under(k))
    BY <2>1, FS_Subset
  <2> QED  BY <2>1, <2>2, FS_CardinalityType
<1>2. ASSUME range # {}
      PROVE  FirstOf(range, size) # {}
  <2>1. PICK k \in range : \A j \in range : ~IsBelow(j, k)
    BY <1>2, LowestName
  <2>2. Under(k) = {}
    BY <2>1
  <2>3. Cardinality(Under(k)) = 0
    BY <2>2, FS_EmptySet
  <2>4. k \in FirstOf(range, size)
    BY <2>3 DEF FirstOf
  <2> QED  BY <2>4
<1>3. ASSUME NEW k \in FirstOf(range, size), NEW j \in range, IsBelow(j, k)
      PROVE  j \in FirstOf(range, size)
  <2>1. k \in range /\ Cardinality(Under(k)) < size
    BY DEF FirstOf
  <2>2. Under(j) \in SUBSET Under(k)
    <3> SUFFICES ASSUME NEW i \in range, IsBelow(i, j)
                 PROVE  IsBelow(i, k)
      OBVIOUS
    <3>1. i \in Seq(Nat) /\ j \in Seq(Nat) /\ k \in Seq(Nat)
      BY <2>1
    <3> QED  BY <1>3, <3>1, BelowTransitive
  <2>3. Cardinality(Under(j)) <= Cardinality(Under(k))
    <3> HIDE DEF Under
    <3> QED  BY <1>1, <2>1, <2>2, FS_Subset
  <2>4. Cardinality(Under(j)) < size
    <3> HIDE DEF Under
    <3> QED  BY <1>1, <2>1, <2>3
  <2> QED  BY <2>4 DEF FirstOf
<1>4. FirstOf(range, size) \subseteq range
  BY DEF FirstOf
<1> QED  BY <1>2, <1>3, <1>4

-----------------------------------------------------------------------------
(* Pagination. *)

(* The first key after a provided one is made by appending a byte 1, and   *)
(* is itself excluded; so nothing may be listed between.  Denoms and       *)
(* addresses have no such bytes where one key can go on from another.      *)
KeysApart ==
  \A k, l \in Keys :
    Len(l) > Len(k) /\ SubSeq(l, 1, Len(k)) = k => l[Len(k) + 1] > 1

LEMMA KeysAreNames ==
  /\ \A assets \in AssetPairs : PairKey(assets) \in Seq(Nat)
  /\ Keys \subseteq Seq(Nat)
<1>1. ASSUME NEW assets \in AssetPairs
      PROVE  PairKey(assets) \in Seq(Nat)
  <2>1. assets[0] \in Tokens /\ assets[1] \in Tokens
    BY DEF AssetPairs, Sides
  <2>2. Bytes[assets[0]] \in Seq(Nat) /\ Bytes[assets[1]] \in Seq(Nat)
    BY <2>1, FactoryTokensAssumption
  <2> QED  BY <2>2 DEF PairKey
<1> QED  BY <1>1 DEF Keys

LEMMA KeysFinite == IsFiniteSet(Keys)
<1> DEFINE Both(p) == [i \in Sides |-> IF i = 0 THEN p[1] ELSE p[2]]
           f == [p \in Tokens \X Tokens |-> PairKey(Both(p))]
<1>1. \A p \in Tokens \X Tokens : Both(p) \in AssetPairs
  BY DEF AssetPairs, Sides
<1>2. ASSUME NEW assets \in AssetPairs
      PROVE  /\ <<assets[0], assets[1]>> \in Tokens \X Tokens
             /\ Both(<<assets[0], assets[1]>>) = assets
  BY DEF AssetPairs, Sides
<1>3. f \in Surjection(Tokens \X Tokens, Keys)
  <2>1. \A p \in Tokens \X Tokens : f[p] = PairKey(Both(p)) /\ f[p] \in Keys
    BY <1>1 DEF Keys
  <2>2. f \in [Tokens \X Tokens -> Keys]
    BY <2>1
  <2>3. ASSUME NEW key \in Keys
        PROVE  \E p \in Tokens \X Tokens : f[p] = key
    <3>1. PICK assets \in AssetPairs : key = PairKey(assets)
      BY DEF Keys
    <3>2. /\ <<assets[0], assets[1]>> \in Tokens \X Tokens
          /\ Both(<<assets[0], assets[1]>>) = assets
      BY <1>2
    <3>3. f[<<assets[0], assets[1]>>] = key
      BY <2>1, <3>1, <3>2
    <3> QED  BY <3>2, <3>3
  <2> HIDE DEF f
  <2> QED  BY <2>2, <2>3 DEF Surjection
<1>4. IsFiniteSet(Tokens \X Tokens)
  BY FactoryTokensAssumption, FS_Product
<1> HIDE DEF f
<1> QED  BY <1>3, <1>4, FS_Surjection

LEMMA PageSizeNat ==
  ASSUME NEW limit \in 1 .. MaxLimit + 1 \union {None}
  PROVE  PageSize(limit) \in Nat \ {0}
  BY FactoryNamesAssumption DEF PageSize

(* The keys that are read so far: all that are below any of them.          *)
IsRead(before) ==
  /\ before \subseteq Listed
  /\ \A k \in before, j \in Listed : IsBelow(j, k) => j \in before

LastOf(keys) == CHOOSE key \in keys : \A k \in keys : ~IsBelow(key, k)
NextPage(keys, limit) ==
  ReadPairs(IF keys = {} THEN None ELSE pairs[LastOf(keys)].info.assets, limit)

LEMMA ListedFacts ==
  /\ Listed \subseteq Seq(Nat) /\ IsFiniteSet(Listed)
  /\ Cardinality(Listed) \in Nat
<1>1. Listed \in SUBSET Keys
  BY DEF Listed
<1> QED  BY <1>1, KeysAreNames, KeysFinite, FS_Subset, FS_CardinalityType

LEMMA RangeAfter ==
  ASSUME KeysApart, Describes(pairs, contracts), NEW key \in Listed
  PROVE  /\ pairs[key].info.assets # None
         /\ \A k \in Listed :
              IsBelow(RangeStart(pairs[key].info.assets), k) <=> IsBelow(key, k)
<1>1. key \in Keys /\ pairs[key] # None
  BY DEF Listed
<1>2. pairs[key].info.assets \in AssetPairs
  BY <1>1 DEF Describes, Listings, Info
<1>3. RangeStart(pairs[key].info.assets) = key \o <<1>>
  BY <1>1 DEF Describes, RangeStart
<1>4. ASSUME NEW k \in Listed
      PROVE  IsBelow(key \o <<1>>, k) <=> IsBelow(key, k)
  <2>1. k \in Keys /\ k \in Seq(Nat) /\ key \in Seq(Nat)
    BY <1>1, ListedFacts DEF Listed
  <2>2. Len(k) > Len(key) /\ SubSeq(k, 1, Len(key)) = key => k[Len(key) + 1] > 1
    BY <1>1, <2>1 DEF KeysApart
  <2> QED  BY <2>1, <2>2, BelowNext
<1> QED  BY <1>2, <1>3, <1>4, FactoryTypesAssumption

LEMMA LastIsLast ==
  ASSUME NEW before, IsRead(before), before # {}
  PROVE  LastOf(before) \in before /\ \A k \in before : ~IsBelow(LastOf(before), k)
<1>1. before \in SUBSET Listed
  BY DEF IsRead
<1>2. before \subseteq Seq(Nat) /\ IsFiniteSet(before)
  BY <1>1, ListedFacts, FS_Subset
<1>3. \E key \in before : \A k \in before : ~IsBelow(key, k)
  BY <1>2, HighestName
<1> QED  BY <1>3 DEF LastOf

(* The range of the next page is all that is not read.                     *)
LEMMA NextPageFacts ==
  ASSUME KeysApart, Describes(pairs, contracts),
         NEW limit \in 1 .. MaxLimit + 1 \union {None},
         NEW before, IsRead(before)
  PROVE  NextPage(before, limit) = FirstOf(Listed \ before, PageSize(limit))
<1> DEFINE start == IF before = {} THEN None ELSE pairs[LastOf(before)].info.assets
           range == {key \in Listed : start # None => IsBelow(RangeStart(start), key)}
<1>1. range = Listed \ before
  <2>1. CASE before = {}
    BY <2>1
  <2>2. CASE before # {}
    <3> DEFINE last == LastOf(before)
    <3>1. last \in before /\ last \in Listed /\ \A k \in before : ~IsBelow(last, k)
      BY <2>2, LastIsLast DEF IsRead
    <3> HIDE DEF last
    <3>2. /\ pairs[last].info.assets # None
          /\ \A k \in Listed :
               IsBelow(RangeStart(pairs[last].info.assets), k) <=> IsBelow(last, k)
      BY <3>1, RangeAfter
    <3>3. range = {k \in Listed : IsBelow(last, k)}
      BY <2>2, <3>2 DEF last
    <3>4. ASSUME NEW k \in Listed
          PROVE  IsBelow(last, k) <=> k \notin before
      <4>1. k \in Seq(Nat) /\ last \in Seq(Nat)
        BY <3>1, ListedFacts
      <4>2. k = last \/ IsBelow(last, k) \/ IsBelow(k, last)
        BY <4>1, BelowTotal
      <4>3. IsBelow(k, last) => k \in before
        BY <3>1 DEF IsRead
      <4> QED  BY <3>1, <4>2, <4>3
    <3> QED  BY <3>3, <3>4
  <2> QED  BY <2>1, <2>2
<1>2. ReadPairs(start, limit) = FirstOf(range, PageSize(limit))
  BY DEF ReadPairs, FirstOf
<1> QED  BY <1>1, <1>2 DEF NextPage

LEMMA NextPageReads ==
  ASSUME KeysApart, Describes(pairs, contracts),
         NEW limit \in 1 .. MaxLimit + 1 \union {None},
         NEW before, IsRead(before)
  PROVE  LET page == NextPage(before, limit)
         IN  /\ page \intersect before = {}
             /\ IsRead(before \union page)
             /\ before # Listed => page # {}
<1> DEFINE range == Listed \ before
           page  == FirstOf(range, PageSize(limit))
<1>1. NextPage(before, limit) = page
  BY NextPageFacts
<1>2. before \subseteq Listed
      /\ \A k \in before, j \in Listed : IsBelow(j, k) => j \in before
  BY DEF IsRead
<1>3. range \subseteq Seq(Nat) /\ IsFiniteSet(range)
  <2>1. range \in SUBSET Listed
    OBVIOUS
  <2> HIDE DEF range
  <2> QED  BY <2>1, ListedFacts, FS_Subset
<1>4. /\ page \subseteq range
      /\ range # {} => page # {}
      /\ \A k \in page, j \in range : IsBelow(j, k) => j \in page
  <2>1. PageSize(limit) \in Nat \ {0}
    BY PageSizeNat
  <2> HIDE DEF range
  <2> QED  BY <1>3, <2>1, FirstFacts
<1> HIDE DEF page
<1>5. IsRead(before \union page)
  BY <1>2, <1>4 DEF IsRead
<1> QED  BY <1>1, <1>2, <1>4, <1>5

(* Page after page reads at least one pair more, until all are read.       *)
Reads(read, limit, n) ==
  read = [i \in 0 .. n |->
            IF i = 0 THEN {}
            ELSE IF NextPage(read[i - 1], limit) \intersect read[i - 1] = {}
                 THEN read[i - 1] \union NextPage(read[i - 1], limit)
                 ELSE {}]

LEMMA ReadsExist ==
  ASSUME KeysApart, Describes(pairs, contracts), NEW n \in Nat,
         NEW limit \in 1 .. MaxLimit + 1 \union {None}
  PROVE  \E read : Reads(read, limit, n)
<1> DEFINE V == {s \in SUBSET Listed : IsRead(s)}
           G == [i \in 1 .. n |-> [s \in V |-> s \union NextPage(s, limit)]]
<1>1. {} \in V
  BY DEF IsRead
<1>2. ASSUME NEW s \in V
      PROVE  /\ s \union NextPage(s, limit) \in V
             /\ NextPage(s, limit) \intersect s = {}
  <2>1. IsRead(s)
    OBVIOUS
  <2>2. IsRead(s \union NextPage(s, limit)) /\ NextPage(s, limit) \intersect s = {}
    BY <2>1, NextPageReads
  <2> QED  BY <2>2 DEF IsRead
<1> HIDE DEF V
<1>3. /\ G \in [1 .. n -> [V -> V]]
      /\ \A i \in 1 .. n, s \in V : G[i][s] = s \union NextPage(s, limit)
  BY <1>2
<1> HIDE DEF G
<1>4. PICK f \in [0 .. n -> V] :
        f[0] = {} /\ \A i \in 1 .. n : f[i] = G[i][f[i - 1]]
  <2>1. \E f : Iterates(f, n, V, {}, G)
    BY <1>1, <1>3, RecursionExists
  <2> QED  BY <2>1 DEF Iterates
<1>5. ASSUME NEW i \in 0 .. n, i # 0
      PROVE  /\ f[i] = f[i - 1] \union NextPage(f[i - 1], limit)
             /\ NextPage(f[i - 1], limit) \intersect f[i - 1] = {}
  <2>1. i \in 1 .. n /\ i - 1 \in 0 .. n
    BY <1>5
  <2>2. f[i - 1] \in V
    BY <1>4, <2>1
  <2> QED  BY <1>2, <1>3, <1>4, <2>1, <2>2
<1>6. Reads(f, limit, n)
  <2>1. f = [i \in 0 .. n |-> f[i]]
    BY <1>4
  <2>2. ASSUME NEW i \in 0 .. n
        PROVE  f[i] = IF i = 0 THEN {}
                      ELSE IF NextPage(f[i - 1], limit) \intersect f[i - 1] = {}
                           THEN f[i - 1] \union NextPage(f[i - 1], limit)
                           ELSE {}
    BY <1>4, <1>5
  <2> QED  BY <2>1, <2>2 DEF Reads
<1> QED  BY <1>6

LEMMA ReadsAll ==
  ASSUME KeysApart, Describes(pairs, contracts),
         NEW limit \in 1 .. MaxLimit + 1 \union {None},
         NEW read, Reads(read, limit, Cardinality(Listed))
  PROVE  read[Cardinality(Listed)] = Listed
<1> DEFINE n == Cardinality(Listed)
           Good == {i \in 0 .. n : IsRead(read[i]) /\ Cardinality(read[i]) >= i}
<1>1. n \in Nat /\ IsFiniteSet(Listed)
  BY ListedFacts
<1> HIDE DEF n
<1>2. /\ read[0] = {}
      /\ \A i \in 1 .. n :
           read[i] = IF NextPage(read[i - 1], limit) \intersect read[i - 1] = {}
                     THEN read[i - 1] \union NextPage(read[i - 1], limit)
                     ELSE {}
  <2>1. \A i \in 0 .. n :
          read[i] = IF i = 0 THEN {}
                    ELSE IF NextPage(read[i - 1], limit) \intersect read[i - 1] = {}
                         THEN read[i - 1] \union NextPage(read[i - 1], limit)
                         ELSE {}
    BY DEF Reads, n
  <2>2. 0 \in 0 .. n /\ \A i \in 1 .. n : i \in 0 .. n /\ i # 0
    BY <1>1
  <2> QED  BY <2>1, <2>2
<1>3. 0 \in Good
  BY <1>1, <1>2, FS_EmptySet DEF IsRead
<1>4. ASSUME NEW i \in 1 .. n, i - 1 \in Good
      PROVE  i \in Good
  <2> DEFINE before == read[i - 1]
             page   == NextPage(before, limit)
  <2>1. IsRead(before) /\ Cardinality(before) >= i - 1
    BY <1>4
  <2>2. /\ page \intersect before = {}
        /\ IsRead(before \union page)
        /\ before # Listed => page # {}
    BY <2>1, NextPageReads
  <2>3. read[i] = before \union page
    BY <1>2, <2>2
  <2> HIDE DEF before, page
  <2>4. before \in SUBSET Listed /\ before \union page \in SUBSET Listed
    BY <2>1, <2>2 DEF IsRead
  <2>5. /\ IsFiniteSet(before) /\ IsFiniteSet(before \union page)
        /\ Cardinality(before) \in Nat /\ Cardinality(before \union page) \in Nat
    BY <1>1, <2>4, FS_Subset, FS_CardinalityType
  <2>6. Cardinality(before \union page) >= i
    <3>1. CASE before = Listed
      <4>1. before \union page = Listed
        BY <2>4, <3>1
      <4> QED  BY <1>1, <4>1 DEF n
    <3>2. CASE before # Listed
      <4>1. before \in SUBSET (before \union page) /\ before # before \union page
        BY <2>2, <3>2
      <4>2. /\ Cardinality(before) <= Cardinality(before \union page)
            /\ Cardinality(before) # Cardinality(before \union page)
        BY <2>5, <4>1, FS_Subset
      <4> QED  BY <2>1, <2>5, <4>2
    <3> QED  BY <3>1, <3>2
  <2>7. IsRead(read[i]) /\ Cardinality(read[i]) >= i /\ i \in 0 .. n
    BY <2>2, <2>3, <2>6
  <2> QED  BY <2>7
<1>5. n \in Good
  <2> HIDE DEF Good
  <2>1. \A i \in 0 .. n : i \in Good
    BY <1>1, <1>3, <1>4, UptoInduction
  <2> QED  BY <1>1, <2>1
<1>6. IsRead(read[n]) /\ Cardinality(read[n]) >= n
  BY <1>5
<1>7. read[n] \in SUBSET Listed
  BY <1>6 DEF IsRead
<1>8. Cardinality(read[n]) <= n /\ Cardinality(read[n]) \in Nat
  BY <1>1, <1>7, FS_Subset, FS_CardinalityType DEF n
<1>9. Cardinality(read[n]) = n
  BY <1>1, <1>6, <1>8
<1> QED  BY <1>1, <1>7, <1>9, FS_Subset DEF n

LEMMA PagesReadAll ==
  ASSUME KeysApart, Describes(pairs, contracts)
  PROVE  PagesListAll
<1> DEFINE n == Cardinality(Listed)
<1>1. n \in Nat
  BY ListedFacts
<1>2. ASSUME NEW limit \in 1 .. MaxLimit + 1 \union {None}
      PROVE  (CHOOSE read : Reads(read, limit, n))[n] = Listed
  <2> DEFINE read == CHOOSE read : Reads(read, limit, n)
  <2>1. Reads(read, limit, n)
    BY <1>1, ReadsExist
  <2> HIDE DEF read
  <2>2. read[n] = Listed
    BY <2>1, ReadsAll
  <2> QED  BY <2>2 DEF read
<1> QED  BY <1>2 DEF PagesListAll, Reads, NextPage, LastOf

(* If no key goes on from another with a byte that the start of a page     *)
(* takes for its own, then reading page after page lists every pair, once, *)
(* for any limit and however many pairs there are, whenever a query can    *)
(* read the directory.                                                     *)
THEOREM PagesAlwaysComplete ==
  ASSUME KeysApart, NoneIsNoTransaction
  PROVE  MessagesSpec => []PagesAreComplete
<1>1. MessagesInit => DirectoryKept
  BY KeptAtFirst
<1>2. DirectoryKept /\ [MessagesNext]_<<vars, tx>> => DirectoryKept'
  BY StepKeeps
<1>3. DirectoryKept => PagesAreComplete
  BY PagesReadAll DEF DirectoryKept, PagesAreComplete
<1> QED  BY <1>1, <1>2, <1>3, PTL DEF MessagesSpec

-----------------------------------------------------------------------------
(* A create_pair message by message is the action CreatePair.              *)

Rows  == [Accounts -> Nat]
Banks == [Tokens -> Rows]

(* The row of a token in which u has paid so much, the factory has         *)
(* received and a pair n been given so much, and all others own what they  *)
(* did in the row old.                                                     *)
Shifted(row, old, u, n, paid, received, given) ==
  /\ row \in Rows
  /\ row[u] = old[u] - paid
  /\ row[FactoryAddr] = old[FactoryAddr] + received
  /\ n \in Pairs => row[n] = old[n] + given
  /\ \A a \in Accounts \ {u, FactoryAddr, n} : row[a] = old[a]

LEMMA AccountFacts ==
  /\ FactoryAddr \in Accounts /\ FactoryAddr \notin Users
  /\ Users \subseteq Accounts /\ Pairs \subseteq Accounts
  /\ \A n \in Pairs : n \notin Users /\ n # FactoryAddr
  /\ Natives \subseteq Tokens /\ Cw20s \subseteq Tokens
  /\ \A t \in Cw20s : t \notin Natives
  BY FactoryNamesAssumption DEF Accounts, Tokens

LEMMA NothingShifted ==
  ASSUME NEW old \in Rows, NEW u \in Users, NEW n
  PROVE  Shifted(old, old, u, n, 0, 0, 0)
  BY AccountFacts DEF Shifted, Rows

(* The sender pays the factory. *)
LEMMA ShiftIn ==
  ASSUME NEW old \in Rows, NEW u \in Users, NEW n,
         NEW p \in Int, NEW r \in Int, NEW g \in Int, NEW row,
         Shifted(row, old, u, n, p, r, g), NEW x \in Nat, row[u] >= x
  PROVE  Shifted(Move(row, u, FactoryAddr, x), old, u, n, p + x, r + x, g)
<1> DEFINE new == Move(row, u, FactoryAddr, x)
<1>1. row \in [Accounts -> Nat] /\ old \in [Accounts -> Nat]
  BY DEF Shifted, Rows
<1>2. u \in Accounts /\ FactoryAddr \in Accounts /\ u # FactoryAddr
      /\ (n \in Pairs => n \in Accounts /\ n # u /\ n # FactoryAddr)
  BY AccountFacts
<1>3. /\ new \in [Accounts -> Nat]
      /\ new[u] = row[u] - x
      /\ new[FactoryAddr] = row[FactoryAddr] + x
      /\ \A a \in Accounts \ {u, FactoryAddr} : new[a] = row[a]
  BY <1>1, <1>2, MoveFacts
<1> HIDE DEF new
<1>4. /\ row[u] = old[u] - p
      /\ row[FactoryAddr] = old[FactoryAddr] + r
      /\ n \in Pairs => row[n] = old[n] + g
      /\ \A a \in Accounts \ {u, FactoryAddr, n} : row[a] = old[a]
  BY DEF Shifted
<1>5. /\ old[u] \in Nat /\ old[FactoryAddr] \in Nat
  BY <1>1, <1>2
<1>6. new[u] = old[u] - (p + x) /\ new[FactoryAddr] = old[FactoryAddr] + (r + x)
  BY <1>3, <1>4, <1>5
<1>7. n \in Pairs => new[n] = old[n] + g
  BY <1>2, <1>3, <1>4
<1>8. \A a \in Accounts \ {u, FactoryAddr, n} : new[a] = old[a]
  BY <1>3, <1>4
<1> QED  BY <1>3, <1>6, <1>7, <1>8 DEF Shifted, Rows, new

(* The factory pays the pair. *)
LEMMA ShiftOut ==
  ASSUME NEW old \in Rows, NEW u \in Users, NEW n \in Pairs,
         NEW p \in Int, NEW r \in Int, NEW g \in Int, NEW row,
         Shifted(row, old, u, n, p, r, g), NEW x \in Nat, row[FactoryAddr] >= x
  PROVE  Shifted(Move(row, FactoryAddr, n, x), old, u, n, p, r - x, g + x)
<1> DEFINE new == Move(row, FactoryAddr, n, x)
<1>1. row \in [Accounts -> Nat] /\ old \in [Accounts -> Nat]
  BY DEF Shifted, Rows
<1>2. u \in Accounts /\ FactoryAddr \in Accounts /\ u # FactoryAddr
      /\ n \in Accounts /\ n # u /\ n # FactoryAddr
  BY AccountFacts
<1>3. /\ new \in [Accounts -> Nat]
      /\ new[FactoryAddr] = row[FactoryAddr] - x
      /\ new[n] = row[n] + x
      /\ \A a \in Accounts \ {n, FactoryAddr} : new[a] = row[a]
  BY <1>1, <1>2, MoveFacts
<1> HIDE DEF new
<1>4. /\ row[u] = old[u] - p
      /\ row[FactoryAddr] = old[FactoryAddr] + r
      /\ row[n] = old[n] + g
      /\ \A a \in Accounts \ {u, FactoryAddr, n} : row[a] = old[a]
  BY DEF Shifted
<1>5. /\ old[n] \in Nat /\ old[FactoryAddr] \in Nat
  BY <1>1, <1>2
<1>6. new[n] = old[n] + (g + x) /\ new[FactoryAddr] = old[FactoryAddr] + (r - x)
  BY <1>3, <1>4, <1>5
<1>7. new[u] = old[u] - p
  BY <1>2, <1>3, <1>4
<1>8. \A a \in Accounts \ {u, FactoryAddr, n} : new[a] = old[a]
  BY <1>3, <1>4
<1> QED  BY <1>3, <1>6, <1>7, <1>8 DEF Shifted, Rows, new

(* The factory pays the chain. *)
LEMMA ShiftAway ==
  ASSUME NEW old \in Rows, NEW u \in Users, NEW n,
         NEW p \in Int, NEW r \in Int, NEW g \in Int, NEW row,
         Shifted(row, old, u, n, p, r, g), NEW x \in Nat, row[FactoryAddr] >= x
  PROVE  Shifted([row EXCEPT ![FactoryAddr] = @ - x], old, u, n, p, r - x, g)
<1> DEFINE new == [row EXCEPT ![FactoryAddr] = row[FactoryAddr] - x]
<1>1. row \in [Accounts -> Nat] /\ old \in [Accounts -> Nat]
  BY DEF Shifted, Rows
<1>2. u \in Accounts /\ FactoryAddr \in Accounts /\ u # FactoryAddr
      /\ (n \in Pairs => n \in Accounts /\ n # FactoryAddr)
  BY AccountFacts
<1>3. /\ new[FactoryAddr] = row[FactoryAddr] - x
      /\ \A a \in Accounts \ {FactoryAddr} : new[a] = row[a]
  BY <1>1, <1>2
<1>4. new \in [Accounts -> Nat]
  BY <1>1, <1>2
<1> HIDE DEF new
<1>5. /\ row[u] = old[u] - p
      /\ row[FactoryAddr] = old[FactoryAddr] + r
      /\ n \in Pairs => row[n] = old[n] + g
      /\ \A a \in Accounts \ {u, FactoryAddr, n} : row[a] = old[a]
  BY DEF Shifted
<1>6. new[FactoryAddr] = old[FactoryAddr] + (r - x)
  BY <1>1, <1>2, <1>3, <1>5
<1>7. new[u] = old[u] - p /\ (n \in Pairs => new[n] = old[n] + g)
  BY <1>2, <1>3, <1>5
<1>8. \A a \in Accounts \ {u, FactoryAddr, n} : new[a] = old[a]
  BY <1>3, <1>5
<1> QED  BY <1>4, <1>6, <1>7, <1>8 DEF Shifted, Rows, new

(* What is paid, received and given says what the row is. *)
LEMMA ShiftedAlike ==
  ASSUME NEW old \in Rows, NEW u \in Users, NEW n \in Pairs,
         NEW p, NEW r, NEW g, NEW row, NEW other,
         Shifted(row, old, u, n, p, r, g), Shifted(other, old, u, n, p, r, g)
  PROVE  row = other
<1>1. row \in [Accounts -> Nat] /\ other \in [Accounts -> Nat]
  BY DEF Shifted, Rows
<1>2. \A a \in Accounts : row[a] = other[a]
  BY DEF Shifted
<1> QED  BY <1>1, <1>2

-----------------------------------------------------------------------------
(* Short sequences.                                                        *)

LEMMA Appended ==
  ASSUME NEW S, NEW s \in Seq(S), NEW e \in S
  PROVE  s \o <<e>> = Append(s, e)
<1>1. <<e>> \in Seq(S) /\ Len(<<e>>) = 1 /\ <<e>>[1] = e
  OBVIOUS
<1>2. Append(s, e) \in Seq(S) /\ s \o <<e>> \in Seq(S)
  BY <1>1
<1>3. /\ Len(s \o <<e>>) = Len(s) + 1
      /\ \A i \in 1 .. Len(s) + 1 : (s \o <<e>>)[i] =
                     IF i <= Len(s) THEN s[i] ELSE <<e>>[i - Len(s)]
  BY <1>1, ConcatProperties
<1>4. \A i \in 1 .. Len(s) + 1 : (s \o <<e>>)[i] = Append(s, e)[i]
  <2>1. \A i \in 1 .. Len(s) + 1 : i <= Len(s) \/ i - Len(s) = 1
    BY LenProperties
  <2> QED BY <1>1, <1>3, <2>1
<1> QED BY <1>2, <1>3, <1>4, SeqEqual

LEMMA TwoAppended ==
  ASSUME NEW a, NEW b
  PROVE  Append(<<a>>, b) = <<a, b>>
<1> DEFINE S == {a, b}
           s == Append(<<a>>, b)
           t == <<a, b>>
<1>1. <<a>> \in Seq(S) /\ t \in Seq(S) /\ a \in S /\ b \in S
  OBVIOUS
<1>2. s \in Seq(S) /\ Len(s) = 2 /\ s[1] = a /\ s[2] = b
  BY <1>1
<1>3. Len(t) = 2 /\ t[1] = a /\ t[2] = b
  OBVIOUS
<1> HIDE DEF s, t, S
<1>4. \A i \in 1 .. 2 : s[i] = t[i]
  BY <1>2, <1>3
<1>5. s = t
  <2>1. 1 .. Len(s) = 1 .. Len(t) /\ Len(s) = Len(t)
    BY <1>2, <1>3
  <2> QED BY ONLY <1>1, <1>2, <1>3, <1>4, <2>1, SeqEqual
<1> QED BY <1>5 DEF s, t

LEMMA ThreeAppended ==
  ASSUME NEW a, NEW b, NEW c
  PROVE  Append(<<a, b>>, c) = <<a, b, c>>
<1> DEFINE S == {a, b, c}
           s == Append(<<a, b>>, c)
           t == <<a, b, c>>
<1>1. <<a, b>> \in Seq(S) /\ t \in Seq(S) /\ a \in S /\ b \in S /\ c \in S
  OBVIOUS
<1>2. s \in Seq(S) /\ Len(s) = 3 /\ s[1] = a /\ s[2] = b /\ s[3] = c
  BY <1>1
<1>3. Len(t) = 3 /\ t[1] = a /\ t[2] = b /\ t[3] = c
  OBVIOUS
<1> HIDE DEF s, t, S
<1>4. \A i \in 1 .. 3 : s[i] = t[i]
  BY <1>2, <1>3
<1>5. s = t
  <2>1. 1 .. Len(s) = 1 .. Len(t) /\ Len(s) = Len(t)
    BY <1>2, <1>3
  <2> QED BY ONLY <1>1, <1>2, <1>3, <1>4, <2>1, SeqEqual
<1> QED BY <1>5 DEF s, t

(* The operators keep the provers from taking the sequences apart. *)
Single(a) == <<a>>
Couple(a, b) == <<a, b>>
Triple(a, b, c) == <<a, b, c>>

LEMMA Concats ==
  ASSUME NEW a, NEW b, NEW c
  PROVE  /\ <<>> \o <<>> \o Single(c) = Single(c)
         /\ Single(a) \o <<>> \o Single(c) = Couple(a, c)
         /\ <<>> \o Single(b) \o Single(c) = Couple(b, c)
         /\ Single(a) \o Single(b) \o Single(c) = Triple(a, b, c)
         /\ Single(c) \o <<>> = Single(c)
<1> DEFINE S == {a, b, c}
<1>1. a \in S /\ b \in S /\ c \in S
  OBVIOUS
<1>2. /\ <<>> \in Seq(S) /\ Single(a) \in Seq(S) /\ Single(b) \in Seq(S)
      /\ Single(c) \in Seq(S) /\ Couple(a, b) \in Seq(S)
  BY DEF Single, Couple
<1> HIDE DEF S
<1>3. /\ <<>> \o <<>> = <<>> /\ Single(a) \o <<>> = Single(a)
      /\ Single(c) \o <<>> = Single(c)
      /\ <<>> \o Single(b) = Single(b) /\ <<>> \o Single(c) = Single(c)
  BY <1>2, ConcatEmptySeq
<1>4. ASSUME NEW s \in Seq(S), NEW e \in S
      PROVE  s \o Single(e) = Append(s, e)
  BY Appended DEF Single
<1>5. /\ Single(a) \o Single(b) = Append(Single(a), b)
      /\ Single(a) \o Single(c) = Append(Single(a), c)
      /\ Single(b) \o Single(c) = Append(Single(b), c)
      /\ Couple(a, b) \o Single(c) = Append(Couple(a, b), c)
  BY ONLY <1>1, <1>2, <1>4
<1>6. ASSUME NEW d, NEW e
      PROVE  Append(Single(d), e) = Couple(d, e)
  BY TwoAppended DEF Single, Couple
<1>7. Append(Couple(a, b), c) = Triple(a, b, c)
  BY ThreeAppended DEF Couple, Triple
<1> QED  BY ONLY <1>3, <1>5, <1>6, <1>7

LEMMA HeadOfSingle ==
  ASSUME NEW a
  PROVE  Single(a) # <<>> /\ Head(Single(a)) = a /\ Tail(Single(a)) = <<>>
BY DEF Single

LEMMA HeadOfCouple ==
  ASSUME NEW a, NEW b
  PROVE  /\ Couple(a, b) # <<>>
         /\ Head(Couple(a, b)) = a /\ Tail(Couple(a, b)) = Single(b)
BY DEF Single, Couple

LEMMA HeadOfTriple ==
  ASSUME NEW a, NEW b, NEW c
  PROVE  /\ Triple(a, b, c) # <<>>
         /\ Head(Triple(a, b, c)) = a /\ Tail(Triple(a, b, c)) = Couple(b, c)
BY DEF Couple, Triple

-----------------------------------------------------------------------------
(* The inductive invariant: which create_pair is being executed, and how   *)
(* far it is.                                                              *)

NextPair == Len(tx.before.contracts) + 1
AskedInfo(assets) == PairInfo(assets, [i \in Sides |-> DecimalsOf(assets[i])])
Grown(assets) ==
  Append(tx.before.contracts, [info   |-> AskedInfo(assets),
                               codeId |-> config.pairCodeId])
Relisted(assets) ==
  [tx.before.pairs EXCEPT ![PairKey(assets)] =
     [contract |-> NextPair, info |-> AskedInfo(assets)]]

(* What the handler has checked, in the state the transaction began with,  *)
(* and what it has saved.                                                  *)
Began(u, assets, amounts, funds) ==
  /\ u \in Users /\ assets \in AssetPairs
  /\ amounts \in FirstDeposits /\ funds \in Funds
  /\ assets[0] # assets[1]
  /\ FeeSent(funds)
  /\ \A i \in Sides : DecimalsOf(assets[i]) # None
  /\ tx.before.pairs[PairKey(assets)] = None
  /\ \A d \in Natives : tx.before.bank[d][u] >= funds[d]
  /\ tmpPairInfo = TmpPairInfo(u, assets, amounts)

CoinsOf(t, funds) == IF t \in Natives THEN funds[t] ELSE 0

(* Of the first deposit, what is pulled when the first k tokens are.       *)
Pulled(t, assets, amounts, k) ==
  IF t \in Natives THEN 0
  ELSE IF t = assets[0] /\ k > 0 THEN amounts[0]
  ELSE IF t = assets[1] /\ k > 1 THEN amounts[1] ELSE 0

HandlerRun(u, assets, amounts, funds) ==
  /\ tx.queue = <<[does |-> "instantiate", info |-> AskedInfo(assets)]>>
  /\ pairs = tx.before.pairs /\ contracts = tx.before.contracts
  /\ \A t \in Tokens :
       Shifted(bank[t], tx.before.bank[t], u, NextPair,
               CoinsOf(t, funds), CoinsOf(t, funds), 0)

Instantiated(u, assets, amounts, funds) ==
  /\ NextPair \in Pairs
  /\ tx.queue = <<[does |-> "reply", contract |-> NextPair]>>
  /\ pairs = tx.before.pairs /\ contracts = Grown(assets)
  /\ \A t \in Tokens :
       Shifted(bank[t], tx.before.bank[t], u, NextPair,
               CoinsOf(t, funds), CoinsOf(t, funds) - CreationFee(t), 0)

Due(k) ==
  (IF k = 0 THEN Pulls(0) ELSE <<>>) \o (IF k < 2 THEN Pulls(1) ELSE <<>>)
    \o <<[does |-> "provide_liquidity", contract |-> NextPair]>>

Pulling(u, assets, amounts, funds, k) ==
  /\ NextPair \in Pairs
  /\ tx.queue = Due(k)
  /\ pairs = Relisted(assets) /\ contracts = Grown(assets)
  /\ \A i \in Sides :
       i < k /\ assets[i] \in Cw20s => tx.before.bank[assets[i]][u] >= amounts[i]
  /\ \A t \in Tokens :
       Shifted(bank[t], tx.before.bank[t], u, NextPair,
               CoinsOf(t, funds) + Pulled(t, assets, amounts, k),
               CoinsOf(t, funds) - CreationFee(t) + Pulled(t, assets, amounts, k),
               0)

Affordable(u, assets, amounts, funds) ==
  amounts # [i \in Sides |-> 0] =>
    /\ amounts[0] * amounts[1] \in LeastProduct .. GreatestProduct
    /\ \A i \in Sides :
         IF assets[i] \in Natives
         THEN tx.before.bank[assets[i]][FactoryAddr] + funds[assets[i]]
                >= CreationFee(assets[i]) + amounts[i]
         ELSE tx.before.bank[assets[i]][u] >= amounts[i]

Provided(u, assets, amounts, funds) ==
  /\ NextPair \in Pairs
  /\ tx.queue = <<>>
  /\ pairs = Relisted(assets) /\ contracts = Grown(assets)
  /\ Affordable(u, assets, amounts, funds)
  /\ \A t \in Tokens :
       Shifted(bank[t], tx.before.bank[t], u, NextPair,
               CoinsOf(t, funds) + Pulled(t, assets, amounts, 2),
               CoinsOf(t, funds) - CreationFee(t)
                 + Pulled(t, assets, amounts, 2) - Deposited(t, assets, amounts),
               Deposited(t, assets, amounts))

Stages(u, assets, amounts, funds) ==
  \/ HandlerRun(u, assets, amounts, funds)
  \/ Instantiated(u, assets, amounts, funds)
  \/ \E k \in 0 .. 2 : Pulling(u, assets, amounts, funds, k)
  \/ Provided(u, assets, amounts, funds)

Followed ==
  /\ bank \in Banks
  /\ tx # None =>
       /\ tx = [before |-> tx.before, queue |-> tx.queue]
       /\ tx.before.bank \in Banks
       /\ \E u, assets, amounts, funds :
            Began(u, assets, amounts, funds) /\ Stages(u, assets, amounts, funds)

LEMMA FollowedAtFirst ==
  ASSUME MessagesInit
  PROVE  Followed
<1>1. /\ tx = None
      /\ bank = [t \in Tokens |-> [a \in Accounts |->
                   IF a \in Pairs THEN 0 ELSE Genesis[t][a]]]
  BY DEF MessagesInit, Init
<1>2. ASSUME NEW t \in Tokens, NEW a \in Accounts
      PROVE  (IF a \in Pairs THEN 0 ELSE Genesis[t][a]) \in Nat
  BY FactoryTypesAssumption DEF Accounts
<1>3. bank \in Banks
  BY <1>1, <1>2 DEF Banks, Rows
<1> QED  BY <1>1, <1>3 DEF Followed

(* The types of what a transaction is made of. *)
LEMMA BeganFacts ==
  ASSUME Followed, tx # None, NEW u, NEW assets, NEW amounts, NEW funds,
         Began(u, assets, amounts, funds)
  PROVE  /\ u \in Users /\ assets \in AssetPairs
         /\ assets[0] \in Tokens /\ assets[1] \in Tokens /\ assets[0] # assets[1]
         /\ amounts[0] \in Nat /\ amounts[1] \in Nat
         /\ \A t \in Tokens :
              /\ CoinsOf(t, funds) \in Nat /\ CreationFee(t) \in Nat
              /\ Deposited(t, assets, amounts) \in Nat
              /\ \A k \in 0 .. 2 : Pulled(t, assets, amounts, k) \in Nat
              /\ tx.before.bank[t] \in Rows
              /\ bank[t] \in Rows
         /\ \A t \in Tokens \ {FeeDenom} : CreationFee(t) = 0
         /\ CreationFee(FeeDenom) = FeeAmount
         /\ tmpPairInfo.assets = assets /\ tmpPairInfo.amounts = amounts
         /\ tmpPairInfo.sender = u /\ tmpPairInfo.key = PairKey(assets)
<1>1. /\ u \in Users /\ assets \in AssetPairs /\ assets[0] # assets[1]
      /\ amounts \in FirstDeposits /\ funds \in Funds
      /\ tmpPairInfo = TmpPairInfo(u, assets, amounts)
  BY DEF Began
<1>2. assets[0] \in Tokens /\ assets[1] \in Tokens
  BY <1>1 DEF AssetPairs, Sides
<1>3. /\ amounts \in [Sides -> Nat] /\ funds \in [Natives -> Nat]
      /\ FeeAmount \in Nat
  BY <1>1, FactoryTypesAssumption
<1>4. amounts[0] \in Nat /\ amounts[1] \in Nat
  BY <1>3 DEF Sides
<1>5. ASSUME NEW t \in Tokens
      PROVE  /\ CoinsOf(t, funds) \in Nat /\ CreationFee(t) \in Nat
             /\ Deposited(t, assets, amounts) \in Nat
             /\ \A k \in 0 .. 2 : Pulled(t, assets, amounts, k) \in Nat
             /\ tx.before.bank[t] \in Rows
             /\ bank[t] \in Rows
  <2>1. CoinsOf(t, funds) \in Nat /\ CreationFee(t) \in Nat
    BY <1>3 DEF CoinsOf, CreationFee
  <2>2. /\ Deposited(t, assets, amounts) \in Nat
        /\ \A k \in 0 .. 2 : Pulled(t, assets, amounts, k) \in Nat
    BY <1>4 DEF Deposited, Pulled
  <2>3. tx.before.bank[t] \in Rows /\ bank[t] \in Rows
    BY DEF Followed, Banks
  <2> QED  BY <2>1, <2>2, <2>3
<1>6. /\ \A t \in Tokens \ {FeeDenom} : CreationFee(t) = 0
      /\ CreationFee(FeeDenom) = FeeAmount
  BY DEF CreationFee
<1>7. /\ tmpPairInfo.assets = assets /\ tmpPairInfo.amounts = amounts
      /\ tmpPairInfo.sender = u /\ tmpPairInfo.key = PairKey(assets)
  BY <1>1 DEF TmpPairInfo
<1> QED  BY <1>1, <1>2, <1>4, <1>5, <1>6, <1>7

(* A message of it leaves alone what it began with. *)
Continues ==
  /\ tx # None /\ tx' # None
  /\ tx'.before = tx.before
  /\ tx' = [before |-> tx'.before, queue |-> tx'.queue]
  /\ UNCHANGED <<ownership, config, decimals, tmpPairInfo>>

LEMMA ContinuedFacts ==
  ASSUME Continues, NEW u, NEW assets, NEW amounts, NEW funds
  PROVE  /\ Began(u, assets, amounts, funds) => Began(u, assets, amounts, funds)'
         /\ NextPair' = NextPair
         /\ AskedInfo(assets)' = AskedInfo(assets)
         /\ Grown(assets)' = Grown(assets)
         /\ Relisted(assets)' = Relisted(assets)
         /\ Affordable(u, assets, amounts, funds)
              => Affordable(u, assets, amounts, funds)'
         /\ \A k \in 0 .. 2 : Due(k)' = Due(k)
<1>1. /\ tx'.before = tx.before /\ config' = config
      /\ decimals' = decimals /\ tmpPairInfo' = tmpPairInfo
  BY DEF Continues
<1>2. /\ NextPair' = NextPair
      /\ AskedInfo(assets)' = AskedInfo(assets)
  BY <1>1 DEF NextPair, AskedInfo, PairInfo, DecimalsOf
<1>3. Grown(assets)' = Grown(assets) /\ Relisted(assets)' = Relisted(assets)
  BY <1>1, <1>2 DEF Grown, Relisted
<1>4. Began(u, assets, amounts, funds) => Began(u, assets, amounts, funds)'
  BY <1>1 DEF Began, DecimalsOf, TmpPairInfo
<1>5. Affordable(u, assets, amounts, funds)
        => Affordable(u, assets, amounts, funds)'
  BY <1>1 DEF Affordable
<1>6. \A k \in 0 .. 2 : Due(k)' = Due(k)
  BY <1>1, <1>2 DEF Due, Pulls, Pull
<1> QED  BY <1>2, <1>3, <1>4, <1>5, <1>6

(* The steps. *)

LEMMA HandlerFollows ==
  ASSUME NoneIsNoTransaction, Followed,
         NEW u \in Users, NEW assets \in AssetPairs,
         NEW amounts \in FirstDeposits, NEW funds \in Funds,
         HandleCreatePair(u, assets, amounts, funds)
  PROVE  Followed'
<1>1. /\ tx = None /\ tmpPairInfo' = TmpPairInfo(u, assets, amounts)
      /\ assets[0] # assets[1] /\ FeeSent(funds) /\ NotListed(assets)
      /\ \A i \in Sides : DecimalsOf(assets[i]) # None
      /\ \A d \in Natives : bank[d][u] >= funds[d]
      /\ bank' = [t \in Tokens |->
           IF t \in Natives THEN Move(bank[t], u, FactoryAddr, funds[t]) ELSE bank[t]]
      /\ tx' = [before |-> Current,
                queue  |-> <<[does |-> "instantiate",
                              info |-> PairInfo(assets, [i \in Sides |->
                                                  DecimalsOf(assets[i])])]>>]
      /\ config' = config /\ decimals' = decimals
      /\ pairs' = pairs /\ contracts' = contracts
  BY DEF HandleCreatePair, Saved
<1>2. tx' # None
  BY <1>1 DEF NoneIsNoTransaction
<1>3. /\ tx' = [before |-> tx'.before, queue |-> tx'.queue]
      /\ tx'.before.pairs = pairs /\ tx'.before.contracts = contracts
      /\ tx'.before.bank = bank
      /\ tx'.queue = <<[does |-> "instantiate", info |-> AskedInfo(assets)]>>
  BY <1>1 DEF Current, AskedInfo
<1>4. AskedInfo(assets)' = AskedInfo(assets)
  BY <1>1 DEF AskedInfo, PairInfo, DecimalsOf
<1>5. TmpPairInfo(u, assets, amounts)' = TmpPairInfo(u, assets, amounts)
  BY <1>1 DEF TmpPairInfo, DecimalsOf
<1>6. Began(u, assets, amounts, funds)'
  BY <1>1, <1>3, <1>5 DEF Began, NotListed, DecimalsOf
<1>7. bank \in Banks /\ funds \in [Natives -> Nat]
  BY FactoryTypesAssumption DEF Followed
<1>8. ASSUME NEW t \in Tokens
      PROVE  Shifted(bank'[t], bank[t], u, NextPair',
                     CoinsOf(t, funds), CoinsOf(t, funds), 0)
  <2>1. bank[t] \in Rows
    BY <1>7 DEF Banks
  <2>2. Shifted(bank[t], bank[t], u, NextPair', 0, 0, 0)
    BY <2>1, NothingShifted
  <2>3. CASE t \in Natives
    <3>1. funds[t] \in Nat /\ bank[t][u] >= funds[t]
      BY <1>1, <1>7, <2>3
    <3>2. Shifted(Move(bank[t], u, FactoryAddr, funds[t]), bank[t], u, NextPair',
                  0 + funds[t], 0 + funds[t], 0)
      BY ONLY <2>1, <2>2, <3>1, ShiftIn, u \in Users, 0 \in Int
    <3>3. 0 + funds[t] = funds[t]
      BY <3>1
    <3>4. bank'[t] = Move(bank[t], u, FactoryAddr, funds[t])
      BY <1>1, <2>3
    <3>5. CoinsOf(t, funds) = funds[t]
      BY <2>3 DEF CoinsOf
    <3> QED  BY <3>2, <3>3, <3>4, <3>5
  <2>4. CASE t \notin Natives
    BY <1>1, <2>2, <2>4 DEF CoinsOf
  <2> QED  BY <2>3, <2>4
<1>9. \A t \in Tokens : bank'[t] \in Rows
  BY <1>8 DEF Shifted
<1>10. bank' \in Banks
  BY <1>1, <1>9 DEF Banks
<1>11. HandlerRun(u, assets, amounts, funds)'
  BY <1>1, <1>3, <1>4, <1>8 DEF HandlerRun, CoinsOf
<1> QED
  BY <1>2, <1>3, <1>6, <1>7, <1>10, <1>11 DEF Followed, Stages

(* Which stage it is at, by the message that is next. *)
LEMMA StageFollows ==
  ASSUME NEW u, NEW assets, NEW amounts, NEW funds,
         Stages(u, assets, amounts, funds), tmpPairInfo.assets = assets
  PROVE  /\ Executes("instantiate") => HandlerRun(u, assets, amounts, funds)
         /\ Executes("reply") => Instantiated(u, assets, amounts, funds)
         /\ Executes("transfer_from") \/ Executes("provide_liquidity")
              => \E k \in 0 .. 2 : Pulling(u, assets, amounts, funds, k)
         /\ tx.queue = <<>> => Provided(u, assets, amounts, funds)
<1>1. HandlerRun(u, assets, amounts, funds)
        => tx.queue # <<>> /\ Head(tx.queue).does = "instantiate"
  BY DEF HandlerRun
<1>2. Instantiated(u, assets, amounts, funds)
        => tx.queue # <<>> /\ Head(tx.queue).does = "reply"
  BY DEF Instantiated
<1>3. ASSUME NEW k \in 0 .. 2, Pulling(u, assets, amounts, funds, k)
      PROVE  tx.queue # <<>>
             /\ Head(tx.queue).does \in {"transfer_from", "provide_liquidity"}
  <2> DEFINE provide == [does |-> "provide_liquidity", contract |-> NextPair]
             first   == IF k = 0 THEN Pulls(0) ELSE <<>>
             second  == IF k < 2 THEN Pulls(1) ELSE <<>>
             a == Pull(0)
             b == Pull(1)
  <2>1. (first = <<>> \/ first = <<a>>) /\ (second = <<>> \/ second = <<b>>)
    BY DEF Pulls
  <2>3. tx.queue = (first \o second) \o <<provide>>
    BY <1>3 DEF Pulling, Due
  <2> HIDE DEF first, second, provide, a, b
  <2>4. tx.queue # <<>> /\ Head(tx.queue) \in {a, b, provide}
    <3>1. CASE first = <<>> /\ second = <<>>
      BY <2>3, <3>1
    <3>2. CASE first = <<>> /\ second = <<b>>
      BY <2>3, <3>2
    <3>3. CASE first = <<a>> /\ second = <<>>
      BY <2>3, <3>3
    <3>4. CASE first = <<a>> /\ second = <<b>>
      BY <2>3, <3>4
    <3> QED  BY <2>1, <3>1, <3>2, <3>3, <3>4
  <2> QED  BY <2>4 DEF a, b, Pull, provide
<1>4. Provided(u, assets, amounts, funds) => tx.queue = <<>>
  BY DEF Provided
<1> QED  BY <1>1, <1>2, <1>3, <1>4 DEF Stages, Executes

LEMMA ContinuesFacts ==
  ASSUME NoneIsNoTransaction, Followed, NEW messages,
         tx # None, ThenExecute(messages),
         UNCHANGED <<ownership, config, decimals, tmpPairInfo>>
  PROVE  Continues /\ tx'.queue = messages \o Tail(tx.queue)
<1>1. tx = [before |-> tx.before, queue |-> tx.queue]
  BY DEF Followed
<1>2. tx' = [before |-> tx.before, queue |-> messages \o Tail(tx.queue)]
  BY <1>1 DEF ThenExecute
<1> QED  BY <1>2 DEF Continues, NoneIsNoTransaction

LEMMA InstantiationFollows ==
  ASSUME NoneIsNoTransaction, Followed, InstantiatePair
  PROVE  Followed' /\ Continues
<1>1. /\ tx # None /\ Executes("instantiate")
      /\ Len(contracts) + 1 \in Pairs
      /\ bank[FeeDenom][FactoryAddr] >= FeeAmount
      /\ bank' = [bank EXCEPT ![FeeDenom][FactoryAddr] = @ - FeeAmount]
      /\ contracts' = Append(contracts, [info   |-> Head(tx.queue).info,
                                         codeId |-> config.pairCodeId])
      /\ ThenExecute(<<[does |-> "reply", contract |-> Len(contracts) + 1]>>)
      /\ pairs' = pairs
      /\ UNCHANGED <<ownership, config, decimals, tmpPairInfo>>
  BY DEF InstantiatePair, Executes
<1>2. PICK u, assets, amounts, funds :
        Began(u, assets, amounts, funds) /\ Stages(u, assets, amounts, funds)
  BY <1>1 DEF Followed
<1>3. tmpPairInfo.assets = assets
  BY <1>2 DEF Began, TmpPairInfo
<1>4. HandlerRun(u, assets, amounts, funds)
  BY <1>1, <1>2, <1>3, StageFollows
<1>5. /\ tx.queue = <<[does |-> "instantiate", info |-> AskedInfo(assets)]>>
      /\ pairs = tx.before.pairs /\ contracts = tx.before.contracts
      /\ \A t \in Tokens :
           Shifted(bank[t], tx.before.bank[t], u, NextPair,
                   CoinsOf(t, funds), CoinsOf(t, funds), 0)
  BY <1>4 DEF HandlerRun
<1>6. Head(tx.queue).info = AskedInfo(assets) /\ Tail(tx.queue) = <<>>
      /\ Len(contracts) + 1 = NextPair
  BY <1>5 DEF NextPair
<1>7. /\ Continues
      /\ tx'.queue = <<[does |-> "reply", contract |-> NextPair]>> \o Tail(tx.queue)
  <2>1. ThenExecute(<<[does |-> "reply", contract |-> NextPair]>>)
    BY <1>1, <1>6
  <2>2. tx # None /\ UNCHANGED <<ownership, config, decimals, tmpPairInfo>>
    BY <1>1
  <2> QED  BY ONLY NoneIsNoTransaction, Followed, <2>1, <2>2, ContinuesFacts
<1>8. tx'.queue = <<[does |-> "reply", contract |-> NextPair]>>
  <2> DEFINE message == [does |-> "reply", contract |-> NextPair]
  <2>1. tx'.queue = <<message>> \o <<>>
    BY <1>6, <1>7
  <2> HIDE DEF message
  <2>2. <<message>> \o <<>> = <<message>>
    OBVIOUS
  <2> QED  BY <2>1, <2>2 DEF message
<1>9. /\ Began(u, assets, amounts, funds)' /\ NextPair' = NextPair
      /\ AskedInfo(assets)' = AskedInfo(assets) /\ Grown(assets)' = Grown(assets)
  BY <1>2, <1>7, ContinuedFacts
<1>10. tx'.before = tx.before
  BY <1>7 DEF Continues
<1>11. ASSUME NEW t \in Tokens
       PROVE  Shifted(bank'[t], tx.before.bank[t], u, NextPair,
                      CoinsOf(t, funds), CoinsOf(t, funds) - CreationFee(t), 0)
  <2>1. /\ u \in Users /\ CoinsOf(t, funds) \in Nat /\ CreationFee(t) \in Nat
        /\ tx.before.bank[t] \in Rows /\ bank[t] \in Rows
        /\ (t # FeeDenom => CreationFee(t) = 0)
        /\ CreationFee(FeeDenom) = FeeAmount
    BY <1>1, <1>2, BeganFacts
  <2>2. Shifted(bank[t], tx.before.bank[t], u, NextPair,
                CoinsOf(t, funds), CoinsOf(t, funds), 0)
    BY <1>5
  <2>3. CASE t = FeeDenom
    <3> DEFINE old == tx.before.bank[t]
               row == bank[t]
               c   == CoinsOf(t, funds)
    <3>1. bank'[t] = [row EXCEPT ![FactoryAddr] = @ - FeeAmount]
      BY <1>1, <2>3, AccountFacts, FactoryNamesAssumption DEF Followed, Banks
    <3>2. FeeAmount \in Nat /\ row[FactoryAddr] >= FeeAmount
      BY <1>1, <2>1, <2>3
    <3>3. c \in Int /\ old \in Rows /\ Shifted(row, old, u, NextPair, c, c, 0)
      BY <2>1, <2>2
    <3> HIDE DEF old, row, c
    <3>4. Shifted([row EXCEPT ![FactoryAddr] = @ - FeeAmount], old, u, NextPair,
                  c, c - FeeAmount, 0)
      BY ONLY <2>1, <3>2, <3>3, ShiftAway, 0 \in Int
    <3> QED  BY <2>1, <2>3, <3>1, <3>4 DEF old, row, c
  <2>4. CASE t # FeeDenom
    <3>1. bank'[t] = bank[t]
      BY <1>1, <2>4 DEF Followed, Banks
    <3>2. CoinsOf(t, funds) - CreationFee(t) = CoinsOf(t, funds)
      BY <2>1, <2>4
    <3> QED  BY <2>2, <3>1, <3>2
  <2> QED  BY <2>3, <2>4
<1>12. bank' \in Banks
  <2>1. \A t \in Tokens : bank'[t] \in Rows
    BY <1>11 DEF Shifted
  <2>2. bank' \in [Tokens -> {bank'[t] : t \in Tokens}]
    BY <1>1 DEF Followed, Banks
  <2> QED  BY <2>1, <2>2 DEF Banks
<1>13. Instantiated(u, assets, amounts, funds)'
  BY <1>1, <1>5, <1>6, <1>8, <1>9, <1>10, <1>11
     DEF Instantiated, Grown, CoinsOf, CreationFee
<1> QED
  BY <1>7, <1>9, <1>10, <1>12, <1>13 DEF Followed, Stages, Continues

LEMMA ReplyFollows ==
  ASSUME NoneIsNoTransaction, Followed, Reply
  PROVE  Followed' /\ Continues
<1>1. /\ tx # None /\ Executes("reply")
      /\ pairs' = [pairs EXCEPT ![tmpPairInfo.key] =
                     [contract |-> Head(tx.queue).contract,
                      info |-> PairInfo(tmpPairInfo.assets, tmpPairInfo.decimals)]]
      /\ ThenExecute(DepositMessages(Head(tx.queue).contract))
      /\ contracts' = contracts /\ bank' = bank
  BY DEF Reply, Executes
<1>2. UNCHANGED <<ownership, config, decimals, tmpPairInfo>>
  BY DEF Reply
<1>3. PICK u, assets, amounts, funds :
        Began(u, assets, amounts, funds) /\ Stages(u, assets, amounts, funds)
  BY <1>1 DEF Followed
<1>4. /\ tmpPairInfo.assets = assets /\ tmpPairInfo.amounts = amounts
      /\ tmpPairInfo.key = PairKey(assets)
      /\ PairInfo(tmpPairInfo.assets, tmpPairInfo.decimals) = AskedInfo(assets)
  BY <1>3 DEF Began, TmpPairInfo, AskedInfo
<1>5. Instantiated(u, assets, amounts, funds)
  BY <1>1, <1>3, <1>4, StageFollows
<1>6. /\ NextPair \in Pairs
      /\ tx.queue = <<[does |-> "reply", contract |-> NextPair]>>
      /\ pairs = tx.before.pairs /\ contracts = Grown(assets)
      /\ \A t \in Tokens :
           Shifted(bank[t], tx.before.bank[t], u, NextPair,
                   CoinsOf(t, funds), CoinsOf(t, funds) - CreationFee(t), 0)
  BY <1>5 DEF Instantiated
<1>7. Head(tx.queue).contract = NextPair /\ Tail(tx.queue) = <<>>
  BY <1>6
<1>8. ThenExecute(DepositMessages(NextPair))
  BY <1>1, <1>7
<1>9. Continues /\ tx'.queue = DepositMessages(NextPair) \o Tail(tx.queue)
  BY ONLY NoneIsNoTransaction, Followed, <1>1, <1>2, <1>8, ContinuesFacts
<1>10. /\ Began(u, assets, amounts, funds)' /\ NextPair' = NextPair
       /\ Relisted(assets)' = Relisted(assets) /\ Grown(assets)' = Grown(assets)
       /\ Due(0)' = Due(0)
  BY <1>3, <1>9, ContinuedFacts
<1>11. tx'.before = tx.before
  BY <1>9 DEF Continues
<1>12. pairs' = Relisted(assets)
  BY <1>1, <1>4, <1>6, <1>7 DEF Relisted
<1>13. ASSUME NEW t \in Tokens
       PROVE  /\ CoinsOf(t, funds) \in Nat /\ CreationFee(t) \in Nat
              /\ Pulled(t, assets, amounts, 0) = 0
              /\ amounts = [i \in Sides |-> 0] =>
                   /\ Pulled(t, assets, amounts, 2) = 0
                   /\ Deposited(t, assets, amounts) = 0
  BY <1>1, <1>3, BeganFacts DEF Pulled, Deposited, Sides
<1>14. CASE amounts = [i \in Sides |-> 0]
  <2>1. tx'.queue = <<>>
    BY <1>4, <1>7, <1>9, <1>14 DEF DepositMessages
  <2>2. ASSUME NEW t \in Tokens
        PROVE  Shifted(bank'[t], tx.before.bank[t], u, NextPair,
                       CoinsOf(t, funds) + Pulled(t, assets, amounts, 2),
                       CoinsOf(t, funds) - CreationFee(t)
                         + Pulled(t, assets, amounts, 2)
                         - Deposited(t, assets, amounts),
                       Deposited(t, assets, amounts))
    <3>1. /\ CoinsOf(t, funds) + Pulled(t, assets, amounts, 2) = CoinsOf(t, funds)
          /\ CoinsOf(t, funds) - CreationFee(t) + Pulled(t, assets, amounts, 2)
               - Deposited(t, assets, amounts)
               = CoinsOf(t, funds) - CreationFee(t)
          /\ Deposited(t, assets, amounts) = 0
      BY <1>13, <1>14
    <3>2. Shifted(bank[t], tx.before.bank[t], u, NextPair,
                  CoinsOf(t, funds), CoinsOf(t, funds) - CreationFee(t), 0)
      BY <1>6
    <3> QED  BY ONLY <1>1, <3>1, <3>2
  <2>3. Affordable(u, assets, amounts, funds)'
    BY <1>14 DEF Affordable
  <2>4. Provided(u, assets, amounts, funds)'
    BY <1>1, <1>6, <1>10, <1>11, <1>12, <2>1, <2>2, <2>3
       DEF Provided, CoinsOf, CreationFee, Pulled, Deposited
  <2> QED
    BY <1>1, <1>9, <1>10, <1>11, <2>4 DEF Followed, Stages, Continues
<1>15. CASE amounts # [i \in Sides |-> 0]
  <2>1. tx'.queue = Due(0)
    <3> DEFINE m == DepositMessages(NextPair)
    <3>1. DepositMessages(NextPair) = Due(0)
      BY <1>4, <1>15 DEF DepositMessages, Due
    <3>2. Due(0) \o <<>> = Due(0)
      <4> DEFINE a == Pull(0)
                 b == Pull(1)
                 c == [does |-> "provide_liquidity", contract |-> NextPair]
                 S == {a, b, c}
      <4>1. /\ Pulls(0) = <<>> \/ Pulls(0) = <<a>>
            /\ Pulls(1) = <<>> \/ Pulls(1) = <<b>>
        BY DEF Pulls
      <4>2. Due(0) = Pulls(0) \o Pulls(1) \o <<c>>
        BY DEF Due
      <4> HIDE DEF a, b, c
      <4>3. /\ <<>> \in Seq(S) /\ <<a>> \in Seq(S) /\ <<b>> \in Seq(S)
            /\ <<c>> \in Seq(S)
        OBVIOUS
      <4> HIDE DEF S
      <4>4. Pulls(0) \in Seq(S) /\ Pulls(1) \in Seq(S)
        BY <4>1, <4>3
      <4>5. Pulls(0) \o Pulls(1) \in Seq(S)
        BY ONLY <4>4, ConcatProperties
      <4>6. Due(0) \in Seq(S)
        BY ONLY <4>2, <4>3, <4>5, ConcatProperties
      <4> QED  BY <4>6, ConcatEmptySeq
    <3> QED  BY <1>7, <1>9, <3>1, <3>2
  <2>2. ASSUME NEW t \in Tokens
        PROVE  Shifted(bank'[t], tx.before.bank[t], u, NextPair,
                       CoinsOf(t, funds) + Pulled(t, assets, amounts, 0),
                       CoinsOf(t, funds) - CreationFee(t)
                         + Pulled(t, assets, amounts, 0), 0)
    <3>1. /\ CoinsOf(t, funds) + Pulled(t, assets, amounts, 0) = CoinsOf(t, funds)
          /\ CoinsOf(t, funds) - CreationFee(t) + Pulled(t, assets, amounts, 0)
               = CoinsOf(t, funds) - CreationFee(t)
      BY <1>13
    <3>2. Shifted(bank[t], tx.before.bank[t], u, NextPair,
                  CoinsOf(t, funds), CoinsOf(t, funds) - CreationFee(t), 0)
      BY <1>6
    <3> QED  BY ONLY <1>1, <3>1, <3>2
  <2>3. \A i \in Sides : ~(i < 0)
    BY DEF Sides
  <2>4. Pulling(u, assets, amounts, funds, 0)'
    BY <1>1, <1>6, <1>10, <1>11, <1>12, <2>1, <2>2, <2>3
       DEF Pulling, CoinsOf, CreationFee, Pulled
  <2>5. (\E k \in 0 .. 2 : Pulling(u, assets, amounts, funds, k))'
    BY <2>4
  <2> QED
    BY <1>1, <1>9, <1>10, <1>11, <2>5 DEF Followed, Stages, Continues
<1> QED  BY <1>14, <1>15

(* What is due when k tokens are pulled, or were not to be. *)
LEMMA DueFacts ==
  ASSUME NEW k \in 0 .. 2
  PROVE  /\ Due(k) # <<>>
         /\ \/ /\ k = 0 /\ tmpPairInfo.assets[0] \in Cw20s
               /\ Head(Due(k)) = Pull(0) /\ Tail(Due(k)) = Due(1)
            \/ /\ k < 2 /\ (k = 0 => tmpPairInfo.assets[0] \notin Cw20s)
               /\ tmpPairInfo.assets[1] \in Cw20s
               /\ Head(Due(k)) = Pull(1) /\ Tail(Due(k)) = Due(2)
            \/ /\ k = 0 => tmpPairInfo.assets[0] \notin Cw20s
               /\ k < 2 => tmpPairInfo.assets[1] \notin Cw20s
               /\ Head(Due(k)) = [does |-> "provide_liquidity", contract |-> NextPair]
               /\ Tail(Due(k)) = <<>>
<1> DEFINE a == Pull(0)
           b == Pull(1)
           c == [does |-> "provide_liquidity", contract |-> NextPair]
           A == tmpPairInfo.assets[0] \in Cw20s
           B == tmpPairInfo.assets[1] \in Cw20s
<1>1. /\ Pulls(0) = IF A THEN Single(a) ELSE <<>>
      /\ Pulls(1) = IF B THEN Single(b) ELSE <<>>
  BY DEF Pulls, Single
<1>2. /\ Due(0) = Pulls(0) \o Pulls(1) \o Single(c)
      /\ Due(1) = <<>> \o Pulls(1) \o Single(c)
      /\ Due(2) = <<>> \o <<>> \o Single(c)
  BY DEF Due, Single
<1> HIDE DEF a, b, c, A, B
<1>3. Due(2) = Single(c)
  BY ONLY <1>2, Concats
<1>4. /\ B => Due(1) = Couple(b, c)
      /\ ~B => Due(1) = Single(c)
  BY ONLY <1>1, <1>2, Concats
<1>5. /\ A /\ B => Due(0) = Triple(a, b, c)
      /\ A /\ ~B => Due(0) = Couple(a, c)
      /\ ~A /\ B => Due(0) = Couple(b, c)
      /\ ~A /\ ~B => Due(0) = Single(c)
  <2>1. /\ Single(a) \o Single(b) \o Single(c) = Triple(a, b, c)
        /\ Single(a) \o <<>> \o Single(c) = Couple(a, c)
        /\ <<>> \o Single(b) \o Single(c) = Couple(b, c)
        /\ <<>> \o <<>> \o Single(c) = Single(c)
    BY ONLY Concats
  <2>2. CASE A /\ B
    BY ONLY <1>1, <1>2, <2>1, <2>2
  <2>3. CASE A /\ ~B
    BY ONLY <1>1, <1>2, <2>1, <2>3
  <2>4. CASE ~A /\ B
    BY ONLY <1>1, <1>2, <2>1, <2>4
  <2>5. CASE ~A /\ ~B
    BY ONLY <1>1, <1>2, <2>1, <2>5
  <2> QED  BY ONLY <2>2, <2>3, <2>4, <2>5
<1>6. k = 0 \/ k = 1 \/ k = 2
  OBVIOUS
<1>7. /\ Due(k) # <<>>
      /\ \/ k = 0 /\ A /\ Head(Due(k)) = a /\ Tail(Due(k)) = Due(1)
         \/ k < 2 /\ (k = 0 => ~A) /\ B /\ Head(Due(k)) = b /\ Tail(Due(k)) = Due(2)
         \/ (k = 0 => ~A) /\ (k < 2 => ~B) /\ Head(Due(k)) = c /\ Tail(Due(k)) = <<>>
  <2>1. /\ Single(c) # <<>> /\ Head(Single(c)) = c /\ Tail(Single(c)) = <<>>
        /\ \A x \in {a, b} :
             /\ Couple(x, c) # <<>>
             /\ Head(Couple(x, c)) = x /\ Tail(Couple(x, c)) = Single(c)
        /\ Triple(a, b, c) # <<>>
        /\ Head(Triple(a, b, c)) = a /\ Tail(Triple(a, b, c)) = Couple(b, c)
    BY ONLY HeadOfSingle, HeadOfCouple, HeadOfTriple
  <2>2. CASE k = 0
    <3>1. CASE A /\ B
      BY ONLY <1>4, <1>5, <2>1, <2>2, <3>1
    <3>2. CASE A /\ ~B
      BY ONLY <1>4, <1>5, <2>1, <2>2, <3>2
    <3>3. CASE ~A /\ B
      BY ONLY <1>3, <1>5, <2>1, <2>2, <3>3
    <3>4. CASE ~A /\ ~B
      BY ONLY <1>5, <2>1, <2>2, <3>4
    <3> QED  BY ONLY <3>1, <3>2, <3>3, <3>4
  <2>3. CASE k = 1
    BY ONLY <1>3, <1>4, <2>1, <2>3
  <2>4. CASE k = 2
    BY ONLY <1>3, <2>1, <2>4
  <2> QED  BY ONLY <1>6, <2>2, <2>3, <2>4
<1> QED  BY <1>7 DEF a, b, c, A, B

(* The next token is pulled, of side i. *)
LEMMA PullFollows ==
  ASSUME NoneIsNoTransaction, Followed, tx # None,
         NEW u, NEW assets, NEW amounts, NEW funds,
         Began(u, assets, amounts, funds),
         NEW k \in 0 .. 2, Pulling(u, assets, amounts, funds, k),
         NEW i \in Sides, k <= i, assets[i] \in Cw20s,
         \A j \in Sides : k <= j /\ j < i => assets[j] \notin Cw20s,
         Head(tx.queue) = Pull(i), Tail(tx.queue) = Due(i + 1),
         TransferFrom
  PROVE  Followed' /\ Continues
<1> DEFINE c == assets[i]
           x == amounts[i]
<1>1. /\ i = 0 \/ i = 1
      /\ k = 0 \/ k = 1 \/ k = 2
      /\ c \in Cw20s /\ c \in Tokens /\ c \notin Natives
      /\ i + 1 \in 0 .. 2
  BY AccountFacts DEF Sides
<1>2. /\ u \in Users /\ assets \in AssetPairs
      /\ assets[0] \in Tokens /\ assets[1] \in Tokens /\ assets[0] # assets[1]
      /\ amounts[0] \in Nat /\ amounts[1] \in Nat
      /\ \A t \in Tokens :
           /\ CoinsOf(t, funds) \in Nat /\ CreationFee(t) \in Nat
           /\ \A j \in 0 .. 2 : Pulled(t, assets, amounts, j) \in Nat
           /\ tx.before.bank[t] \in Rows
           /\ bank[t] \in Rows
      /\ tmpPairInfo.assets = assets /\ tmpPairInfo.amounts = amounts
      /\ tmpPairInfo.sender = u
  BY BeganFacts
<1>3. x \in Nat
  BY <1>1, <1>2
<1>4. /\ Pull(i) = [does |-> "transfer_from", token |-> c, amount |-> x]
      /\ Pull(i).token = c /\ Pull(i).amount = x
  BY <1>2 DEF Pull
<1>5. /\ bank[c][u] >= x
      /\ bank' = [bank EXCEPT ![c] = Move(@, u, FactoryAddr, x)]
      /\ pairs' = pairs /\ contracts' = contracts
  BY <1>2, <1>4 DEF TransferFrom
<1>6. ThenExecute(<<>>) /\ UNCHANGED <<ownership, config, decimals, tmpPairInfo>>
  BY DEF TransferFrom
<1>7. Continues /\ tx'.queue = <<>> \o Tail(tx.queue)
  BY ONLY NoneIsNoTransaction, Followed, tx # None, <1>6, ContinuesFacts
<1>8. /\ Began(u, assets, amounts, funds)' /\ NextPair' = NextPair
      /\ Relisted(assets)' = Relisted(assets) /\ Grown(assets)' = Grown(assets)
      /\ Due(i + 1)' = Due(i + 1) /\ Due(i + 1) # <<>>
      /\ tx'.before = tx.before
  BY <1>1, <1>7, ContinuedFacts, DueFacts DEF Continues
<1>9. tx'.queue = Due(i + 1)
  <2> DEFINE S == {Pull(0), Pull(1),
                   [does |-> "provide_liquidity", contract |-> NextPair]}
  <2>1. Due(i + 1) \in Seq(S)
    <3> DEFINE a == Pull(0)
               b == Pull(1)
               d == [does |-> "provide_liquidity", contract |-> NextPair]
    <3>1. /\ Pulls(0) = <<>> \/ Pulls(0) = <<a>>
          /\ Pulls(1) = <<>> \/ Pulls(1) = <<b>>
      BY DEF Pulls
    <3>2. Due(i + 1) = (IF i + 1 = 0 THEN Pulls(0) ELSE <<>>)
                        \o (IF i + 1 < 2 THEN Pulls(1) ELSE <<>>) \o <<d>>
      BY DEF Due
    <3> DEFINE first  == IF i + 1 = 0 THEN Pulls(0) ELSE <<>>
               second == IF i + 1 < 2 THEN Pulls(1) ELSE <<>>
    <3> HIDE DEF a, b, d
    <3>3. /\ <<>> \in Seq({a, b, d}) /\ <<a>> \in Seq({a, b, d})
          /\ <<b>> \in Seq({a, b, d}) /\ <<d>> \in Seq({a, b, d})
      OBVIOUS
    <3>4. first \in Seq({a, b, d}) /\ second \in Seq({a, b, d})
      BY <3>1, <3>3
    <3> HIDE DEF first, second
    <3>5. first \o second \in Seq({a, b, d})
      BY ONLY <3>4, ConcatProperties
    <3>6. (first \o second) \o <<d>> \in Seq({a, b, d})
      BY ONLY <3>3, <3>5, ConcatProperties
    <3>7. Due(i + 1) = (first \o second) \o <<d>>
      BY <3>2 DEF first, second
    <3> QED  BY <3>6, <3>7 DEF a, b, d
  <2> QED  BY ONLY <1>7, <2>1, Tail(tx.queue) = Due(i + 1), ConcatEmptySeq
<1>10. /\ pairs = Relisted(assets) /\ contracts = Grown(assets)
       /\ NextPair \in Pairs
       /\ \A j \in Sides : j < k /\ assets[j] \in Cw20s
            => tx.before.bank[assets[j]][u] >= amounts[j]
       /\ \A t \in Tokens :
            Shifted(bank[t], tx.before.bank[t], u, NextPair,
                    CoinsOf(t, funds) + Pulled(t, assets, amounts, k),
                    CoinsOf(t, funds) - CreationFee(t)
                      + Pulled(t, assets, amounts, k), 0)
  BY DEF Pulling
(* Of the other token, no more is pulled. *)
<1>11. /\ CoinsOf(c, funds) = 0 /\ CreationFee(c) = 0
       /\ Pulled(c, assets, amounts, k) = 0
       /\ Pulled(c, assets, amounts, i + 1) = x
  BY <1>1, <1>2, FactoryNamesAssumption DEF CoinsOf, CreationFee, Pulled
<1>12. ASSUME NEW t \in Tokens, t # c
       PROVE  Pulled(t, assets, amounts, i + 1) = Pulled(t, assets, amounts, k)
  <2>1. CASE i = 0
    BY <1>1, <1>12, <2>1 DEF Pulled
  <2>2. CASE i = 1 /\ k = 1
    BY <1>1, <1>12, <2>2 DEF Pulled
  <2>3. CASE i = 1 /\ k = 0
    <3>1. assets[0] \notin Cw20s
      BY <2>3 DEF Sides
    <3>2. assets[0] \in Natives
      BY <1>2, <3>1 DEF Tokens
    <3> QED  BY <1>12, <2>3, <3>2 DEF Pulled
  <2> QED  BY <1>1, <2>1, <2>2, <2>3
<1>13. Shifted(bank'[c], tx.before.bank[c], u, NextPair, x, x, 0)
       /\ tx.before.bank[c][u] >= x
  <2> DEFINE row == bank[c]
             old == tx.before.bank[c]
  <2>1. Shifted(row, old, u, NextPair, 0, 0, 0)
    <3>1. Shifted(row, old, u, NextPair,
                  CoinsOf(c, funds) + Pulled(c, assets, amounts, k),
                  CoinsOf(c, funds) - CreationFee(c)
                    + Pulled(c, assets, amounts, k), 0)
      BY <1>1, <1>10
    <3>2. /\ CoinsOf(c, funds) + Pulled(c, assets, amounts, k) = 0
          /\ CoinsOf(c, funds) - CreationFee(c) + Pulled(c, assets, amounts, k) = 0
      BY <1>11
    <3> HIDE DEF row, old, c
    <3> QED  BY ONLY <3>1, <3>2
  <2>2. bank'[c] = Move(row, u, FactoryAddr, x) /\ row[u] >= x
    BY <1>1, <1>5 DEF Followed, Banks
  <2>3. old \in Rows /\ u \in Users
    BY <1>1, <1>2
  <2> HIDE DEF row, old, x
  <2>4. Shifted(Move(row, u, FactoryAddr, x), old, u, NextPair, 0 + x, 0 + x, 0)
    BY ONLY <1>3, <2>1, <2>2, <2>3, ShiftIn, 0 \in Int
  <2>5. old[u] = row[u]
    <3>1. old[u] \in Nat
      BY <2>3, AccountFacts DEF Rows
    <3> QED  BY <2>1, <3>1 DEF Shifted
  <2>6. 0 + x = x
    BY <1>3
  <2> QED  BY <2>2, <2>4, <2>5, <2>6 DEF old
<1>14. ASSUME NEW t \in Tokens
       PROVE  Shifted(bank'[t], tx.before.bank[t], u, NextPair,
                      CoinsOf(t, funds) + Pulled(t, assets, amounts, i + 1),
                      CoinsOf(t, funds) - CreationFee(t)
                        + Pulled(t, assets, amounts, i + 1), 0)
  <2>1. CASE t = c
    <3>1. /\ CoinsOf(c, funds) + Pulled(c, assets, amounts, i + 1) = x
          /\ CoinsOf(c, funds) - CreationFee(c)
               + Pulled(c, assets, amounts, i + 1) = x
      BY <1>3, <1>11
    <3> QED  BY ONLY <1>13, <2>1, <3>1
  <2>2. CASE t # c
    <3>1. bank'[t] = bank[t]
      BY <1>5, <2>2 DEF Followed, Banks
    <3> QED  BY <1>10, <1>12, <2>2, <3>1
  <2> QED  BY <2>1, <2>2
<1>15. bank' \in Banks
  <2>1. \A t \in Tokens : bank'[t] \in Rows
    BY <1>14 DEF Shifted
  <2>2. bank' \in [Tokens -> {bank'[t] : t \in Tokens}]
    BY <1>5 DEF Followed, Banks
  <2> QED  BY <2>1, <2>2 DEF Banks
<1>16. ASSUME NEW j \in Sides, j < i + 1, assets[j] \in Cw20s
       PROVE  tx.before.bank[assets[j]][u] >= amounts[j]
  <2>1. CASE j = i
    BY <1>13, <2>1
  <2>2. CASE j < i
    <3>1. j < k
      BY <1>1, <1>16, <2>2 DEF Sides
    <3> QED  BY <1>10, <1>16, <3>1
  <2> QED  BY <1>1, <1>16, <2>1, <2>2 DEF Sides
<1> HIDE DEF c, x
<1>17. Pulling(u, assets, amounts, funds, i + 1)'
  BY <1>5, <1>8, <1>9, <1>10, <1>14, <1>16
     DEF Pulling, CoinsOf, CreationFee, Pulled
<1>18. (\E j \in 0 .. 2 : Pulling(u, assets, amounts, funds, j))'
  BY <1>1, <1>17
<1> QED
  BY <1>2, <1>7, <1>8, <1>15, <1>18 DEF Followed, Stages, Continues, Banks

LEMMA ProvisionFollows ==
  ASSUME NoneIsNoTransaction, Followed, tx # None,
         NEW u, NEW assets, NEW amounts, NEW funds,
         Began(u, assets, amounts, funds),
         NEW k \in 0 .. 2, Pulling(u, assets, amounts, funds, k),
         k = 0 => assets[0] \notin Cw20s, k < 2 => assets[1] \notin Cw20s,
         Head(tx.queue) = [does |-> "provide_liquidity", contract |-> NextPair],
         Tail(tx.queue) = <<>>,
         ProvideLiquidity
  PROVE  Followed' /\ Continues
<1>1. k = 0 \/ k = 1 \/ k = 2
  OBVIOUS
<1>2. /\ u \in Users /\ assets \in AssetPairs
      /\ assets[0] \in Tokens /\ assets[1] \in Tokens /\ assets[0] # assets[1]
      /\ amounts[0] \in Nat /\ amounts[1] \in Nat
      /\ \A t \in Tokens :
           /\ CoinsOf(t, funds) \in Nat /\ CreationFee(t) \in Nat
           /\ Deposited(t, assets, amounts) \in Nat
           /\ \A j \in 0 .. 2 : Pulled(t, assets, amounts, j) \in Nat
           /\ tx.before.bank[t] \in Rows
           /\ bank[t] \in Rows
      /\ tmpPairInfo.assets = assets /\ tmpPairInfo.amounts = amounts
      /\ tmpPairInfo.sender = u
  BY BeganFacts
<1>3. /\ amounts[0] * amounts[1] \in LeastProduct .. GreatestProduct
      /\ \A i \in Sides : bank[assets[i]][FactoryAddr] >= amounts[i]
      /\ bank' = [t \in Tokens |->
           Move(bank[t], FactoryAddr, NextPair, Deposited(t, assets, amounts))]
      /\ pairs' = pairs /\ contracts' = contracts
  <2>1. Head(tx.queue).contract = NextPair
    OBVIOUS
  <2>2. tmpPairInfo.assets = assets /\ tmpPairInfo.amounts = amounts
    BY <1>2
  <2> QED  BY <2>1, <2>2 DEF ProvideLiquidity
<1>4. ThenExecute(<<>>) /\ UNCHANGED <<ownership, config, decimals, tmpPairInfo>>
  BY DEF ProvideLiquidity
<1>5. Continues /\ tx'.queue = <<>> \o Tail(tx.queue)
  BY ONLY NoneIsNoTransaction, Followed, tx # None, <1>4, ContinuesFacts
<1>6. tx'.queue = <<>>
  BY <1>5
<1>7. /\ Began(u, assets, amounts, funds)' /\ NextPair' = NextPair
      /\ Relisted(assets)' = Relisted(assets) /\ Grown(assets)' = Grown(assets)
      /\ tx'.before = tx.before
  BY <1>5, ContinuedFacts DEF Continues
<1>8. /\ pairs = Relisted(assets) /\ contracts = Grown(assets)
      /\ NextPair \in Pairs
      /\ \A i \in Sides : i < k /\ assets[i] \in Cw20s
           => tx.before.bank[assets[i]][u] >= amounts[i]
      /\ \A t \in Tokens :
           Shifted(bank[t], tx.before.bank[t], u, NextPair,
                   CoinsOf(t, funds) + Pulled(t, assets, amounts, k),
                   CoinsOf(t, funds) - CreationFee(t)
                     + Pulled(t, assets, amounts, k), 0)
  BY DEF Pulling
(* All that had to be pulled has been. *)
<1>9. ASSUME NEW t \in Tokens
      PROVE  Pulled(t, assets, amounts, k) = Pulled(t, assets, amounts, 2)
  <2>1. /\ k = 0 => assets[0] \in Natives
        /\ k < 2 => assets[1] \in Natives
    BY <1>2 DEF Tokens
  <2>2. CASE k = 2
    BY <2>2
  <2>3. CASE k = 1
    BY <2>1, <2>3 DEF Pulled
  <2>4. CASE k = 0
    BY <2>1, <2>4 DEF Pulled
  <2> QED  BY <1>1, <2>2, <2>3, <2>4
<1>10. ASSUME NEW t \in Tokens
       PROVE  Shifted(bank'[t], tx.before.bank[t], u, NextPair,
                      CoinsOf(t, funds) + Pulled(t, assets, amounts, 2),
                      CoinsOf(t, funds) - CreationFee(t)
                        + Pulled(t, assets, amounts, 2)
                        - Deposited(t, assets, amounts),
                      Deposited(t, assets, amounts))
  <2> DEFINE row == bank[t]
             old == tx.before.bank[t]
             x   == Deposited(t, assets, amounts)
             p   == CoinsOf(t, funds) + Pulled(t, assets, amounts, 2)
             r   == CoinsOf(t, funds) - CreationFee(t)
                      + Pulled(t, assets, amounts, 2)
  <2>1. p \in Int /\ r \in Int /\ x \in Nat /\ old \in Rows /\ u \in Users
    <3>1. /\ CoinsOf(t, funds) \in Nat /\ CreationFee(t) \in Nat
          /\ Pulled(t, assets, amounts, 2) \in Nat
          /\ Deposited(t, assets, amounts) \in Nat
          /\ tx.before.bank[t] \in Rows /\ u \in Users
      BY <1>2
    <3> QED  BY ONLY <3>1
  <2>2. Shifted(row, old, u, NextPair, p, r, 0)
    BY <1>8, <1>9
  <2>3. row[FactoryAddr] >= x
    <3>1. /\ bank[assets[0]][FactoryAddr] >= amounts[0]
          /\ bank[assets[1]][FactoryAddr] >= amounts[1]
      BY <1>3 DEF Sides
    <3>2. row[FactoryAddr] \in Nat
      BY <1>2, AccountFacts DEF Rows
    <3> QED  BY <3>1, <3>2 DEF Deposited
  <2>4. bank'[t] = Move(row, FactoryAddr, NextPair, x)
    BY <1>3
  <2>5. CoinsOf(t, funds) - CreationFee(t) + Pulled(t, assets, amounts, 2)
          - Deposited(t, assets, amounts) = r - x
    <3>1. /\ CoinsOf(t, funds) \in Nat /\ CreationFee(t) \in Nat
          /\ Pulled(t, assets, amounts, 2) \in Nat
          /\ Deposited(t, assets, amounts) \in Nat
      BY <1>2
    <3> QED  BY <3>1
  <2> HIDE DEF row, old, x, p, r
  <2>6. Shifted(Move(row, FactoryAddr, NextPair, x), old, u, NextPair,
                p, r - x, 0 + x)
    BY ONLY <1>8, <2>1, <2>2, <2>3, ShiftOut, 0 \in Int
  <2>7. 0 + x = x
    BY <2>1
  <2> QED  BY <2>4, <2>5, <2>6, <2>7 DEF old, x, p
<1>11. bank' \in Banks
  <2>1. \A t \in Tokens : bank'[t] \in Rows
    BY <1>10 DEF Shifted
  <2> QED  BY <1>3, <2>1 DEF Banks
<1>12. Affordable(u, assets, amounts, funds)
  <2>1. ASSUME NEW i \in Sides, assets[i] \in Natives
        PROVE  tx.before.bank[assets[i]][FactoryAddr] + funds[assets[i]]
                 >= CreationFee(assets[i]) + amounts[i]
    <3> DEFINE t == assets[i]
    <3>1. t \in Tokens /\ t \in Natives /\ amounts[i] \in Nat
      BY <1>2, <2>1 DEF Sides
    <3>2. Pulled(t, assets, amounts, k) = 0 /\ CoinsOf(t, funds) = funds[t]
      BY <3>1 DEF Pulled, CoinsOf
    <3>3. bank[t][FactoryAddr] >= amounts[i]
      BY <1>3
    <3>4. bank[t][FactoryAddr] = tx.before.bank[t][FactoryAddr]
            + (CoinsOf(t, funds) - CreationFee(t) + Pulled(t, assets, amounts, k))
      BY <1>8, <3>1 DEF Shifted
    <3>5. /\ tx.before.bank[t][FactoryAddr] \in Nat
          /\ CoinsOf(t, funds) \in Nat /\ CreationFee(t) \in Nat
      BY <1>2, <3>1, AccountFacts DEF Rows
    <3> HIDE DEF t
    <3>6. tx.before.bank[t][FactoryAddr] + CoinsOf(t, funds)
            >= CreationFee(t) + amounts[i]
      BY <3>1, <3>2, <3>3, <3>4, <3>5
    <3> QED  BY <3>2, <3>6 DEF t
  <2>2. ASSUME NEW i \in Sides, assets[i] \notin Natives
        PROVE  tx.before.bank[assets[i]][u] >= amounts[i]
    <3>1. assets[i] \in Cw20s
      BY <1>2, <2>2 DEF Sides, Tokens
    <3>2. i < k
      BY <1>1, <3>1 DEF Sides
    <3> QED  BY <1>8, <3>1, <3>2
  <2> QED  BY <1>3, <2>1, <2>2 DEF Affordable
<1>13. Affordable(u, assets, amounts, funds)'
  BY <1>5, <1>12, ContinuedFacts
<1>14. Provided(u, assets, amounts, funds)'
  BY <1>3, <1>6, <1>7, <1>8, <1>10, <1>13
     DEF Provided, CoinsOf, CreationFee, Pulled, Deposited
<1> QED
  BY <1>5, <1>7, <1>11, <1>14 DEF Followed, Stages, Continues

LEMMA DepositFollows ==
  ASSUME NoneIsNoTransaction, Followed, TransferFrom \/ ProvideLiquidity
  PROVE  Followed' /\ Continues
<1>1. /\ tx # None
      /\ Executes("transfer_from") \/ Executes("provide_liquidity")
      /\ TransferFrom => Head(tx.queue).does = "transfer_from"
      /\ ProvideLiquidity => Head(tx.queue).does = "provide_liquidity"
  BY DEF TransferFrom, ProvideLiquidity, Executes
<1>2. PICK u, assets, amounts, funds :
        Began(u, assets, amounts, funds) /\ Stages(u, assets, amounts, funds)
  BY <1>1 DEF Followed
<1>3. tmpPairInfo.assets = assets
  BY <1>2 DEF Began, TmpPairInfo
<1>4. \E k \in 0 .. 2 : Pulling(u, assets, amounts, funds, k)
  BY ONLY <1>1, <1>2, <1>3, StageFollows
<1>5. PICK k \in 0 .. 2 : Pulling(u, assets, amounts, funds, k)
  BY <1>4
<1>6. tx.queue = Due(k)
  BY <1>5 DEF Pulling
<1>7. /\ Pull(0).does = "transfer_from" /\ Pull(1).does = "transfer_from"
      /\ [does |-> "provide_liquidity", contract |-> NextPair].does
           = "provide_liquidity"
  BY DEF Pull
<1>8. CASE /\ k = 0 /\ assets[0] \in Cw20s
           /\ Head(Due(k)) = Pull(0) /\ Tail(Due(k)) = Due(1)
  <2>1. /\ TransferFrom
        /\ 0 \in Sides /\ k <= 0 /\ assets[0] \in Cw20s
        /\ \A j \in Sides : k <= j /\ j < 0 => assets[j] \notin Cw20s
        /\ Head(tx.queue) = Pull(0) /\ Tail(tx.queue) = Due(0 + 1)
    BY <1>1, <1>6, <1>7, <1>8 DEF Sides
  <2> QED  BY <1>1, <1>2, <1>5, <2>1, PullFollows
<1>9. CASE /\ k < 2 /\ (k = 0 => assets[0] \notin Cw20s) /\ assets[1] \in Cw20s
           /\ Head(Due(k)) = Pull(1) /\ Tail(Due(k)) = Due(2)
  <2>1. /\ TransferFrom
        /\ 1 \in Sides /\ k <= 1 /\ assets[1] \in Cw20s
        /\ \A j \in Sides : k <= j /\ j < 1 => assets[j] \notin Cw20s
        /\ Head(tx.queue) = Pull(1) /\ Tail(tx.queue) = Due(1 + 1)
    BY <1>1, <1>6, <1>7, <1>9 DEF Sides
  <2> QED  BY <1>1, <1>2, <1>5, <2>1, PullFollows
<1>10. CASE /\ (k = 0 => assets[0] \notin Cw20s) /\ (k < 2 => assets[1] \notin Cw20s)
            /\ Head(Due(k)) = [does |-> "provide_liquidity", contract |-> NextPair]
            /\ Tail(Due(k)) = <<>>
  <2>1. /\ ProvideLiquidity
        /\ Head(tx.queue) = [does |-> "provide_liquidity", contract |-> NextPair]
        /\ Tail(tx.queue) = <<>>
    BY <1>1, <1>6, <1>7, <1>10
  <2> QED  BY <1>1, <1>2, <1>5, <1>10, <2>1, ProvisionFollows
<1> QED  BY <1>3, <1>8, <1>9, <1>10, DueFacts

LEMMA MovedRow ==
  ASSUME bank \in Banks, NEW d \in Tokens, NEW from \in Accounts,
         NEW to \in Accounts, NEW n \in Nat, bank[d][from] >= n,
         bank' = [bank EXCEPT ![d] = Move(@, from, to, n)]
  PROVE  bank' \in Banks
<1>1. bank[d] \in [Accounts -> Nat] /\ n <= bank[d][from]
  BY DEF Banks, Rows
<1>2. Move(bank[d], from, to, n) \in Rows
  BY <1>1, MoveFacts DEF Rows
<1> QED  BY <1>2 DEF Banks

LEMMA AdministrationFollows ==
  ASSUME Followed, tx = None, Administration, UNCHANGED tx
  PROVE  Followed'
<1>1. bank \in Banks
  BY DEF Followed
<1>2. ASSUME NEW u \in Users, NEW d \in Natives, WithdrawNative(u, d, 1)
      PROVE  bank' \in Banks
  <2>1. /\ bank[d][FactoryAddr] >= 1
        /\ bank' = [bank EXCEPT ![d] = Move(@, FactoryAddr, u, 1)]
        /\ d \in Tokens /\ FactoryAddr \in Accounts /\ u \in Accounts
    BY <1>2, AccountFacts DEF WithdrawNative
  <2> QED  BY <1>1, <2>1, MovedRow
<1>3. ASSUME NEW u \in Users, NEW d \in Natives, Send(u, d, 1)
      PROVE  bank' \in Banks
  <2>1. /\ bank[d][u] >= 1
        /\ bank' = [bank EXCEPT ![d] = Move(@, u, FactoryAddr, 1)]
        /\ d \in Tokens /\ FactoryAddr \in Accounts /\ u \in Accounts
    BY <1>3, AccountFacts DEF Send
  <2> QED  BY <1>1, <2>1, MovedRow
<1>4. ASSUME \/ \E u \in Users, d \in Natives, n \in Decimals :
                  AddNativeTokenDecimals(u, d, n)
             \/ \E u \in Users, codeId \in CodeIds \union {None},
                   burner \in Burners \union {None}, wallet \in Wallets \union {None} :
                  UpdateConfig(u, codeId, burner, wallet)
             \/ \E u \in Users, n \in DOMAIN contracts,
                   codeId \in CodeIds \union {None} :
                  MigratePair(u, n, codeId)
             \/ UNCHANGED factory
      PROVE  bank' = bank
  BY <1>4 DEF AddNativeTokenDecimals, UpdateConfig, MigratePair, factory
<1>5. bank' \in Banks
  BY <1>1, <1>2, <1>3, <1>4 DEF Administration
<1> QED  BY <1>5 DEF Followed

LEMMA EndFollows ==
  ASSUME Followed, Commit \/ Revert
  PROVE  Followed'
<1>1. /\ tx # None /\ tx' = None
      /\ bank' = bank \/ bank' = tx.before.bank
  BY DEF Commit, Revert, vars, factory
<1> QED  BY <1>1 DEF Followed

LEMMA StepFollowed ==
  ASSUME NoneIsNoTransaction, Followed, [MessagesNext]_<<vars, tx>>
  PROVE  Followed'
<1>1. ASSUME UNCHANGED <<vars, tx>>
      PROVE  Followed'
  <2>1. /\ config' = config /\ decimals' = decimals /\ pairs' = pairs
        /\ contracts' = contracts /\ tmpPairInfo' = tmpPairInfo /\ tx' = tx
        /\ bank' = bank /\ ownership' = ownership
    BY <1>1 DEF vars, factory
  <2>2. CASE tx = None
    BY <2>1, <2>2 DEF Followed
  <2>3. CASE tx # None
    <3>1. PICK u, assets, amounts, funds :
            Began(u, assets, amounts, funds) /\ Stages(u, assets, amounts, funds)
      BY <2>3 DEF Followed
    <3>2. Continues
      BY <2>1, <2>3 DEF Continues, Followed
    <3>3. Stages(u, assets, amounts, funds)'
      BY <2>1, <3>1, ZenonT(40)
         DEF Stages, HandlerRun, Instantiated, Pulling, Provided, Affordable,
             Grown, Relisted, AskedInfo, PairInfo, DecimalsOf, NextPair, Due,
             Pulls, Pull, CoinsOf, CreationFee, Pulled, Deposited
    <3> QED  BY <2>1, <3>1, <3>2, <3>3, ContinuedFacts DEF Followed
  <2> QED  BY <2>2, <2>3
<1>2. ASSUME tx = None, Administration, UNCHANGED tx
      PROVE  Followed'
  BY <1>2, AdministrationFollows
<1> QED  BY <1>1, <1>2, HandlerFollows, InstantiationFollows, ReplyFollows,
            DepositFollows, EndFollows DEF MessagesNext

-----------------------------------------------------------------------------
(* The refinement.                                                         *)

(* What is owned in the end is what CreatePair makes of it. *)
LEMMA SettledAlike ==
  ASSUME Followed, tx # None, NEW u, NEW assets, NEW amounts, NEW funds,
         Began(u, assets, amounts, funds), Provided(u, assets, amounts, funds)
  PROVE  bank = [t \in Tokens |->
    IF t \in Natives
    THEN [tx.before.bank[t] EXCEPT
            ![u] = @ - funds[t],
            ![FactoryAddr] = @ + funds[t] - CreationFee(t)
                               - Deposited(t, assets, amounts),
            ![NextPair] = @ + Deposited(t, assets, amounts)]
    ELSE Move(tx.before.bank[t], u, NextPair, Deposited(t, assets, amounts))]
<1> DEFINE settled(t) ==
             IF t \in Natives
             THEN [tx.before.bank[t] EXCEPT
                     ![u] = @ - funds[t],
                     ![FactoryAddr] = @ + funds[t] - CreationFee(t)
                                        - Deposited(t, assets, amounts),
                     ![NextPair] = @ + Deposited(t, assets, amounts)]
             ELSE Move(tx.before.bank[t], u, NextPair, Deposited(t, assets, amounts))
<1>1. ASSUME NEW t \in Tokens
      PROVE  bank[t] = settled(t)
  <2> DEFINE row == bank[t]
             old == tx.before.bank[t]
             x   == Deposited(t, assets, amounts)
             f   == CoinsOf(t, funds)
             e   == CreationFee(t)
             m   == Pulled(t, assets, amounts, 2)
             n   == NextPair
  <2>1. /\ u \in Users /\ f \in Nat /\ e \in Nat /\ x \in Nat
        /\ old \in Rows /\ row \in Rows
        /\ n \in Pairs
        /\ Shifted(row, old, u, n, f + m, f - e + m - x, x)
    BY BeganFacts DEF Provided
  <2>2. m \in Nat
    <3>1. 2 \in 0 .. 2
      OBVIOUS
    <3> QED  BY <3>1, BeganFacts
  <2>3. /\ u \in Accounts /\ FactoryAddr \in Accounts /\ n \in Accounts
        /\ u # FactoryAddr /\ n # u /\ n # FactoryAddr
    BY <2>1, AccountFacts
  <2>4. old \in [Accounts -> Nat] /\ row \in [Accounts -> Nat]
    BY <2>1 DEF Rows
  <2>5. CASE t \in Natives
    <3>1. m = 0 /\ f = funds[t]
      BY <2>5 DEF Pulled, CoinsOf
    <3> DEFINE new == [old EXCEPT ![u] = @ - f,
                                  ![FactoryAddr] = @ + f - e - x,
                                  ![n] = @ + x]
    <3>2. settled(t) = new
      BY <2>5, <3>1
    <3> HIDE DEF row, old, x, f, e, m, n, settled
    <3>3. /\ new[u] = old[u] - f
          /\ new[FactoryAddr] = old[FactoryAddr] + f - e - x
          /\ new[n] = old[n] + x
          /\ \A a \in Accounts \ {u, FactoryAddr, n} : new[a] = old[a]
          /\ DOMAIN new = Accounts
          /\ new = [a \in Accounts |-> new[a]]
      BY <2>3, <2>4
    <3> HIDE DEF new
    <3>4. /\ old[u] \in Nat /\ old[FactoryAddr] \in Nat /\ old[n] \in Nat
      BY <2>3, <2>4
    <3>5. /\ row[u] = old[u] - (f + m)
          /\ row[FactoryAddr] = old[FactoryAddr] + (f - e + m - x)
          /\ row[n] = old[n] + x
          /\ \A a \in Accounts \ {u, FactoryAddr, n} : row[a] = old[a]
      BY <2>1 DEF Shifted
    <3>6. /\ row[u] = new[u] /\ row[FactoryAddr] = new[FactoryAddr]
          /\ row[n] = new[n]
      BY <2>1, <2>2, <3>1, <3>3, <3>4, <3>5
    <3>7. \A a \in Accounts : row[a] = new[a]
      BY <3>3, <3>5, <3>6
    <3>8. row = new
      BY <2>4, <3>3, <3>7
    <3> QED  BY <3>2, <3>8 DEF row
  <2>6. CASE t \notin Natives
    <3>1. m = x
      BY <2>6, BeganFacts DEF Pulled, Deposited
    <3>2. f = 0 /\ e = 0
      BY <2>6, FactoryNamesAssumption DEF CoinsOf, CreationFee
    <3> DEFINE new == Move(old, u, n, x)
    <3>3. settled(t) = new
      BY <2>6
    <3> HIDE DEF row, old, x, f, e, m, n, settled
    <3>4. /\ row[u] = old[u] - (f + m)
          /\ row[FactoryAddr] = old[FactoryAddr] + (f - e + m - x)
          /\ row[n] = old[n] + x
          /\ \A a \in Accounts \ {u, FactoryAddr, n} : row[a] = old[a]
      BY <2>1 DEF Shifted
    <3>5. /\ old[u] \in Nat /\ old[FactoryAddr] \in Nat /\ row[u] \in Nat
      BY <2>3, <2>4
    <3>6. /\ row[u] = old[u] - x /\ row[FactoryAddr] = old[FactoryAddr]
          /\ x <= old[u]
      BY <2>1, <3>1, <3>2, <3>4, <3>5
    <3>7. /\ new \in [Accounts -> Nat]
          /\ new[u] = old[u] - x /\ new[n] = old[n] + x
          /\ \A a \in Accounts \ {u, n} : new[a] = old[a]
      BY <2>1, <2>3, <2>4, <3>6, MoveFacts
    <3> HIDE DEF new
    <3>8. \A a \in Accounts : row[a] = new[a]
      BY <2>3, <3>4, <3>6, <3>7
    <3>9. row = new
      BY <2>4, <3>7, <3>8
    <3> QED  BY <3>3, <3>9 DEF row
  <2> QED  BY <2>5, <2>6
<1>2. bank \in [Tokens -> Rows]
  BY DEF Followed, Banks
<1> QED  BY <1>1, <1>2

LEMMA VisibleFacts ==
  /\ tx = None => Visible = Current
  /\ tx # None => Visible = tx.before
  BY DEF Visible

LEMMA CommitCreates ==
  ASSUME Followed, Commit
  PROVE  \E u \in Users, assets \in AssetPairs, amounts \in FirstDeposits,
            funds \in Funds :
           /\ Whole!CreatePair(u, assets, amounts, funds)
           /\ Began(u, assets, amounts, funds)
           /\ Provided(u, assets, amounts, funds)
<1>1. /\ tx # None /\ tx.queue = <<>> /\ tx' = None
      /\ UNCHANGED <<ownership, config, decimals, pairs, tmpPairInfo, contracts, bank>>
  BY DEF Commit, vars, factory
<1>2. PICK u, assets, amounts, funds :
        Began(u, assets, amounts, funds) /\ Stages(u, assets, amounts, funds)
  BY <1>1 DEF Followed
<1>3. Provided(u, assets, amounts, funds)
  BY <1>1, <1>2, StageFollows DEF Began, TmpPairInfo
<1>4. /\ Visible = tx.before
      /\ Visible' = [pairs |-> pairs, tmpPairInfo |-> tmpPairInfo,
                     contracts |-> contracts, bank |-> bank]
  BY <1>1 DEF Visible, Current
<1>5. /\ u \in Users /\ assets \in AssetPairs
      /\ amounts \in FirstDeposits /\ funds \in Funds
      /\ assets[0] # assets[1] /\ FeeSent(funds)
      /\ \A i \in Sides : DecimalsOf(assets[i]) # None
      /\ tx.before.pairs[PairKey(assets)] = None
      /\ \A d \in Natives : tx.before.bank[d][u] >= funds[d]
      /\ tmpPairInfo = TmpPairInfo(u, assets, amounts)
  BY <1>2 DEF Began
<1>6. /\ NextPair \in Pairs
      /\ pairs = Relisted(assets) /\ contracts = Grown(assets)
      /\ Affordable(u, assets, amounts, funds)
  BY <1>3 DEF Provided
<1>7. Whole!DepositPossible(u, assets, amounts, funds)
  <2>1. ASSUME NEW i \in Sides, assets[i] \in Natives
        PROVE  Whole!Held(assets[i], funds)
                 = tx.before.bank[assets[i]][FactoryAddr] + funds[assets[i]]
    BY <1>4, <2>1 DEF Whole!Held
  <2> QED  BY <1>4, <1>6, <2>1
           DEF Affordable, Whole!DepositPossible, Whole!CreationFee, CreationFee,
               Whole!Sides, Sides
<1>8. Whole!SettleCreation(u, NextPair, assets, amounts, funds)
  <2>1. /\ Visible'.bank = bank /\ Visible.bank = tx.before.bank
    BY <1>4
  <2>2. ASSUME NEW t \in Tokens
        PROVE  /\ Whole!CreationFee(t) = CreationFee(t)
               /\ Whole!Deposited(t, assets, amounts) = Deposited(t, assets, amounts)
               /\ Whole!Move(tx.before.bank[t], u, NextPair,
                             Deposited(t, assets, amounts))
                    = Move(tx.before.bank[t], u, NextPair,
                           Deposited(t, assets, amounts))
    BY DEF Whole!CreationFee, CreationFee, Whole!Deposited, Deposited,
           Whole!Move, Move
  <2>3. Whole!Tokens = Tokens
    BY DEF Whole!Tokens, Tokens
  <2> QED  BY <1>1, <1>2, <1>3, <2>1, <2>2, <2>3, SettledAlike
           DEF Whole!SettleCreation
<1>9. Whole!PairKey(assets) = PairKey(assets) /\ Whole!FeeSent(funds)
  BY <1>5 DEF Whole!PairKey, PairKey, Whole!IsBelow, IsBelow, Whole!FeeSent, FeeSent
<1>10. /\ Whole!NotListed(assets)
       /\ \A i \in Sides : Whole!DecimalsOf(assets[i]) = DecimalsOf(assets[i])
       /\ Whole!TmpPairInfo(u, assets, amounts) = TmpPairInfo(u, assets, amounts)
  BY <1>4, <1>5, <1>9
     DEF Whole!NotListed, Whole!DecimalsOf, DecimalsOf, Whole!TmpPairInfo,
         TmpPairInfo, Whole!Sides, Sides
<1>11. Whole!PairInfo(assets, [i \in Sides |-> Whole!DecimalsOf(assets[i])])
         = AskedInfo(assets)
  BY <1>10 DEF Whole!PairInfo, PairInfo, AskedInfo
<1>12. Whole!CreatePair(u, assets, amounts, funds)
  BY <1>1, <1>4, <1>5, <1>6, <1>7, <1>8, <1>9, <1>10, <1>11
     DEF Whole!CreatePair, Grown, Relisted, NextPair, Whole!Pairs, Pairs,
         Whole!Sides, Sides, Whole!ownership, ownership
<1> QED  BY <1>2, <1>3, <1>5, <1>12

LEMMA HiddenSteps ==
  ASSUME Continues
  PROVE  UNCHANGED Whole!vars
  BY DEF Continues, Visible, Whole!vars, Whole!factory, Whole!ownership, ownership

LEMMA AdministrationShows ==
  ASSUME tx = None, UNCHANGED tx, Administration
  PROVE  Whole!Administration
<1>1. /\ Visible = [pairs |-> pairs, tmpPairInfo |-> tmpPairInfo,
                    contracts |-> contracts, bank |-> bank]
      /\ Visible' = [pairs |-> pairs', tmpPairInfo |-> tmpPairInfo',
                     contracts |-> contracts', bank |-> bank']
  BY DEF Visible, Current
<1>2. /\ Visible.pairs = pairs /\ Visible.tmpPairInfo = tmpPairInfo
      /\ Visible.contracts = contracts /\ Visible.bank = bank
      /\ Visible'.pairs = pairs' /\ Visible'.tmpPairInfo = tmpPairInfo'
      /\ Visible'.contracts = contracts' /\ Visible'.bank = bank'
  BY <1>1
<1>3. ASSUME NEW u \in Users, NEW d \in Natives, NEW n \in Decimals,
             AddNativeTokenDecimals(u, d, n)
      PROVE  Whole!AddNativeTokenDecimals(u, d, n)
  BY <1>2, <1>3 DEF AddNativeTokenDecimals, Whole!AddNativeTokenDecimals,
                    IsOwner, Whole!IsOwner, ownership, Whole!ownership
<1>4. ASSUME NEW u \in Users, NEW codeId \in CodeIds \union {None},
             NEW burner \in Burners \union {None},
             NEW wallet \in Wallets \union {None},
             UpdateConfig(u, codeId, burner, wallet)
      PROVE  Whole!UpdateConfig(u, codeId, burner, wallet)
  BY <1>2, <1>4 DEF UpdateConfig, Whole!UpdateConfig, Given, Whole!Given,
                    IsOwner, Whole!IsOwner, ownership, Whole!ownership
<1>5. ASSUME NEW u \in Users, NEW n \in DOMAIN contracts,
             NEW codeId \in CodeIds \union {None}, MigratePair(u, n, codeId)
      PROVE  Whole!MigratePair(u, n, codeId)
  BY <1>2, <1>5 DEF MigratePair, Whole!MigratePair, Given, Whole!Given,
                    IsOwner, Whole!IsOwner, ownership, Whole!ownership
<1>6. ASSUME NEW u \in Users, NEW d \in Natives, WithdrawNative(u, d, 1)
      PROVE  Whole!WithdrawNative(u, d, 1)
  BY <1>2, <1>6 DEF WithdrawNative, Whole!WithdrawNative, Sendable,
                    Whole!Sendable, Move, Whole!Move,
                    IsOwner, Whole!IsOwner, ownership, Whole!ownership
<1>7. ASSUME NEW u \in Users, NEW d \in Natives, Send(u, d, 1)
      PROVE  Whole!Send(u, d, 1)
  BY <1>2, <1>7 DEF Send, Whole!Send, Move, Whole!Move, ownership, Whole!ownership
<1>8. ASSUME OwnershipNext, UNCHANGED factory
      PROVE  Whole!OwnershipNext /\ UNCHANGED Whole!factory
  BY <1>2, <1>8
     DEF OwnershipNext, Whole!OwnershipNext, ProposeNewOwner,
         Whole!ProposeNewOwner, AcceptOwnership, Whole!AcceptOwnership,
         CancelOwnershipProposal, Whole!CancelOwnershipProposal,
         IsOwner, Whole!IsOwner, factory, Whole!factory
<1> QED  BY <1>2, <1>3, <1>4, <1>5, <1>6, <1>7, <1>8
         DEF Administration, Whole!Administration

LEMMA StepShows ==
  ASSUME NoneIsNoTransaction, Followed, [MessagesNext]_<<vars, tx>>
  PROVE  [Whole!Next]_(Whole!vars)
<1>1. ASSUME UNCHANGED <<vars, tx>>
      PROVE  UNCHANGED Whole!vars
  BY <1>1 DEF vars, factory, Whole!vars, Whole!factory, ownership,
              Whole!ownership, Visible, Current
<1>2. ASSUME NEW u \in Users, NEW assets \in AssetPairs,
             NEW amounts \in FirstDeposits, NEW funds \in Funds,
             HandleCreatePair(u, assets, amounts, funds)
      PROVE  UNCHANGED Whole!vars
  <2>1. /\ tx = None /\ tx' # None /\ tx'.before = Current
        /\ UNCHANGED <<ownership, config, decimals>>
    BY <1>2 DEF HandleCreatePair, NoneIsNoTransaction
  <2>2. Visible = Current /\ Visible' = Current
    BY <2>1 DEF Visible
  <2> QED  BY <2>1, <2>2
           DEF Whole!vars, Whole!factory, Whole!ownership, ownership
<1>3. ASSUME InstantiatePair \/ Reply \/ TransferFrom \/ ProvideLiquidity
      PROVE  UNCHANGED Whole!vars
  BY <1>3, InstantiationFollows, ReplyFollows, DepositFollows, HiddenSteps
<1>4. ASSUME Commit
      PROVE  Whole!Next
  <2>1. /\ Whole!AssetPairs = AssetPairs
    BY DEF Whole!AssetPairs, AssetPairs, Whole!Sides, Sides, Whole!Tokens, Tokens
  <2> QED  BY <1>4, <2>1, CommitCreates DEF Whole!Next
<1>5. ASSUME Revert
      PROVE  UNCHANGED Whole!vars
  <2>1. /\ tx # None /\ tx' = None /\ UNCHANGED <<ownership, config, decimals>>
        /\ pairs' = tx.before.pairs /\ tmpPairInfo' = tx.before.tmpPairInfo
        /\ contracts' = tx.before.contracts /\ bank' = tx.before.bank
    BY <1>5 DEF Revert
  <2>2. /\ Visible = tx.before
        /\ Visible'.pairs = pairs' /\ Visible'.tmpPairInfo = tmpPairInfo'
        /\ Visible'.contracts = contracts' /\ Visible'.bank = bank'
    BY <2>1 DEF Visible, Current
  <2> QED  BY <2>1, <2>2
           DEF Whole!vars, Whole!factory, Whole!ownership, ownership
<1>6. ASSUME tx = None, Administration, UNCHANGED tx
      PROVE  Whole!Next
  BY <1>6, AdministrationShows DEF Whole!Next
<1> QED  BY <1>1, <1>2, <1>3, <1>4, <1>5, <1>6 DEF MessagesNext

LEMMA InitShows ==
  ASSUME MessagesInit
  PROVE  Whole!Init
<1>1. /\ tx = None /\ Init
  BY DEF MessagesInit
<1>2. /\ Visible.pairs = pairs /\ Visible.tmpPairInfo = tmpPairInfo
      /\ Visible.contracts = contracts /\ Visible.bank = bank
  BY <1>1 DEF Visible, Current
<1>3. Whole!Keys = Keys /\ Whole!Tokens = Tokens /\ Whole!Accounts = Accounts
      /\ Whole!Pairs = Pairs
  BY DEF Whole!Keys, Keys, Whole!PairKey, PairKey, Whole!IsBelow, IsBelow,
         Whole!AssetPairs, AssetPairs, Whole!Sides, Sides, Whole!Tokens, Tokens,
         Whole!Accounts, Accounts, Whole!Pairs, Pairs
<1> QED  BY <1>1, <1>2, <1>3
         DEF Init, Whole!Init, OwnershipInit, Whole!OwnershipInit

(* Handler, instantiation, reply and the messages of the first deposit,    *)
(* any of which may fail, are to everybody else the one action CreatePair: *)
(* the pair that reply lists is the one that was instantiated for it, with *)
(* the assets, decimals, sender and amounts that execute_create_pair has   *)
(* just saved, and every coin ends where create_pair says.                 *)
THEOREM MessagesAreOneAction ==
  ASSUME NoneIsNoTransaction
  PROVE  MessagesSpec => ImplementsFactory
<1>1. MessagesInit => Followed /\ Whole!Init
  BY FollowedAtFirst, InitShows
<1>2. Followed /\ [MessagesNext]_<<vars, tx>> => Followed'
  BY StepFollowed
<1>3. Followed /\ [MessagesNext]_<<vars, tx>> => [Whole!Next]_(Whole!vars)
  BY StepShows
<1> QED  BY <1>1, <1>2, <1>3, PTL DEF MessagesSpec, ImplementsFactory, Whole!Spec

-----------------------------------------------------------------------------
(* The coins of the factory.                                               *)

(* What CoinsLeaveToOwnerOrPair says of one coin. *)
WellSpent(d) ==
  LET lost == Visible.bank[d][FactoryAddr] - Visible'.bank[d][FactoryAddr]
      new  == Len(Visible'.contracts)
  IN  lost > 0 =>
        \/ Visible'.bank[d][owner] = Visible.bank[d][owner] + lost
        \/ /\ new = Len(Visible.contracts) + 1
           /\ Visible'.bank[d][new] >= lost

LEMMA NothingSpent ==
  ASSUME Followed, NEW d \in Natives,
         Visible'.bank[d][FactoryAddr] >= Visible.bank[d][FactoryAddr],
         Visible'.bank[d][FactoryAddr] \in Int
  PROVE  WellSpent(d)
<1>1. Visible.bank \in Banks
  BY DEF Followed, Visible, Current
<1>2. Visible.bank[d][FactoryAddr] \in Nat
  BY <1>1, AccountFacts DEF Banks, Rows
<1> QED  BY <1>2 DEF WellSpent

LEMMA CreationSpendsWell ==
  ASSUME Followed, Commit, DirectoryKept, NEW d \in Natives
  PROVE  WellSpent(d)
<1>1. PICK u \in Users, assets \in AssetPairs, amounts \in FirstDeposits,
           funds \in Funds :
        Began(u, assets, amounts, funds) /\ Provided(u, assets, amounts, funds)
  BY CommitCreates
<1>2. /\ tx # None /\ tx' = None
      /\ contracts' = contracts /\ bank' = bank
  BY DEF Commit, vars, factory
<1>3. /\ Visible.bank = tx.before.bank /\ Visible.contracts = tx.before.contracts
      /\ Visible'.bank = bank /\ Visible'.contracts = contracts
  BY <1>2 DEF Visible, Current
<1>4. /\ NextPair \in Pairs /\ contracts = Grown(assets) /\ d \in Tokens
      /\ Shifted(bank[d], tx.before.bank[d], u, NextPair,
                 CoinsOf(d, funds) + Pulled(d, assets, amounts, 2),
                 CoinsOf(d, funds) - CreationFee(d)
                   + Pulled(d, assets, amounts, 2) - Deposited(d, assets, amounts),
                 Deposited(d, assets, amounts))
  BY <1>1, AccountFacts DEF Provided
<1>5. /\ CoinsOf(d, funds) \in Nat /\ CreationFee(d) \in Nat
      /\ Deposited(d, assets, amounts) \in Nat
      /\ Pulled(d, assets, amounts, 2) = 0
      /\ tx.before.bank[d] \in [Accounts -> Nat]
  BY <1>1, <1>2, <1>4, BeganFacts DEF Rows, Pulled
<1>6. CoinsOf(d, funds) >= CreationFee(d)
  <2>1. funds[FeeDenom] >= FeeAmount
    BY <1>1 DEF Began, FeeSent
  <2>2. CASE d = FeeDenom
    BY <2>1, <2>2 DEF CoinsOf, CreationFee
  <2>3. CASE d # FeeDenom
    BY <1>5, <2>3 DEF CreationFee
  <2> QED  BY <2>2, <2>3
<1>7. /\ bank[d][FactoryAddr] = tx.before.bank[d][FactoryAddr]
           + (CoinsOf(d, funds) - CreationFee(d)
                + Pulled(d, assets, amounts, 2) - Deposited(d, assets, amounts))
      /\ bank[d][NextPair] = tx.before.bank[d][NextPair]
                               + Deposited(d, assets, amounts)
  BY <1>4 DEF Shifted
<1>8. /\ tx.before.bank[d][FactoryAddr] \in Nat
      /\ tx.before.bank[d][NextPair] \in Nat
  BY <1>4, <1>5, AccountFacts
<1>9. Len(contracts) = NextPair /\ NextPair = Len(tx.before.contracts) + 1
  <2>1. tx.before.contracts \in Seq(Contract)
    BY <1>2 DEF DirectoryKept, Describes
  <2> DEFINE c == [info |-> AskedInfo(assets), codeId |-> config.pairCodeId]
  <2>2. contracts = Append(tx.before.contracts, c)
    BY <1>4 DEF Grown
  <2> HIDE DEF c
  <2> QED  BY <2>1, <2>2 DEF NextPair
<1>10. tx.before.bank[d][FactoryAddr] - bank[d][FactoryAddr]
         <= bank[d][NextPair]
  BY <1>5, <1>6, <1>7, <1>8
<1> QED  BY <1>3, <1>9, <1>10 DEF WellSpent

LEMMA AdministrationSpendsWell ==
  ASSUME Followed, tx = None, UNCHANGED tx, Administration, NEW d \in Natives
  PROVE  WellSpent(d)
<1>1. /\ Visible.bank = bank /\ Visible'.bank = bank'
  BY DEF Visible, Current
<1>2. /\ bank \in Banks /\ bank[d] \in [Accounts -> Nat]
      /\ d \in Tokens /\ FactoryAddr \in Accounts
      /\ bank[d][FactoryAddr] \in Nat
  BY AccountFacts DEF Followed, Banks, Rows
<1>3. ASSUME NEW u \in Users, NEW c \in Natives, WithdrawNative(u, c, 1)
      PROVE  WellSpent(d)
  <2>1. /\ u = owner /\ bank[c][FactoryAddr] >= 1
        /\ bank' = [bank EXCEPT ![c] = Move(@, FactoryAddr, u, 1)]
    BY <1>3 DEF WithdrawNative, IsOwner
  <2>2. /\ c \in Tokens /\ u \in Accounts /\ u # FactoryAddr
        /\ bank[c] \in [Accounts -> Nat]
    BY <1>2, AccountFacts DEF Banks, Rows
  <2>3. CASE c # d
    <3>1. bank'[d] = bank[d]
      BY <1>2, <2>1, <2>3 DEF Banks
    <3> QED  BY <1>1, <1>2, <3>1, NothingSpent
  <2>4. CASE c = d
    <3>1. bank'[d] = Move(bank[d], FactoryAddr, u, 1)
      BY <1>2, <2>1, <2>4 DEF Banks
    <3>2. 1 <= bank[d][FactoryAddr]
      BY <1>2, <2>1, <2>4
    <3>3. /\ bank'[d][FactoryAddr] = bank[d][FactoryAddr] - 1
          /\ bank'[d][u] = bank[d][u] + 1
      BY <1>2, <2>2, <3>1, <3>2, MoveFacts
    <3>4. bank'[d][owner] = bank[d][owner]
                              + (bank[d][FactoryAddr] - bank'[d][FactoryAddr])
      <4>1. bank[d][u] \in Nat
        BY <1>2, <2>2
      <4> QED  BY <1>2, <2>1, <3>3, <4>1
    <3> QED  BY <1>1, <3>4 DEF WellSpent
  <2> QED  BY <2>3, <2>4
<1>4. ASSUME NEW u \in Users, NEW c \in Natives, Send(u, c, 1)
      PROVE  WellSpent(d)
  <2>1. /\ bank[c][u] >= 1
        /\ bank' = [bank EXCEPT ![c] = Move(@, u, FactoryAddr, 1)]
    BY <1>4 DEF Send
  <2>2. /\ c \in Tokens /\ u \in Accounts /\ u # FactoryAddr
        /\ bank[c] \in [Accounts -> Nat] /\ bank[c][u] \in Nat
    BY <1>2, AccountFacts DEF Banks, Rows
  <2>3. CASE c # d
    <3>1. bank'[d] = bank[d]
      BY <1>2, <2>1, <2>3 DEF Banks
    <3> QED  BY <1>1, <1>2, <3>1, NothingSpent
  <2>4. CASE c = d
    <3>1. bank'[d] = Move(bank[d], u, FactoryAddr, 1)
      BY <1>2, <2>1, <2>4 DEF Banks
    <3>2. 1 <= bank[d][u]
      BY <2>1, <2>2, <2>4
    <3>3. bank'[d][FactoryAddr] = bank[d][FactoryAddr] + 1
      BY <1>2, <2>2, <3>1, <3>2, MoveFacts
    <3> QED  BY <1>1, <1>2, <3>3, NothingSpent
  <2> QED  BY <2>3, <2>4
<1>5. ASSUME bank' = bank
      PROVE  WellSpent(d)
  BY <1>1, <1>2, <1>5, NothingSpent
<1>6. ASSUME \/ \E u \in Users, c \in Natives, n \in Decimals :
                  AddNativeTokenDecimals(u, c, n)
             \/ \E u \in Users, codeId \in CodeIds \union {None},
                   burner \in Burners \union {None}, wallet \in Wallets \union {None} :
                  UpdateConfig(u, codeId, burner, wallet)
             \/ \E u \in Users, n \in DOMAIN contracts,
                   codeId \in CodeIds \union {None} :
                  MigratePair(u, n, codeId)
             \/ UNCHANGED factory
      PROVE  bank' = bank
  BY <1>6 DEF AddNativeTokenDecimals, UpdateConfig, MigratePair, factory
<1> QED  BY <1>3, <1>4, <1>5, <1>6 DEF Administration

LEMMA StepSpendsWell ==
  ASSUME NoneIsNoTransaction, Followed, DirectoryKept,
         [MessagesNext]_<<vars, tx>>, NEW d \in Natives
  PROVE  WellSpent(d)
<1>1. ASSUME Visible'.bank = Visible.bank
      PROVE  WellSpent(d)
  <2>1. Visible.bank \in Banks
    BY DEF Followed, Visible, Current
  <2>2. Visible.bank[d][FactoryAddr] \in Nat
    BY <2>1, AccountFacts DEF Banks, Rows
  <2> QED  BY <1>1, <2>2, NothingSpent
<1>2. ASSUME UNCHANGED <<vars, tx>>
      PROVE  Visible'.bank = Visible.bank
  BY <1>2 DEF vars, factory, Visible, Current
<1>3. ASSUME NEW u \in Users, NEW assets \in AssetPairs,
             NEW amounts \in FirstDeposits, NEW funds \in Funds,
             HandleCreatePair(u, assets, amounts, funds)
      PROVE  Visible'.bank = Visible.bank
  BY <1>3 DEF HandleCreatePair, NoneIsNoTransaction, Visible, Current
<1>4. ASSUME InstantiatePair \/ Reply \/ TransferFrom \/ ProvideLiquidity
      PROVE  Visible'.bank = Visible.bank
  <2>1. Continues
    BY <1>4, InstantiationFollows, ReplyFollows, DepositFollows
  <2> QED  BY <2>1 DEF Continues, Visible
<1>5. ASSUME Revert
      PROVE  Visible'.bank = Visible.bank
  BY <1>5 DEF Revert, Visible, Current
<1> QED  BY <1>1, <1>2, <1>3, <1>4, <1>5, CreationSpendsWell,
            AdministrationSpendsWell DEF MessagesNext

(* No user makes the factory pay for his pair: whatever it owns in coins   *)
(* leaves it by a withdrawal of the owner of that moment, or in full into  *)
(* the pair that a create_pair makes, which the fee_check of the handler   *)
(* and the deposit out of its balance have to see to together.             *)
THEOREM CoinsAreWellSpent ==
  ASSUME NoneIsNoTransaction
  PROVE  MessagesSpec => CoinsLeaveToOwnerOrPair
<1>1. MessagesInit => Followed /\ DirectoryKept
  BY FollowedAtFirst, KeptAtFirst
<1>2. Followed /\ DirectoryKept /\ [MessagesNext]_<<vars, tx>>
        => (Followed /\ DirectoryKept)'
  BY StepFollowed, StepKeeps
<1>3. Followed /\ DirectoryKept /\ [MessagesNext]_<<vars, tx>>
        => \A d \in Natives : WellSpent(d)
  BY StepSpendsWell
<1>4. (\A d \in Natives : WellSpent(d))
        => \A d \in Natives :
             LET lost == Visible.bank[d][FactoryAddr] - Visible'.bank[d][FactoryAddr]
                 new  == Len(Visible'.contracts)
             IN  lost > 0 =>
                   \/ Visible'.bank[d][owner] = Visible.bank[d][owner] + lost
                   \/ /\ new = Len(Visible.contracts) + 1
                      /\ Visible'.bank[d][new] >= lost
  BY DEF WellSpent
<1> QED  BY <1>1, <1>2, <1>3, <1>4, PTL DEF MessagesSpec, CoinsLeaveToOwnerOrPair
=============================================================================
