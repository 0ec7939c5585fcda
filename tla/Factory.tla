------------------------------ MODULE Factory -------------------------------
(***************************************************************************)
(* The choice_factory contract: anyone creates a pair of two tokens, which *)
(* is listed under a key made of the names of the tokens, and its owner    *)
(* administers what pairs are created with.  A transaction of create_pair  *)
(* is the handler, the instantiation of the pair as a submessage, the      *)
(* reply that lists it, and the first deposit: one action, because an      *)
(* error in any of them reverts all.  An operator called faulty is a       *)
(* variant that no action uses.                                            *)
(***************************************************************************)
EXTENDS Ownership, Transfers, Sequences, FiniteSets

CONSTANTS
  FactoryAddr,        (* The account of the contract.                      *)
  Natives, Cw20s,     (* The bank denoms and the CW20 tokens.              *)
  Bytes,              (* Bytes[t]: AssetInfoRaw::as_bytes, a sequence.     *)
  Creator,            (* Creator[d]: the account in "factory/<account>/...", *)
                      (* None for other denoms.                            *)
  Malformed,          (* Denoms that begin with "factory/" and go on with  *)
                      (* no account, or with none of an account.           *)
  Cw20Decimals,       (* Cw20Decimals[t]: what its token_info answers.     *)
  FeeDenom, FeeAmount,  (* The chain's fee for a new denom.                *)
  FirstDeposits,      (* The amounts users write in create_pair: pairs.    *)
  Funds,              (* The coins they send along: [Natives -> Nat].      *)
  LeastProduct,       (* (MINIMUM_LIQUIDITY_AMOUNT + 1)^2                  *)
  GreatestProduct,    (* Times 10^18 it still fits a Uint256.              *)
  Decimals,           (* The decimals that are registered.                 *)
  CodeIds, Wallets, Burners,  (* What update_config sets.                  *)
  Genesis,            (* Genesis[t][a]: what is owned at first.            *)
  MaxLimit, DefaultLimit,     (* 30 and 10: settings for pagination.       *)
  MaxPairs            (* Bound: how many pairs are instantiated.           *)

VARIABLES
  config,     (* pair_code_id, burn_address and fee_wallet_address.        *)
  decimals,   (* ALLOW_NATIVE_TOKENS: decimals[d], or None.                *)
  pairs,      (* PAIRS: pairs[key], or None.                               *)
  tmpPairInfo,  (* TMP_PAIR_INFO, which is never removed.                  *)
  contracts,  (* The pairs in the order of their instantiation.            *)
  bank        (* bank[t][a]: what users, factory and pairs own.            *)

factory == <<config, decimals, pairs, tmpPairInfo, contracts, bank>>
vars    == <<ownership, factory>>

Tokens == Natives \union Cw20s
Sides  == {0, 1}

(* The two tokens of create_pair, in the order they are written. *)
AssetPairs == [Sides -> Tokens]

(* The contracts, by the order of their instantiation, and what they are   *)
(* instantiated with.                                                      *)
Pairs == 1 .. MaxPairs
Info == [assets : AssetPairs, decimals : [Sides -> Nat],
         burnAddress : Burners, feeWallet : Wallets]

ASSUME FactoryNamesAssumption ==
  /\ Natives \intersect Cw20s = {}
  /\ \A t, u \in Tokens : Bytes[t] = Bytes[u] => t = u
  /\ FeeDenom \in Natives /\ Malformed \subseteq Natives
  /\ FactoryAddr \notin Users
  /\ Pairs \intersect (Users \union {FactoryAddr}) = {}
  /\ MaxLimit \in Nat \ {0} /\ DefaultLimit \in 1 .. MaxLimit
  /\ MaxPairs \in Nat
ASSUME FactoryTypesAssumption ==
  /\ Cw20Decimals \in [Cw20s -> Nat] /\ Decimals \subseteq Nat
  /\ FirstDeposits \subseteq [Sides -> Nat]
  /\ Funds \subseteq [Natives -> Nat] /\ FeeAmount \in Nat
  /\ LeastProduct \in Nat /\ GreatestProduct \in Nat
  /\ Genesis \in [Tokens -> [Users \union {FactoryAddr} -> Nat]]
  /\ None \notin [contract : Pairs, info : Info] /\ None \notin AssetPairs
ASSUME FactoryTokensAssumption ==
  IsFiniteSet(Tokens) /\ Bytes \in [Tokens -> Seq(Nat)]

-----------------------------------------------------------------------------
(* pair_key *)

IsBelow(a, b) ==
  \E n \in 0 .. Len(a) :
    /\ n <= Len(b) /\ SubSeq(a, 1, n) = SubSeq(b, 1, n)
    /\ n < Len(b) /\ (n = Len(a) \/ a[n + 1] < b[n + 1])

(* Faulty: in the order they are given, or only the first.                 *)
UnsortedKey(assets) == Bytes[assets[0]] \o Bytes[assets[1]]
KeyOfOne(assets) ==
  IF IsBelow(Bytes[assets[1]], Bytes[assets[0]])
  THEN Bytes[assets[1]] ELSE Bytes[assets[0]]
PairKey(assets) ==
  IF IsBelow(Bytes[assets[1]], Bytes[assets[0]])
  THEN Bytes[assets[1]] \o Bytes[assets[0]]
  ELSE Bytes[assets[0]] \o Bytes[assets[1]]

Keys   == {PairKey(assets) : assets \in AssetPairs}
Listed == {key \in Keys : pairs[key] # None}

(* calc_range_start: the first key after the provided one. *)
(* Faulty: after the key of one of the assets.                             *)
StartOfOne(assets) == KeyOfOne(assets) \o <<1>>
RangeStart(assets) == PairKey(assets) \o <<1>>

(* read_pairs: the first keys after the provided one, in ascending order. *)
PageSize(limit) ==
  IF limit = None THEN DefaultLimit
  ELSE IF limit <= MaxLimit THEN limit ELSE MaxLimit

ReadPairs(startAfter, limit) ==
  LET range == {key \in Listed :
                  startAfter # None => IsBelow(RangeStart(startAfter), key)}
  IN  {key \in range :
         Cardinality({k \in range : IsBelow(k, key)}) < PageSize(limit)}

-----------------------------------------------------------------------------
Accounts == Users \union {FactoryAddr} \union Pairs

Init ==
  /\ OwnershipInit
  /\ config \in [pairCodeId : CodeIds, burnAddress : Burners, feeWallet : Wallets]
  /\ decimals = [d \in Natives |-> None]
  /\ pairs = [key \in Keys |-> None]
  /\ tmpPairInfo = None
  /\ contracts = <<>>
  /\ bank = [t \in Tokens |-> [a \in Accounts |->
               IF a \in Pairs THEN 0 ELSE Genesis[t][a]]]

-----------------------------------------------------------------------------
(* create_pair *)

(* query_decimals: of the factory's own map, or of the CW20 contract. *)
DecimalsOf(t) == IF t \in Natives THEN decimals[t] ELSE Cw20Decimals[t]

(* Faulty: a pair that exists is listed again.                             *)
Unlooked(assets) == TRUE
NotListed(assets) == pairs[PairKey(assets)] = None

(* What the factory owns as its handler runs. *)
Held(t, funds) ==
  bank[t][FactoryAddr] + (IF t \in Natives THEN funds[t] ELSE 0)

(* The part of the first deposit in token t; there is none if both amounts *)
(* are zero.                                                               *)
Deposited(t, assets, amounts) ==
  IF t = assets[0] THEN amounts[0] ELSE IF t = assets[1] THEN amounts[1] ELSE 0

CreationFee(t) == IF t = FeeDenom THEN FeeAmount ELSE 0

(* The first deposit is made by the factory for the sender: native coins   *)
(* out of its own balance, CW20 tokens pulled from the sender first.       *)
(* provide_liquidity refuses amounts that mint no share, and those whose   *)
(* product, as a Decimal256, has no square root that can be computed.      *)
DepositPossible(u, assets, amounts, funds) ==
  amounts # [i \in Sides |-> 0] =>
    /\ amounts[0] * amounts[1] \in LeastProduct .. GreatestProduct
    /\ \A i \in Sides :
         IF assets[i] \in Natives
         THEN Held(assets[i], funds) >= CreationFee(assets[i]) + amounts[i]
         ELSE bank[assets[i]][u] >= amounts[i]

(* The sender has to send the creation fee, which passes through the pair  *)
(* to the chain.                                                           *)
(* Faulty: the factory may pay it.                                         *)
FeeUnchecked(funds) == TRUE
FeeSent(funds) == funds[FeeDenom] >= FeeAmount

SettleCreation(u, n, assets, amounts, funds) ==
  bank' = [t \in Tokens |->
    IF t \in Natives
    THEN [bank[t] EXCEPT
            ![u] = @ - funds[t],
            ![FactoryAddr] = @ + funds[t] - CreationFee(t)
                               - Deposited(t, assets, amounts),
            ![n] = @ + Deposited(t, assets, amounts)]
    ELSE Move(bank[t], u, n, Deposited(t, assets, amounts))]

(* What create_pair saves for its reply. *)
TmpPairInfo(u, assets, amounts) ==
  [key |-> PairKey(assets), assets |-> assets, amounts |-> amounts,
   decimals |-> [i \in Sides |-> DecimalsOf(assets[i])], sender |-> u]

(* What a pair is instantiated with, and listed with. *)
PairInfo(assets, assetDecimals) ==
  [assets |-> assets, decimals |-> assetDecimals,
   burnAddress |-> config.burnAddress, feeWallet |-> config.feeWallet]

CreatePair(u, assets, amounts, funds) ==
  LET n    == Len(contracts) + 1
      info == PairInfo(assets, [i \in Sides |-> DecimalsOf(assets[i])])
  IN  /\ FeeSent(funds)
      /\ \A d \in Natives : bank[d][u] >= funds[d]
      /\ assets[0] # assets[1]
      /\ \A i \in Sides : DecimalsOf(assets[i]) # None
      /\ contracts' = Append(contracts, [info |-> info,
                                         codeId |-> config.pairCodeId])
      /\ n \in Pairs
      /\ NotListed(assets)
      /\ DepositPossible(u, assets, amounts, funds)
      /\ tmpPairInfo' = TmpPairInfo(u, assets, amounts)
      /\ pairs' = [pairs EXCEPT ![PairKey(assets)] =
                     [contract |-> n, info |-> info]]
      /\ SettleCreation(u, n, assets, amounts, funds)
      /\ UNCHANGED <<ownership, config, decimals>>

-----------------------------------------------------------------------------
(* Administration. *)

(* The owner registers any denom, an account those of its token factory;   *)
(* the factory has to own some of it.  A name that cannot be read is an    *)
(* error whoever sends it.                                                 *)
AddNativeTokenDecimals(u, d, n) ==
  /\ d \notin Malformed
  /\ IsOwner(u) \/ (Creator[d] # None /\ u = Creator[d])
  /\ bank[d][FactoryAddr] > 0
  /\ decimals' = [decimals EXCEPT ![d] = n]
  /\ UNCHANGED <<ownership, config, pairs, tmpPairInfo, contracts, bank>>

Given(option, otherwise) == IF option = None THEN otherwise ELSE option

UpdateConfig(u, codeId, burner, wallet) ==
  /\ IsOwner(u)
  /\ config' = [pairCodeId  |-> Given(codeId, config.pairCodeId),
                burnAddress |-> Given(burner, config.burnAddress),
                feeWallet   |-> Given(wallet, config.feeWallet)]
  /\ UNCHANGED <<ownership, decimals, pairs, tmpPairInfo, contracts, bank>>

MigratePair(u, n, codeId) ==
  /\ IsOwner(u)
  /\ contracts' = [contracts EXCEPT ![n] =
                     [info   |-> contracts[n].info,
                      codeId |-> Given(codeId, config.pairCodeId)]]
  /\ UNCHANGED <<ownership, config, decimals, pairs, tmpPairInfo, bank>>

WithdrawNative(u, d, n) ==
  /\ IsOwner(u)
  /\ Sendable(TRUE, n) /\ bank[d][FactoryAddr] >= n
  /\ bank' = [bank EXCEPT ![d] = Move(@, FactoryAddr, u, n)]
  /\ UNCHANGED <<ownership, config, decimals, pairs, tmpPairInfo, contracts>>

(* Coins are sent to the factory, to be verified or to be paid from. *)
Send(u, d, n) ==
  /\ n > 0 /\ bank[d][u] >= n
  /\ bank' = [bank EXCEPT ![d] = Move(@, u, FactoryAddr, n)]
  /\ UNCHANGED <<ownership, config, decimals, pairs, tmpPairInfo, contracts>>

-----------------------------------------------------------------------------
Administration ==
  \/ \E u \in Users, d \in Natives, n \in Decimals :
       AddNativeTokenDecimals(u, d, n)
  \/ \E u \in Users, codeId \in CodeIds \union {None},
        burner \in Burners \union {None}, wallet \in Wallets \union {None} :
       UpdateConfig(u, codeId, burner, wallet)
  \/ \E u \in Users, n \in DOMAIN contracts, codeId \in CodeIds \union {None} :
       MigratePair(u, n, codeId)
  \/ \E u \in Users, d \in Natives : WithdrawNative(u, d, 1) \/ Send(u, d, 1)
  \/ OwnershipNext /\ UNCHANGED factory

Next ==
  \/ Administration
  \/ \E u \in Users, assets \in AssetPairs, amounts \in FirstDeposits,
        funds \in Funds :
       CreatePair(u, assets, amounts, funds)

Spec == Init /\ [][Next]_vars

-----------------------------------------------------------------------------
SameAssets(a, b) == {a[i] : i \in Sides} = {b[i] : i \in Sides}

(* Two tokens have one pair, in whichever order they are written: their    *)
(* liquidity is never split over two contracts.                            *)
OnePairPerAssets ==
  \A m, n \in DOMAIN contracts :
    SameAssets(contracts[m].info.assets, contracts[n].info.assets) => m = n

(* query_pair answers a pair of the two tokens that are asked for: "also   *)
(* act as a directory for all pairs".                                      *)
QueryAnswersAskedPair ==
  \A assets \in AssetPairs :
    NotListed(assets) \/ SameAssets(pairs[PairKey(assets)].info.assets, assets)

(* Every pair that was created is listed, as it was instantiated, whatever *)
(* was registered, configured or migrated later.                           *)
AllPairsListed ==
  \A n \in DOMAIN contracts :
    pairs[PairKey(contracts[n].info.assets)] =
      [contract |-> n, info |-> contracts[n].info]

(* Reading page after page, each from the last pair of the one before,     *)
(* lists every pair, and none twice, for any limit.                        *)
PagesListAll ==
  LET n == Cardinality(Listed)
      last(keys) == CHOOSE key \in keys : \A k \in keys : ~IsBelow(key, k)
      next(keys, limit) ==
        ReadPairs(IF keys = {} THEN None ELSE pairs[last(keys)].info.assets, limit)
  IN  \A limit \in 1 .. MaxLimit + 1 \union {None} :
        LET read[i \in 0 .. n] ==
              IF i = 0 THEN {}
              ELSE LET before == read[i - 1]
                       page   == next(before, limit)
                   IN  IF page \intersect before = {} THEN before \union page
                       ELSE {}
        IN  read[n] = Listed
=============================================================================
