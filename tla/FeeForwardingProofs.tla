------------------------ MODULE FeeForwardingProofs ------------------------
(***************************************************************************)
(* The auction contract keeps its types, nothing stays in its subaccount,  *)
(* and it implements BurnBasket.  Composed with the pair, it takes every   *)
(* fee whose coin it knows, and the two still implement the pair alone:    *)
(* what is proved of Pair holds of them.                                   *)
(***************************************************************************)
EXTENDS FeeForwarding, ArithmeticProofs

-----------------------------------------------------------------------------
(* The auction contract by itself.                                         *)

(* The inductive invariant: the deposits of a coin are transferred in full *)
(* only because none of it was there before.                               *)
AuctionSound == TypeOK /\ OwnSubaccountEmpty

LEMMA TokenFacts ==
  /\ Denoms \subseteq Tokens /\ Cw20s \subseteq Tokens /\ Coins \subseteq Denoms
  /\ AuctionAddr \in Accounts /\ Users \subseteq Accounts /\ Adapters \subseteq Accounts
  /\ AuctionAddr \notin Users /\ AuctionAddr \notin Adapters
  /\ OwnSubaccount \in Subaccounts /\ AuctionSubaccounts \subseteq Subaccounts
  /\ OwnSubaccount \notin AuctionSubaccounts
  BY AuctionTokensAssumption, AuctionAccountsAssumption
     DEF Denoms, Tokens, Accounts, Subaccounts

(* A coin goes through the contract's subaccount to the auction's. *)
LEMMA AuctionedFacts ==
  ASSUME AuctionSound, NEW d \in Denoms, NEW n \in Nat
  PROVE  /\ Auctioned(d, n) \in [Subaccounts -> Nat]
         /\ Auctioned(d, n)[OwnSubaccount] = 0
         /\ Auctioned(d, n)[burnAuctionSubaccount] =
              deposits[d][burnAuctionSubaccount] + n
         /\ \A s \in Subaccounts \ {OwnSubaccount, burnAuctionSubaccount} :
              Auctioned(d, n)[s] = deposits[d][s]
<1> DEFINE deposited == [deposits[d] EXCEPT ![OwnSubaccount] = @ + n]
<1>1. deposits[d] \in [Subaccounts -> Nat] /\ deposits[d][OwnSubaccount] = 0
  BY DEF AuctionSound, TypeOK, OwnSubaccountEmpty
<1>2. /\ burnAuctionSubaccount \in Subaccounts
      /\ burnAuctionSubaccount # OwnSubaccount
  BY TokenFacts DEF AuctionSound, TypeOK
<1>3. /\ deposited \in [Subaccounts -> Nat]
      /\ deposited[OwnSubaccount] = n
      /\ \A s \in Subaccounts \ {OwnSubaccount} : deposited[s] = deposits[d][s]
  BY <1>1, TokenFacts
<1>4. Auctioned(d, n) = Move(deposited, OwnSubaccount, burnAuctionSubaccount, n)
  BY DEF Auctioned
<1> HIDE DEF deposited
<1> QED
  BY <1>2, <1>3, <1>4, MoveFacts, TokenFacts

(* One deposit and transfer, of a coin that has arrived in that amount or  *)
(* of which so much was minted.                                            *)
LEMMA BurnSound ==
  ASSUME AuctionSound, UNCHANGED config,
         NEW before \in [Tokens -> [Accounts -> Nat]],
         NEW d \in Denoms, NEW n \in Nat,
         \A t \in Tokens : before[t][AuctionAddr] >=
            bank[t][AuctionAddr] + (IF t = d THEN n ELSE 0),
         CanBurn(before, d, n), Burn(before, d, n)
  PROVE  AuctionSound' /\ Basket!Next
<1>1. /\ bank' \in [Tokens -> [Accounts -> Nat]]
      /\ \A t \in Tokens : bank'[t][AuctionAddr] >= bank[t][AuctionAddr]
  <2> DEFINE row == [before[d] EXCEPT ![AuctionAddr] = before[d][AuctionAddr] - n]
  <2>1. bank' = [before EXCEPT ![d] = row] /\ before[d][AuctionAddr] >= n
    BY DEF Burn, CanBurn
  <2>2. bank[d][AuctionAddr] \in Nat /\ \A t \in Tokens : bank[t][AuctionAddr] \in Nat
    BY TokenFacts DEF AuctionSound, TypeOK
  <2>3. /\ row \in [Accounts -> Nat]
        /\ row[AuctionAddr] = before[d][AuctionAddr] - n
    BY <2>1, TokenFacts
  <2> HIDE DEF row
  <2>4. bank' \in [Tokens -> [Accounts -> Nat]] /\ bank'[d] = row
    BY <2>1, <2>3, TokenFacts
  <2>5. \A t \in Tokens \ {d} : bank'[t] = before[t]
    BY <2>1
  <2>6. bank'[d][AuctionAddr] >= bank[d][AuctionAddr]
    <3>1. before[d][AuctionAddr] >= bank[d][AuctionAddr] + n
      BY TokenFacts
    <3>2. before[d][AuctionAddr] \in Nat
      BY TokenFacts
    <3> QED  BY <2>2, <2>3, <2>4, <3>1, <3>2
  <2>7. ASSUME NEW t \in Tokens \ {d}
        PROVE  bank'[t][AuctionAddr] >= bank[t][AuctionAddr]
    <3>1. before[t][AuctionAddr] >= bank[t][AuctionAddr] + 0
      OBVIOUS
    <3> QED  BY <2>2, <2>5, <3>1
  <2> QED  BY <2>4, <2>6, <2>7
<1>2. /\ deposits' = [deposits EXCEPT ![d] = Auctioned(d, n)]
      /\ deposits \in [Denoms -> [Subaccounts -> Nat]]
  BY DEF Burn, AuctionSound, TypeOK
<1>3. deposits' \in [Denoms -> [Subaccounts -> Nat]]
  BY <1>2, AuctionedFacts
<1>4. \A e \in Denoms : deposits'[e][OwnSubaccount] = 0
  BY <1>2, AuctionedFacts DEF AuctionSound, OwnSubaccountEmpty
<1>5. AuctionSound'
  BY <1>1, <1>3, <1>4 DEF AuctionSound, TypeOK, OwnSubaccountEmpty, config
<1>6. PICK a \in AuctionSubaccounts : a = burnAuctionSubaccount
  BY DEF AuctionSound, TypeOK
<1>7. Basket!Forward(d, a)
  <2> DEFINE shown == [e \in Denoms |-> [s \in AuctionSubaccounts |-> deposits[e][s]]]
  <2>1. n > 0 /\ a \in Subaccounts \ {OwnSubaccount}
    BY TokenFacts DEF CanBurn
  <2>2. /\ deposits'[d][a] = deposits[d][a] + n
        /\ \A s \in Subaccounts \ {OwnSubaccount, a} :
             deposits'[d][s] = deposits[d][s]
    BY <1>2, <1>6, AuctionedFacts
  <2>3. deposits[d][a] \in Nat
    BY <1>2, <2>1
  <2>4. deposits'[d][a] > deposits[d][a]
    BY <2>1, <2>2, <2>3
  <2>5. \A s \in AuctionSubaccounts \ {a} :
          deposits'[d][s] = deposits[d][s]
    BY <2>2, TokenFacts
  <2>6. \A e \in Denoms \ {d} : deposits'[e] = deposits[e]
    BY <1>2
  <2>7. shown'[d][a] > shown[d][a]
    BY <2>1, <2>4
  <2>8. [s \in AuctionSubaccounts |-> deposits'[d][s]] =
        [shown[d] EXCEPT ![a] = shown'[d][a]]
    BY <2>1, <2>5
  <2> DEFINE row == [shown[d] EXCEPT ![a] = shown'[d][a]]
  <2>9. shown' = [shown EXCEPT ![d] = row]
    <3>1. shown'[d] = row
      BY <2>8
    <3>2. \A e \in Denoms \ {d} : shown'[e] = shown[e]
      BY <2>6
    <3> HIDE DEF row
    <3> QED  BY <3>1, <3>2
  <2> QED  BY <1>1, <2>7, <2>9 DEF Basket!Forward, Basket!Kept
<1> QED  BY <1>5, <1>7 DEF Basket!Next

(* The attached coins belong to the contract when it runs.                 *)
LEMMA SendNativeSound ==
  ASSUME AuctionSound, NEW u \in Accounts \ {AuctionAddr}, NEW token \in Tokens,
         NEW n \in Nat, NEW funds \in [Denoms -> Nat],
         SendNative(u, token, n, funds)
  PROVE  AuctionSound' /\ Basket!Next
<1> DEFINE before == Attached(u, funds)
<1>1. /\ token \in Denoms /\ funds[token] = n
      /\ CanBurn(before, token, n) /\ Burn(before, token, n)
  BY DEF SendNative, NativeAccepted, FundsMatch
<1>2. ASSUME NEW t \in Denoms
      PROVE  /\ before[t] \in [Accounts -> Nat]
             /\ before[t][AuctionAddr] = bank[t][AuctionAddr] + funds[t]
  <2>1. before[t] = Move(bank[t], u, AuctionAddr, funds[t])
    BY TokenFacts DEF Attached
  <2>2. bank[t] \in [Accounts -> Nat] /\ funds[t] <= bank[t][u]
    BY TokenFacts DEF AuctionSound, TypeOK, SendNative, NativeAccepted
  <2>3. funds[t] \in Nat
    OBVIOUS
  <2>4. u \in Accounts /\ AuctionAddr \in Accounts /\ u # AuctionAddr
    BY TokenFacts
  <2> DEFINE row == bank[t]
             paid == funds[t]
  <2>5. /\ row \in [Accounts -> Nat] /\ paid \in Nat /\ paid <= row[u]
        /\ before[t] = Move(row, u, AuctionAddr, paid)
    BY <2>1, <2>2, <2>3
  <2> HIDE DEF before, row, paid
  <2>6. /\ before[t] \in [Accounts -> Nat]
        /\ before[t][AuctionAddr] = row[AuctionAddr] + paid
    BY ONLY <2>4, <2>5, MoveFacts
  <2> QED  BY <2>6 DEF row, paid
<1>3. \A t \in Tokens \ Denoms : before[t] = bank[t]
  BY DEF Attached
<1>4. \A t \in Tokens : bank[t] \in [Accounts -> Nat] /\ bank[t][AuctionAddr] \in Nat
  BY TokenFacts DEF AuctionSound, TypeOK
<1>5. before \in [Tokens -> [Accounts -> Nat]]
  <2>1. \A t \in Tokens : before[t] \in [Accounts -> Nat]
    BY <1>2, <1>3, <1>4
  <2>2. before = [t \in Tokens |-> before[t]]
    BY DEF Attached
  <2> QED  BY <2>1, <2>2
<1> HIDE DEF before
<1>6. ASSUME NEW t \in Tokens
      PROVE  before[t][AuctionAddr] >=
               bank[t][AuctionAddr] + (IF t = token THEN n ELSE 0)
  <2>1. CASE t \in Denoms
    <3>1. funds[t] \in Nat /\ (t = token => funds[t] = n)
      BY <1>1, <2>1
    <3> QED  BY <1>2, <1>4, <2>1, <3>1
  <2>2. CASE t \notin Denoms
    BY <1>1, <1>3, <1>4, <2>2
  <2> QED  BY <2>1, <2>2
<1>7. UNCHANGED config
  BY DEF SendNative, config
<1> QED  BY <1>1, <1>5, <1>6, <1>7, BurnSound

(* The tokens that arrived leave for the adapter, and are replaced by as   *)
(* many coins of its denom.                                                *)
LEMMA ReceiveCw20Sound ==
  ASSUME AuctionSound, NEW u \in Accounts \ {AuctionAddr}, NEW token \in Cw20s,
         NEW n \in Nat, ReceiveCw20(u, token, n)
  PROVE  AuctionSound' /\ Basket!Next
<1> DEFINE sent   == Move(bank[token], u, AuctionAddr, n)
           before == [bank EXCEPT ![token] = sent]
           d      == Converted(adapterContract, token)
           passed == Move(sent, AuctionAddr, adapterContract, n)
           minted == [bank[d] EXCEPT ![AuctionAddr] = bank[d][AuctionAddr] + n]
           after  == [[bank EXCEPT ![token] = passed] EXCEPT ![d] = minted]
<1>1. /\ token \in Tokens /\ d \in Denoms /\ d \in Tokens /\ d # token
      /\ u \in Accounts /\ u # AuctionAddr /\ AuctionAddr \in Accounts
      /\ adapterContract \in Adapters
      /\ adapterContract \in Accounts /\ adapterContract # AuctionAddr
  BY TokenFacts, AuctionTokensAssumption DEF AuctionSound, TypeOK, Converted, Denoms
<1>2. \A t \in Tokens : bank[t] \in [Accounts -> Nat] /\ bank[t][AuctionAddr] \in Nat
  BY TokenFacts DEF AuctionSound, TypeOK
<1>3. bank \in [Tokens -> [Accounts -> Nat]]
  BY DEF AuctionSound, TypeOK
<1>4. before[token] = sent /\ before[d] = bank[d]
  BY <1>1, <1>3
<1>5. /\ Received(u, token, n) = before
      /\ n <= bank[token][u] /\ UNCHANGED config
  BY DEF ReceiveCw20, Cw20Accepted, Received, config
<1>6. Adapted(before, token, n) = after
  <2>1. Adapted(before, token, n) =
          [[before EXCEPT ![token] = passed] EXCEPT ![d] = minted]
    BY <1>1, <1>3, <1>4 DEF Adapted
  <2>2. [before EXCEPT ![token] = passed] = [bank EXCEPT ![token] = passed]
    BY <1>3
  <2> QED  BY <2>1, <2>2
<1>7. /\ sent \in [Accounts -> Nat]
      /\ sent[AuctionAddr] = bank[token][AuctionAddr] + n
  <2>1. /\ sent = Move(bank[token], u, AuctionAddr, n)
        /\ bank[token] \in [Accounts -> Nat] /\ n <= bank[token][u]
    BY <1>1, <1>2, <1>5
  <2> HIDE DEF d, passed, minted, after, before, sent
  <2> QED  BY <1>1, <2>1, MoveFacts
<1> HIDE DEF sent
<1>8. /\ passed \in [Accounts -> Nat]
      /\ passed[AuctionAddr] = bank[token][AuctionAddr]
  <2>1. n <= sent[AuctionAddr] /\ sent[AuctionAddr] - n = bank[token][AuctionAddr]
    BY <1>1, <1>2, <1>7
  <2> HIDE DEF d, minted, after, before
  <2> QED  BY <1>1, <1>7, <2>1, MoveFacts
<1> HIDE DEF passed
<1>9. /\ minted \in [Accounts -> Nat]
      /\ minted[AuctionAddr] = bank[d][AuctionAddr] + n
  BY <1>1, <1>2, TokenFacts
<1> HIDE DEF minted, before
<1>10. /\ after \in [Tokens -> [Accounts -> Nat]]
       /\ after[d] = minted /\ after[token] = passed
       /\ \A t \in Tokens \ {token, d} : after[t] = bank[t]
  BY <1>1, <1>3, <1>8, <1>9
<1> HIDE DEF after
<1>11. CanBurn(after, d, n) /\ Burn(after, d, n)
  BY <1>5, <1>6 DEF ReceiveCw20, Cw20Accepted
<1>12. ASSUME NEW t \in Tokens
       PROVE  after[t][AuctionAddr] >=
                bank[t][AuctionAddr] + (IF t = d THEN n ELSE 0)
  <2>1. CASE t = d
    BY <1>1, <1>2, <1>9, <1>10, <2>1
  <2>2. CASE t = token
    BY <1>1, <1>2, <1>8, <1>10, <2>2
  <2>3. CASE t \notin {d, token}
    BY <1>2, <1>10, <2>3
  <2> QED  BY <2>1, <2>2, <2>3
<1> HIDE DEF d
<1> QED  BY <1>1, <1>5, <1>10, <1>11, <1>12, BurnSound

(* What another account sends arrives. *)
LEMMA PaidIn ==
  ASSUME NEW balance \in [Accounts -> Nat], AuctionAddr \in Accounts,
         NEW from \in Accounts, from # AuctionAddr,
         NEW n \in Nat, n <= balance[from]
  PROVE  /\ Move(balance, from, AuctionAddr, n) \in [Accounts -> Nat]
         /\ Move(balance, from, AuctionAddr, n)[AuctionAddr]
              = balance[AuctionAddr] + n
  BY MoveFacts

LEMMA TransferSound ==
  ASSUME AuctionSound, NEW u \in Users, NEW token \in Tokens, NEW n \in Nat,
         Transfer(u, token, n)
  PROVE  AuctionSound' /\ Basket!Next
<1>1. bank[token] \in [Accounts -> Nat] /\ n <= bank[token][u]
  BY DEF AuctionSound, TypeOK, Transfer
<1>2. /\ u \in Accounts /\ AuctionAddr \in Accounts /\ u # AuctionAddr
      /\ \A t \in Tokens : bank[t][AuctionAddr] \in Nat
  BY TokenFacts DEF AuctionSound, TypeOK
<1> DEFINE row == Move(bank[token], u, AuctionAddr, n)
<1>3. row \in [Accounts -> Nat] /\ row[AuctionAddr] = bank[token][AuctionAddr] + n
  BY <1>1, <1>2, PaidIn
<1>4. bank' = [bank EXCEPT ![token] = row] /\ UNCHANGED <<config, deposits>>
  BY DEF Transfer
<1> HIDE DEF row
<1>5. /\ bank' \in [Tokens -> [Accounts -> Nat]] /\ bank'[token] = row
      /\ \A t \in Tokens \ {token} : bank'[t] = bank[t]
  BY <1>3, <1>4 DEF AuctionSound, TypeOK
<1>6. \A t \in Tokens : bank'[t][AuctionAddr] >= bank[t][AuctionAddr]
  BY <1>2, <1>3, <1>5
<1>7. AuctionSound'
  BY <1>4, <1>5 DEF AuctionSound, TypeOK, OwnSubaccountEmpty, config
<1>8. Basket!Keep
  BY <1>4, <1>6 DEF Basket!Keep, Basket!Kept
<1> QED  BY <1>7, <1>8 DEF Basket!Next

(* The other actions leave tokens and deposits alone. *)
LEMMA SettingSound ==
  ASSUME AuctionSound, UNCHANGED <<bank, deposits>>,
         adapterContract' \in Adapters,
         burnAuctionSubaccount' \in AuctionSubaccounts
  PROVE  AuctionSound' /\ UNCHANGED Basket!basket
  BY DEF AuctionSound, TypeOK, OwnSubaccountEmpty, Basket!basket

LEMMA AuctionStepSound ==
  AuctionSound /\ [Next]_vars => AuctionSound' /\ [Basket!Next]_(Basket!basket)
<1> SUFFICES ASSUME AuctionSound, [Next]_vars
             PROVE  AuctionSound' /\ [Basket!Next]_(Basket!basket)
  OBVIOUS
<1>1. ASSUME NEW u \in Users, NEW token \in Tokens, NEW n \in Amounts,
             NEW funds \in Funds, SendNative(u, token, n, funds)
      PROVE  AuctionSound' /\ Basket!Next
  BY <1>1, SendNativeSound, TokenFacts, AuctionInputsAssumption
<1>2. ASSUME NEW u \in Users, NEW token \in Cw20s, NEW n \in Amounts,
             ReceiveCw20(u, token, n)
      PROVE  AuctionSound' /\ Basket!Next
  BY <1>2, ReceiveCw20Sound, TokenFacts, AuctionInputsAssumption
<1>3. ASSUME NEW u \in Users, NEW token \in Tokens, NEW n \in Amounts,
             Transfer(u, token, n)
      PROVE  AuctionSound' /\ Basket!Next
  BY <1>3, TransferSound, AuctionInputsAssumption
<1>4. ASSUME NEW u \in Users, NEW adapter \in Adapters \union {None},
             NEW subaccount \in AuctionSubaccounts \union {None},
             UpdateConfig(u, adapter, subaccount)
      PROVE  AuctionSound' /\ UNCHANGED Basket!basket
  BY <1>4, SettingSound DEF UpdateConfig, Given, AuctionSound, TypeOK
<1>5. ASSUME UNCHANGED <<config, bank, deposits>>
      PROVE  AuctionSound' /\ UNCHANGED Basket!basket
  BY <1>5, SettingSound DEF config, AuctionSound, TypeOK
<1>6. CASE Next
  BY <1>1, <1>2, <1>3, <1>4, <1>5, <1>6 DEF Next
<1>7. CASE UNCHANGED vars
  BY <1>5, <1>7 DEF vars
<1> QED  BY <1>6, <1>7

LEMMA AuctionInitiallySound == Init => AuctionSound /\ Basket!Init
<1> SUFFICES ASSUME Init PROVE AuctionSound /\ Basket!Init
  OBVIOUS
<1>1. AuctionSound
  BY TokenFacts, AuctionInputsAssumption DEF Init, AuctionSound, TypeOK, OwnSubaccountEmpty
<1>2. \A t \in Tokens : bank[t][AuctionAddr] \in Nat
  BY <1>1, TokenFacts DEF AuctionSound, TypeOK
<1>3. \A d \in Denoms, s \in AuctionSubaccounts : deposits[d][s] = 0
  BY TokenFacts DEF Init
<1> QED  BY <1>1, <1>2, <1>3 DEF Basket!Init

LEMMA AuctionAlwaysSound == Spec => []AuctionSound
  BY AuctionInitiallySound, AuctionStepSound, PTL DEF Spec

-----------------------------------------------------------------------------
(* Every balance stays a natural number, and the configuration names an    *)
(* adapter and an auction.                                                 *)
THEOREM AuctionTypeCorrect == Spec => []TypeOK
  BY AuctionAlwaysSound, PTL DEF AuctionSound

(* send_to_burn_auction leaves nothing in the contract's own subaccount,   *)
(* for any coins, adapters, auctions and changes of the configuration.     *)
THEOREM NothingStaysDeposited == Spec => []OwnSubaccountEmpty
  BY AuctionAlwaysSound, PTL DEF AuctionSound

(* The contract is a basket that only fills: no message pays out what was  *)
(* there before it, and each puts one coin into one auction at most.       *)
THEOREM AuctionImplementsBasket == Spec => ImplementsBasket
<1>1. Spec => Basket!Init
  BY AuctionInitiallySound DEF Spec
<1>2. Spec => [][Basket!Next]_(Basket!basket)
  BY AuctionAlwaysSound, AuctionStepSound, PTL DEF Spec
<1> QED  BY <1>1, <1>2 DEF ImplementsBasket, Basket!Spec

-----------------------------------------------------------------------------
(* The pair within the composition: what PairProofs shows of Pair holds    *)
(* of pool.  Nobody signs transactions here, so its mempool is empty.      *)

PairOf == INSTANCE PairProofs WITH
  bank <- pool, Users <- Traders, Receivers <- Payees, BurnAddr <- AuctionAddr,
  NativeAssets <- {i \in PoolIds : AssetToken[i] \in Coins},
  Genesis <- [i \in PoolIds |-> [u \in Traders |-> Genesis[AssetToken[i]][u]]],
  Amounts <- TradeAmounts, Prices <- {None}, Limits <- {None},
  Minimums <- {None}, Deadlines <- {None}, MaxTime <- 0,
  Signers <- {}, MaxSigned <- 0, MaxOthers <- 0, Tolerances <- {}, Expiries <- {},
  mempool <- {}, signed <- 0, others <- 0

LEMMA PoolFacts ==
  /\ PoolIds = {0, 1} /\ PairOf!Assets = PoolIds
  /\ PairOf!Accounts = PoolAccounts
  /\ Traders \subseteq PoolAccounts /\ Payees \subseteq PoolAccounts \ {AuctionAddr}
  /\ PairAddr \in PoolAccounts /\ FeeWallet \in PoolAccounts
  /\ AuctionAddr \in PoolAccounts
  /\ PairAddr \notin Traders /\ FeeWallet \notin Traders /\ AuctionAddr \notin Traders
  /\ PairAddr # FeeWallet /\ PairAddr # AuctionAddr /\ FeeWallet # AuctionAddr
  /\ PoolAccounts \subseteq Accounts /\ PoolAccounts \intersect Users = {}
BY FeeAccountsAssumption, FeeTokensAssumption, AuctionAccountsAssumption
   DEF PoolAccounts, Payees, PairOf!Assets, PairOf!Accounts, Accounts

LEMMA FeeTokenFacts ==
  /\ \A i \in PoolIds : AssetToken[i] \in Tokens /\ CoinsOf(i) \subseteq Denoms
  /\ \A i, k \in PoolIds : AssetToken[i] = AssetToken[k] => i = k
BY FeeTokensAssumption, TokenFacts DEF Tokens, Denoms, CoinsOf

(* The assumptions of Pair, one by one. *)
LEMMA PairNumbers ==
  /\ One \in Nat \ {0}
  /\ Uint128Max \in Nat
  /\ CommissionRate \in 1 .. One - 1
  /\ FeeDivisor \in Nat /\ FeeDivisor >= 2
  /\ MinimumLiquidity \in Nat \ {0}
  /\ Scale \in [PairOf!Assets -> Nat \ {0}] /\ \E i \in PairOf!Assets : Scale[i] = 1
  /\ Uint256Max \in Nat /\ Uint64Max \in Nat
  /\ None \notin Nat /\ None \notin [PairOf!Assets -> Nat]
BY FeePairAssumption, PoolFacts

LEMMA PairAccounts ==
  /\ Traders \intersect {PairAddr, FeeWallet, AuctionAddr} = {}
  /\ PairAddr # FeeWallet /\ PairAddr # AuctionAddr /\ FeeWallet # AuctionAddr
  /\ Payees \subseteq PairOf!Accounts
  /\ PairOf!IsFiniteSet(Traders)
BY FeeAccountsAssumption, AuctionAccountsAssumption, PoolFacts
   DEF IsFiniteSet, PairOf!IsFiniteSet

LEMMA PairInputs ==
  /\ {i \in PoolIds : AssetToken[i] \in Coins} \subseteq PairOf!Assets
  /\ [i \in PoolIds |-> [u \in Traders |-> Genesis[AssetToken[i]][u]]]
       \in [PairOf!Assets -> [Traders -> Nat]]
  /\ TradeAmounts \subseteq Nat
  /\ 0 \in Nat
  /\ {} \subseteq Traders /\ {} \subseteq Nat
<1>1. ASSUME NEW i \in PoolIds, NEW u \in Traders
      PROVE  Genesis[AssetToken[i]][u] \in Nat
  BY FeeTokenFacts, PoolFacts, AuctionInputsAssumption
<1> QED  BY <1>1, FeePairAssumption, PoolFacts

(* Pool, PairOf and Atomic are instances of one module: they compute alike. *)
LEMMA SamePairOf ==
  /\ \A i : PairOf!Other(i) = Pool!Other(i)
  /\ \A n : PairOf!FitsUint128(n) = Pool!FitsUint128(n)
  /\ \A n : PairOf!FeeCut(n) = Pool!FeeCut(n)
  /\ \A i, a, b, n : PairOf!ComputeSwap(i, a, b, n) = Pool!ComputeSwap(i, a, b, n)
  /\ \A i, a, b, n : PairOf!ComputeSwapDefined(i, a, b, n) = Pool!ComputeSwapDefined(i, a, b, n)
  /\ \A i, n, a, b, k, m : PairOf!SpreadAccepted(i, n, a, b, k, m) = Pool!SpreadAccepted(i, n, a, b, k, m)
  /\ \A n, m : PairOf!DeadlineMet(n, m) = Pool!DeadlineMet(n, m)
  /\ \A a, b : PairOf!MinimumMet(a, b) = Pool!MinimumMet(a, b)
  /\ \A n, m : PairOf!MulFloor(n, m) = Pool!MulFloor(n, m)
  /\ \A n, a, b : PairOf!Refund(n, a, b) = Pool!Refund(n, a, b)
  /\ \A i, n : PairOf!Sendable(i, n) = Pool!Sendable(i, n)
  /\ \A d : PairOf!InitialShareDefined(d) = Pool!InitialShareDefined(d)
  /\ \A d : PairOf!InitialShare(d) = Pool!InitialShare(d)
  /\ \A d, a, n : PairOf!ShareDefined(d, a, n) = Pool!ShareDefined(d, a, n)
  /\ \A d, a, n : PairOf!Share(d, a, n) = Pool!Share(d, a, n)
  /\ \A n, a, b : PairOf!DesiredAmount(n, a, b) = Pool!DesiredAmount(n, a, b)
  /\ \A d, a, b, n : PairOf!Move(d, a, b, n) = Move(d, a, b, n)
  /\ PairOf!Assets = Pool!Assets
BY DEF Move, Pool!FitsUint128, PairOf!FitsUint128,
       Pool!FromRatio, PairOf!FromRatio,
       Pool!MulFloor, PairOf!MulFloor,
       Pool!MultiplyRatio, PairOf!MultiplyRatio,
       Pool!Reciprocal, PairOf!Reciprocal,
       Pool!Other, PairOf!Other,
       Pool!Assets, PairOf!Assets,
       Pool!GrossReturn, PairOf!GrossReturn,
       Pool!IdealReturn, PairOf!IdealReturn,
       Pool!Commission, PairOf!Commission,
       Pool!SwapRawDefined, PairOf!SwapRawDefined,
       Pool!SwapRaw, PairOf!SwapRaw,
       Pool!ComputeSwapDefined, PairOf!ComputeSwapDefined,
       Pool!ComputeSwap, PairOf!ComputeSwap,
       Pool!FeeCut, PairOf!FeeCut,
       Pool!SpreadAccepted, PairOf!SpreadAccepted,
       Pool!MinimumMet, PairOf!MinimumMet,
       Pool!DeadlineMet, PairOf!DeadlineMet,
       Pool!ISqrt, PairOf!ISqrt,
       Pool!InitialShareDefined, PairOf!InitialShareDefined,
       Pool!InitialShare, PairOf!InitialShare,
       Pool!ShareDefined, PairOf!ShareDefined,
       Pool!Share, PairOf!Share,
       Pool!DesiredAmount, PairOf!DesiredAmount,
       Pool!Refund, PairOf!Refund,
       Pool!Sendable, PairOf!Sendable,
       Pool!Move, PairOf!Move

LEMMA SameAtomic ==
  /\ \A i : Atomic!Other(i) = Pool!Other(i)
  /\ \A n : Atomic!FitsUint128(n) = Pool!FitsUint128(n)
  /\ \A n : Atomic!FeeCut(n) = Pool!FeeCut(n)
  /\ \A i, a, b, n : Atomic!ComputeSwap(i, a, b, n) = Pool!ComputeSwap(i, a, b, n)
  /\ \A i, a, b, n : Atomic!ComputeSwapDefined(i, a, b, n) = Pool!ComputeSwapDefined(i, a, b, n)
  /\ \A i, n, a, b, k, m : Atomic!SpreadAccepted(i, n, a, b, k, m) = Pool!SpreadAccepted(i, n, a, b, k, m)
  /\ \A n, m : Atomic!DeadlineMet(n, m) = Pool!DeadlineMet(n, m)
  /\ \A a, b : Atomic!MinimumMet(a, b) = Pool!MinimumMet(a, b)
  /\ \A n, m : Atomic!MulFloor(n, m) = Pool!MulFloor(n, m)
  /\ \A n, a, b : Atomic!Refund(n, a, b) = Pool!Refund(n, a, b)
  /\ \A i, n : Atomic!Sendable(i, n) = Pool!Sendable(i, n)
  /\ \A d : Atomic!InitialShareDefined(d) = Pool!InitialShareDefined(d)
  /\ \A d : Atomic!InitialShare(d) = Pool!InitialShare(d)
  /\ \A d, a, n : Atomic!ShareDefined(d, a, n) = Pool!ShareDefined(d, a, n)
  /\ \A d, a, n : Atomic!Share(d, a, n) = Pool!Share(d, a, n)
  /\ \A n, a, b : Atomic!DesiredAmount(n, a, b) = Pool!DesiredAmount(n, a, b)
  /\ \A d, a, b, n : Atomic!Move(d, a, b, n) = Move(d, a, b, n)
  /\ Atomic!Assets = Pool!Assets
BY DEF Move, Pool!FitsUint128, Atomic!FitsUint128,
       Pool!FromRatio, Atomic!FromRatio,
       Pool!MulFloor, Atomic!MulFloor,
       Pool!MultiplyRatio, Atomic!MultiplyRatio,
       Pool!Reciprocal, Atomic!Reciprocal,
       Pool!Other, Atomic!Other,
       Pool!Assets, Atomic!Assets,
       Pool!GrossReturn, Atomic!GrossReturn,
       Pool!IdealReturn, Atomic!IdealReturn,
       Pool!Commission, Atomic!Commission,
       Pool!SwapRawDefined, Atomic!SwapRawDefined,
       Pool!SwapRaw, Atomic!SwapRaw,
       Pool!ComputeSwapDefined, Atomic!ComputeSwapDefined,
       Pool!ComputeSwap, Atomic!ComputeSwap,
       Pool!FeeCut, Atomic!FeeCut,
       Pool!SpreadAccepted, Atomic!SpreadAccepted,
       Pool!MinimumMet, Atomic!MinimumMet,
       Pool!DeadlineMet, Atomic!DeadlineMet,
       Pool!ISqrt, Atomic!ISqrt,
       Pool!InitialShareDefined, Atomic!InitialShareDefined,
       Pool!InitialShare, Atomic!InitialShare,
       Pool!ShareDefined, Atomic!ShareDefined,
       Pool!Share, Atomic!Share,
       Pool!DesiredAmount, Atomic!DesiredAmount,
       Pool!Refund, Atomic!Refund,
       Pool!Sendable, Atomic!Sendable,
       Pool!Move, Atomic!Move

LEMMA PoolMoves == \A d, a, b, n : Pool!Move(d, a, b, n) = Move(d, a, b, n)
BY DEF Move, Pool!Move

LEMMA SameSwap ==
  ASSUME NEW u, NEW i, NEW offer, NEW belief, NEW spread, NEW to, NEW deadline,
         Pool!Swap(u, i, offer, belief, spread, to, deadline)
  PROVE  PairOf!Swap(u, i, offer, belief, spread, to, deadline)
BY SamePairOf, PoolMoves DEF Pool!Swap, PairOf!Swap, Pool!PayOut, PairOf!PayOut,
   Pool!OfferPool, PairOf!OfferPool

LEMMA SameDeposits ==
  ASSUME NEW u, NEW deposit, NEW receiver, NEW slippage, NEW deadline
  PROVE  /\ Pool!ProvideFirst(u, deposit, receiver, slippage, deadline)
              => PairOf!ProvideFirst(u, deposit, receiver, slippage, deadline)
         /\ Pool!ProvideMore(u, deposit, receiver, slippage, deadline)
              => PairOf!ProvideMore(u, deposit, receiver, slippage, deadline)
BY SamePairOf, PoolMoves
   DEF Pool!ProvideFirst, PairOf!ProvideFirst, Pool!ProvideMore, PairOf!ProvideMore,
       Pool!Credited, PairOf!Credited, Pool!PoolsBefore, PairOf!PoolsBefore,
       Pool!FundsSent, PairOf!FundsSent, Pool!SettleDeposit, PairOf!SettleDeposit,
       Pool!SlippageMet, PairOf!SlippageMet, Pool!Remainder, PairOf!Remainder,
       Pool!SupplyFits, PairOf!SupplyFits,
       Pool!MintFirst, PairOf!MintFirst, Pool!Mint, PairOf!Mint

LEMMA SameWithdrawal ==
  ASSUME NEW u, NEW amount, NEW minimum, NEW deadline,
         Pool!WithdrawLiquidity(u, amount, minimum, deadline)
  PROVE  PairOf!WithdrawLiquidity(u, amount, minimum, deadline)
BY SamePairOf, PoolMoves
   DEF Pool!WithdrawLiquidity, PairOf!WithdrawLiquidity,
       Pool!WithdrawAllowed, PairOf!WithdrawAllowed, Pool!Refunds, PairOf!Refunds,
       Pool!Received, PairOf!Received, Pool!Pools, PairOf!Pools

LEMMA SamePairStep == Pool!Next => PairOf!Next
<1>1. PairOf!Deposits = Pool!Deposits /\ PairOf!Assets = Pool!Assets
  BY SamePairOf DEF Pool!Deposits, PairOf!Deposits
<1>2. ASSUME NEW u, NEW i, NEW offer, NEW belief, NEW spread, NEW to, NEW deadline
      PROVE  /\ Pool!SwapNative(u, i, offer, belief, spread, to, deadline)
                  => PairOf!SwapNative(u, i, offer, belief, spread, to, deadline)
             /\ Pool!ReceiveCw20(u, i, offer, belief, spread, to, deadline)
                  => PairOf!ReceiveCw20(u, i, offer, belief, spread, to, deadline)
  BY SameSwap DEF Pool!SwapNative, PairOf!SwapNative, Pool!ReceiveCw20, PairOf!ReceiveCw20
<1>3. ASSUME NEW u, NEW i, NEW to, NEW n
      PROVE  /\ Pool!Donate(u, i, n) => PairOf!Donate(u, i, n)
             /\ Pool!TransferLp(u, to, n) => PairOf!TransferLp(u, to, n)
  BY SamePairOf, PoolMoves DEF Pool!Donate, PairOf!Donate, Pool!TransferLp, PairOf!TransferLp
<1>4. Pool!Tick => PairOf!Tick
  BY DEF Pool!Tick, PairOf!Tick
<1> SUFFICES ASSUME Pool!Next PROVE PairOf!Next
  OBVIOUS
<1>5. ASSUME NEW u \in Traders, NEW deposit \in Pool!Deposits,
             NEW receiver \in Payees, NEW slippage \in {None},
             NEW deadline \in {None},
             \/ Pool!ProvideFirst(u, deposit, receiver, slippage, deadline)
             \/ Pool!ProvideMore(u, deposit, receiver, slippage, deadline)
      PROVE  PairOf!Next
  BY <1>1, <1>5, SameDeposits DEF PairOf!Next
<1>6. ASSUME NEW u \in Traders, NEW amount \in TradeAmounts, NEW minimum \in {None},
             NEW deadline \in {None},
             Pool!WithdrawLiquidity(u, amount, minimum, deadline)
      PROVE  PairOf!Next
  BY <1>6, SameWithdrawal DEF PairOf!Next
<1>7. ASSUME NEW u \in Traders, NEW i \in Pool!Assets, NEW offer \in TradeAmounts,
             NEW belief \in {None}, NEW spread \in {None},
             NEW to \in Payees, NEW deadline \in {None},
             \/ Pool!SwapNative(u, i, offer, belief, spread, to, deadline)
             \/ Pool!ReceiveCw20(u, i, offer, belief, spread, to, deadline)
      PROVE  PairOf!Next
  BY <1>1, <1>2, <1>7 DEF PairOf!Next
<1>8. ASSUME NEW u \in Traders, NEW i \in Pool!Assets, NEW n \in TradeAmounts,
             Pool!Donate(u, i, n)
      PROVE  PairOf!Next
  BY <1>1, <1>3, <1>8 DEF PairOf!Next
<1>9. ASSUME NEW u \in Traders, NEW to \in Payees, NEW n \in TradeAmounts,
             Pool!TransferLp(u, to, n)
      PROVE  PairOf!Next
  BY <1>1, <1>3, <1>9 DEF PairOf!Next
<1>10. CASE Pool!Tick
  BY <1>4, <1>10 DEF PairOf!Next
<1> QED
  BY <1>5, <1>6, <1>7, <1>8, <1>9, <1>10 DEF Pool!Next

(* Whatever step the pair takes, its state stays well-typed. *)
LEMMA PairStepHealthy == PairOf!Healthy /\ Pool!Next => PairOf!Healthy'
<1> SUFFICES ASSUME PairOf!Healthy, Pool!Next PROVE PairOf!Healthy'
  OBVIOUS
<1>1. PairOf!Next
  BY SamePairStep
<1> QED
  BY <1>1, PairOf!EveryStepHealthy, PairNumbers, PairAccounts, PairInputs

LEMMA HealthyFacts ==
  PairOf!Healthy <=> /\ pool \in PoolBalances
                     /\ lp \in [PoolAccounts -> Nat]
                     /\ supply \in Nat /\ now \in Nat
                     /\ supply > 0 => lp[PairAddr] >= MinimumLiquidity
                     /\ supply \in 0 .. Uint128Max
BY PoolFacts
   DEF PairOf!Healthy, PairOf!TypeOK, PairOf!MinimumLocked, PairOf!LpSupplyFits,
       PairOf!FitsUint128, PoolBalances

-----------------------------------------------------------------------------
(* What has arrived at the auctions.                                       *)

LEMMA CoinsOfFacts ==
  /\ \A i \in PoolIds : /\ CoinsOf(i) \subseteq Denoms
                        /\ IsFiniteSet(CoinsOf(i) \X AuctionSubaccounts)
  /\ \A i, k \in PoolIds : i # k => CoinsOf(i) \intersect CoinsOf(k) = {}
<1>1. ASSUME NEW i \in PoolIds
      PROVE  CoinsOf(i) \subseteq Denoms /\ IsFiniteSet(CoinsOf(i))
  <2>1. CoinsOf(i) \subseteq Denoms
    BY FeeTokenFacts
  <2>2. CASE AssetToken[i] \in Coins
    <3>1. CoinsOf(i) = {AssetToken[i]}
      BY <2>2 DEF CoinsOf
    <3> QED  BY <2>1, <3>1, FS_Singleton
  <2>3. CASE AssetToken[i] \notin Coins
    <3>1. CoinsOf(i) = Adapters \X {AssetToken[i]}
      BY <2>3 DEF CoinsOf
    <3>2. IsFiniteSet({AssetToken[i]}) /\ IsFiniteSet(Adapters)
      BY FS_Singleton, FeeAccountsAssumption
    <3>3. IsFiniteSet(Adapters \X {AssetToken[i]})
      BY <3>2, FS_Product
    <3> QED  BY <2>1, <3>1, <3>3
  <2> QED  BY <2>2, <2>3
<1>2. ASSUME NEW i \in PoolIds
      PROVE  IsFiniteSet(CoinsOf(i) \X AuctionSubaccounts)
  BY <1>1, FS_Product, FeeAccountsAssumption
<1>3. ASSUME NEW i \in PoolIds, NEW k \in PoolIds, i # k
      PROVE  CoinsOf(i) \intersect CoinsOf(k) = {}
  <2> SUFFICES ASSUME NEW d, d \in CoinsOf(i), d \in CoinsOf(k) PROVE FALSE
    OBVIOUS
  <2>1. /\ AssetToken[i] # AssetToken[k]
        /\ AssetToken[i] \in Coins \union Cw20s /\ AssetToken[k] \in Coins \union Cw20s
    BY <1>3, FeeTokenFacts, FeeTokensAssumption
  <2>2. ASSUME NEW m \in PoolIds, d \in CoinsOf(m)
        PROVE  \/ AssetToken[m] \in Coins /\ d = AssetToken[m]
               \/ /\ AssetToken[m] \in Cw20s /\ d \in Adapters \X Cw20s
                  /\ d[2] = AssetToken[m]
    BY <2>2, FeeTokensAssumption DEF CoinsOf
  <2>3. ~ (d \in Coins /\ d \in Adapters \X Cw20s)
    BY AuctionTokensAssumption
  <2>4. CASE AssetToken[i] \in Coins /\ d = AssetToken[i]
    <3>1. d # AssetToken[k] /\ d \in Coins
      BY <2>1, <2>4
    <3> QED  BY <2>2, <2>3, <3>1
  <2>5. CASE d \in Adapters \X Cw20s /\ d[2] = AssetToken[i]
    <3>1. d[2] # AssetToken[k] /\ d \notin Coins
      BY <2>1, <2>3, <2>5
    <3> QED  BY <2>2, <3>1
  <2> QED  BY <2>2, <2>4, <2>5
<1> QED  BY <1>1, <1>2, <1>3

(* AtAuctions, of any deposits. *)
ArrivedOf(i, held) ==
  [p \in CoinsOf(i) \X AuctionSubaccounts |-> held[p[1]][p[2]]]

LEMMA AtAuctionsNat ==
  ASSUME AuctionSound, NEW i \in PoolIds
  PROVE  AtAuctions(i) \in Nat
<1>1. ArrivedOf(i, deposits) \in [CoinsOf(i) \X AuctionSubaccounts -> Nat]
  <2>1. ASSUME NEW p \in CoinsOf(i) \X AuctionSubaccounts
        PROVE  deposits[p[1]][p[2]] \in Nat
    <3>1. p[1] \in Denoms /\ p[2] \in Subaccounts
      BY CoinsOfFacts, TokenFacts
    <3> QED  BY <3>1 DEF AuctionSound, TypeOK
  <2> QED  BY <2>1 DEF ArrivedOf
<1>2. AtAuctions(i) = SumFunction(ArrivedOf(i, deposits))
  BY DEF AtAuctions, ArrivedOf
<1> QED  BY <1>1, <1>2, CoinsOfFacts, SumNat

(* A coin that goes to an auction counts for the asset that it is, ...     *)
LEMMA AtAuctionsGrow ==
  ASSUME AuctionSound, NEW i \in PoolIds, NEW d \in CoinsOf(i), NEW n \in Nat,
         deposits' = [deposits EXCEPT ![d] = Auctioned(d, n)]
  PROVE  AtAuctions(i)' = AtAuctions(i) + n
<1> DEFINE D == CoinsOf(i) \X AuctionSubaccounts
           f == ArrivedOf(i, deposits)
           g == ArrivedOf(i, deposits')
           x == <<d, burnAuctionSubaccount>>
<1>1. /\ d \in Denoms /\ CoinsOf(i) \subseteq Denoms /\ IsFiniteSet(D)
      /\ burnAuctionSubaccount \in AuctionSubaccounts
      /\ deposits \in [Denoms -> [Subaccounts -> Nat]]
      /\ AuctionSubaccounts \subseteq Subaccounts \ {OwnSubaccount}
  BY CoinsOfFacts, TokenFacts DEF AuctionSound, TypeOK
<1>2. /\ Auctioned(d, n) \in [Subaccounts -> Nat]
      /\ Auctioned(d, n)[burnAuctionSubaccount] = deposits[d][burnAuctionSubaccount] + n
      /\ \A s \in Subaccounts \ {OwnSubaccount, burnAuctionSubaccount} :
           Auctioned(d, n)[s] = deposits[d][s]
  BY <1>1, AuctionedFacts
<1>3. /\ deposits' \in [Denoms -> [Subaccounts -> Nat]]
      /\ deposits'[d] = Auctioned(d, n)
      /\ \A e \in Denoms \ {d} : deposits'[e] = deposits[e]
  BY <1>1, <1>2
<1>4. f \in [D -> Int] /\ g \in [D -> Int] /\ x \in D
  <2>1. ASSUME NEW p \in D
        PROVE  deposits[p[1]][p[2]] \in Int /\ deposits'[p[1]][p[2]] \in Int
    <3>1. p[1] \in Denoms /\ p[2] \in Subaccounts
      BY <1>1
    <3>2. deposits[p[1]][p[2]] \in Nat /\ deposits'[p[1]][p[2]] \in Nat
      BY <1>1, <1>3, <3>1
    <3> QED  BY <3>2
  <2> QED  BY <1>1, <2>1 DEF ArrivedOf
<1>5. f[x] = deposits[d][burnAuctionSubaccount] /\ g[x] = f[x] + n
  BY <1>1, <1>2, <1>3 DEF ArrivedOf
<1>6. ASSUME NEW y \in D \ {x} PROVE g[y] = f[y]
  <2>1. PICK e \in CoinsOf(i), s \in AuctionSubaccounts : y = <<e, s>>
    OBVIOUS
  <2>2. g[y] = deposits'[e][s] /\ f[y] = deposits[e][s]
    BY <2>1 DEF ArrivedOf
  <2>3. CASE e = d
    BY <1>1, <1>2, <1>3, <2>1, <2>2, <2>3
  <2>4. CASE e # d
    BY <1>1, <1>3, <2>1, <2>2, <2>4
  <2> QED  BY <2>3, <2>4
<1>7. AtAuctions(i) = SumFunction(f) /\ AtAuctions(i)' = SumFunction(g)
  BY DEF AtAuctions, ArrivedOf
<1>8. f[x] \in Int
  BY <1>4
<1> HIDE DEF D, f, g, x
<1>9. SumFunction(f) \in Int /\ SumFunction(g) = SumFunction(f) + g[x] - f[x]
  BY <1>1, <1>4, <1>6, SumChange
<1> QED  BY <1>5, <1>7, <1>8, <1>9

(* ... and for no other. *)
LEMMA AtAuctionsKept ==
  ASSUME AuctionSound, NEW i \in PoolIds, NEW d \in Denoms \ CoinsOf(i), NEW row,
         deposits' = [deposits EXCEPT ![d] = row]
  PROVE  AtAuctions(i)' = AtAuctions(i)
<1>1. \A e \in CoinsOf(i) : deposits'[e] = deposits[e]
  BY CoinsOfFacts DEF AuctionSound, TypeOK
<1>2. ArrivedOf(i, deposits') = ArrivedOf(i, deposits)
  BY <1>1 DEF ArrivedOf
<1> QED  BY <1>2 DEF AtAuctions, ArrivedOf

-----------------------------------------------------------------------------
(* The pair's part of the ledger.                                          *)

LEMMA RowsFacts ==
  ASSUME NEW ledger \in [Tokens -> [Accounts -> Nat]]
  PROVE  /\ Rows(ledger) \in PoolBalances
         /\ \A i \in PoolIds, a \in PoolAccounts :
              Rows(ledger)[i][a] = ledger[AssetToken[i]][a]
<1>1. \A i \in PoolIds, a \in PoolAccounts : ledger[AssetToken[i]][a] \in Nat
  BY FeeTokenFacts, PoolFacts
<1> QED  BY <1>1 DEF Rows, PoolBalances

(* Equal entries make equal balances. *)
LEMMA RowsEqual ==
  ASSUME NEW ledger, NEW rows \in PoolBalances,
         \A i \in PoolIds, a \in PoolAccounts : ledger[AssetToken[i]][a] = rows[i][a]
  PROVE  Rows(ledger) = rows
<1>1. \A i \in PoolIds : rows[i] = [a \in PoolAccounts |-> rows[i][a]]
  BY DEF PoolBalances
<1>2. rows = [i \in PoolIds |-> [a \in PoolAccounts |-> rows[i][a]]]
  BY <1>1 DEF PoolBalances
<1>3. Rows(ledger) = [i \in PoolIds |-> [a \in PoolAccounts |-> rows[i][a]]]
  BY DEF Rows
<1> QED  BY <1>2, <1>3

(* What is written is read again, and the rest of the ledger is kept. *)
LEMMA WithRowsFacts ==
  ASSUME bank \in [Tokens -> [Accounts -> Nat]], NEW rows \in PoolBalances
  PROVE  /\ WithRows(rows) \in [Tokens -> [Accounts -> Nat]]
         /\ Rows(WithRows(rows)) = rows
         /\ \A t \in Tokens, a \in Accounts \ PoolAccounts :
              WithRows(rows)[t][a] = bank[t][a]
<1>1. \A i \in PoolIds, a \in PoolAccounts : rows[i][a] \in Nat
  BY DEF PoolBalances
<1>2. ASSUME NEW t \in Tokens, NEW a \in Accounts
      PROVE  (IF \E i \in PoolIds : AssetToken[i] = t /\ a \in PoolAccounts
              THEN rows[CHOOSE i \in PoolIds : AssetToken[i] = t][a]
              ELSE bank[t][a]) \in Nat
  BY <1>1
<1>3. WithRows(rows) \in [Tokens -> [Accounts -> Nat]]
  BY <1>2 DEF WithRows
<1>4. ASSUME NEW i \in PoolIds, NEW a \in PoolAccounts
      PROVE  WithRows(rows)[AssetToken[i]][a] = rows[i][a]
  <2>1. (CHOOSE k \in PoolIds : AssetToken[k] = AssetToken[i]) = i
    BY FeeTokenFacts
  <2>2. AssetToken[i] \in Tokens /\ a \in Accounts
    BY FeeTokenFacts, PoolFacts
  <2> QED  BY <2>1, <2>2 DEF WithRows
<1>5. Rows(WithRows(rows)) = rows
  BY <1>4, RowsEqual
<1>6. ASSUME NEW t \in Tokens, NEW a \in Accounts \ PoolAccounts
      PROVE  WithRows(rows)[t][a] = bank[t][a]
  BY DEF WithRows
<1> QED  BY <1>3, <1>5, <1>6

(* The pair owns the fee until the message runs. *)
LEMMA UnpaidFacts ==
  ASSUME NEW rows \in PoolBalances, NEW i \in PoolIds, NEW n \in Nat,
         n <= rows[i][AuctionAddr]
  PROVE  /\ Unpaid(rows, i, n) \in PoolBalances
         /\ Unpaid(rows, i, n)[i][PairAddr] = rows[i][PairAddr] + n
         /\ Unpaid(rows, i, n)[i][AuctionAddr] = rows[i][AuctionAddr] - n
         /\ \A a \in PoolAccounts \ {PairAddr, AuctionAddr} :
              Unpaid(rows, i, n)[i][a] = rows[i][a]
         /\ \A k \in PoolIds \ {i} : Unpaid(rows, i, n)[k] = rows[k]
<1> DEFINE row  == rows[i]
           paid == Move(row, AuctionAddr, PairAddr, n)
<1>1. /\ row \in [PoolAccounts -> Nat] /\ n <= row[AuctionAddr]
      /\ PairAddr \in PoolAccounts /\ AuctionAddr \in PoolAccounts
      /\ PairAddr # AuctionAddr
  BY PoolFacts DEF PoolBalances
<1>2. Unpaid(rows, i, n) = [rows EXCEPT ![i] = paid]
  BY DEF Unpaid
<1> HIDE DEF row
<1>3. /\ paid \in [PoolAccounts -> Nat]
      /\ paid[AuctionAddr] = row[AuctionAddr] - n
      /\ paid[PairAddr] = row[PairAddr] + n
      /\ \A a \in PoolAccounts \ {PairAddr, AuctionAddr} : paid[a] = row[a]
  BY ONLY <1>1, MoveFacts, n \in Nat
<1> HIDE DEF paid
<1>4. /\ Unpaid(rows, i, n) \in PoolBalances
      /\ Unpaid(rows, i, n)[i] = paid
      /\ \A k \in PoolIds \ {i} : Unpaid(rows, i, n)[k] = rows[k]
  BY <1>2, <1>3 DEF PoolBalances
<1> QED  BY <1>3, <1>4 DEF row

-----------------------------------------------------------------------------
(* The actions of the pair, seen with what has arrived at the auctions.    *)

IsRow(row) == row = [a \in PoolAccounts |-> row[a]]
Up(row, n) == [row EXCEPT ![AuctionAddr] = @ + n]

LEMMA UpFacts ==
  ASSUME NEW row, IsRow(row), NEW n
  PROVE  /\ IsRow(Up(row, n))
         /\ \A a \in PoolAccounts \ {AuctionAddr} : Up(row, n)[a] = row[a]
         /\ Up(row, n)[AuctionAddr] = row[AuctionAddr] + n
BY PoolFacts DEF IsRow, Up

(* A transfer among others does not see the auctions. *)
LEMMA UpMoves ==
  ASSUME NEW row, IsRow(row), NEW k, NEW n,
         NEW from \in PoolAccounts \ {AuctionAddr},
         NEW to \in PoolAccounts \ {AuctionAddr}
  PROVE  /\ IsRow(Move(row, from, to, n))
         /\ Move(Up(row, k), from, to, n) = Up(Move(row, from, to, n), k)
         /\ Move(row, from, to, n)[AuctionAddr] = row[AuctionAddr]
<1> DEFINE debited == [row EXCEPT ![from] = row[from] - n]
           raised  == Up(row, k)
           lowered == [raised EXCEPT ![from] = raised[from] - n]
<1>1. /\ IsRow(debited)
      /\ debited[from] = row[from] - n
      /\ \A a \in PoolAccounts \ {from} : debited[a] = row[a]
  BY DEF IsRow
<1>2. /\ Move(row, from, to, n) = [debited EXCEPT ![to] = debited[to] + n]
      /\ Move(raised, from, to, n) = [lowered EXCEPT ![to] = lowered[to] + n]
  BY DEF Move
<1>3. /\ IsRow(raised)
      /\ \A a \in PoolAccounts \ {AuctionAddr} : raised[a] = row[a]
      /\ raised[AuctionAddr] = row[AuctionAddr] + k
  BY UpFacts
<1> HIDE DEF raised
<1>4. /\ IsRow(lowered)
      /\ \A a \in PoolAccounts \ {AuctionAddr} : lowered[a] = debited[a]
      /\ lowered[AuctionAddr] = debited[AuctionAddr] + k
  BY <1>1, <1>3, PoolFacts DEF IsRow
<1> HIDE DEF debited, lowered
<1>5. /\ IsRow(Move(row, from, to, n))
      /\ Move(row, from, to, n)[to] = debited[to] + n
      /\ \A a \in PoolAccounts \ {to} : Move(row, from, to, n)[a] = debited[a]
  BY <1>1, <1>2 DEF IsRow
<1>6. /\ IsRow(Move(raised, from, to, n))
      /\ Move(raised, from, to, n)[to] = lowered[to] + n
      /\ \A a \in PoolAccounts \ {to} : Move(raised, from, to, n)[a] = lowered[a]
  BY <1>2, <1>4 DEF IsRow
<1>7. /\ IsRow(Up(Move(row, from, to, n), k))
      /\ \A a \in PoolAccounts \ {AuctionAddr} :
           Up(Move(row, from, to, n), k)[a] = Move(row, from, to, n)[a]
      /\ Up(Move(row, from, to, n), k)[AuctionAddr]
           = Move(row, from, to, n)[AuctionAddr] + k
  BY <1>5, UpFacts
<1>8. \A a \in PoolAccounts :
        Move(raised, from, to, n)[a] = Up(Move(row, from, to, n), k)[a]
  BY <1>4, <1>5, <1>6, <1>7, PoolFacts
<1>9. Move(raised, from, to, n) = Up(Move(row, from, to, n), k)
  BY <1>6, <1>7, <1>8 DEF IsRow
<1>10. Move(row, from, to, n)[AuctionAddr] = row[AuctionAddr]
  BY <1>1, <1>5, PoolFacts
<1> QED  BY <1>5, <1>9, <1>10 DEF raised

(* What is paid to the auction adds to what has arrived there. *)
LEMMA UpPays ==
  ASSUME NEW row \in [PoolAccounts -> Nat], NEW k \in Int, NEW n \in Nat,
         n <= row[PairAddr]
  PROVE  Move(Up(row, k), PairAddr, AuctionAddr, n)
           = Up(Move(row, PairAddr, AuctionAddr, n), k)
<1> DEFINE paid   == Move(row, PairAddr, AuctionAddr, n)
           raised == Up(row, k)
           low    == [raised EXCEPT ![PairAddr] = raised[PairAddr] - n]
<1>1. /\ PairAddr \in PoolAccounts /\ AuctionAddr \in PoolAccounts
      /\ PairAddr # AuctionAddr
  BY PoolFacts
<1>2. /\ paid \in [PoolAccounts -> Nat]
      /\ paid[PairAddr] = row[PairAddr] - n
      /\ paid[AuctionAddr] = row[AuctionAddr] + n
      /\ \A a \in PoolAccounts \ {PairAddr, AuctionAddr} : paid[a] = row[a]
  BY <1>1, MoveFacts
<1>3. Move(raised, PairAddr, AuctionAddr, n) = [low EXCEPT ![AuctionAddr] = low[AuctionAddr] + n]
  BY DEF Move
<1>4. IsRow(row) /\ IsRow(paid)
  BY <1>2 DEF IsRow
<1> HIDE DEF paid
<1>5. /\ IsRow(raised)
      /\ \A a \in PoolAccounts \ {AuctionAddr} : raised[a] = row[a]
      /\ raised[AuctionAddr] = row[AuctionAddr] + k
  BY <1>4, UpFacts
<1>6. /\ IsRow(Up(paid, k))
      /\ \A a \in PoolAccounts \ {AuctionAddr} : Up(paid, k)[a] = paid[a]
      /\ Up(paid, k)[AuctionAddr] = paid[AuctionAddr] + k
  BY <1>4, UpFacts
<1> HIDE DEF raised
<1>7. /\ IsRow(low) /\ low[PairAddr] = raised[PairAddr] - n
      /\ \A a \in PoolAccounts \ {PairAddr} : low[a] = raised[a]
  BY <1>1, <1>5 DEF IsRow
<1> HIDE DEF low
<1> DEFINE out == Move(raised, PairAddr, AuctionAddr, n)
<1>8. /\ IsRow(out) /\ out[AuctionAddr] = low[AuctionAddr] + n
      /\ \A a \in PoolAccounts \ {AuctionAddr} : out[a] = low[a]
  BY <1>1, <1>3, <1>7 DEF IsRow
<1> HIDE DEF out
<1>9. row[AuctionAddr] \in Nat /\ row[PairAddr] \in Nat
  BY <1>1
<1>10. out[AuctionAddr] = Up(paid, k)[AuctionAddr]
  BY <1>1, <1>2, <1>5, <1>6, <1>7, <1>8, <1>9
<1>11. \A a \in PoolAccounts \ {AuctionAddr} : out[a] = Up(paid, k)[a]
  BY <1>1, <1>2, <1>5, <1>6, <1>7, <1>8
<1>12. out = Up(paid, k)
  BY <1>6, <1>8, <1>10, <1>11 DEF IsRow
<1> QED  BY <1>12 DEF out, raised, paid

(* The balances that Atomic sees are those of pool, with held[i] more of   *)
(* asset i at the auctions.                                                *)
Shows(held) ==
  /\ \A i \in PoolIds : IsRow(pool[i]) /\ PairView[i] = Up(pool[i], held[i])
  /\ DOMAIN pool = PoolIds
  /\ PairView = [i \in PoolIds |-> PairView[i]]

LEMMA ShownEntries ==
  ASSUME NEW held, Shows(held), NEW i \in PoolIds
  PROVE  /\ IsRow(pool[i]) /\ PairView[i] = Up(pool[i], held[i])
         /\ \A a \in Traders \union {PairAddr} : PairView[i][a] = pool[i][a]
  BY UpFacts, PoolFacts DEF Shows

LEMMA AssetsAreIds ==
  Pool!Assets = PoolIds /\ Atomic!Assets = PoolIds /\ PairOf!Assets = PoolIds
BY PoolFacts, SameAtomic, SamePairOf

LEMMA LiftedCredit ==
  ASSUME NEW held, Shows(held), NEW u \in Traders, NEW deposit, NEW i \in PoolIds
  PROVE  /\ IsRow(Pool!Credited(u, deposit)[i])
         /\ Atomic!Credited(u, deposit)[i] = Up(Pool!Credited(u, deposit)[i], held[i])
<1>1. /\ u \in PoolAccounts \ {AuctionAddr} /\ PairAddr \in PoolAccounts \ {AuctionAddr}
  BY PoolFacts
<1>2. IsRow(pool[i]) /\ PairView[i] = Up(pool[i], held[i])
  BY ShownEntries
<1>3. CASE i \in {k \in PoolIds : AssetToken[k] \in Coins}
  <2>1. /\ Pool!Credited(u, deposit)[i] = Move(pool[i], u, PairAddr, deposit[i])
        /\ Atomic!Credited(u, deposit)[i] = Move(PairView[i], u, PairAddr, deposit[i])
    BY <1>3, AssetsAreIds, PoolMoves, SameAtomic DEF Pool!Credited, Atomic!Credited
  <2> QED  BY <1>1, <1>2, <2>1, UpMoves
<1>4. CASE i \notin {k \in PoolIds : AssetToken[k] \in Coins}
  <2>1. /\ Pool!Credited(u, deposit)[i] = pool[i]
        /\ Atomic!Credited(u, deposit)[i] = PairView[i]
    BY <1>4, AssetsAreIds DEF Pool!Credited, Atomic!Credited
  <2> QED  BY <1>2, <2>1
<1> QED  BY <1>3, <1>4

LEMMA LiftedFunds ==
  ASSUME NEW held, Shows(held), NEW u \in Traders, NEW deposit, Pool!FundsSent(u, deposit)
  PROVE  Atomic!FundsSent(u, deposit)
BY ShownEntries DEF Pool!FundsSent, Atomic!FundsSent

LEMMA LiftedSettlement ==
  ASSUME NEW CONSTANT held, Shows(held), Shows(held)', NEW u \in Traders,
         NEW deposit, NEW desired, NEW slippage,
         Pool!SettleDeposit(u, deposit, desired, Pool!Credited(u, deposit), slippage)
  PROVE  Atomic!SettleDeposit(u, deposit, desired, Atomic!Credited(u, deposit), slippage)
<1> DEFINE N == {k \in PoolIds : AssetToken[k] \in Coins}
           c == Pool!Credited(u, deposit)
           d == Atomic!Credited(u, deposit)
           r(i) == Pool!Remainder(i, deposit, desired)
<1>1. /\ \A i \in PoolIds : /\ desired[i] <= deposit[i]
                            /\ Pool!SlippageMet(r(i), deposit[i], slippage)
                            /\ i \notin N => pool[i][u] >= desired[i]
      /\ \A i \in PoolIds : pool'[i] = IF i \in N THEN Move(c[i], PairAddr, u, r(i))
                                                  ELSE Move(c[i], u, PairAddr, desired[i])
  BY AssetsAreIds, PoolMoves DEF Pool!SettleDeposit
<1>2. \A i \in PoolIds : /\ Atomic!Remainder(i, deposit, desired) = r(i)
                         /\ Atomic!SlippageMet(r(i), deposit[i], slippage)
  BY <1>1, SameAtomic
     DEF Pool!Remainder, Atomic!Remainder, Pool!SlippageMet, Atomic!SlippageMet
<1> HIDE DEF r
<1>3. ASSUME NEW i \in PoolIds
      PROVE  PairView'[i] = IF i \in N THEN Move(d[i], PairAddr, u, r(i))
                                       ELSE Move(d[i], u, PairAddr, desired[i])
  <2>1. PairView'[i] = Up(pool'[i], held[i])
    BY DEF Shows
  <2>2. /\ u \in PoolAccounts \ {AuctionAddr}
        /\ PairAddr \in PoolAccounts \ {AuctionAddr}
    BY PoolFacts
  <2>3. IsRow(c[i]) /\ d[i] = Up(c[i], held[i])
    BY LiftedCredit
  <2> HIDE DEF c, d
  <2>4. Move(d[i], PairAddr, u, r(i)) = Up(Move(c[i], PairAddr, u, r(i)), held[i])
    BY <2>2, <2>3, UpMoves
  <2>5. Move(d[i], u, PairAddr, desired[i])
          = Up(Move(c[i], u, PairAddr, desired[i]), held[i])
    BY <2>2, <2>3, UpMoves
  <2> QED  BY <1>1, <2>1, <2>3, <2>4, <2>5
<1>4. \A i \in PoolIds : i \notin N => PairView[i][u] >= desired[i]
  BY <1>1, ShownEntries
<1>5. PairView' = [i \in PoolIds |-> PairView'[i]]
  BY DEF Shows
<1>6. PairView' = [i \in PoolIds |-> IF i \in N THEN Move(d[i], PairAddr, u, r(i))
                                                ELSE Move(d[i], u, PairAddr, desired[i])]
  BY <1>3, <1>5
<1> HIDE DEF d
<1>7. PairView' = [i \in Atomic!Assets |->
                     IF i \in N
                     THEN Atomic!Move(d[i], PairAddr, u, Atomic!Remainder(i, deposit, desired))
                     ELSE Atomic!Move(d[i], u, PairAddr, desired[i])]
  BY <1>2, <1>6, AssetsAreIds, SameAtomic
<1> QED
  BY <1>1, <1>2, <1>4, <1>7, AssetsAreIds DEF Atomic!SettleDeposit, d

LEMMA LiftedFirstDeposit ==
  ASSUME NEW CONSTANT held, Shows(held), Shows(held)', NEW u \in Traders,
         NEW deposit, NEW receiver, NEW slippage, NEW deadline,
         Pool!ProvideFirst(u, deposit, receiver, slippage, deadline)
  PROVE  Atomic!ProvideFirst(u, deposit, receiver, slippage, deadline)
<1>1. /\ Pool!FundsSent(u, deposit)
      /\ Pool!SettleDeposit(u, deposit, deposit, Pool!Credited(u, deposit), slippage)
  BY DEF Pool!ProvideFirst
<1>2. /\ Atomic!FundsSent(u, deposit)
      /\ Atomic!SettleDeposit(u, deposit, deposit, Atomic!Credited(u, deposit), slippage)
  BY <1>1, LiftedFunds, LiftedSettlement
<1>3. /\ supply = 0 /\ Atomic!DeadlineMet(now, deadline)
      /\ Atomic!InitialShareDefined(deposit)
      /\ Atomic!InitialShare(deposit) > 0
      /\ lp' = Atomic!MintFirst(receiver, Atomic!InitialShare(deposit))
      /\ supply' = supply + MinimumLiquidity + Atomic!InitialShare(deposit)
      /\ UNCHANGED now
  BY SameAtomic
     DEF Pool!ProvideFirst, Pool!MintFirst, Atomic!MintFirst, Pool!Mint, Atomic!Mint
<1> QED  BY <1>2, <1>3 DEF Atomic!ProvideFirst

LEMMA LiftedPools ==
  ASSUME NEW held, Shows(held), NEW u \in Traders, NEW deposit
  PROVE  Atomic!PoolsBefore(Atomic!Credited(u, deposit), deposit)
           = Pool!PoolsBefore(Pool!Credited(u, deposit), deposit)
<1>1. ASSUME NEW i \in PoolIds
      PROVE  Atomic!Credited(u, deposit)[i][PairAddr] = Pool!Credited(u, deposit)[i][PairAddr]
  BY LiftedCredit, UpFacts, PoolFacts
<1> QED  BY <1>1, AssetsAreIds DEF Pool!PoolsBefore, Atomic!PoolsBefore

LEMMA LiftedLaterDeposit ==
  ASSUME NEW CONSTANT held, Shows(held), Shows(held)', NEW u \in Traders,
         NEW deposit, NEW receiver, NEW slippage, NEW deadline,
         Pool!ProvideMore(u, deposit, receiver, slippage, deadline)
  PROVE  Atomic!ProvideMore(u, deposit, receiver, slippage, deadline)
<1> DEFINE pools   == Pool!PoolsBefore(Pool!Credited(u, deposit), deposit)
           share   == Pool!Share(deposit, pools, supply)
           desired == [i \in PoolIds |-> Pool!DesiredAmount(pools[i], share, supply)]
<1>1. /\ supply > 0 /\ Pool!DeadlineMet(now, deadline) /\ Pool!FundsSent(u, deposit)
      /\ Pool!ShareDefined(deposit, pools, supply)
      /\ share > 0 /\ Pool!SupplyFits(share)
      /\ Pool!SettleDeposit(u, deposit, desired, Pool!Credited(u, deposit), slippage)
      /\ lp' = Pool!Mint(lp, receiver, share)
      /\ supply' = supply + share /\ UNCHANGED now
  BY AssetsAreIds DEF Pool!ProvideMore
<1>2. /\ Atomic!PoolsBefore(Atomic!Credited(u, deposit), deposit) = pools
      /\ Atomic!Share(deposit, pools, supply) = share
      /\ [i \in Atomic!Assets |-> Atomic!DesiredAmount(pools[i], share, supply)] = desired
  BY LiftedPools, SameAtomic, AssetsAreIds
<1> HIDE DEF pools, share, desired
<1>3. /\ Atomic!FundsSent(u, deposit)
      /\ Atomic!SettleDeposit(u, deposit, desired, Atomic!Credited(u, deposit), slippage)
  BY <1>1, LiftedFunds, LiftedSettlement
<1>4. /\ Atomic!DeadlineMet(now, deadline)
      /\ Atomic!ShareDefined(deposit, pools, supply)
      /\ Atomic!SupplyFits(share)
      /\ lp' = Atomic!Mint(lp, receiver, share)
  BY <1>1, SameAtomic
     DEF Pool!SupplyFits, Atomic!SupplyFits, Pool!Mint, Atomic!Mint
<1> QED  BY <1>1, <1>2, <1>3, <1>4 DEF Atomic!ProvideMore

LEMMA LiftedWithdrawal ==
  ASSUME NEW CONSTANT held, Shows(held), Shows(held)', NEW u \in Traders,
         NEW amount, NEW minimum, NEW deadline,
         Pool!WithdrawLiquidity(u, amount, minimum, deadline)
  PROVE  Atomic!WithdrawLiquidity(u, amount, minimum, deadline)
<1> DEFINE refunds == Pool!Refunds(amount)
<1>1. Atomic!Refunds(amount) = refunds
  <2>1. \A i \in PoolIds : PairView[i][PairAddr] = pool[i][PairAddr]
    BY ShownEntries
  <2>2. Atomic!Pools(PairView) = Pool!Pools(pool)
    BY <2>1, AssetsAreIds DEF Pool!Pools, Atomic!Pools
  <2> QED  BY <2>2, AssetsAreIds, SameAtomic DEF Pool!Refunds, Atomic!Refunds
<1>2. /\ Pool!DeadlineMet(now, deadline)
      /\ amount > 0 /\ lp[u] >= amount /\ amount <= supply
      /\ Pool!MinimumMet(refunds, minimum)
      /\ \A i \in PoolIds : Pool!Sendable(i \in {k \in PoolIds : AssetToken[k] \in Coins},
                                          refunds[i])
      /\ pool' = [i \in PoolIds |-> Move(pool[i], PairAddr, u, refunds[i])]
      /\ lp' = [Move(lp, u, PairAddr, amount) EXCEPT ![PairAddr] = @ - amount]
      /\ supply' = supply - amount /\ UNCHANGED now
  BY AssetsAreIds, PoolMoves
     DEF Pool!WithdrawLiquidity, Pool!WithdrawAllowed, Pool!Received
<1> HIDE DEF refunds
<1>3. ASSUME NEW i \in PoolIds
      PROVE  PairView'[i] = Move(PairView[i], PairAddr, u, refunds[i])
  <2>1. PairView'[i] = Up(pool'[i], held[i])
    BY DEF Shows
  <2>2. /\ u \in PoolAccounts \ {AuctionAddr}
        /\ PairAddr \in PoolAccounts \ {AuctionAddr}
    BY PoolFacts
  <2>3. IsRow(pool[i]) /\ PairView[i] = Up(pool[i], held[i])
    BY ShownEntries
  <2>4. pool'[i] = Move(pool[i], PairAddr, u, refunds[i])
    BY <1>2
  <2> QED  BY <2>1, <2>2, <2>3, <2>4, UpMoves
<1>4. PairView' = [i \in PoolIds |-> PairView'[i]]
  BY DEF Shows
<1>5. PairView' = [i \in Atomic!Assets |-> Atomic!Move(PairView[i], PairAddr, u, refunds[i])]
  BY <1>3, <1>4, AssetsAreIds, SameAtomic
<1>6. Atomic!WithdrawAllowed(u, amount, minimum, deadline)
  BY <1>1, <1>2, AssetsAreIds, SameAtomic DEF Atomic!WithdrawAllowed
<1>7. lp' = [Atomic!Received(u, amount) EXCEPT ![PairAddr] = @ - amount]
  BY <1>2, SameAtomic DEF Atomic!Received
<1> QED
  BY <1>1, <1>2, <1>5, <1>6, <1>7 DEF Atomic!WithdrawLiquidity

LEMMA LiftedDonation ==
  ASSUME NEW CONSTANT held, Shows(held), Shows(held)', NEW u \in Traders,
         NEW i \in PoolIds, NEW n, Pool!Donate(u, i, n)
  PROVE  Atomic!Donate(u, i, n)
<1>1. /\ u \in PoolAccounts \ {AuctionAddr}
      /\ PairAddr \in PoolAccounts \ {AuctionAddr}
  BY PoolFacts
<1>2. /\ n > 0 /\ pool[i][u] >= n /\ UNCHANGED <<lp, supply, now>>
      /\ pool' = [pool EXCEPT ![i] = Move(pool[i], u, PairAddr, n)]
  BY PoolMoves DEF Pool!Donate
<1>3. ASSUME NEW k \in PoolIds
      PROVE  /\ IsRow(pool[k]) /\ PairView[k] = Up(pool[k], held[k])
             /\ PairView'[k] = Up(pool'[k], held[k])
  BY DEF Shows
<1>4. PairView[i][u] = pool[i][u]
  BY ShownEntries
<1>5. PairView = [k \in PoolIds |-> PairView[k]] /\ PairView' = [k \in PoolIds |-> PairView'[k]]
  BY DEF Shows
<1> DEFINE row == Move(pool[i], u, PairAddr, n)
<1>6. Move(PairView[i], u, PairAddr, n) = Up(row, held[i])
  BY <1>1, <1>3, UpMoves
<1> HIDE DEF row
<1>7. pool'[i] = row /\ \A k \in PoolIds \ {i} : pool'[k] = pool[k]
  BY <1>2 DEF row, Shows
<1>8. PairView'[i] = Up(row, held[i]) /\ \A k \in PoolIds \ {i} : PairView'[k] = PairView[k]
  BY <1>3, <1>7
<1>9. PairView' = [PairView EXCEPT ![i] = Up(row, held[i])]
  BY <1>5, <1>8
<1>10. PairView' = [PairView EXCEPT ![i] = Atomic!Move(PairView[i], u, PairAddr, n)]
  BY <1>6, <1>9, SameAtomic
<1> QED
  BY <1>2, <1>4, <1>10 DEF Atomic!Donate

LEMMA LiftedTransferLp ==
  ASSUME NEW u, NEW to, NEW n, Pool!TransferLp(u, to, n), UNCHANGED PairView
  PROVE  Atomic!TransferLp(u, to, n)
BY SameAtomic, PoolMoves DEF Pool!TransferLp, Atomic!TransferLp

-----------------------------------------------------------------------------
(* Swaps.                                                                  *)

(* Pool's Swap, of any balances before and after it. *)
SwapOf(before, after, u, i, offer, to) ==
  LET j         == Pool!Other(i)
      received  == Move(before[i], u, PairAddr, offer)
      offerPool == Pool!OfferPool(received, offer)
      askPool   == before[j][PairAddr]
      result    == Pool!ComputeSwap(i, offerPool, askPool, offer)
      cut       == Pool!FeeCut(result.commission)
  IN  /\ before[i][u] >= offer
      /\ Pool!ComputeSwapDefined(i, offerPool, askPool, offer)
      /\ Pool!SpreadAccepted(i, offer, result.return, result.spread, None, None)
      /\ askPool >= result.return + cut + cut
      /\ after = [k \in PoolIds |->
                    IF k = i THEN received
                    ELSE Move(Move(Move(before[j], PairAddr, to, result.return),
                                   PairAddr, AuctionAddr, cut),
                              PairAddr, FeeWallet, cut)]

LEMMA PoolSwaps ==
  ASSUME NEW u, NEW i, NEW offer, NEW to,
         Pool!Swap(u, i, offer, None, None, to, None)
  PROVE  SwapOf(pool, pool', u, i, offer, to) /\ UNCHANGED <<lp, supply, now>>
BY AssetsAreIds, PoolMoves DEF Pool!Swap, Pool!PayOut, SwapOf, Pool!OfferPool

(* What the pair pays out for a swap. *)
LEMMA SwapPays ==
  ASSUME NEW before \in PoolBalances, NEW u \in Traders, NEW i \in PoolIds,
         NEW offer \in Nat, before[i][u] >= offer,
         NEW received, received = Move(before[i], u, PairAddr, offer),
         NEW ask, ask = before[Pool!Other(i)][PairAddr],
         Pool!ComputeSwapDefined(i, Pool!OfferPool(received, offer), ask, offer),
         NEW result,
         result = Pool!ComputeSwap(i, Pool!OfferPool(received, offer), ask, offer)
  PROVE  /\ Pool!Other(i) \in PoolIds \ {i}
         /\ result.return \in Nat /\ Pool!FeeCut(result.commission) \in Nat
<1>1. Pool!Other(i) \in PoolIds \ {i}
  BY PoolFacts DEF Pool!Other
<1>2. before[i] \in [PoolAccounts -> Nat] /\ ask \in Nat
  BY <1>1, PoolFacts DEF PoolBalances
<1>3. u \in PoolAccounts /\ PairAddr \in PoolAccounts /\ u # PairAddr
  BY PoolFacts
<1> DEFINE row == before[i]
<1>4. row \in [PoolAccounts -> Nat] /\ offer <= row[u]
  BY <1>2, <1>3
<1> HIDE DEF row
<1>5. Move(row, u, PairAddr, offer)[PairAddr] = row[PairAddr] + offer
  BY ONLY <1>3, <1>4, MoveFacts, offer \in Nat
<1>6. received[PairAddr] = row[PairAddr] + offer
  BY <1>5 DEF row
<1> DEFINE offerPool == Pool!OfferPool(received, offer)
<1>7. offerPool = row[PairAddr]
  BY <1>3, <1>4, <1>6 DEF Pool!OfferPool
<1>8. offerPool \in Nat
  BY <1>3, <1>4, <1>7
<1>9. /\ PairOf!ComputeSwapDefined(i, offerPool, ask, offer)
      /\ result = PairOf!ComputeSwap(i, offerPool, ask, offer)
      /\ i \in PairOf!Assets
  BY SamePairOf, PoolFacts
<1> HIDE DEF offerPool
<1>10. /\ result.return \in Nat /\ PairOf!FeeCut(result.commission) \in Nat
  BY <1>2, <1>8, <1>9, PairOf!SwapKeepsProduct, PairNumbers, PairAccounts, PairInputs
<1> QED  BY <1>1, <1>10, SamePairOf

LEMMA SwapLifts ==
  ASSUME NEW before \in PoolBalances, NEW after, NEW held \in [PoolIds -> Int],
         NEW u \in Traders, NEW i \in PoolIds, NEW offer \in Nat,
         NEW to \in Payees,
         SwapOf(before, after, u, i, offer, to),
         PairView  = [k \in PoolIds |-> Up(before[k], held[k])],
         PairView' = [k \in PoolIds |-> Up(after[k], held[k])],
         UNCHANGED <<lp, supply, now>>
  PROVE  Atomic!Swap(u, i, offer, None, None, to, None)
<1> DEFINE j        == Pool!Other(i)
           received == Move(before[i], u, PairAddr, offer)
           ask      == before[j][PairAddr]
           result   == Pool!ComputeSwap(i, Pool!OfferPool(received, offer), ask, offer)
           cut      == Pool!FeeCut(result.commission)
           return   == result.return
           row      == before[j]
           afterReturn == Move(row, PairAddr, to, return)
           afterBurn   == Move(afterReturn, PairAddr, AuctionAddr, cut)
           paidOut     == Move(afterBurn, PairAddr, FeeWallet, cut)
<1>1. /\ before[i][u] >= offer
      /\ Pool!ComputeSwapDefined(i, Pool!OfferPool(received, offer), ask, offer)
      /\ Pool!SpreadAccepted(i, offer, return, result.spread, None, None)
      /\ ask >= return + cut + cut
      /\ after = [k \in PoolIds |-> IF k = i THEN received ELSE paidOut]
  BY DEF SwapOf
<1>2. j \in PoolIds \ {i} /\ return \in Nat /\ cut \in Nat
  BY <1>1, SwapPays
<1>3. /\ before[i] \in [PoolAccounts -> Nat]
      /\ row \in [PoolAccounts -> Nat] /\ return + cut + cut <= row[PairAddr]
  BY <1>1, <1>2 DEF PoolBalances
<1>4. /\ u \in PoolAccounts \ {AuctionAddr}
      /\ to \in PoolAccounts \ {AuctionAddr}
      /\ PairAddr \in PoolAccounts \ {AuctionAddr}
      /\ FeeWallet \in PoolAccounts \ {AuctionAddr}
      /\ AuctionAddr \in PoolAccounts
  BY PoolFacts
(* The offer comes in, the three payments go out. *)
<1>5. Move(Up(before[i], held[i]), u, PairAddr, offer) = Up(received, held[i])
  <2>1. IsRow(before[i])
    BY <1>3 DEF IsRow
  <2> QED  BY <1>4, <2>1, UpMoves
<1>6. received[PairAddr] = Up(received, held[i])[PairAddr]
  <2>1. IsRow(before[i])
    BY <1>3 DEF IsRow
  <2>2. IsRow(received)
    BY <1>4, <2>1, UpMoves
  <2> QED  BY <1>4, <2>2, UpFacts
<1>7. Up(row, held[j])[PairAddr] = ask /\ Up(before[i], held[i])[u] = before[i][u]
  <2>1. IsRow(before[i]) /\ IsRow(row)
    BY <1>3 DEF IsRow
  <2>2. /\ Up(row, held[j])[PairAddr] = row[PairAddr]
        /\ Up(before[i], held[i])[u] = before[i][u]
    <3> HIDE DEF row
    <3> QED  BY <1>4, <2>1, UpFacts
  <2> QED  BY <2>2
<1>8. Atomic!PayOut(Up(row, held[j]), to, return, cut, cut) = Up(paidOut, held[j])
  <2> HIDE DEF row, return, cut
  <2>1. /\ IsRow(row)
        /\ return <= row[PairAddr]
        /\ cut <= row[PairAddr] /\ cut <= row[PairAddr] - return
    BY <1>2, <1>3, <1>4 DEF IsRow
  <2>2. Move(Up(row, held[j]), PairAddr, to, return) = Up(afterReturn, held[j])
    BY <1>4, <2>1, UpMoves
  <2>3. /\ afterReturn \in [PoolAccounts -> Nat]
        /\ to # PairAddr => afterReturn[PairAddr] = row[PairAddr] - return
        /\ to = PairAddr => afterReturn[PairAddr] = row[PairAddr]
    <3>1. /\ row \in [PoolAccounts -> Nat] /\ return \in Nat
          /\ PairAddr \in PoolAccounts /\ to \in PoolAccounts
      BY <1>2, <1>3, <1>4
    <3> QED  BY ONLY <2>1, <3>1, MoveFacts
  <2> HIDE DEF afterReturn
  <2>4. cut <= afterReturn[PairAddr]
    BY <2>1, <2>3
  <2>5. held[j] \in Int
    BY <1>2
  <2>6. Move(Up(afterReturn, held[j]), PairAddr, AuctionAddr, cut) = Up(afterBurn, held[j])
    BY <1>2, <2>3, <2>4, <2>5, UpPays
  <2>7. afterBurn \in [PoolAccounts -> Nat]
    BY <1>2, <1>4, <2>3, <2>4, MoveFacts
  <2> HIDE DEF afterBurn
  <2>8. IsRow(afterBurn)
    BY <2>7 DEF IsRow
  <2>9. Move(Up(afterBurn, held[j]), PairAddr, FeeWallet, cut) = Up(paidOut, held[j])
    BY <1>4, <2>8, UpMoves
  <2> HIDE DEF paidOut
  <2> QED  BY <2>2, <2>6, <2>9, SameAtomic DEF Atomic!PayOut
(* The view moves as Atomic says. *)
<1>9. /\ PairView[i] = Up(before[i], held[i]) /\ PairView[j] = Up(row, held[j])
  BY <1>2
<1> HIDE DEF paidOut
<1>10. \A k \in PoolIds : Up(after[k], held[k]) =
         IF k = i THEN Up(received, held[i]) ELSE Up(paidOut, held[j])
  <2>1. \A k \in PoolIds : k = i \/ k = j
    BY <1>2, PoolFacts
  <2> QED  BY <1>1, <1>2, <2>1
<1>11. PairView' = [k \in PoolIds |-> IF k = i THEN Up(received, held[i])
                                               ELSE Up(paidOut, held[j])]
  BY <1>10
<1> DEFINE got == Atomic!Move(PairView[i], u, PairAddr, offer)
<1>12. got = Up(received, held[i])
  BY <1>5, <1>9, SameAtomic
<1>13. /\ PairView[i][u] >= offer /\ PairView[j][PairAddr] = ask
       /\ Atomic!OfferPool(got, offer) = Pool!OfferPool(received, offer)
  BY <1>1, <1>6, <1>7, <1>9, <1>12 DEF Atomic!OfferPool, Pool!OfferPool
<1>14. PairView' = [k \in Atomic!Assets |->
          IF k = i THEN got ELSE Atomic!PayOut(PairView[j], to, return, cut, cut)]
  BY <1>8, <1>9, <1>11, <1>12, AssetsAreIds
<1> HIDE DEF got
<1>15. /\ Atomic!Other(i) = j /\ Atomic!DeadlineMet(now, None)
       /\ Atomic!ComputeSwap(i, Atomic!OfferPool(got, offer), ask, offer) = result
       /\ Atomic!ComputeSwapDefined(i, Atomic!OfferPool(got, offer), ask, offer)
       /\ Atomic!SpreadAccepted(i, offer, return, result.spread, None, None)
       /\ Atomic!FeeCut(result.commission) = cut
  BY <1>1, <1>13, SameAtomic DEF Atomic!DeadlineMet
<1> HIDE DEF j, received, ask, result, cut, return
<1> QED
  BY <1>1, <1>13, <1>14, <1>15 DEF Atomic!Swap, got, return

-----------------------------------------------------------------------------
(* What the messages to the auction contract do to each account.           *)

LEMMA MoveNone ==
  ASSUME NEW S, NEW balance \in [S -> Nat], NEW from \in S, NEW to \in S, from # to
  PROVE  Move(balance, from, to, 0) = balance
<1>1. 0 \in Nat /\ 0 <= balance[from] /\ balance[from] \in Nat /\ balance[to] \in Nat
  OBVIOUS
<1> DEFINE moved == Move(balance, from, to, 0)
<1>2. /\ moved \in [S -> Nat]
      /\ moved[from] = balance[from] - 0 /\ moved[to] = balance[to] + 0
      /\ \A a \in S \ {from, to} : moved[a] = balance[a]
  BY <1>1, MoveFacts
<1> HIDE DEF moved
<1>3. \A a \in S : moved[a] = balance[a]
  BY <1>1, <1>2
<1>4. moved = balance
  BY <1>2, <1>3
<1> QED  BY <1>4 DEF moved

LEMMA NativePassed ==
  ASSUME AuctionSound, NEW u \in Accounts \ {AuctionAddr}, NEW token \in Tokens,
         NEW n \in Nat, NEW funds \in [Denoms -> Nat],
         SendNative(u, token, n, funds)
  PROVE  /\ token \in Denoms /\ n > 0 /\ funds[token] = n
         /\ bank'[token][u] = bank[token][u] - n
         /\ \A a \in Accounts \ {u} : bank'[token][a] = bank[token][a]
         /\ \A t \in Tokens \ {token} :
              (t \in Denoms => funds[t] = 0) => bank'[t] = bank[t]
         /\ deposits' = [deposits EXCEPT ![token] = Auctioned(token, n)]
<1> DEFINE before == Attached(u, funds)
           row    == bank[token]
           paid   == Move(row, u, AuctionAddr, n)
<1>1. /\ token \in Denoms /\ n > 0 /\ funds[token] = n
      /\ n <= bank[token][u]
      /\ bank' = [before EXCEPT ![token][AuctionAddr] = @ - n]
      /\ deposits' = [deposits EXCEPT ![token] = Auctioned(token, n)]
  BY DEF SendNative, NativeAccepted, FundsMatch, CanBurn, Burn
<1>2. /\ u \in Accounts /\ AuctionAddr \in Accounts /\ u # AuctionAddr
      /\ \A t \in Tokens : bank[t] \in [Accounts -> Nat]
  BY TokenFacts DEF AuctionSound, TypeOK
<1>3. /\ before = [t \in Tokens |-> before[t]]
      /\ before[token] = paid
  BY <1>1 DEF Attached
<1>4. row \in [Accounts -> Nat] /\ n <= row[u]
  BY <1>1, <1>2
<1> HIDE DEF before, row
<1>5. /\ paid \in [Accounts -> Nat]
      /\ paid[u] = row[u] - n /\ paid[AuctionAddr] = row[AuctionAddr] + n
      /\ \A a \in Accounts \ {u, AuctionAddr} : paid[a] = row[a]
  BY ONLY <1>2, <1>4, MoveFacts, n \in Nat
<1> HIDE DEF paid
<1>6. bank'[token] = [paid EXCEPT ![AuctionAddr] = paid[AuctionAddr] - n]
  BY <1>1, <1>3
<1>7. row[AuctionAddr] \in Nat
  BY <1>2, <1>4
<1>8. /\ bank'[token][u] = row[u] - n
      /\ \A a \in Accounts \ {u} : bank'[token][a] = row[a]
  BY <1>2, <1>5, <1>6, <1>7
<1>9. ASSUME NEW t \in Tokens \ {token}, t \in Denoms => funds[t] = 0
      PROVE  bank'[t] = bank[t]
  <2>1. bank'[t] = before[t]
    BY <1>1, <1>3
  <2>2. CASE t \in Denoms
    <3>1. before[t] = Move(bank[t], u, AuctionAddr, 0)
      BY <1>9, <2>2 DEF before, Attached
    <3>2. bank[t] \in [Accounts -> Nat]
      BY <1>2
    <3>3. Move(bank[t], u, AuctionAddr, 0) = bank[t]
      BY <1>2, <3>2, MoveNone
    <3> QED  BY <2>1, <3>1, <3>3
  <2>3. CASE t \notin Denoms
    BY <2>1, <2>3 DEF before, Attached
  <2> QED  BY <2>2, <2>3
<1> QED  BY <1>1, <1>8, <1>9 DEF row

LEMMA Cw20Passed ==
  ASSUME AuctionSound, NEW u \in Accounts \ (Adapters \union {AuctionAddr}),
         NEW token \in Cw20s, NEW n \in Nat, ReceiveCw20(u, token, n)
  PROVE  /\ n > 0 /\ n <= bank[token][u]
         /\ bank'[token][u] = bank[token][u] - n
         /\ \A a \in Accounts \ (Adapters \union {u}) : bank'[token][a] = bank[token][a]
         /\ \A t \in Tokens \ {token} : bank'[t] = bank[t]
         /\ \E d \in Adapters \X {token} :
              deposits' = [deposits EXCEPT ![d] = Auctioned(d, n)]
<1> DEFINE row    == bank[token]
           sent   == Move(row, u, AuctionAddr, n)
           before == [bank EXCEPT ![token] = sent]
           d      == Converted(adapterContract, token)
           passed == Move(sent, AuctionAddr, adapterContract, n)
           minted == [bank[d] EXCEPT ![AuctionAddr] = bank[d][AuctionAddr] + n]
           after  == [[bank EXCEPT ![token] = passed] EXCEPT ![d] = minted]
<1>1. /\ token \in Tokens /\ d \in Tokens /\ d # token /\ d \in Adapters \X {token}
      /\ u \in Accounts /\ u # AuctionAddr /\ AuctionAddr \in Accounts
      /\ adapterContract \in Adapters
      /\ adapterContract \in Accounts /\ adapterContract # AuctionAddr
      /\ u # adapterContract /\ AuctionAddr \notin Adapters
  BY TokenFacts, AuctionTokensAssumption DEF AuctionSound, TypeOK, Converted, Denoms
<1>2. \A t \in Tokens : bank[t] \in [Accounts -> Nat]
  BY DEF AuctionSound, TypeOK
<1>3. bank \in [Tokens -> [Accounts -> Nat]]
  BY DEF AuctionSound, TypeOK
<1>4. before[token] = sent /\ before[d] = bank[d]
  BY <1>1, <1>3
<1>5. /\ Received(u, token, n) = before /\ n <= row[u] /\ n > 0
      /\ bank' = [Adapted(before, token, n) EXCEPT ![d][AuctionAddr] = @ - n]
      /\ deposits' = [deposits EXCEPT ![d] = Auctioned(d, n)]
  BY DEF ReceiveCw20, Cw20Accepted, CanBurn, Burn, Received
<1>6. Adapted(before, token, n) = after
  <2>1. Adapted(before, token, n) =
          [[before EXCEPT ![token] = passed] EXCEPT ![d] = minted]
    BY <1>1, <1>3, <1>4 DEF Adapted
  <2>2. [before EXCEPT ![token] = passed] = [bank EXCEPT ![token] = passed]
    BY <1>3
  <2> QED  BY <2>1, <2>2
<1>7. row \in [Accounts -> Nat]
  BY <1>1, <1>2
<1> HIDE DEF row, before
<1>8. /\ sent \in [Accounts -> Nat]
      /\ sent[u] = row[u] - n /\ sent[AuctionAddr] = row[AuctionAddr] + n
      /\ \A a \in Accounts \ {u, AuctionAddr} : sent[a] = row[a]
  BY ONLY <1>1, <1>5, <1>7, MoveFacts, n \in Nat
<1> HIDE DEF sent, d
<1>9. n <= sent[AuctionAddr] /\ row[AuctionAddr] \in Nat
  BY <1>1, <1>7, <1>8
<1>10. /\ passed \in [Accounts -> Nat]
       /\ passed[AuctionAddr] = sent[AuctionAddr] - n
       /\ \A a \in Accounts \ {AuctionAddr, adapterContract} : passed[a] = sent[a]
  BY ONLY <1>1, <1>8, <1>9, MoveFacts, n \in Nat
<1> HIDE DEF passed
<1>11. bank'[token] = passed /\ \A t \in Tokens \ {token, d} : bank'[t] = bank[t]
  BY <1>1, <1>3, <1>5, <1>6
<1>12. bank'[d] = bank[d]
  <2>1. bank'[d] = [minted EXCEPT ![AuctionAddr] = minted[AuctionAddr] - n]
    BY <1>1, <1>3, <1>5, <1>6
  <2>2. bank[d] \in [Accounts -> Nat] /\ bank[d][AuctionAddr] \in Nat
    BY <1>1, <1>2
  <2>3. minted[AuctionAddr] = bank[d][AuctionAddr] + n
    BY <1>1, <2>2
  <2>4. minted[AuctionAddr] - n = bank[d][AuctionAddr]
    BY <2>2, <2>3
  <2> QED  BY <1>1, <2>1, <2>2, <2>4
<1>13. bank'[token][u] = row[u] - n
  BY <1>1, <1>8, <1>10, <1>11
<1>14. ASSUME NEW a \in Accounts \ (Adapters \union {u})
       PROVE  bank'[token][a] = row[a]
  <2>1. CASE a = AuctionAddr
    BY <1>8, <1>9, <1>10, <1>11, <2>1
  <2>2. CASE a # AuctionAddr
    BY <1>1, <1>8, <1>10, <1>11, <2>2
  <2> QED  BY <2>1, <2>2
<1> QED
  BY <1>1, <1>5, <1>11, <1>12, <1>13, <1>14 DEF row

-----------------------------------------------------------------------------
(* The inductive invariant of the composition: the ledger is the pair's    *)
(* but for a fee that has not been paid, users of the auction contract     *)
(* have none of the pair's assets, and a fee that is to be paid is that of *)
(* a swap, from the balances that an error would restore.                  *)

PairTokens == {AssetToken[i] : i \in PoolIds} \union CoinsOf(0) \union CoinsOf(1)

Ledgered ==
  IF hook = None THEN Rows(bank) = pool
                 ELSE Rows(bank) = Unpaid(pool, hook.asset, hook.cut)
UsersOwnNone == \A t \in PairTokens, u \in Users : bank[t][u] = 0
Begun ==
  hook # None =>
    /\ hook \in Hooks /\ hook.cut > 0
    /\ pool[hook.asset][AuctionAddr] = hook.before[hook.asset][AuctionAddr] + hook.cut
    /\ \E u \in Traders, i \in PoolIds, offer \in TradeAmounts,
          to \in Payees :
         SwapOf(hook.before, pool, u, i, offer, to)
FeesSound ==
  AuctionSound /\ PairOf!Healthy /\ Ledgered /\ UsersOwnNone /\ Begun

LEMMA PairTokenFacts ==
  /\ PairTokens \subseteq Tokens
  /\ \A i \in PoolIds : AssetToken[i] \in PairTokens /\ CoinsOf(i) \subseteq PairTokens
  /\ \A a \in Adapters, t \in Cw20s : <<a, t>> \in PairTokens => t \in PairTokens
<1>1. PoolIds = {0, 1}
  BY PoolFacts
<1>2. PairTokens \subseteq Tokens
  BY <1>1, FeeTokenFacts, TokenFacts DEF PairTokens
<1>3. \A i \in PoolIds : AssetToken[i] \in PairTokens /\ CoinsOf(i) \subseteq PairTokens
  BY <1>1 DEF PairTokens
<1>4. ASSUME NEW a \in Adapters, NEW t \in Cw20s, <<a, t>> \in PairTokens
      PROVE  t \in PairTokens
  <2>1. <<a, t>> \in Adapters \X Cw20s /\ <<a, t>> \notin Coins /\ <<a, t>> \notin Cw20s
    BY AuctionTokensAssumption DEF Denoms
  <2>2. \A i \in PoolIds : AssetToken[i] # <<a, t>>
    BY <2>1, FeeTokensAssumption
  <2>3. PICK i \in PoolIds : <<a, t>> \in CoinsOf(i)
    BY <1>1, <1>4, <2>2 DEF PairTokens
  <2>4. <<a, t>> \in Adapters \X {AssetToken[i]}
    BY <2>1, <2>3, FeeTokensAssumption DEF CoinsOf
  <2>5. t = AssetToken[i]
    BY <2>4
  <2> QED  BY <1>3, <2>5
<1> QED  BY <1>2, <1>3, <1>4

(* A transaction of the auction contract's own users moves nothing of      *)
(* which they have nothing.                                                *)
LEMMA UsersMoveNone ==
  ASSUME AuctionSound, UsersOwnNone, [Next]_vars
  PROVE  \A t \in PairTokens : /\ bank'[t] = bank[t]
                               /\ t \in Denoms => deposits'[t] = deposits[t]
<1>1. /\ \A u \in Users : u \in Accounts \ (Adapters \union {AuctionAddr})
      /\ \A u \in Users : u \in Accounts \ {AuctionAddr}
      /\ PairTokens \subseteq Tokens
      /\ deposits \in [Denoms -> [Subaccounts -> Nat]]
      /\ bank \in [Tokens -> [Accounts -> Nat]]
  BY TokenFacts, AuctionAccountsAssumption, PairTokenFacts DEF AuctionSound, TypeOK
<1>2. ASSUME NEW u \in Users, NEW token \in Tokens, NEW n \in Amounts,
             NEW funds \in Funds, SendNative(u, token, n, funds), NEW t \in PairTokens
      PROVE  bank'[t] = bank[t] /\ (t \in Denoms => deposits'[t] = deposits[t])
  <2>1. n \in Nat /\ funds \in [Denoms -> Nat]
    BY AuctionInputsAssumption
  <2>2. /\ token \in Denoms /\ n > 0 /\ funds[token] = n
        /\ \A p \in Tokens \ {token} : (p \in Denoms => funds[p] = 0) => bank'[p] = bank[p]
        /\ deposits' = [deposits EXCEPT ![token] = Auctioned(token, n)]
    BY <1>1, <1>2, <2>1, NativePassed
  <2>3. t \in Denoms => funds[t] <= bank[t][u]
    BY <1>2 DEF SendNative, NativeAccepted
  <2>4. t \in Denoms => funds[t] = 0
    BY <2>1, <2>3 DEF UsersOwnNone
  <2>5. t # token
    BY <2>1, <2>2, <2>4
  <2> QED  BY <1>1, <2>2, <2>4, <2>5
<1>3. ASSUME NEW u \in Users, NEW token \in Cw20s, NEW n \in Amounts,
             ReceiveCw20(u, token, n), NEW t \in PairTokens
      PROVE  bank'[t] = bank[t] /\ (t \in Denoms => deposits'[t] = deposits[t])
  <2>1. n \in Nat
    BY AuctionInputsAssumption
  <2>2. /\ n > 0 /\ n <= bank[token][u]
        /\ \A p \in Tokens \ {token} : bank'[p] = bank[p]
        /\ \E d \in Adapters \X {token} :
             deposits' = [deposits EXCEPT ![d] = Auctioned(d, n)]
    BY <1>1, <1>3, <2>1, Cw20Passed
  <2>3. token \notin PairTokens
    BY <2>1, <2>2 DEF UsersOwnNone
  <2>4. PICK d \in Adapters \X {token} :
          deposits' = [deposits EXCEPT ![d] = Auctioned(d, n)]
    BY <2>2
  <2>5. t # d
    BY <2>3, PairTokenFacts
  <2> QED  BY <1>1, <2>2, <2>3, <2>4, <2>5
<1>4. ASSUME NEW u \in Users, NEW token \in Tokens, NEW n \in Amounts,
             Transfer(u, token, n), NEW t \in PairTokens
      PROVE  bank'[t] = bank[t] /\ (t \in Denoms => deposits'[t] = deposits[t])
  <2>1. n \in Nat /\ n > 0 /\ n <= bank[token][u]
    BY <1>4, AuctionInputsAssumption DEF Transfer
  <2>2. t # token
    BY <2>1 DEF UsersOwnNone
  <2> QED  BY <1>1, <1>4, <2>2 DEF Transfer
<1>5. CASE UNCHANGED <<bank, deposits>>
  BY <1>5
<1>6. CASE Next
  BY <1>2, <1>3, <1>4, <1>5, <1>6 DEF Next, UpdateConfig
<1>7. CASE UNCHANGED vars
  BY <1>5, <1>7 DEF vars
<1> QED  BY <1>6, <1>7

(* What the pair forwards leaves it, and is at an auction of its asset.    *)
LEMMA FeeBurnt ==
  ASSUME AuctionSound, hook \in Hooks, hook.cut > 0, Forward
  PROVE  LET i == hook.asset
             n == hook.cut
         IN  /\ AuctionSound'
             /\ n <= bank[AssetToken[i]][PairAddr]
             /\ bank'[AssetToken[i]][PairAddr] = bank[AssetToken[i]][PairAddr] - n
             /\ \A a \in PoolAccounts \ {PairAddr} :
                  bank'[AssetToken[i]][a] = bank[AssetToken[i]][a]
             /\ \A k \in PoolIds \ {i} : bank'[AssetToken[k]] = bank[AssetToken[k]]
             /\ \A t \in PairTokens, u \in Users : bank'[t][u] = bank[t][u]
             /\ \E d \in CoinsOf(i) : deposits' = [deposits EXCEPT ![d] = Auctioned(d, n)]
<1> DEFINE i     == hook.asset
           n     == hook.cut
           token == AssetToken[i]
<1>1. /\ i \in PoolIds /\ n \in Nat /\ n > 0
      /\ token \in Tokens /\ PairTokens \subseteq Tokens
      /\ \A k \in PoolIds \ {i} : AssetToken[k] \in Tokens \ {token}
  BY FeeTokenFacts, PairTokenFacts DEF Hooks
<1>2. /\ PairAddr \in Accounts \ {AuctionAddr}
      /\ PairAddr \in Accounts \ (Adapters \union {AuctionAddr})
      /\ PoolAccounts \subseteq Accounts /\ Users \subseteq Accounts
      /\ PoolAccounts \intersect Adapters = {} /\ Users \intersect Adapters = {}
      /\ PairAddr \notin Users
  BY PoolFacts, TokenFacts, FeeAccountsAssumption, AuctionAccountsAssumption
     DEF PoolAccounts
<1>3. /\ \/ token \in Coins /\ SendNative(PairAddr, token, n, OneCoin(token, n))
         \/ token \in Cw20s /\ ReceiveCw20(PairAddr, token, n)
  BY DEF Forward
<1> HIDE DEF i, n, token
<1>4. CASE token \in Coins /\ SendNative(PairAddr, token, n, OneCoin(token, n))
  <2>1. /\ OneCoin(token, n) \in [Denoms -> Nat]
        /\ \A t \in Denoms \ {token} : OneCoin(token, n)[t] = 0
        /\ OneCoin(token, n)[token] = n /\ token \in Denoms
    BY <1>1, <1>4, TokenFacts DEF OneCoin
  <2>2. AuctionSound'
    BY <1>1, <1>2, <1>4, <2>1, SendNativeSound
  <2>3. /\ bank'[token][PairAddr] = bank[token][PairAddr] - n
        /\ \A a \in Accounts \ {PairAddr} : bank'[token][a] = bank[token][a]
        /\ \A t \in Tokens \ {token} :
             (t \in Denoms => OneCoin(token, n)[t] = 0) => bank'[t] = bank[t]
        /\ deposits' = [deposits EXCEPT ![token] = Auctioned(token, n)]
    BY <1>1, <1>2, <1>4, <2>1, NativePassed
  <2>4. \A t \in Tokens \ {token} : bank'[t] = bank[t]
    BY <2>1, <2>3
  <2>5. n <= bank[token][PairAddr]
    BY <1>4, <2>1 DEF SendNative, NativeAccepted
  <2>6. token \in CoinsOf(i)
    BY <1>4 DEF CoinsOf, token
  <2>7. /\ \A a \in PoolAccounts \ {PairAddr} : bank'[token][a] = bank[token][a]
        /\ \A k \in PoolIds \ {i} : bank'[AssetToken[k]] = bank[AssetToken[k]]
        /\ \A t \in PairTokens, u \in Users : bank'[t][u] = bank[t][u]
    BY <1>1, <1>2, <2>3, <2>4
  <2> QED  BY <2>2, <2>3, <2>5, <2>6, <2>7 DEF i, n, token
<1>5. CASE token \in Cw20s /\ ReceiveCw20(PairAddr, token, n)
  <2>1. AuctionSound'
    BY <1>1, <1>2, <1>5, ReceiveCw20Sound
  <2>2. /\ n <= bank[token][PairAddr]
        /\ bank'[token][PairAddr] = bank[token][PairAddr] - n
        /\ \A a \in Accounts \ (Adapters \union {PairAddr}) :
             bank'[token][a] = bank[token][a]
        /\ \A t \in Tokens \ {token} : bank'[t] = bank[t]
        /\ \E d \in Adapters \X {token} :
             deposits' = [deposits EXCEPT ![d] = Auctioned(d, n)]
    BY <1>1, <1>2, <1>5, Cw20Passed
  <2>3. CoinsOf(i) = Adapters \X {token}
    BY <1>5, TokenFacts, AuctionTokensAssumption DEF CoinsOf, token
  <2>4. /\ \A a \in PoolAccounts \ {PairAddr} : bank'[token][a] = bank[token][a]
        /\ \A k \in PoolIds \ {i} : bank'[AssetToken[k]] = bank[AssetToken[k]]
        /\ \A t \in PairTokens, u \in Users : bank'[t][u] = bank[t][u]
    BY <1>1, <1>2, <2>2
  <2> QED  BY <2>1, <2>2, <2>3, <2>4 DEF i, n, token
<1> QED  BY <1>3, <1>4, <1>5

(* Of a fee that has not been paid, the pair has the coins. *)
LEMMA FeeUnpaid ==
  ASSUME FeesSound, hook # None
  PROVE  LET i == hook.asset
             n == hook.cut
         IN  /\ hook \in Hooks /\ i \in PoolIds /\ n \in Nat /\ n > 0
             /\ n <= pool[i][AuctionAddr]
             /\ \A a \in PoolAccounts : pool[i][a] \in Nat
             /\ bank[AssetToken[i]][PairAddr] = pool[i][PairAddr] + n
             /\ bank[AssetToken[i]][AuctionAddr] = pool[i][AuctionAddr] - n
             /\ \A a \in PoolAccounts \ {PairAddr, AuctionAddr} :
                  bank[AssetToken[i]][a] = pool[i][a]
             /\ \A k \in PoolIds \ {i}, a \in PoolAccounts :
                  bank[AssetToken[k]][a] = pool[k][a]
<1> DEFINE i == hook.asset
           n == hook.cut
<1>1. /\ hook \in Hooks /\ n > 0 /\ pool \in PoolBalances
      /\ pool[i][AuctionAddr] = hook.before[i][AuctionAddr] + n
      /\ Rows(bank) = Unpaid(pool, i, n)
      /\ bank \in [Tokens -> [Accounts -> Nat]]
  BY HealthyFacts DEF FeesSound, Begun, Ledgered, AuctionSound, TypeOK
<1>2. i \in PoolIds /\ n \in Nat /\ hook.before \in PoolBalances
  BY <1>1 DEF Hooks
<1>3. hook.before[i][AuctionAddr] \in Nat /\ \A a \in PoolAccounts : pool[i][a] \in Nat
  BY <1>1, <1>2, PoolFacts DEF PoolBalances
<1>4. n <= pool[i][AuctionAddr]
  BY <1>1, <1>2, <1>3
<1>5. \A k \in PoolIds, a \in PoolAccounts :
        Unpaid(pool, i, n)[k][a] = bank[AssetToken[k]][a]
  BY <1>1, RowsFacts
<1> HIDE DEF i, n
<1>6. /\ Unpaid(pool, i, n)[i][PairAddr] = pool[i][PairAddr] + n
      /\ Unpaid(pool, i, n)[i][AuctionAddr] = pool[i][AuctionAddr] - n
      /\ \A a \in PoolAccounts \ {PairAddr, AuctionAddr} :
           Unpaid(pool, i, n)[i][a] = pool[i][a]
      /\ \A k \in PoolIds \ {i} : Unpaid(pool, i, n)[k] = pool[k]
  BY <1>1, <1>2, <1>4, UnpaidFacts
<1> QED  BY <1>1, <1>2, <1>3, <1>4, <1>5, <1>6, PoolFacts DEF i, n

(* An adapter that knows the token is all that the message needs. *)
LEMMA FeeTaken == FeesSound => FeeIsTaken
<1> SUFFICES ASSUME FeesSound, hook # None, Convertible(AssetToken[hook.asset])
             PROVE  FeeAccepted
  BY DEF FeeIsTaken
<1> DEFINE i     == hook.asset
           n     == hook.cut
           token == AssetToken[i]
<1>1. /\ i \in PoolIds /\ n \in Nat /\ n > 0 /\ n <= pool[i][AuctionAddr]
      /\ pool[i][PairAddr] \in Nat
      /\ bank[token][PairAddr] = pool[i][PairAddr] + n
  BY FeeUnpaid, PoolFacts
<1>2. /\ token \in Tokens /\ token \in Coins \union Cw20s
      /\ PairAddr \in Accounts /\ AuctionAddr \in Accounts /\ PairAddr # AuctionAddr
      /\ \A t \in Tokens : bank[t] \in [Accounts -> Nat]
      /\ adapterContract \in Adapters
  BY <1>1, PoolFacts, FeeTokenFacts, FeeTokensAssumption, TokenFacts
     DEF FeesSound, AuctionSound, TypeOK
<1>3. n <= bank[token][PairAddr]
  BY <1>1
<1> HIDE DEF i, n, token
<1> DEFINE row == bank[token]
           got == Move(row, PairAddr, AuctionAddr, n)
<1>4. row \in [Accounts -> Nat] /\ n <= row[PairAddr]
  BY <1>2, <1>3
<1> HIDE DEF row
<1>5. got \in [Accounts -> Nat] /\ got[AuctionAddr] = row[AuctionAddr] + n
  BY <1>1, <1>2, <1>4, MoveFacts
<1>6. row[AuctionAddr] \in Nat /\ n <= got[AuctionAddr]
  BY <1>1, <1>2, <1>4, <1>5
<1> HIDE DEF got
<1>7. CASE token \in Coins
  <2>1. token \in Denoms /\ OneCoin(token, n)[token] = n
    BY <1>7, TokenFacts DEF OneCoin
  <2>2. \A d \in Denoms : bank[d][PairAddr] >= OneCoin(token, n)[d]
    <3>1. ASSUME NEW d \in Denoms PROVE bank[d][PairAddr] >= OneCoin(token, n)[d]
      <4>1. bank[d][PairAddr] \in Nat
        BY <1>2, TokenFacts
      <4> QED  BY <1>1, <1>3, <4>1 DEF OneCoin
    <3> QED  BY <3>1
  <2>3. Attached(PairAddr, OneCoin(token, n))[token] = got
    BY <1>2, <2>1 DEF Attached, got, row
  <2>4. CanBurn(Attached(PairAddr, OneCoin(token, n)), token, n)
    BY <1>1, <1>6, <2>3 DEF CanBurn
  <2>5. NativeAccepted(PairAddr, token, n, OneCoin(token, n))
    BY <1>1, <2>1, <2>2, <2>4 DEF NativeAccepted, FundsMatch
  <2> QED  BY <1>7, <2>5 DEF FeeAccepted, i, n, token
<1>8. CASE token \notin Coins
  <2>1. token \in Cw20s /\ <<adapterContract, token>> \in Registered
    BY <1>2, <1>8 DEF Convertible, i, token
  <2> DEFINE d     == Converted(adapterContract, token)
             there == Received(PairAddr, token, n)
  <2>2. d \in Tokens /\ d # token
    BY <1>2, <2>1, AuctionTokensAssumption DEF Converted, Denoms, Tokens
  <2>3. there = [bank EXCEPT ![token] = got]
    BY DEF Received, got, row
  <2> HIDE DEF there
  <2>4. bank \in [Tokens -> [Accounts -> Nat]]
    BY DEF FeesSound, AuctionSound, TypeOK
  <2>5. there[token] = got /\ there[d] = bank[d] /\ DOMAIN there = Tokens
    BY <1>2, <2>2, <2>3, <2>4
  <2>6. Adapted(there, token, n)[d] = [bank[d] EXCEPT ![AuctionAddr] = bank[d][AuctionAddr] + n]
    BY <1>2, <2>2, <2>5 DEF Adapted
  <2>7. bank[d] \in [Accounts -> Nat] /\ bank[d][AuctionAddr] \in Nat
    BY <1>2, <2>2
  <2>8. Adapted(there, token, n)[d][AuctionAddr] = bank[d][AuctionAddr] + n
    BY <1>2, <2>6, <2>7
  <2>9. CanBurn(Adapted(there, token, n), d, n)
    BY <1>1, <2>7, <2>8 DEF CanBurn
  <2>10. Cw20Accepted(PairAddr, token, n)
    BY <1>3, <1>6, <2>1, <2>5, <2>9 DEF Cw20Accepted, there
  <2> QED  BY <2>1, <2>10 DEF FeeAccepted, i, n, token
<1> QED  BY <1>7, <1>8

(* What the auction contract takes: the pair's balances are then those     *)
(* that its handler has settled, but for what has gone to an auction.      *)
LEMMA ForwardSound ==
  ASSUME FeesSound, Forward
  PROVE  /\ FeesSound' /\ hook' = None
         /\ \A k \in PoolIds : Up(pool'[k], AtAuctions(k)') = Up(pool[k], AtAuctions(k))
<1>0. PICK i \in PoolIds, n \in Nat : i = hook.asset /\ n = hook.cut
  <2>1. hook # None
    BY DEF Forward
  <2> QED  BY <2>1, FeeUnpaid
<1> DEFINE token == AssetToken[i]
<1>1. /\ hook # None /\ hook' = None /\ pool' = Rows(bank')
      /\ UNCHANGED <<lp, supply, now>>
  BY DEF Forward
<1>2. /\ hook \in Hooks /\ i \in PoolIds /\ n \in Nat /\ n > 0
      /\ \A a \in PoolAccounts : pool[i][a] \in Nat
      /\ bank[token][PairAddr] = pool[i][PairAddr] + n
      /\ bank[token][AuctionAddr] = pool[i][AuctionAddr] - n
      /\ \A a \in PoolAccounts \ {PairAddr, AuctionAddr} : bank[token][a] = pool[i][a]
      /\ \A k \in PoolIds \ {i}, a \in PoolAccounts : bank[AssetToken[k]][a] = pool[k][a]
  BY <1>0, <1>1, FeeUnpaid
<1>3. AuctionSound
  BY DEF FeesSound
<1>4. /\ AuctionSound'
      /\ bank'[token][PairAddr] = bank[token][PairAddr] - n
      /\ \A a \in PoolAccounts \ {PairAddr} : bank'[token][a] = bank[token][a]
      /\ \A k \in PoolIds \ {i} : bank'[AssetToken[k]] = bank[AssetToken[k]]
      /\ \A t \in PairTokens, u \in Users : bank'[t][u] = bank[t][u]
      /\ \E d \in CoinsOf(i) : deposits' = [deposits EXCEPT ![d] = Auctioned(d, n)]
  BY <1>0, <1>2, <1>3, FeeBurnt
<1>5. /\ pool' \in PoolBalances
      /\ \A k \in PoolIds, a \in PoolAccounts : pool'[k][a] = bank'[AssetToken[k]][a]
  BY <1>1, <1>4, RowsFacts DEF AuctionSound, TypeOK
<1>6. /\ pool \in PoolBalances
      /\ PairOf!Healthy'
  BY <1>1, <1>5, HealthyFacts
     DEF FeesSound, PairOf!Healthy, PairOf!TypeOK, PairOf!MinimumLocked,
         PairOf!LpSupplyFits, PairOf!FitsUint128, PoolBalances
<1>7. Ledgered' /\ Begun' /\ UsersOwnNone'
  BY <1>1, <1>4 DEF FeesSound, Ledgered, Begun, UsersOwnNone
<1>8. FeesSound'
  BY <1>4, <1>6, <1>7 DEF FeesSound
<1>9. /\ pool'[i][AuctionAddr] = pool[i][AuctionAddr] - n
      /\ \A a \in PoolAccounts \ {AuctionAddr} : pool'[i][a] = pool[i][a]
      /\ \A k \in PoolIds \ {i}, a \in PoolAccounts : pool'[k][a] = pool[k][a]
  BY <1>2, <1>4, <1>5, PoolFacts
<1>10. PICK d \in CoinsOf(i) : deposits' = [deposits EXCEPT ![d] = Auctioned(d, n)]
  BY <1>4
<1>11. AtAuctions(i)' = AtAuctions(i) + n
  BY <1>2, <1>3, <1>10, AtAuctionsGrow
<1>12. ASSUME NEW k \in PoolIds \ {i} PROVE AtAuctions(k)' = AtAuctions(k)
  <2>1. d \in Denoms \ CoinsOf(k)
    BY <1>2, CoinsOfFacts
  <2> QED  BY <1>3, <1>10, <2>1, AtAuctionsKept
<1>13. ASSUME NEW k \in PoolIds
       PROVE  Up(pool'[k], AtAuctions(k)') = Up(pool[k], AtAuctions(k))
  <2>1. IsRow(pool[k]) /\ IsRow(pool'[k])
    BY <1>5, <1>6 DEF IsRow, PoolBalances
  <2>2. /\ IsRow(Up(pool[k], AtAuctions(k)))
        /\ \A a \in PoolAccounts \ {AuctionAddr} : Up(pool[k], AtAuctions(k))[a] = pool[k][a]
        /\ Up(pool[k], AtAuctions(k))[AuctionAddr] = pool[k][AuctionAddr] + AtAuctions(k)
    BY <2>1, UpFacts
  <2>3. /\ IsRow(Up(pool'[k], AtAuctions(k)'))
        /\ \A a \in PoolAccounts \ {AuctionAddr} : Up(pool'[k], AtAuctions(k)')[a] = pool'[k][a]
        /\ Up(pool'[k], AtAuctions(k)')[AuctionAddr] = pool'[k][AuctionAddr] + AtAuctions(k)'
    BY <2>1, UpFacts
  <2>4. /\ \A a \in PoolAccounts \ {AuctionAddr} : pool'[k][a] = pool[k][a]
        /\ pool'[k][AuctionAddr] + AtAuctions(k)' = pool[k][AuctionAddr] + AtAuctions(k)
    <3>1. pool[k][AuctionAddr] \in Nat /\ AtAuctions(k) \in Nat
      BY <1>3, <1>6, AtAuctionsNat, PoolFacts DEF PoolBalances
    <3>2. CASE k = i
      BY <1>2, <1>9, <1>11, <3>1, <3>2
    <3>3. CASE k # i
      BY <1>9, <1>12, <3>3, PoolFacts
    <3> QED  BY <3>2, <3>3
  <2> HIDE DEF IsRow
  <2>5. \A a \in PoolAccounts :
          Up(pool'[k], AtAuctions(k)')[a] = Up(pool[k], AtAuctions(k))[a]
    BY <2>2, <2>3, <2>4
  <2> QED  BY <2>2, <2>3, <2>5 DEF IsRow
<1> QED  BY <1>1, <1>8, <1>13

-----------------------------------------------------------------------------
(* The pair's own step.                                                    *)

(* No action but a swap pays the auction. *)
Unforwarded == \A i \in PoolIds : pool'[i][AuctionAddr] = pool[i][AuctionAddr]

LEMMA DepositUnforwarded ==
  ASSUME pool \in PoolBalances, NEW u \in Traders, NEW deposit, NEW desired,
         NEW slippage,
         Pool!SettleDeposit(u, deposit, desired, Pool!Credited(u, deposit), slippage)
  PROVE  Unforwarded
<1> DEFINE N == {k \in PoolIds : AssetToken[k] \in Coins}
           c == Pool!Credited(u, deposit)
           r(i) == Pool!Remainder(i, deposit, desired)
<1>1. /\ u \in PoolAccounts \ {AuctionAddr}
      /\ PairAddr \in PoolAccounts \ {AuctionAddr}
  BY PoolFacts
<1>2. \A i \in PoolIds : pool'[i] = IF i \in N THEN Move(c[i], PairAddr, u, r(i))
                                               ELSE Move(c[i], u, PairAddr, desired[i])
  BY AssetsAreIds, PoolMoves DEF Pool!SettleDeposit
<1>3. \A i \in PoolIds : c[i] = IF i \in N THEN Move(pool[i], u, PairAddr, deposit[i])
                                           ELSE pool[i]
  BY AssetsAreIds, PoolMoves DEF Pool!Credited
<1> HIDE DEF c, r
<1>4. ASSUME NEW i \in PoolIds PROVE pool'[i][AuctionAddr] = pool[i][AuctionAddr]
  <2>1. IsRow(pool[i])
    BY DEF IsRow, PoolBalances
  <2>2. IsRow(c[i]) /\ c[i][AuctionAddr] = pool[i][AuctionAddr]
    BY <1>1, <1>3, <2>1, UpMoves
  <2>3. /\ Move(c[i], PairAddr, u, r(i))[AuctionAddr] = c[i][AuctionAddr]
        /\ Move(c[i], u, PairAddr, desired[i])[AuctionAddr] = c[i][AuctionAddr]
    BY <1>1, <2>2, UpMoves
  <2> QED  BY <1>2, <2>2, <2>3
<1> QED  BY <1>4 DEF Unforwarded

LEMMA WithdrawalUnforwarded ==
  ASSUME pool \in PoolBalances, NEW u \in Traders, NEW amount, NEW minimum,
         NEW deadline, Pool!WithdrawLiquidity(u, amount, minimum, deadline)
  PROVE  Unforwarded
<1>1. /\ u \in PoolAccounts \ {AuctionAddr}
      /\ PairAddr \in PoolAccounts \ {AuctionAddr}
  BY PoolFacts
<1>2. \A i \in PoolIds : pool'[i] = Move(pool[i], PairAddr, u, Pool!Refunds(amount)[i])
  BY AssetsAreIds, PoolMoves DEF Pool!WithdrawLiquidity
<1>3. \A i \in PoolIds : IsRow(pool[i])
  BY DEF IsRow, PoolBalances
<1> QED  BY <1>1, <1>2, <1>3, UpMoves DEF Unforwarded

LEMMA DonationUnforwarded ==
  ASSUME pool \in PoolBalances, NEW u \in Traders, NEW i \in PoolIds, NEW n,
         Pool!Donate(u, i, n)
  PROVE  Unforwarded
<1>1. /\ u \in PoolAccounts \ {AuctionAddr}
      /\ PairAddr \in PoolAccounts \ {AuctionAddr}
  BY PoolFacts
<1>2. IsRow(pool[i])
  BY DEF IsRow, PoolBalances
<1>3. Move(pool[i], u, PairAddr, n)[AuctionAddr] = pool[i][AuctionAddr]
  BY <1>1, <1>2, UpMoves
<1>4. /\ pool'[i] = Move(pool[i], u, PairAddr, n)
      /\ \A k \in PoolIds \ {i} : pool'[k] = pool[k]
  BY PoolMoves DEF Pool!Donate, PoolBalances
<1> QED  BY <1>3, <1>4 DEF Unforwarded

LEMMA OnlySwapsForward ==
  ASSUME pool \in PoolBalances, Pool!Next
  PROVE  \/ Unforwarded
         \/ \E u \in Traders, i \in PoolIds, offer \in TradeAmounts,
               to \in Payees :
              SwapOf(pool, pool', u, i, offer, to) /\ UNCHANGED <<lp, supply, now>>
<1>1. ASSUME NEW u \in Traders, NEW deposit, NEW receiver, NEW slippage, NEW deadline,
             \/ Pool!ProvideFirst(u, deposit, receiver, slippage, deadline)
             \/ Pool!ProvideMore(u, deposit, receiver, slippage, deadline)
      PROVE  Unforwarded
  BY <1>1, DepositUnforwarded DEF Pool!ProvideFirst, Pool!ProvideMore
<1>2. ASSUME NEW u \in Traders, NEW i \in PoolIds, NEW offer \in TradeAmounts,
             NEW belief \in {None}, NEW spread \in {None},
             NEW to \in Payees, NEW deadline \in {None},
             \/ Pool!SwapNative(u, i, offer, belief, spread, to, deadline)
             \/ Pool!ReceiveCw20(u, i, offer, belief, spread, to, deadline)
      PROVE  \E v \in Traders, k \in PoolIds, n \in TradeAmounts,
               w \in Payees :
              SwapOf(pool, pool', v, k, n, w) /\ UNCHANGED <<lp, supply, now>>
  <2>1. Pool!Swap(u, i, offer, None, None, to, None)
    BY <1>2 DEF Pool!SwapNative, Pool!ReceiveCw20
  <2>2. SwapOf(pool, pool', u, i, offer, to) /\ UNCHANGED <<lp, supply, now>>
    BY <2>1, PoolSwaps
  <2> QED  BY <2>2
<1>3. ASSUME UNCHANGED pool PROVE Unforwarded
  BY <1>3 DEF Unforwarded
<1> QED
  BY <1>1, <1>2, <1>3, WithdrawalUnforwarded, DonationUnforwarded, AssetsAreIds
     DEF Pool!Next, Pool!TransferLp, Pool!Tick

(* What a step of the pair leaves of the users' and the other accounts. *)
LEMMA RowsWritten ==
  ASSUME AuctionSound, UsersOwnNone, NEW rows \in PoolBalances,
         bank' = WithRows(rows), UNCHANGED <<config, deposits>>
  PROVE  AuctionSound' /\ UsersOwnNone' /\ Rows(bank') = rows
<1>1. /\ bank' \in [Tokens -> [Accounts -> Nat]]
      /\ Rows(bank') = rows
      /\ \A t \in Tokens, a \in Accounts \ PoolAccounts : bank'[t][a] = bank[t][a]
  BY WithRowsFacts DEF AuctionSound, TypeOK
<1>2. Users \subseteq Accounts \ PoolAccounts /\ PairTokens \subseteq Tokens
  BY PoolFacts, TokenFacts, PairTokenFacts
<1>3. UsersOwnNone'
  BY <1>1, <1>2 DEF UsersOwnNone
<1>4. AuctionSound'
  BY <1>1 DEF AuctionSound, TypeOK, OwnSubaccountEmpty, config
<1> QED  BY <1>1, <1>3, <1>4

LEMMA PairStepSound == FeesSound /\ PairStep => FeesSound'
<1> SUFFICES ASSUME FeesSound, PairStep PROVE FeesSound'
  OBVIOUS
<1>1. /\ AuctionSound /\ UsersOwnNone /\ pool \in PoolBalances /\ PairOf!Healthy
      /\ hook = None /\ Pool!Next /\ UNCHANGED <<config, deposits>>
  BY HealthyFacts DEF FeesSound, PairStep
<1>2. PairOf!Healthy' /\ pool' \in PoolBalances
  <2>1. PairOf!Healthy'
    BY <1>1, PairStepHealthy
  <2> QED  BY <2>1, PoolFacts DEF PairOf!Healthy, PairOf!TypeOK, PoolBalances
<1>3. CASE bank' = WithRows(pool') /\ UNCHANGED hook
  <2>1. AuctionSound' /\ UsersOwnNone' /\ Rows(bank') = pool'
    BY <1>1, <1>2, <1>3, RowsWritten
  <2>2. Ledgered' /\ Begun'
    BY <1>1, <1>3, <2>1 DEF Ledgered, Begun
  <2> QED  BY <1>2, <2>1, <2>2 DEF FeesSound
<1>4. ASSUME NEW i \in PoolIds, Forwards(i),
             bank' = WithRows(Unpaid(pool', i, Cut(i))),
             hook' = [asset |-> i, cut |-> Cut(i), before |-> pool]
      PROVE  FeesSound'
  <2> DEFINE n == Cut(i)
  <2>1. pool[i][AuctionAddr] \in Nat /\ pool'[i][AuctionAddr] \in Nat
    BY <1>1, <1>2, PoolFacts DEF PoolBalances
  <2>2. /\ n \in Nat /\ n > 0 /\ n <= pool'[i][AuctionAddr]
        /\ pool'[i][AuctionAddr] = pool[i][AuctionAddr] + n
    BY <1>4, <2>1 DEF Cut, Forwards
  <2>3. hook' = [asset |-> i, cut |-> n, before |-> pool]
    BY <1>4
  <2>4. bank' = WithRows(Unpaid(pool', i, n))
    BY <1>4
  <2> HIDE DEF n
  <2>5. Unpaid(pool', i, n) \in PoolBalances
    BY <1>2, <2>2, UnpaidFacts
  <2>6. AuctionSound' /\ UsersOwnNone' /\ Rows(bank') = Unpaid(pool', i, n)
    BY <1>1, <2>4, <2>5, RowsWritten
  <2>7. hook' \in Hooks /\ hook' # None
    BY <1>1, <2>2, <2>3, FeePairAssumption DEF Hooks
  <2>8. hook'.asset = i /\ hook'.cut = n /\ hook'.before = pool
    BY <2>3
  <2>9. ~Unforwarded
    BY <2>1, <2>2 DEF Unforwarded
  <2>10. \E u \in Traders, k \in PoolIds, offer \in TradeAmounts,
            to \in Payees :
           SwapOf(pool, pool', u, k, offer, to)
    BY <1>1, <2>9, OnlySwapsForward
  <2>11. Ledgered' /\ Begun'
    BY <2>2, <2>6, <2>7, <2>8, <2>10 DEF Ledgered, Begun
  <2> QED  BY <1>2, <2>6, <2>11 DEF FeesSound
<1> QED  BY <1>3, <1>4 DEF PairStep

LEMMA RevertSound == FeesSound /\ Revert => FeesSound'
<1> SUFFICES ASSUME FeesSound, Revert PROVE FeesSound'
  OBVIOUS
<1>1. /\ AuctionSound /\ UsersOwnNone
      /\ pool' = hook.before /\ bank' = WithRows(pool') /\ hook' = None
      /\ UNCHANGED <<config, deposits, lp, supply, now>>
  BY DEF FeesSound, Revert, SwapUndone
<1>2. pool' \in PoolBalances
  BY <1>1, FeeUnpaid DEF Revert, Hooks
<1>3. AuctionSound' /\ UsersOwnNone' /\ Rows(bank') = pool'
  BY <1>1, <1>2, RowsWritten
<1>4. Ledgered' /\ Begun'
  BY <1>1, <1>3 DEF Ledgered, Begun
<1>5. PairOf!Healthy'
  BY <1>1, <1>2, HealthyFacts
     DEF FeesSound, PairOf!Healthy, PairOf!TypeOK, PairOf!MinimumLocked,
         PairOf!LpSupplyFits, PairOf!FitsUint128, PoolBalances
<1> QED  BY <1>3, <1>4, <1>5 DEF FeesSound

(* The auction contract's own transactions touch neither the pair's        *)
(* balances nor what has arrived of its assets.                            *)
LEMMA AuctionSideSound ==
  ASSUME FeesSound, hook = None, [Next]_vars, pool' = Rows(bank'),
         UNCHANGED <<lp, supply, now, hook>>
  PROVE  /\ FeesSound' /\ pool' = pool
         /\ \A i \in PoolIds : AtAuctions(i)' = AtAuctions(i)
<1>1. AuctionSound /\ UsersOwnNone /\ pool = Rows(bank)
  BY DEF FeesSound, Ledgered
<1>2. AuctionSound'
  BY <1>1, AuctionStepSound
<1>3. \A t \in PairTokens : /\ bank'[t] = bank[t]
                            /\ t \in Denoms => deposits'[t] = deposits[t]
  BY <1>1, UsersMoveNone
<1>4. pool' = pool
  BY <1>1, <1>3, PairTokenFacts DEF Rows
<1>5. ASSUME NEW i \in PoolIds PROVE AtAuctions(i)' = AtAuctions(i)
  <2>1. \A d \in CoinsOf(i) : deposits'[d] = deposits[d]
    BY <1>3, PairTokenFacts, CoinsOfFacts
  <2>2. ArrivedOf(i, deposits') = ArrivedOf(i, deposits)
    BY <2>1 DEF ArrivedOf
  <2> QED  BY <2>2 DEF AtAuctions, ArrivedOf
<1>6. Ledgered' /\ UsersOwnNone' /\ Begun'
  BY <1>1, <1>3 DEF Ledgered, UsersOwnNone, Begun
<1>7. PairOf!Healthy'
  BY <1>4 DEF FeesSound, PairOf!Healthy, PairOf!TypeOK, PairOf!MinimumLocked,
              PairOf!LpSupplyFits, PairOf!FitsUint128
<1> QED  BY <1>2, <1>4, <1>5, <1>6, <1>7 DEF FeesSound

LEMMA FeesStepSound == FeesSound /\ [FeesNext]_feeVars => FeesSound'
<1> SUFFICES ASSUME FeesSound, [FeesNext]_feeVars PROVE FeesSound'
  OBVIOUS
<1>1. CASE Forward
  BY <1>1, ForwardSound
<1>2. CASE AuctionStep
  BY <1>2, AuctionSideSound DEF AuctionStep
<1>3. CASE UNCHANGED feeVars
  BY <1>3
     DEF feeVars, vars, config, FeesSound, AuctionSound, TypeOK, OwnSubaccountEmpty,
         Ledgered, UsersOwnNone, Begun, SwapOf, Rows, Unpaid,
         PairOf!Healthy, PairOf!TypeOK, PairOf!MinimumLocked,
         PairOf!LpSupplyFits, PairOf!FitsUint128
<1> QED
  BY <1>1, <1>2, <1>3, PairStepSound, RevertSound DEF FeesNext

LEMMA FeesInitiallySound == FeesInit => FeesSound
<1> SUFFICES ASSUME FeesInit PROVE FeesSound
  OBVIOUS
<1>1. AuctionSound /\ bank = Genesis /\ hook = None
  BY AuctionInitiallySound DEF FeesInit, Init
<1>2. PoolAccounts = Pool!Accounts
  BY DEF PoolAccounts, Pool!Accounts
<1>3. /\ pool = [i \in PoolIds |-> [a \in PoolAccounts |->
                   IF a \in Traders
                   THEN [k \in PoolIds |-> [u \in Traders |-> Genesis[AssetToken[k]][u]]][i][a]
                   ELSE 0]]
      /\ lp = [a \in PoolAccounts |-> 0] /\ supply = 0 /\ now = 0
  BY <1>2, AssetsAreIds DEF FeesInit, Pool!Init
<1>4. ASSUME NEW i \in PoolIds, NEW a \in PoolAccounts
      PROVE  pool[i][a] = Genesis[AssetToken[i]][a] /\ pool[i][a] \in Nat
  <2>1. Genesis[AssetToken[i]][a] \in Nat
    BY FeeTokenFacts, PoolFacts, AuctionInputsAssumption
  <2>2. CASE a \in Traders
    <3>1. pool[i][a] = Genesis[AssetToken[i]][a]
      BY <1>3, <2>2
    <3> QED  BY <2>1, <3>1
  <2>3. CASE a \notin Traders
    <3>1. Genesis[AssetToken[i]][a] = 0
      BY <2>3, PoolFacts, FeeGenesisAssumption
    <3> QED  BY <1>3, <2>3, <3>1
  <2> QED  BY <2>2, <2>3
<1>5. pool \in PoolBalances
  BY <1>3, <1>4 DEF PoolBalances
<1>6. Ledgered
  BY <1>1, <1>4, <1>5, RowsEqual DEF Ledgered
<1>7. UsersOwnNone
  <2>1. \A u \in Users : u \in Accounts \ Traders
    BY PoolFacts, TokenFacts, FeeAccountsAssumption
  <2>2. \A t \in PairTokens : \E i \in PoolIds : t \in {AssetToken[i]} \union CoinsOf(i)
    BY PoolFacts DEF PairTokens
  <2> QED  BY <1>1, <2>1, <2>2, FeeGenesisAssumption DEF UsersOwnNone
<1>8. PairOf!Healthy
  BY <1>3, <1>5, HealthyFacts, PairNumbers
<1> QED  BY <1>1, <1>5, <1>6, <1>7, <1>8 DEF FeesSound, Begun

LEMMA FeesAlwaysSound == FeesSpec => []FeesSound
  BY FeesInitiallySound, FeesStepSound, PTL DEF FeesSpec

(* The message of a swap to the auction contract never fails for a token   *)
(* that the adapter of the configuration knows, and never for a coin.      *)
THEOREM FeeAlwaysTaken == FeesSpec => []FeeIsTaken
  BY FeesAlwaysSound, FeeTaken, PTL

-----------------------------------------------------------------------------
(* The composition implements the pair.                                    *)

LEMMA PairViewIs ==
  /\ hook = None => PairView = [i \in PoolIds |-> Up(pool[i], AtAuctions(i))]
  /\ hook # None => PairView = [i \in PoolIds |-> Up(hook.before[i], AtAuctions(i))]
  /\ hook' = None => PairView' = [i \in PoolIds |-> Up(pool'[i], AtAuctions(i)')]
  /\ hook' # None => PairView' = [i \in PoolIds |-> Up(hook'.before[i], AtAuctions(i)')]
BY DEF PairView, Committed, Up

LEMMA HeldExists ==
  ASSUME AuctionSound
  PROVE  \E held \in [PoolIds -> Int] : held = [i \in PoolIds |-> AtAuctions(i)]
<1>1. ASSUME NEW i \in PoolIds PROVE AtAuctions(i) \in Int
  <2>1. AtAuctions(i) \in Nat
    BY AtAuctionsNat
  <2> QED  BY <2>1
<1>2. [i \in PoolIds |-> AtAuctions(i)] \in [PoolIds -> Int]
  BY <1>1
<1> QED  BY <1>2

LEMMA AtomicSwap ==
  ASSUME NEW u \in Traders, NEW i \in PoolIds, NEW offer \in TradeAmounts,
         NEW to \in Payees,
         Atomic!Swap(u, i, offer, None, None, to, None)
  PROVE  Atomic!Next
<1>1. i \in Atomic!Assets
  BY AssetsAreIds
<1>2. \/ Atomic!SwapNative(u, i, offer, None, None, to, None)
      \/ Atomic!ReceiveCw20(u, i, offer, None, None, to, None)
  BY DEF Atomic!SwapNative, Atomic!ReceiveCw20
<1> QED  BY <1>1, <1>2 DEF Atomic!Next

(* A step of the pair that forwards nothing is the same step of Atomic. *)
LEMMA UnforwardedStep ==
  ASSUME NEW CONSTANT held \in [PoolIds -> Int], pool \in PoolBalances,
         pool' \in PoolBalances,
         PairView  = [i \in PoolIds |-> Up(pool[i], held[i])],
         PairView' = [i \in PoolIds |-> Up(pool'[i], held[i])],
         Pool!Next
  PROVE  [Atomic!Next]_(Atomic!vars)
<1>1. Shows(held) /\ Shows(held)'
  <2>1. \A i \in PoolIds : IsRow(pool[i]) /\ IsRow(pool'[i])
    BY DEF PoolBalances, IsRow
  <2>2. DOMAIN pool = PoolIds /\ DOMAIN pool' = PoolIds
    BY DEF PoolBalances
  <2>3. /\ \A i \in PoolIds : PairView[i] = Up(pool[i], held[i])
        /\ \A i \in PoolIds : PairView'[i] = Up(pool'[i], held[i])
    OBVIOUS
  <2>4. /\ PairView = [i \in PoolIds |-> PairView[i]]
        /\ PairView' = [i \in PoolIds |-> PairView'[i]]
    BY <2>3
  <2> QED  BY <2>1, <2>2, <2>3, <2>4 DEF Shows
<1>2. /\ Pool!Deposits = Atomic!Deposits
      /\ Pool!Assets = PoolIds /\ Atomic!Assets = PoolIds
  BY AssetsAreIds DEF Pool!Deposits, Atomic!Deposits
<1>3. ASSUME NEW u \in Traders, NEW deposit \in Pool!Deposits,
             NEW receiver \in Payees, NEW slippage \in {None},
             NEW deadline \in {None},
             \/ Pool!ProvideFirst(u, deposit, receiver, slippage, deadline)
             \/ Pool!ProvideMore(u, deposit, receiver, slippage, deadline)
      PROVE  Atomic!Next
  <2>1. \/ Atomic!ProvideFirst(u, deposit, receiver, slippage, deadline)
        \/ Atomic!ProvideMore(u, deposit, receiver, slippage, deadline)
    BY <1>1, <1>3, LiftedFirstDeposit, LiftedLaterDeposit
  <2> QED  BY <1>2, <2>1 DEF Atomic!Next
<1>4. ASSUME NEW u \in Traders, NEW amount \in TradeAmounts, NEW minimum \in {None},
             NEW deadline \in {None},
             Pool!WithdrawLiquidity(u, amount, minimum, deadline)
      PROVE  Atomic!Next
  <2>1. Atomic!WithdrawLiquidity(u, amount, minimum, deadline)
    BY <1>1, <1>4, LiftedWithdrawal
  <2> QED  BY <2>1 DEF Atomic!Next
<1>5. ASSUME NEW u \in Traders, NEW i \in PoolIds, NEW offer \in TradeAmounts,
             NEW belief \in {None}, NEW spread \in {None},
             NEW to \in Payees, NEW deadline \in {None},
             \/ Pool!SwapNative(u, i, offer, belief, spread, to, deadline)
             \/ Pool!ReceiveCw20(u, i, offer, belief, spread, to, deadline)
      PROVE  Atomic!Next
  <2>1. Pool!Swap(u, i, offer, None, None, to, None)
    BY <1>5 DEF Pool!SwapNative, Pool!ReceiveCw20
  <2>2. SwapOf(pool, pool', u, i, offer, to) /\ UNCHANGED <<lp, supply, now>>
    BY <2>1, PoolSwaps
  <2>3. offer \in Nat
    BY FeePairAssumption
  <2>4. Atomic!Swap(u, i, offer, None, None, to, None)
    BY <2>2, <2>3, SwapLifts
  <2> QED  BY <2>3, <2>4, AtomicSwap
<1>6. ASSUME NEW u \in Traders, NEW i \in PoolIds, NEW n \in TradeAmounts,
             Pool!Donate(u, i, n)
      PROVE  Atomic!Next
  <2>1. Atomic!Donate(u, i, n)
    BY <1>1, <1>6, LiftedDonation
  <2> QED  BY <1>2, <2>1 DEF Atomic!Next
<1>7. ASSUME UNCHANGED pool PROVE UNCHANGED PairView
  BY <1>7
<1>8. ASSUME NEW u \in Traders, NEW to \in Payees, NEW n \in TradeAmounts,
             Pool!TransferLp(u, to, n)
      PROVE  Atomic!Next
  <2>1. UNCHANGED PairView
    BY <1>7, <1>8 DEF Pool!TransferLp
  <2>2. Atomic!TransferLp(u, to, n)
    BY <1>8, <2>1, LiftedTransferLp
  <2> QED  BY <1>2, <2>2 DEF Atomic!Next
<1>9. CASE Pool!Tick
  <2>1. UNCHANGED PairView
    BY <1>7, <1>9 DEF Pool!Tick
  <2>2. Atomic!Tick
    BY <1>9, <2>1 DEF Pool!Tick, Atomic!Tick
  <2> QED  BY <2>2 DEF Atomic!Next
<1> QED
  BY <1>2, <1>3, <1>4, <1>5, <1>6, <1>8, <1>9 DEF Pool!Next

LEMMA PairStepImplements ==
  FeesSound /\ PairStep => [Atomic!Next]_(Atomic!vars)
<1> SUFFICES ASSUME FeesSound, PairStep PROVE [Atomic!Next]_(Atomic!vars)
  OBVIOUS
<1>1. /\ AuctionSound /\ pool \in PoolBalances /\ hook = None /\ Pool!Next
      /\ UNCHANGED deposits
  BY HealthyFacts DEF FeesSound, PairStep
<1>2. pool' \in PoolBalances
  BY PairStepSound, PoolFacts
     DEF FeesSound, PairOf!Healthy, PairOf!TypeOK, PoolBalances
<1>3. PICK held \in [PoolIds -> Int] : held = [i \in PoolIds |-> AtAuctions(i)]
  BY <1>1, HeldExists
<1>4. \A i \in PoolIds : held[i] = AtAuctions(i) /\ held[i] = AtAuctions(i)'
  BY <1>1, <1>3 DEF AtAuctions
<1>5. PairView = [i \in PoolIds |-> Up(pool[i], held[i])]
  BY <1>1, <1>4, PairViewIs
<1>6. CASE UNCHANGED hook
  <2>1. PairView' = [i \in PoolIds |-> Up(pool'[i], held[i])]
    BY <1>1, <1>4, <1>6, PairViewIs
  <2> QED  BY <1>1, <1>2, <1>5, <2>1, UnforwardedStep
<1>7. ASSUME NEW i \in PoolIds, Forwards(i),
             hook' = [asset |-> i, cut |-> Cut(i), before |-> pool]
      PROVE  UNCHANGED Atomic!vars
  <2>1. pool[i][AuctionAddr] \in Nat /\ pool'[i][AuctionAddr] \in Nat
    BY <1>1, <1>2, PoolFacts DEF PoolBalances
  <2>2. Cut(i) \in Nat /\ ~Unforwarded
    BY <1>7, <2>1 DEF Cut, Forwards, Unforwarded
  <2>3. UNCHANGED <<lp, supply, now>>
    BY <1>1, <2>2, OnlySwapsForward
  <2>4. hook' # None
    BY <1>1, <1>7, <2>2, FeePairAssumption DEF Hooks
  <2>5. hook'.before = pool
    BY <1>7
  <2>6. PairView' = [k \in PoolIds |-> Up(pool[k], held[k])]
    BY <1>4, <2>4, <2>5, PairViewIs
  <2> QED  BY <1>5, <2>3, <2>6 DEF Atomic!vars
<1> QED  BY <1>6, <1>7 DEF PairStep

(* The auction contract takes the fee: only now the swap has happened. *)
LEMMA ForwardImplements == FeesSound /\ Forward => Atomic!Next
<1> SUFFICES ASSUME FeesSound, Forward PROVE Atomic!Next
  OBVIOUS
<1>1. /\ hook # None /\ hook \in Hooks /\ UNCHANGED <<lp, supply, now>>
  BY FeeUnpaid DEF Forward
<1>2. PICK u \in Traders, i \in PoolIds, offer \in TradeAmounts,
           to \in Payees :
        SwapOf(hook.before, pool, u, i, offer, to)
  BY <1>1 DEF FeesSound, Begun
<1>3. PICK held \in [PoolIds -> Int] : held = [k \in PoolIds |-> AtAuctions(k)]
  BY HeldExists DEF FeesSound
<1>4. hook.before \in PoolBalances /\ offer \in Nat
  BY <1>1, FeePairAssumption DEF Hooks
<1>5. PairView = [k \in PoolIds |-> Up(hook.before[k], held[k])]
  BY <1>1, <1>3, PairViewIs
<1>6. PairView' = [k \in PoolIds |-> Up(pool[k], held[k])]
  BY <1>3, ForwardSound, PairViewIs
<1>7. Atomic!Swap(u, i, offer, None, None, to, None)
  BY <1>1, <1>2, <1>4, <1>5, <1>6, SwapLifts
<1> QED  BY <1>7, AtomicSwap

LEMMA FeesStepImplements ==
  FeesSound /\ [FeesNext]_feeVars => [Atomic!Next]_(Atomic!vars)
<1> SUFFICES ASSUME FeesSound, [FeesNext]_feeVars
             PROVE  [Atomic!Next]_(Atomic!vars)
  OBVIOUS
<1>1. CASE Revert
  <2>1. /\ hook # None /\ hook' = None /\ pool' = hook.before
        /\ UNCHANGED <<deposits, lp, supply, now>>
    BY <1>1 DEF Revert, SwapUndone
  <2>2. \A i \in PoolIds : AtAuctions(i)' = AtAuctions(i)
    BY <2>1 DEF AtAuctions
  <2>3. UNCHANGED PairView
    BY <2>1, <2>2, PairViewIs
  <2> QED  BY <2>1, <2>3 DEF Atomic!vars
<1>2. CASE AuctionStep
  <2>1. hook = None /\ hook' = None /\ UNCHANGED <<lp, supply, now>>
    BY <1>2 DEF AuctionStep
  <2>2. pool' = pool /\ \A i \in PoolIds : AtAuctions(i)' = AtAuctions(i)
    BY <1>2, AuctionSideSound DEF AuctionStep
  <2>3. UNCHANGED PairView
    BY <2>1, <2>2, PairViewIs
  <2> QED  BY <2>1, <2>3 DEF Atomic!vars
<1>3. CASE UNCHANGED feeVars
  BY <1>3 DEF feeVars, vars, Atomic!vars, PairView, Committed, AtAuctions
<1> QED
  BY <1>1, <1>2, <1>3, PairStepImplements, ForwardImplements DEF FeesNext

LEMMA FeesInitiallyImplements == FeesInit => Atomic!Init
<1> SUFFICES ASSUME FeesInit PROVE Atomic!Init
  OBVIOUS
<1>1. AuctionSound /\ hook = None /\ pool \in PoolBalances
  BY FeesInitiallySound, HealthyFacts DEF FeesSound, FeesInit
<1>2. /\ Pool!Init /\ Pool!Accounts = Atomic!Accounts
  BY DEF FeesInit, Pool!Accounts, Atomic!Accounts
<1>3. ASSUME NEW i \in PoolIds PROVE AtAuctions(i) = 0
  <2>1. deposits = [d \in Denoms |-> [s \in Subaccounts |-> 0]]
    BY DEF FeesInit, Init
  <2>2. ASSUME NEW p \in CoinsOf(i) \X AuctionSubaccounts
        PROVE  ArrivedOf(i, deposits)[p] = 0
    <3>1. p[1] \in Denoms /\ p[2] \in Subaccounts
      BY CoinsOfFacts, TokenFacts
    <3> QED  BY <2>1, <3>1 DEF ArrivedOf
  <2>3. ArrivedOf(i, deposits) = [p \in CoinsOf(i) \X AuctionSubaccounts |-> 0]
    BY <2>2 DEF ArrivedOf
  <2>4. SumFunction([p \in CoinsOf(i) \X AuctionSubaccounts |-> 0]) = 0
    BY CoinsOfFacts, SumZero
  <2> QED  BY <2>3, <2>4 DEF AtAuctions, ArrivedOf
<1>4. ASSUME NEW i \in PoolIds PROVE PairView[i] = pool[i]
  <2>1. PairView[i] = Up(pool[i], 0)
    BY <1>1, <1>3, PairViewIs
  <2>2. pool[i] \in [PoolAccounts -> Nat] /\ pool[i][AuctionAddr] + 0 = pool[i][AuctionAddr]
    BY <1>1, PoolFacts DEF PoolBalances
  <2> QED  BY <2>1, <2>2 DEF Up
<1>5. PairView = pool
  BY <1>1, <1>4, PairViewIs DEF PoolBalances
<1> QED  BY <1>2, <1>5, AssetsAreIds DEF Pool!Init, Atomic!Init

(* Pair and auction contract together do what the module Pair says of the  *)
(* pair alone: a swap pays the auction its part in full, in one step with  *)
(* all its other transfers, or it has no effect; whatever is proved of     *)
(* Pair's behaviours holds of the two.                                     *)
THEOREM FeesImplementPair == FeesSpec => ImplementsPair
<1>1. FeesSpec => Atomic!Init
  BY FeesInitiallyImplements, PTL DEF FeesSpec
<1>2. FeesSpec => [][Atomic!Next]_(Atomic!vars)
  BY FeesAlwaysSound, FeesStepImplements, PTL DEF FeesSpec
<1> QED  BY <1>1, <1>2 DEF ImplementsPair, Atomic!Spec
=============================================================================
