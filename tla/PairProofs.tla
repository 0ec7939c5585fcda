----------------------------- MODULE PairProofs -----------------------------
(***************************************************************************)
(* The pair implements the abstract liquidity pool, and with it keeps its  *)
(* LP tokens backed; its quotes and the limits a transaction was signed    *)
(* with are honoured.  For any users, amounts, decimals and commission.    *)
(***************************************************************************)
EXTENDS PairMempool, PairMathProofs

PoolProofs == INSTANCE LiquidityPoolProofs WITH x <- bank[0][PairAddr],
                                                y <- bank[1][PairAddr],
                                                t <- supply

BankType == [Assets -> [Accounts -> Nat]]

-----------------------------------------------------------------------------
(* Accounts and transfers.                                                 *)

LEMMA AccountFacts ==
  /\ Users \subseteq Accounts /\ Receivers \subseteq Accounts
  /\ PairAddr \in Accounts /\ FeeWallet \in Accounts /\ BurnAddr \in Accounts
  /\ PairAddr \notin Users /\ PairAddr # FeeWallet /\ PairAddr # BurnAddr
  /\ FeeWallet \notin Users /\ BurnAddr \notin Users /\ FeeWallet # BurnAddr
BY AccountsAssumption DEF Accounts

LEMMA AssetFacts ==
  /\ 0 \in Assets /\ 1 \in Assets
  /\ \A i \in Assets : (i = 0 \/ i = 1) /\ Other(i) \in Assets /\ Other(i) # i
BY DEF Assets, Other

-----------------------------------------------------------------------------
(* provide_liquidity.                                                      *)

(* Subtracting the native deposits restores the pools as they were. *)
LEMMA PoolsBeforeAreThePools ==
  ASSUME bank \in BankType, NEW u \in Users, NEW deposit \in [Assets -> Nat],
         FundsSent(u, deposit)
  PROVE  PoolsBefore(Credited(u, deposit), deposit) = Pools(bank)
<1> SUFFICES ASSUME NEW i \in Assets
             PROVE  (IF i \in NativeAssets
                     THEN Credited(u, deposit)[i][PairAddr] - deposit[i]
                     ELSE Credited(u, deposit)[i][PairAddr]) = bank[i][PairAddr]
  BY DEF PoolsBefore, Pools
<1>1. bank[i] \in [Accounts -> Nat] /\ deposit[i] \in Nat
  BY DEF BankType
<1>2. u \in Accounts /\ PairAddr \in Accounts /\ u # PairAddr
  BY AccountFacts
<1>3. CASE i \in NativeAssets
  <2>1. deposit[i] <= bank[i][u]
    BY <1>3 DEF FundsSent
  <2>2. Credited(u, deposit)[i] = Move(bank[i], u, PairAddr, deposit[i])
    BY <1>3 DEF Credited
  <2>3. Credited(u, deposit)[i][PairAddr] = bank[i][PairAddr] + deposit[i]
    BY <1>1, <1>2, <2>1, <2>2, MoveFacts
  <2> QED  BY <1>1, <1>2, <1>3, <2>3
<1>4. CASE i \notin NativeAssets
  BY <1>4 DEF Credited
<1> QED  BY <1>3, <1>4

(* Sending an amount to the pair and getting back what it does not keep is *)
(* sending what it keeps.                                                  *)
LEMMA CreditedAndRefunded ==
  ASSUME NEW balance \in [Accounts -> Nat], NEW u \in Users,
         NEW sent \in Nat, NEW kept \in Nat, kept <= sent, sent <= balance[u],
         NEW settled,
         settled = Move(Move(balance, u, PairAddr, sent), PairAddr, u, sent - kept)
  PROVE  /\ settled \in [Accounts -> Nat]
         /\ settled[PairAddr] = balance[PairAddr] + kept
         /\ settled[u] = balance[u] - kept
         /\ \A a \in Accounts \ {u, PairAddr} : settled[a] = balance[a]
<1> DEFINE credited == Move(balance, u, PairAddr, sent)
           rest     == sent - kept
<1>1. u \in Accounts /\ PairAddr \in Accounts /\ u # PairAddr
  BY AccountFacts
<1>2. /\ credited \in [Accounts -> Nat]
      /\ credited[PairAddr] = balance[PairAddr] + sent
      /\ credited[u] = balance[u] - sent
      /\ \A a \in Accounts \ {u, PairAddr} : credited[a] = balance[a]
  BY <1>1, MoveFacts
<1>3. settled = Move(credited, PairAddr, u, rest)
  OBVIOUS
<1>4. balance[PairAddr] \in Nat /\ balance[u] \in Nat
  BY <1>1
<1> HIDE DEF credited
<1>5. rest \in Nat /\ rest <= credited[PairAddr]
  BY <1>2, <1>4
<1> HIDE DEF rest
<1>6. /\ settled \in [Accounts -> Nat]
      /\ settled[PairAddr] = credited[PairAddr] - rest
      /\ settled[u] = credited[u] + rest
      /\ \A a \in Accounts \ {u, PairAddr} : settled[a] = credited[a]
  BY <1>1, <1>2, <1>3, <1>5, MoveFacts
<1> QED  BY <1>1, <1>2, <1>4, <1>6 DEF rest

(* Whatever is refunded or pulled, the pair ends with what it desired and  *)
(* only it and the depositor are touched.                                  *)
LEMMA SettledDeposit ==
  ASSUME bank \in BankType, NEW u \in Users, NEW deposit \in [Assets -> Nat],
         NEW desired \in [Assets -> Nat], NEW slippage, FundsSent(u, deposit),
         SettleDeposit(u, deposit, desired, Credited(u, deposit), slippage)
  PROVE  /\ bank' \in BankType
         /\ \A i \in Assets : bank'[i][PairAddr] = bank[i][PairAddr] + desired[i]
         /\ \A i \in Assets : bank'[i][u] = bank[i][u] - desired[i]
         /\ \A i \in Assets : \A a \in Accounts \ {u, PairAddr} :
              bank'[i][a] = bank[i][a]
<1>1. ASSUME NEW i \in Assets
      PROVE  /\ bank'[i] \in [Accounts -> Nat]
             /\ bank'[i][PairAddr] = bank[i][PairAddr] + desired[i]
             /\ bank'[i][u] = bank[i][u] - desired[i]
             /\ \A a \in Accounts \ {u, PairAddr} : bank'[i][a] = bank[i][a]
  <2>1. /\ bank[i] \in [Accounts -> Nat]
        /\ deposit[i] \in Nat /\ desired[i] \in Nat /\ desired[i] <= deposit[i]
    BY DEF BankType, SettleDeposit
  <2>2. u \in Accounts /\ PairAddr \in Accounts /\ u # PairAddr
    BY AccountFacts
  <2>3. CASE i \in NativeAssets
    <3>1. deposit[i] <= bank[i][u]
      BY <2>3 DEF FundsSent
    <3>2. bank'[i] = Move(Move(bank[i], u, PairAddr, deposit[i]),
                          PairAddr, u, deposit[i] - desired[i])
      BY <2>3 DEF SettleDeposit, Credited, Remainder
    <3> QED  BY <2>1, <3>1, <3>2, CreditedAndRefunded
  <2>4. CASE i \notin NativeAssets
    <3>1. /\ bank'[i] = Move(bank[i], u, PairAddr, desired[i])
          /\ desired[i] <= bank[i][u]
      BY <2>1, <2>2, <2>4 DEF SettleDeposit, Credited
    <3>2. bank[i] \in [Accounts -> Nat] /\ desired[i] \in Nat
      BY <2>1
    <3> DEFINE paid == desired[i]
    <3>3. /\ bank[i] \in [Accounts -> Nat] /\ paid \in Nat /\ paid <= bank[i][u]
          /\ bank'[i] = Move(bank[i], u, PairAddr, paid)
      BY <3>1, <3>2
    <3> HIDE DEF paid
    <3>4. /\ bank'[i] \in [Accounts -> Nat]
          /\ u # PairAddr => /\ bank'[i][u] = bank[i][u] - paid
                             /\ bank'[i][PairAddr] = bank[i][PairAddr] + paid
          /\ \A a \in Accounts \ {u, PairAddr} : bank'[i][a] = bank[i][a]
      BY ONLY <2>2, <3>3, MoveFacts
    <3> QED  BY <2>2, <3>4 DEF paid
  <2> QED  BY <2>3, <2>4
<1>2. bank' = [i \in Assets |-> bank'[i]]
  BY DEF SettleDeposit
<1> QED  BY <1>1, <1>2 DEF BankType

LEMMA MintFacts ==
  ASSUME NEW balances \in [Accounts -> Nat], NEW to \in Accounts, NEW n \in Nat
  PROVE  /\ Mint(balances, to, n) \in [Accounts -> Nat]
         /\ Mint(balances, to, n)[to] = balances[to] + n
         /\ Mint(balances, to, n)[PairAddr] >= balances[PairAddr]
<1>1. PairAddr \in Accounts
  BY AccountFacts
<1> QED  BY <1>1 DEF Mint

(* The conditions under which a step of the pair is one of the pool: its   *)
(* state stays well-typed, the locked minimum and the width of the supply  *)
(* are respected.                                                          *)
Healthy == TypeOK /\ MinimumLocked /\ LpSupplyFits

LEMMA FirstDepositSound ==
  ASSUME Healthy, NEW u \in Users, NEW deposit \in [Assets -> Nat],
         NEW receiver \in Accounts, NEW slippage, NEW deadline,
         ProvideFirst(u, deposit, receiver, slippage, deadline)
  PROVE  Healthy' /\ PoolProofs!Next
<1> DEFINE product == deposit[0] * deposit[1]
           root    == ISqrt(product)
           share   == InitialShare(deposit)
<1>1. /\ deposit[0] \in Nat /\ deposit[1] \in Nat
      /\ bank \in BankType /\ lp \in [Accounts -> Nat] /\ now \in Nat
      /\ bank[0][PairAddr] \in Nat /\ bank[1][PairAddr] \in Nat
  BY AssetFacts, AccountFacts DEF Healthy, TypeOK, BankType
<1>2. root \in Nat /\ root * root <= product
  BY <1>1, TimesNat, ISqrtBounds
<1>3. MinimumLiquidity \in Nat \ {0} /\ MinimumLiquidity <= root /\ FitsUint128(root)
  BY MinimumAssumption DEF ProvideFirst, InitialShareDefined
<1>4. share = root - MinimumLiquidity
  BY DEF InitialShare
<1> HIDE DEF root, share
<1>5. supply = 0 /\ supply' = root /\ root > 0 /\ share \in Nat /\ now' = now
  BY <1>2, <1>3, <1>4 DEF ProvideFirst, share
<1>6. /\ bank' \in BankType
      /\ \A i \in Assets : bank'[i][PairAddr] = bank[i][PairAddr] + deposit[i]
      /\ \A i \in Assets : \A a \in Accounts \ {u, PairAddr} :
           bank'[i][a] = bank[i][a]
  BY <1>1, SettledDeposit DEF ProvideFirst
<1>7. lp' \in [Accounts -> Nat] /\ lp'[PairAddr] >= MinimumLiquidity
  <2> DEFINE locked == Mint(lp, PairAddr, MinimumLiquidity)
  <2>1. PairAddr \in Accounts /\ receiver \in Accounts
    BY AccountFacts
  <2>2. /\ locked \in [Accounts -> Nat]
        /\ locked[PairAddr] = lp[PairAddr] + MinimumLiquidity
    BY <1>1, <1>3, <2>1, MintFacts
  <2>3. lp' = Mint(locked, receiver, share)
    BY DEF ProvideFirst, MintFirst, share
  <2> HIDE DEF locked
  <2>4. /\ lp' \in [Accounts -> Nat]
        /\ lp'[PairAddr] >= locked[PairAddr]
    BY <1>5, <2>1, <2>2, <2>3, MintFacts
  <2> QED  BY <1>1, <1>3, <2>1, <2>2, <2>4
<1>8. Healthy'
  BY <1>1, <1>2, <1>3, <1>5, <1>6, <1>7
     DEF Healthy, TypeOK, BankType, MinimumLocked, LpSupplyFits
<1>9. PoolProofs!Next
  <2>1. /\ bank'[0][PairAddr] = bank[0][PairAddr] + deposit[0]
        /\ bank'[1][PairAddr] = bank[1][PairAddr] + deposit[1]
    BY <1>6, AssetFacts
  <2>2. PoolProofs!Covers(bank'[0][PairAddr] - bank[0][PairAddr],
                          bank'[1][PairAddr] - bank[1][PairAddr], supply')
    BY <1>1, <1>2, <1>5, <2>1 DEF PoolProofs!Covers
  <2> QED  BY <1>1, <1>2, <1>5, <2>1, <2>2 DEF PoolProofs!Next, PoolProofs!Open
<1> QED  BY <1>8, <1>9

LEMMA LaterDepositSound ==
  ASSUME Healthy, NEW u \in Users, NEW deposit \in [Assets -> Nat],
         NEW receiver \in Accounts, NEW slippage, NEW deadline,
         ProvideMore(u, deposit, receiver, slippage, deadline)
  PROVE  Healthy' /\ PoolProofs!Next
<1> DEFINE share   == Share(deposit, Pools(bank), supply)
           desired == [i \in Assets |->
                         DesiredAmount(Pools(bank)[i], share, supply)]
<1>1. /\ bank \in BankType /\ lp \in [Accounts -> Nat] /\ now \in Nat
      /\ supply \in Nat \ {0} /\ now' = now
      /\ bank[0][PairAddr] \in Nat /\ bank[1][PairAddr] \in Nat
  BY AssetFacts, AccountFacts DEF Healthy, TypeOK, BankType, ProvideMore
<1>2. FundsSent(u, deposit)
  BY DEF ProvideMore
<1>3. PoolsBefore(Credited(u, deposit), deposit) = Pools(bank)
  BY <1>1, <1>2, PoolsBeforeAreThePools
<1>4. Pools(bank) \in [Assets -> Nat]
  BY <1>1, AccountFacts DEF Pools, BankType
<1>5. /\ ShareDefined(deposit, Pools(bank), supply)
      /\ share > 0 /\ SupplyFits(share)
      /\ SettleDeposit(u, deposit, desired, Credited(u, deposit), slippage)
      /\ lp' = Mint(lp, receiver, share)
      /\ supply' = supply + share
  BY <1>3 DEF ProvideMore
<1>6. share \in Nat \ {0}
  BY <1>1, <1>4, <1>5, ShareWithinDeposits
<1> HIDE DEF share
<1>7. ASSUME NEW i \in Assets
      PROVE  /\ desired[i] \in Nat
             /\ Pools(bank)[i] * share <= desired[i] * supply
  BY <1>1, <1>4, <1>6, DesiredCoversShare
<1>8. desired \in [Assets -> Nat]
  BY <1>7
<1> HIDE DEF desired
<1>9. /\ bank' \in BankType
      /\ \A i \in Assets : bank'[i][PairAddr] = bank[i][PairAddr] + desired[i]
      /\ \A i \in Assets : \A a \in Accounts \ {u, PairAddr} :
           bank'[i][a] = bank[i][a]
  BY <1>1, <1>2, <1>5, <1>8, SettledDeposit
<1>10. /\ lp' \in [Accounts -> Nat]
       /\ lp[PairAddr] \in Nat /\ lp'[PairAddr] \in Nat
       /\ lp'[PairAddr] >= lp[PairAddr]
  BY <1>1, <1>5, <1>6, AccountFacts, MintFacts
<1>11. Healthy'
  BY <1>1, <1>5, <1>6, <1>9, <1>10, MinimumAssumption
     DEF Healthy, TypeOK, BankType, MinimumLocked, LpSupplyFits, SupplyFits
<1>12. ASSUME NEW i \in Assets
       PROVE  /\ bank[i][PairAddr] \in Nat
              /\ bank'[i][PairAddr] \in Nat
              /\ bank'[i][PairAddr] >= bank[i][PairAddr]
              /\ PoolProofs!PartKept(bank[i][PairAddr], supply,
                                     bank'[i][PairAddr], supply')
  <2> DEFINE pool == bank[i][PairAddr]
             paid == desired[i]
  <2>1. pool \in Nat /\ paid \in Nat /\ pool * share <= paid * supply
    BY <1>4, <1>7 DEF Pools
  <2>2. bank'[i][PairAddr] = pool + paid
    BY <1>9
  <2> HIDE DEF pool, paid
  <2>3. pool * (supply + share) = pool * supply + pool * share
    BY <1>1, <1>6, <2>1
  <2>4. (pool + paid) * supply = pool * supply + paid * supply
    BY <1>1, <2>1
  <2>5. pool * supply \in Nat /\ pool * share \in Nat /\ paid * supply \in Nat
    BY <1>1, <1>6, <2>1, TimesNat
  <2>6. pool * supply' <= (pool + paid) * supply
    BY <1>5, <2>1, <2>3, <2>4, <2>5
  <2> QED  BY <2>1, <2>2, <2>6 DEF PoolProofs!PartKept, pool
<1> QED  BY <1>1, <1>5, <1>6, <1>11, <1>12, AssetFacts
         DEF PoolProofs!Next, PoolProofs!Deposit

LEMMA WithdrawalSound ==
  ASSUME Healthy, NEW u \in Users, NEW amount \in Nat, NEW minAssets, NEW deadline,
         WithdrawLiquidity(u, amount, minAssets, deadline)
  PROVE  Healthy' /\ PoolProofs!Next
<1> DEFINE refund == [i \in Assets |-> Refund(Pools(bank)[i], amount, supply)]
<1>1. /\ bank \in BankType /\ lp \in [Accounts -> Nat] /\ now \in Nat
      /\ now' = now
      /\ amount \in Nat \ {0} /\ amount <= supply /\ amount <= lp[u]
      /\ supply \in Nat \ {0} /\ supply' = supply - amount
      /\ bank[0][PairAddr] \in Nat /\ bank[1][PairAddr] \in Nat
  BY AssetFacts, AccountFacts
     DEF Healthy, TypeOK, BankType, WithdrawLiquidity, WithdrawAllowed
<1>2. u \in Accounts /\ PairAddr \in Accounts /\ u # PairAddr
  BY AccountFacts
<1>3. ASSUME NEW i \in Assets
      PROVE  /\ refund[i] \in Nat
             /\ refund[i] * supply <= bank[i][PairAddr] * amount
             /\ refund[i] <= bank[i][PairAddr]
  <2>1. Pools(bank)[i] = bank[i][PairAddr] /\ bank[i][PairAddr] \in Nat
    BY <1>1, <1>2 DEF Pools, BankType
  <2> QED  BY <1>1, <2>1, RefundWithinPart
<1>4. bank' = [i \in Assets |-> Move(bank[i], PairAddr, u, refund[i])]
  BY DEF WithdrawLiquidity, Refunds
<1> HIDE DEF refund
<1>5. ASSUME NEW i \in Assets
      PROVE  /\ bank'[i] \in [Accounts -> Nat]
             /\ bank'[i][PairAddr] = bank[i][PairAddr] - refund[i]
             /\ \A a \in Accounts \ {u, PairAddr} : bank'[i][a] = bank[i][a]
  <2>1. bank[i] \in [Accounts -> Nat]
    BY <1>1 DEF BankType
  <2> QED  BY <1>2, <1>3, <1>4, <2>1, MoveFacts
<1>6. bank' \in BankType
  BY <1>4, <1>5 DEF BankType
<1>7. lp' \in [Accounts -> Nat] /\ lp'[PairAddr] = lp[PairAddr]
  <2> DEFINE received == Received(u, amount)
  <2>1. /\ received \in [Accounts -> Nat]
        /\ received[PairAddr] = lp[PairAddr] + amount
    BY <1>1, <1>2, MoveFacts DEF Received
  <2>2. lp' = [received EXCEPT ![PairAddr] = received[PairAddr] - amount]
    BY DEF WithdrawLiquidity
  <2> HIDE DEF received
  <2>3. lp[PairAddr] \in Nat /\ received[PairAddr] - amount = lp[PairAddr]
    BY <1>1, <1>2, <2>1
  <2> QED  BY <1>2, <2>1, <2>2, <2>3
<1>8. supply' \in Nat /\ supply' < supply
  BY <1>1
<1>9. LpSupplyFits'
  BY <1>1, <1>8, Uint128Assumption DEF Healthy, LpSupplyFits, FitsUint128
<1>10. Healthy'
  BY <1>1, <1>6, <1>7, <1>8, <1>9
     DEF Healthy, TypeOK, BankType, MinimumLocked
<1>11. ASSUME NEW i \in Assets
       PROVE  /\ bank[i][PairAddr] \in Nat
              /\ bank'[i][PairAddr] \in 0 .. bank[i][PairAddr]
              /\ PoolProofs!PartKept(bank[i][PairAddr], supply,
                                     bank'[i][PairAddr], supply')
  <2> DEFINE pool == bank[i][PairAddr]
             paid == refund[i]
  <2>1. /\ pool \in Nat /\ paid \in Nat /\ paid <= pool
        /\ paid * supply <= pool * amount
    BY <1>1, <1>2, <1>3 DEF BankType
  <2>2. bank'[i][PairAddr] = pool - paid
    BY <1>5
  <2> HIDE DEF pool, paid
  <2>3. pool * (supply - amount) = pool * supply - pool * amount
    BY <1>1, <2>1
  <2>4. (pool - paid) * supply = pool * supply - paid * supply
    BY <1>1, <2>1
  <2>5. pool * supply \in Nat /\ pool * amount \in Nat /\ paid * supply \in Nat
    BY <1>1, <2>1, TimesNat
  <2>6. pool * supply' <= (pool - paid) * supply
    BY <1>1, <2>1, <2>3, <2>4, <2>5
  <2> QED  BY <2>1, <2>2, <2>6 DEF PoolProofs!PartKept, pool
<1> QED  BY <1>1, <1>8, <1>10, <1>11, AssetFacts
         DEF PoolProofs!Next, PoolProofs!Redeem

-----------------------------------------------------------------------------
(* swap, and what the environment does.                                    *)

(* The pair pays no more than the return and the fees, and a receiver who  *)
(* earns no fees gets the return.  It may come back to the pair; the fees  *)
(* never do.                                                               *)
LEMMA PayOutFacts ==
  ASSUME NEW balance \in [Accounts -> Nat], NEW to \in Accounts,
         NEW return \in Nat, NEW burnt \in Nat, NEW fee \in Nat,
         return + burnt + fee <= balance[PairAddr]
  PROVE  LET paid == PayOut(balance, to, return, burnt, fee)
         IN  /\ paid \in [Accounts -> Nat]
             /\ paid[PairAddr] >= balance[PairAddr] - (return + burnt + fee)
             /\ to \notin {PairAddr, FeeWallet, BurnAddr} =>
                  paid[to] = balance[to] + return
<1> DEFINE first  == Move(balance, PairAddr, to, return)
           second == Move(first, PairAddr, BurnAddr, burnt)
           third  == Move(second, PairAddr, FeeWallet, fee)
<1>1. /\ PairAddr \in Accounts /\ FeeWallet \in Accounts /\ BurnAddr \in Accounts
      /\ PairAddr # FeeWallet /\ PairAddr # BurnAddr
  BY AccountFacts
<1>2. balance[PairAddr] \in Nat /\ return <= balance[PairAddr]
  BY <1>1
<1>3. /\ first \in [Accounts -> Nat]
      /\ first[PairAddr] >= balance[PairAddr] - return
      /\ to # PairAddr => first[to] = balance[to] + return
  <2>1. CASE to = PairAddr
    BY <1>1, <1>2, <2>1, MoveFacts
  <2>2. CASE to # PairAddr
    BY <1>1, <1>2, <2>2, MoveFacts
  <2> QED  BY <2>1, <2>2
<1> HIDE DEF first
<1>4. /\ first[PairAddr] \in Nat
      /\ burnt + fee <= first[PairAddr] /\ burnt <= first[PairAddr]
  BY <1>1, <1>2, <1>3
<1>5. /\ second \in [Accounts -> Nat]
      /\ second[PairAddr] = first[PairAddr] - burnt
      /\ to \notin {PairAddr, BurnAddr} => second[to] = first[to]
  BY <1>1, <1>3, <1>4, MoveFacts
<1> HIDE DEF second
<1>6. /\ third \in [Accounts -> Nat]
      /\ third[PairAddr] = second[PairAddr] - fee
      /\ to \notin {PairAddr, FeeWallet} => third[to] = second[to]
  <2>1. fee <= second[PairAddr]
    BY <1>4, <1>5
  <2> QED  BY <1>1, <1>5, <2>1, MoveFacts
<1>7. PayOut(balance, to, return, burnt, fee) = third
  BY DEF PayOut, first, second
<1> HIDE DEF third
<1> QED  BY <1>2, <1>3, <1>4, <1>5, <1>6, <1>7

(* A product does not fall when neither factor does. *)
LEMMA ReservesOnlyGrow ==
  ASSUME Healthy, supply' = supply,
         bank'[0][PairAddr] \in Nat, bank'[0][PairAddr] >= bank[0][PairAddr],
         bank'[1][PairAddr] \in Nat, bank'[1][PairAddr] >= bank[1][PairAddr]
  PROVE  PoolProofs!Next
<1>1. /\ bank[0][PairAddr] \in Nat /\ bank[1][PairAddr] \in Nat /\ supply \in Nat
  BY AssetFacts, AccountFacts DEF Healthy, TypeOK
<1>2. bank[0][PairAddr] * bank[1][PairAddr] <= bank'[0][PairAddr] * bank'[1][PairAddr]
  BY <1>1, TimesMonotone
<1> QED  BY <1>1, <1>2 DEF PoolProofs!Next, PoolProofs!Trade

(* The balance the handler reads holds the offer; without it, it is the    *)
(* pool that query_simulation reads.                                       *)
LEMMA SwapOpened ==
  ASSUME Healthy, NEW u \in Users, NEW i \in Assets, NEW offer \in Nat,
         NEW beliefPrice, NEW maxSpread, NEW to, NEW deadline,
         Swap(u, i, offer, beliefPrice, maxSpread, to, deadline)
  PROVE  LET result == Simulation(i, offer)
         IN  /\ SimulationDefined(i, offer)
             /\ SpreadAccepted(i, offer, result.return, result.spread,
                               beliefPrice, maxSpread)
             /\ bank' = [k \in Assets |->
                           IF k = i THEN Move(bank[i], u, PairAddr, offer)
                           ELSE PayOut(bank[Other(i)], to, result.return,
                                       FeeCut(result.commission),
                                       FeeCut(result.commission))]
<1> DEFINE received == Move(bank[i], u, PairAddr, offer)
<1>1. /\ bank[i] \in [Accounts -> Nat] /\ offer <= bank[i][u]
      /\ u \in Accounts /\ PairAddr \in Accounts /\ u # PairAddr
  BY AccountFacts DEF Healthy, TypeOK, Swap
<1>2. /\ received \in [Accounts -> Nat]
      /\ received[PairAddr] = bank[i][PairAddr] + offer
  <2> DEFINE row == bank[i]
  <2>1. row \in [Accounts -> Nat] /\ offer <= row[u]
    BY <1>1
  <2> HIDE DEF row
  <2>2. /\ Move(row, u, PairAddr, offer) \in [Accounts -> Nat]
        /\ Move(row, u, PairAddr, offer)[PairAddr] = row[PairAddr] + offer
    BY ONLY <1>1, <2>1, MoveFacts, offer \in Nat
  <2> QED  BY <2>2 DEF row
<1> HIDE DEF received
<1>3. OfferPool(received, offer) = Pools(bank)[i]
  BY <1>1, <1>2 DEF OfferPool, Pools
<1>4. Pools(bank)[Other(i)] = bank[Other(i)][PairAddr]
  BY AssetFacts DEF Pools
<1> QED  BY <1>3, <1>4 DEF Swap, Simulation, SimulationDefined, received

(* What the receiver of a swap gains is what the query answers. *)
LEMMA SwapPays ==
  ASSUME Healthy, NEW u \in Users, NEW i \in Assets, NEW offer \in Nat,
         NEW beliefPrice, NEW maxSpread, NEW to \in Users, NEW deadline,
         Swap(u, i, offer, beliefPrice, maxSpread, to, deadline)
  PROVE  LET result == Simulation(i, offer)
         IN  /\ SimulationDefined(i, offer)
             /\ SpreadAccepted(i, offer, result.return, result.spread,
                               beliefPrice, maxSpread)
             /\ result.return \in Nat
             /\ bank'[Other(i)][to] - bank[Other(i)][to] = result.return
<1> DEFINE j      == Other(i)
           result == Simulation(i, offer)
           cut    == FeeCut(result.commission)
<1>1. j \in Assets /\ j # i
  BY AssetFacts
<1>2. /\ bank[i][PairAddr] \in Nat /\ bank[j] \in [Accounts -> Nat]
      /\ bank[j][PairAddr] \in Nat /\ bank[j][to] \in Nat
  BY <1>1, AccountFacts DEF Healthy, TypeOK
<1>3. /\ SimulationDefined(i, offer)
      /\ SpreadAccepted(i, offer, result.return, result.spread,
                        beliefPrice, maxSpread)
      /\ bank'[j] = PayOut(bank[j], to, result.return, cut, cut)
  BY <1>1, SwapOpened
<1>4. /\ Pools(bank)[i] = bank[i][PairAddr] /\ Pools(bank)[j] = bank[j][PairAddr]
  BY <1>1 DEF Pools
<1>5. /\ result.return \in Nat /\ cut \in Nat
      /\ result.return + cut + cut <= bank[j][PairAddr]
  BY <1>2, <1>3, <1>4, SwapKeepsProduct DEF Simulation, SimulationDefined
<1> HIDE DEF j, result, cut
<1>6. bank'[j][to] = bank[j][to] + result.return
  <2>1. to \in Accounts /\ to \notin {PairAddr, FeeWallet, BurnAddr}
    BY AccountFacts
  <2>2. to \notin {PairAddr, FeeWallet, BurnAddr} =>
          PayOut(bank[j], to, result.return, cut, cut)[to] = bank[j][to] + result.return
    BY <1>2, <1>5, <2>1, PayOutFacts
  <2> QED  BY <1>3, <2>1, <2>2
<1>7. bank'[j][to] - bank[j][to] = result.return
  BY <1>2, <1>5, <1>6
<1> QED  BY <1>3, <1>5, <1>7 DEF j, result

LEMMA SwapSound ==
  ASSUME Healthy, NEW u \in Users, NEW i \in Assets, NEW offer \in Nat,
         NEW beliefPrice, NEW maxSpread, NEW to \in Accounts, NEW deadline,
         Swap(u, i, offer, beliefPrice, maxSpread, to, deadline)
  PROVE  Healthy' /\ PoolProofs!Next
<1> DEFINE j         == Other(i)
           received  == Move(bank[i], u, PairAddr, offer)
           offerPool == bank[i][PairAddr]
           askPool   == bank[j][PairAddr]
           result    == ComputeSwap(i, offerPool, askPool, offer)
           cut       == FeeCut(result.commission)
           out       == result.return + 2 * cut
<1>1. /\ bank \in BankType /\ lp \in [Accounts -> Nat]
      /\ now \in Nat /\ supply \in Nat
      /\ lp' = lp /\ supply' = supply /\ now' = now
  BY DEF Healthy, TypeOK, BankType, Swap
<1>2. j \in Assets /\ j # i /\ \A k \in Assets : k = i \/ k = j
  BY DEF Assets, Other
<1>3. bank[i] \in [Accounts -> Nat] /\ bank[j] \in [Accounts -> Nat]
  BY <1>1, <1>2 DEF BankType
<1>4. u \in Accounts /\ PairAddr \in Accounts /\ u # PairAddr
  BY AccountFacts
<1>5. offerPool \in Nat /\ askPool \in Nat /\ offer <= bank[i][u]
  BY <1>3, <1>4 DEF Swap
<1>6. /\ received \in [Accounts -> Nat]
      /\ received[PairAddr] = offerPool + offer
  BY <1>3, <1>4, <1>5, MoveFacts
<1> HIDE DEF received
<1>7. OfferPool(received, offer) = offerPool
  BY <1>5, <1>6 DEF OfferPool
<1>8. /\ ComputeSwapDefined(i, offerPool, askPool, offer)
      /\ bank' = [k \in Assets |->
                    IF k = i THEN received
                             ELSE PayOut(bank[j], to, result.return, cut, cut)]
  BY <1>7 DEF Swap, received
<1>9. /\ result.return \in Nat /\ cut \in Nat
      /\ out <= askPool
      /\ offerPool * askPool <= (offerPool + offer) * (askPool - out)
  BY <1>5, <1>8, SwapKeepsProduct
<1> HIDE DEF result, cut, j
<1>10. bank'[i] = received /\ bank'[j] = PayOut(bank[j], to, result.return, cut, cut)
  BY <1>2, <1>8
<1>11. /\ bank'[j] \in [Accounts -> Nat]
       /\ bank'[j][PairAddr] >= askPool - out
  <2>1. result.return + cut + cut = out
    BY <1>9
  <2>2. /\ bank[j] \in [Accounts -> Nat] /\ to \in Accounts
        /\ result.return \in Nat /\ cut \in Nat
        /\ result.return + cut + cut <= bank[j][PairAddr]
    BY <1>3, <1>9, <2>1
  <2>3. /\ PayOut(bank[j], to, result.return, cut, cut) \in [Accounts -> Nat]
        /\ PayOut(bank[j], to, result.return, cut, cut)[PairAddr]
             >= bank[j][PairAddr] - (result.return + cut + cut)
    BY ONLY <2>2, PayOutFacts
  <2> QED  BY <1>10, <2>1, <2>3
<1>12. bank' \in BankType
  BY <1>2, <1>6, <1>8, <1>10, <1>11 DEF BankType
<1>13. Healthy'
  BY <1>1, <1>12 DEF Healthy, TypeOK, BankType, MinimumLocked, LpSupplyFits
<1>14. /\ bank'[i][PairAddr] \in Nat /\ bank'[j][PairAddr] \in Nat
       /\ offerPool * askPool <= bank'[i][PairAddr] * bank'[j][PairAddr]
  <2>1. bank'[i][PairAddr] = offerPool + offer /\ offerPool + offer \in Nat
    BY <1>5, <1>6, <1>10
  <2>2. bank'[j][PairAddr] \in Nat /\ askPool - out \in Nat
    BY <1>4, <1>5, <1>9, <1>11
  <2>3. (offerPool + offer) * (askPool - out)
          <= (offerPool + offer) * bank'[j][PairAddr]
    BY <1>11, <2>1, <2>2, TimesMonotone
  <2>4. /\ offerPool * askPool \in Nat
        /\ (offerPool + offer) * (askPool - out) \in Nat
        /\ (offerPool + offer) * bank'[j][PairAddr] \in Nat
    BY <1>5, <2>1, <2>2, TimesNat
  <2> QED  BY <1>9, <2>1, <2>2, <2>3, <2>4
<1>15. PoolProofs!Trade
  <2>1. CASE i = 0
    <3>1. j = 1
      BY <2>1 DEF j, Other
    <3> QED  BY <1>1, <1>14, <2>1, <3>1 DEF PoolProofs!Trade
  <2>2. CASE i = 1
    <3>1. j = 0
      BY <2>2 DEF j, Other
    <3>2. /\ bank[1][PairAddr] * bank[0][PairAddr]
               = bank[0][PairAddr] * bank[1][PairAddr]
          /\ bank'[1][PairAddr] * bank'[0][PairAddr]
               = bank'[0][PairAddr] * bank'[1][PairAddr]
      BY <1>5, <1>14, <2>2, <3>1
    <3> QED  BY <1>1, <1>14, <2>2, <3>1, <3>2 DEF PoolProofs!Trade
  <2> QED  BY <2>1, <2>2, AssetFacts
<1>16. bank'[0][PairAddr] \in Int /\ bank'[1][PairAddr] \in Int
  BY <1>12, <1>4, AssetFacts DEF BankType
<1> QED  BY <1>1, <1>13, <1>15, <1>16 DEF PoolProofs!Next

LEMMA DonationSound ==
  ASSUME Healthy, NEW u \in Users, NEW i \in Assets, NEW n \in Nat, Donate(u, i, n)
  PROVE  Healthy' /\ PoolProofs!Next
<1>1. /\ bank \in BankType /\ n <= bank[i][u]
      /\ lp' = lp /\ supply' = supply /\ now' = now
      /\ bank' = [bank EXCEPT ![i] = Move(bank[i], u, PairAddr, n)]
  BY DEF Healthy, TypeOK, BankType, Donate
<1>2. u \in Accounts /\ PairAddr \in Accounts /\ u # PairAddr
  BY AccountFacts
<1>3. bank[i] \in [Accounts -> Nat]
  BY <1>1 DEF BankType
<1> DEFINE given == Move(bank[i], u, PairAddr, n)
<1>4. /\ given \in [Accounts -> Nat]
      /\ given[PairAddr] = bank[i][PairAddr] + n
  BY <1>1, <1>2, <1>3, MoveFacts
<1> HIDE DEF given
<1>5. /\ bank' \in BankType /\ bank'[i] = given
      /\ \A k \in Assets \ {i} : bank'[k] = bank[k]
  BY <1>1, <1>4 DEF BankType, given
<1>6. Healthy'
  BY <1>1, <1>5 DEF Healthy, TypeOK, BankType, MinimumLocked, LpSupplyFits
<1>7. ASSUME NEW k \in Assets
      PROVE  bank'[k][PairAddr] \in Nat /\ bank'[k][PairAddr] >= bank[k][PairAddr]
  BY <1>1, <1>2, <1>3, <1>4, <1>5 DEF BankType
<1> QED  BY <1>1, <1>6, <1>7, AssetFacts, ReservesOnlyGrow

LEMMA LpTransferSound ==
  ASSUME Healthy, NEW u \in Users, NEW to \in Accounts, NEW n \in Nat,
         TransferLp(u, to, n)
  PROVE  Healthy' /\ UNCHANGED PoolProofs!vars
<1>1. /\ lp \in [Accounts -> Nat] /\ n <= lp[u] /\ lp' = Move(lp, u, to, n)
      /\ bank' = bank /\ supply' = supply /\ now' = now
  BY DEF Healthy, TypeOK, TransferLp
<1>2. u \in Accounts /\ to \in Accounts /\ PairAddr \in Accounts /\ u # PairAddr
  BY AccountFacts
<1>3. lp' \in [Accounts -> Nat] /\ lp'[PairAddr] >= lp[PairAddr]
  <2>1. lp' \in [Accounts -> Nat] /\ lp[PairAddr] \in Nat
    BY <1>1, <1>2, MoveFacts
  <2>2. CASE to = PairAddr
    <3>1. lp'[PairAddr] = lp[PairAddr] + n
      BY <1>1, <1>2, <2>2, MoveFacts
    <3> QED  BY <2>1, <3>1
  <2>3. CASE to # PairAddr
    <3>1. lp'[PairAddr] = lp[PairAddr]
      BY <1>1, <1>2, <2>3, MoveFacts
    <3> QED  BY <2>1, <3>1
  <2> QED  BY <2>2, <2>3
<1>4. /\ lp[PairAddr] \in Nat /\ lp'[PairAddr] \in Nat /\ MinimumLiquidity \in Nat
  BY <1>1, <1>2, <1>3, MinimumAssumption
<1> QED  BY <1>1, <1>3, <1>4
         DEF Healthy, TypeOK, MinimumLocked, LpSupplyFits, PoolProofs!vars

LEMMA TickSound ==
  ASSUME Healthy, Tick
  PROVE  Healthy' /\ UNCHANGED PoolProofs!vars
BY DEF Healthy, Tick, TypeOK, MinimumLocked, LpSupplyFits, PoolProofs!vars

-----------------------------------------------------------------------------
(* Every step is sound and is a step of the pool or hidden from it. *)
LEMMA EveryStepHealthy ==
  Healthy /\ [Next]_vars =>
    Healthy' /\ [PoolProofs!Next]_(PoolProofs!vars)
<1> SUFFICES ASSUME Healthy, [Next]_vars
             PROVE  Healthy' /\ [PoolProofs!Next]_(PoolProofs!vars)
  OBVIOUS
<1>1. CASE UNCHANGED vars
  BY <1>1 DEF vars, Healthy, TypeOK, MinimumLocked, LpSupplyFits,
              PoolProofs!vars
<1>2. /\ Amounts \subseteq Nat /\ Deposits \subseteq [Assets -> Nat]
      /\ Receivers \subseteq Accounts
  BY InputsAssumption, AccountFacts DEF Deposits
<1>3. ASSUME NEW u \in Users, NEW deposit \in Deposits, NEW receiver \in Receivers,
             NEW slippage \in Limits, NEW deadline \in Deadlines,
             \/ ProvideFirst(u, deposit, receiver, slippage, deadline)
             \/ ProvideMore(u, deposit, receiver, slippage, deadline)
      PROVE  Healthy' /\ PoolProofs!Next
  BY <1>2, <1>3, FirstDepositSound, LaterDepositSound
<1>4. ASSUME NEW u \in Users, NEW amount \in Amounts, NEW minAssets \in Minimums,
             NEW deadline \in Deadlines,
             WithdrawLiquidity(u, amount, minAssets, deadline)
      PROVE  Healthy' /\ PoolProofs!Next
  BY <1>2, <1>4, WithdrawalSound
<1>5. ASSUME NEW u \in Users, NEW i \in Assets, NEW offer \in Amounts,
             NEW beliefPrice \in Prices, NEW maxSpread \in Limits,
             NEW to \in Receivers, NEW deadline \in Deadlines,
             \/ SwapNative(u, i, offer, beliefPrice, maxSpread, to, deadline)
             \/ ReceiveCw20(u, i, offer, beliefPrice, maxSpread, to, deadline)
      PROVE  Healthy' /\ PoolProofs!Next
  <2>1. Swap(u, i, offer, beliefPrice, maxSpread, to, deadline)
    BY <1>5 DEF SwapNative, ReceiveCw20
  <2> QED  BY <1>2, <2>1, SwapSound
<1>6. ASSUME NEW u \in Users, NEW i \in Assets, NEW n \in Amounts, Donate(u, i, n)
      PROVE  Healthy' /\ PoolProofs!Next
  BY <1>2, <1>6, DonationSound
<1>7. ASSUME NEW u \in Users, NEW to \in Receivers, NEW n \in Amounts,
             TransferLp(u, to, n)
      PROVE  Healthy' /\ UNCHANGED PoolProofs!vars
  BY <1>2, <1>7, LpTransferSound
<1>8. CASE Tick
  BY <1>8, TickSound
<1> QED  BY <1>1, <1>3, <1>4, <1>5, <1>6, <1>7, <1>8 DEF Next

LEMMA InitiallyHealthy == Init => Healthy /\ PoolProofs!Init
<1> SUFFICES ASSUME Init
             PROVE  Healthy /\ PoolProofs!Init
  OBVIOUS
<1>1. ASSUME NEW i \in Assets, NEW a \in Accounts
      PROVE  bank[i][a] \in Nat
  <2>1. bank[i][a] = IF a \in Users THEN Genesis[i][a] ELSE 0
    BY DEF Init
  <2> QED  BY <2>1, InputsAssumption
<1>2. bank = [i \in Assets |-> [a \in Accounts |-> bank[i][a]]]
  BY DEF Init
<1>3. bank \in [Assets -> [Accounts -> Nat]]
  BY <1>1, <1>2
<1>4. Healthy
  BY <1>3, Uint128Assumption
     DEF Init, Healthy, TypeOK, MinimumLocked, LpSupplyFits, FitsUint128
<1>5. PoolProofs!Init
  BY <1>1, AssetFacts, AccountFacts DEF Init, PoolProofs!Init
<1> QED  BY <1>4, <1>5

LEMMA AlwaysHealthy == Spec => []Healthy
BY InitiallyHealthy, EveryStepHealthy, PTL DEF Spec

LEMMA ImplementsPoolProofs == Spec => PoolProofs!Spec
<1>1. Init => PoolProofs!Init
  BY InitiallyHealthy
<1>2. Healthy /\ [Next]_vars => [PoolProofs!Next]_(PoolProofs!vars)
  BY EveryStepHealthy
<1> QED  BY <1>1, <1>2, AlwaysHealthy, PTL DEF Spec, PoolProofs!Spec

-----------------------------------------------------------------------------
(* TypeOK: no subtraction of a handler makes a balance negative. *)
THEOREM TypeCorrect == Spec => []TypeOK
<1>1. Healthy => TypeOK
  BY DEF Healthy
<1> QED  BY <1>1, AlwaysHealthy, PTL

(* MinimumLocked: what withdraw_liquidity burns from the pair's own balance *)
(* is only what came with the message, never the locked minimum.           *)
THEOREM MinimumStaysLocked == Spec => []MinimumLocked
<1>1. Healthy => MinimumLocked
  BY DEF Healthy
<1> QED  BY <1>1, AlwaysHealthy, PTL

(* LpSupplyFits: the first deposit mints in all the square root that was   *)
(* converted to a Uint128, and later ones are checked, as a redemption     *)
(* only takes from the supply.                                             *)
THEOREM SupplyStaysUint128 == Spec => []LpSupplyFits
<1>1. Healthy => LpSupplyFits
  BY DEF Healthy
<1> QED  BY <1>1, AlwaysHealthy, PTL

(* ImplementsPool: every transaction of the pair is a step of the abstract *)
(* pool, whatever the rounding, the decimals and the rate.                 *)
THEOREM PairImplementsPool == Spec => ImplementsPool
<1>1. PoolProofs!Init => Pool!Init
  BY DEF PoolProofs!Init, Pool!Init
<1>2. [PoolProofs!Next]_(PoolProofs!vars) => [Pool!Next]_(Pool!vars)
  BY DEF PoolProofs!Next, PoolProofs!vars, Pool!Next, Pool!vars,
         PoolProofs!Open, PoolProofs!Deposit, PoolProofs!Redeem, PoolProofs!Trade,
         Pool!Open, Pool!Deposit, Pool!Redeem, Pool!Trade,
         PoolProofs!PartKept, Pool!PartKept, PoolProofs!Covers, Pool!Covers
<1> QED  BY <1>1, <1>2, ImplementsPoolProofs, PTL
         DEF ImplementsPool, Pool!Spec, PoolProofs!Spec

(* LpBacked: the reserves always cover the LP supply. *)
THEOREM LpAlwaysBacked == Spec => []LpBacked
<1>1. PoolProofs!Backed => LpBacked
  BY DEF PoolProofs!Backed, PoolProofs!Covers, LpBacked, Pool!Backed, Pool!Covers
<1> QED  BY <1>1, ImplementsPoolProofs, PoolProofs!AlwaysBacked, PTL

(* SharePriceNeverFalls: no transaction dilutes the remaining LP tokens. *)
THEOREM PriceOfShareNeverFalls == Spec => SharePriceNeverFalls
<1>1. [supply > 0 => PoolProofs!PriceKept(bank[0][PairAddr], bank[1][PairAddr], supply,
                        (bank[0][PairAddr])', (bank[1][PairAddr])', supply')]_(PoolProofs!vars)
      => [supply > 0 => Pool!PriceKept(bank[0][PairAddr], bank[1][PairAddr], supply,
                        (bank[0][PairAddr])', (bank[1][PairAddr])', supply')]_(Pool!vars)
  BY DEF PoolProofs!PriceKept, Pool!PriceKept, PoolProofs!vars, Pool!vars
<1> QED  BY <1>1, ImplementsPoolProofs, PoolProofs!PriceNeverFalls, PTL
         DEF SharePriceNeverFalls, Pool!SharePriceNeverFalls,
             PoolProofs!SharePriceNeverFalls

-----------------------------------------------------------------------------
(* The LP tokens: all that were minted and not burnt are somewhere.        *)

LpAddsUp == SumFunction(lp) = supply

LEMMA AccountsFinite == IsFiniteSet(Accounts)
<1>1. IsFiniteSet(Users \union {PairAddr})
  BY AccountsAssumption, FS_AddElement
<1>2. IsFiniteSet((Users \union {PairAddr}) \union {FeeWallet})
  BY <1>1, FS_AddElement
<1>3. IsFiniteSet(((Users \union {PairAddr}) \union {FeeWallet}) \union {BurnAddr})
  BY <1>2, FS_AddElement
<1>4. Accounts = ((Users \union {PairAddr}) \union {FeeWallet}) \union {BurnAddr}
  BY DEF Accounts
<1> QED  BY <1>3, <1>4

LEMMA MintAdds ==
  ASSUME NEW balances \in [Accounts -> Nat], NEW receiver \in Accounts,
         NEW share \in Nat
  PROVE  SumFunction(Mint(balances, receiver, share)) = SumFunction(balances) + share
<1> DEFINE minted == Mint(balances, receiver, share)
<1>1. /\ balances \in [Accounts -> Int] /\ balances[receiver] \in Nat
      /\ minted = [balances EXCEPT ![receiver] = balances[receiver] + share]
  BY DEF Mint
<1> HIDE DEF minted
<1>2. minted \in [Accounts -> Int] /\ minted[receiver] = balances[receiver] + share
  BY <1>1
<1>3. \A a \in Accounts \ {receiver} : minted[a] = balances[a]
  BY <1>1
<1>4. balances \in [Accounts -> Int] /\ minted \in [Accounts -> Int]
  BY <1>1, <1>2
<1>5. /\ SumFunction(balances) \in Int
      /\ SumFunction(minted)
           = SumFunction(balances) + minted[receiver] - balances[receiver]
  BY ONLY <1>3, <1>4, receiver \in Accounts, AccountsFinite, SumChange
<1>6. SumFunction(minted) = SumFunction(balances) + share
  BY <1>1, <1>2, <1>5
<1> QED  BY <1>6 DEF minted

(* A redemption takes what the holder sent out of the pair again. *)
LEMMA RedemptionSubtracts ==
  ASSUME NEW balances \in [Accounts -> Nat], NEW u \in Users,
         NEW amount \in Nat, amount <= balances[u], NEW after,
         after = [Move(balances, u, PairAddr, amount) EXCEPT ![PairAddr] = @ - amount]
  PROVE  SumFunction(after) = SumFunction(balances) - amount
<1> DEFINE received == Move(balances, u, PairAddr, amount)
<1>1. u \in Accounts /\ PairAddr \in Accounts /\ u # PairAddr
  BY AccountFacts
<1>2. /\ received \in [Accounts -> Nat]
      /\ SumFunction(received) = SumFunction(balances)
  BY <1>1, AccountsFinite, MoveFacts, MoveKeepsSum
<1>3. after = [received EXCEPT ![PairAddr] = received[PairAddr] - amount]
  OBVIOUS
<1> HIDE DEF received
<1>4. received \in [Accounts -> Int] /\ received[PairAddr] \in Int
  BY <1>1, <1>2
<1>5. after \in [Accounts -> Int] /\ after[PairAddr] = received[PairAddr] - amount
  <2>1. received[PairAddr] - amount \in Int
    BY <1>4
  <2> QED  BY ONLY <1>1, <1>3, <1>4, <2>1
<1>6. \A a \in Accounts \ {PairAddr} : after[a] = received[a]
  BY <1>3, <1>4
<1>7. /\ SumFunction(received) \in Int
      /\ SumFunction(after)
           = SumFunction(received) + after[PairAddr] - received[PairAddr]
  BY ONLY <1>1, <1>4, <1>5, <1>6, AccountsFinite, SumChange
<1> QED  BY <1>2, <1>4, <1>5, <1>7

LEMMA LpAddsUpInitially == Init => LpAddsUp
<1> SUFFICES ASSUME Init
             PROVE  SumFunction(lp) = 0
  BY DEF Init, LpAddsUp
<1>1. lp \in [Accounts -> Int] /\ \A a \in Accounts : lp[a] = 0
  BY DEF Init
<1> QED  BY <1>1, AccountsFinite, SumZero

LEMMA LpKeepsAddingUp == Healthy /\ LpAddsUp /\ [Next]_vars => LpAddsUp'
<1> SUFFICES ASSUME Healthy, LpAddsUp, [Next]_vars
             PROVE  SumFunction(lp') = supply'
  BY DEF LpAddsUp
<1>1. /\ lp \in [Accounts -> Nat] /\ supply \in Nat /\ bank \in BankType
      /\ SumFunction(lp) = supply
      /\ PairAddr \in Accounts /\ Receivers \subseteq Accounts /\ Users \subseteq Accounts
      /\ Amounts \subseteq Nat /\ Deposits \subseteq [Assets -> Nat]
  BY AccountFacts, InputsAssumption DEF Healthy, TypeOK, BankType, LpAddsUp, Deposits
<1>2. CASE UNCHANGED vars
  BY <1>1, <1>2 DEF vars
<1>3. ASSUME NEW u \in Users, NEW deposit \in Deposits, NEW receiver \in Receivers,
             NEW slippage \in Limits, NEW deadline \in Deadlines,
             ProvideFirst(u, deposit, receiver, slippage, deadline)
      PROVE  SumFunction(lp') = supply'
  <2> DEFINE share  == InitialShare(deposit)
             locked == Mint(lp, PairAddr, MinimumLiquidity)
  <2>1. share \in Nat /\ MinimumLiquidity \in Nat
    <3>1. deposit[0] * deposit[1] \in Nat
      BY <1>1, AssetFacts, TimesNat
    <3>2. ISqrt(deposit[0] * deposit[1]) \in Nat
      BY <3>1, ISqrtBounds
    <3>3. share > 0 /\ MinimumLiquidity \in Nat
      BY <1>3, MinimumAssumption DEF ProvideFirst
    <3> QED  BY <3>2, <3>3 DEF InitialShare
  <2>2. /\ lp' = Mint(locked, receiver, share)
        /\ supply' = supply + MinimumLiquidity + share
    BY <1>3 DEF ProvideFirst, MintFirst
  <2>3. SumFunction(locked) = supply + MinimumLiquidity
    BY <1>1, <2>1, MintAdds
  <2>4. locked \in [Accounts -> Nat]
    BY <1>1, <2>1 DEF Mint
  <2> HIDE DEF locked, share
  <2> QED  BY <1>1, <2>1, <2>2, <2>3, <2>4, MintAdds
<1>4. ASSUME NEW u \in Users, NEW deposit \in Deposits, NEW receiver \in Receivers,
             NEW slippage \in Limits, NEW deadline \in Deadlines,
             ProvideMore(u, deposit, receiver, slippage, deadline)
      PROVE  SumFunction(lp') = supply'
  <2> DEFINE share == Share(deposit, Pools(bank), supply)
  <2>1. PoolsBefore(Credited(u, deposit), deposit) = Pools(bank)
    BY <1>1, <1>4, PoolsBeforeAreThePools DEF ProvideMore
  <2>2. /\ lp' = Mint(lp, receiver, share) /\ supply' = supply + share
        /\ ShareDefined(deposit, Pools(bank), supply) /\ supply > 0
    BY <1>4, <2>1 DEF ProvideMore
  <2>3. share \in Nat
    <3>1. Pools(bank) \in [Assets -> Nat] /\ deposit \in [Assets -> Nat]
      BY <1>1 DEF Pools, BankType
    <3> QED  BY <1>1, <2>2, <3>1, ShareWithinDeposits
  <2> HIDE DEF share
  <2> QED  BY <1>1, <2>2, <2>3, MintAdds
<1>5. ASSUME NEW u \in Users, NEW amount \in Amounts, NEW minAssets \in Minimums,
             NEW deadline \in Deadlines,
             WithdrawLiquidity(u, amount, minAssets, deadline)
      PROVE  SumFunction(lp') = supply'
  <2>1. /\ amount \in Nat /\ amount <= lp[u] /\ supply' = supply - amount
        /\ lp' = [Move(lp, u, PairAddr, amount) EXCEPT ![PairAddr] = @ - amount]
    BY <1>1, <1>5 DEF WithdrawLiquidity, WithdrawAllowed, Received
  <2> QED  BY <1>1, <2>1, RedemptionSubtracts
<1>6. ASSUME NEW u \in Users, NEW to \in Receivers, NEW n \in Amounts,
             TransferLp(u, to, n)
      PROVE  SumFunction(lp') = supply'
  <2>1. u \in Accounts /\ to \in Accounts /\ n \in Nat /\ n <= lp[u]
    BY <1>1, <1>6 DEF TransferLp
  <2>2. lp' = Move(lp, u, to, n) /\ supply' = supply
    BY <1>6 DEF TransferLp
  <2> QED  BY <1>1, <2>1, <2>2, AccountsFinite, MoveKeepsSum
<1>7. ASSUME UNCHANGED <<lp, supply>>
      PROVE  SumFunction(lp') = supply'
  BY <1>1, <1>7
<1> QED  BY <1>2, <1>3, <1>4, <1>5, <1>6, <1>7
         DEF Next, SwapNative, ReceiveCw20, Swap, Donate, Tick

(* Nobody owns more than there is. *)
LEMMA HoldingWithinSupply ==
  ASSUME Healthy, LpAddsUp, NEW u \in Users
  PROVE  lp[u] <= supply
<1>1. u \in Accounts /\ lp \in [Accounts -> Nat]
  BY AccountFacts DEF Healthy, TypeOK
<1> DEFINE remaining == Over(lp, Accounts \ {u})
<1>2. SumFunction(lp) = lp[u] + SumFunction(remaining)
  BY <1>1, AccountsFinite, SumSplit
<1>3. IsFiniteSet(Accounts \ {u}) /\ remaining \in [Accounts \ {u} -> Nat]
  BY <1>1, AccountsFinite, FS_RemoveElement DEF Over
<1>4. SumFunction(remaining) \in Nat
  BY <1>3, SumNat
<1> HIDE DEF remaining
<1>5. lp[u] \in Nat
  BY <1>1
<1> QED  BY <1>2, <1>4, <1>5 DEF LpAddsUp

(* ExitPossible: whoever holds LP tokens can redeem all of them, whatever  *)
(* happened before.                                                        *)
THEOREM HoldersCanExit == Spec => []ExitPossible
<1>1. Healthy /\ LpAddsUp => ExitPossible
  <2> SUFFICES ASSUME Healthy, LpAddsUp, NEW u \in Users, lp[u] > 0,
                      \A i \in NativeAssets : Refunds(lp[u])[i] > 0
               PROVE  WithdrawAllowed(u, lp[u], None, None)
    BY DEF ExitPossible
  <2>1. DeadlineMet(now, None) /\ MinimumMet(Refunds(lp[u]), None)
    BY DEF DeadlineMet, MinimumMet
  <2>2. lp[u] \in Nat /\ lp[u] <= supply
    BY HoldingWithinSupply, AccountFacts DEF Healthy, TypeOK
  <2>3. \A i \in Assets : Sendable(i \in NativeAssets, Refunds(lp[u])[i])
    BY DEF Sendable
  <2> QED  BY <2>1, <2>2, <2>3 DEF WithdrawAllowed
<1>2. Spec => []LpAddsUp
  BY LpAddsUpInitially, LpKeepsAddingUp, AlwaysHealthy, PTL DEF Spec
<1> QED  BY <1>1, <1>2, AlwaysHealthy, PTL

-----------------------------------------------------------------------------
(* Action properties follow from the invariant before the step. *)

(* SimulationMatchesSwap: a swap pays what the query answers before it. *)
THEOREM SimulationAlwaysMatches == Spec => SimulationMatchesSwap
<1>1. ASSUME Healthy, NEW u \in Users, NEW to \in Users, NEW i \in Assets,
             NEW offer \in Amounts,
             SwapNative(u, i, offer, None, None, to, None)
             \/ ReceiveCw20(u, i, offer, None, None, to, None)
      PROVE  /\ SimulationDefined(i, offer)
             /\ bank'[Other(i)][to] - bank[Other(i)][to] = Simulation(i, offer).return
  <2>1. Swap(u, i, offer, None, None, to, None)
    BY <1>1 DEF SwapNative, ReceiveCw20
  <2>2. offer \in Nat
    BY InputsAssumption
  <2> QED  BY <1>1, <2>1, <2>2, SwapPays DEF Healthy
<1>2. ASSUME Healthy, [Next]_vars
      PROVE  [\A u, to \in Users, i \in Assets, offer \in Amounts :
               /\ bank'[i] = Move(bank[i], u, PairAddr, offer)
               /\ SwapNative(u, i, offer, None, None, to, None)
                  \/ ReceiveCw20(u, i, offer, None, None, to, None)
               => /\ SimulationDefined(i, offer)
                  /\ bank'[Other(i)][to] - bank[Other(i)][to]
                       = Simulation(i, offer).return]_vars
  BY <1>1, <1>2
<1> QED  BY <1>2, AlwaysHealthy, PTL DEF Spec, SimulationMatchesSwap

-----------------------------------------------------------------------------
(* Pairs of transactions.                                                  *)

(* A share redeemed right after its deposit. *)
LEMMA RedeemedDeposit ==
  ASSUME NEW pool \in Nat, NEW share \in Nat \ {0}, NEW total \in Nat \ {0},
         NEW deposit \in Nat, share * pool <= deposit * total
  PROVE  LET desired == DesiredAmount(pool, share, total)
         IN  /\ desired <= deposit
             /\ Refund(pool + desired, share, total + share) <= desired
<1> DEFINE desired == DesiredAmount(pool, share, total)
           refund  == Refund(pool + desired, share, total + share)
<1>1. desired \in Nat /\ pool * share <= desired * total /\ desired <= deposit
  BY DesiredCoversShare, DesiredWithinDeposit
<1> HIDE DEF desired
<1>2. /\ pool + desired \in Nat /\ total + share \in Nat \ {0}
      /\ share <= total + share
  BY <1>1
<1>3. refund \in Nat /\ refund * (total + share) <= (pool + desired) * share
  BY <1>2, RefundWithinPart
<1> HIDE DEF refund
<1>4. (pool + desired) * share = pool * share + desired * share
  BY <1>1
<1>5. desired * (total + share) = desired * total + desired * share
  BY <1>1
<1>6. /\ pool * share \in Nat /\ desired * share \in Nat /\ desired * total \in Nat
      /\ refund * (total + share) \in Nat
  BY <1>1, <1>2, <1>3, TimesNat
<1>7. refund * (total + share) <= desired * (total + share)
  BY <1>1, <1>3, <1>4, <1>5, <1>6
<1>8. refund <= desired
  BY <1>1, <1>2, <1>3, <1>7, TimesCancel
<1> QED  BY <1>1, <1>8 DEF desired, refund

(* DepositRoundTripLoses: provide_liquidity charges no more than was       *)
(* deposited, and withdrawing at once returns no more than it charged.     *)
THEOREM DepositRoundTripNeverGains == Spec => []DepositRoundTripLoses
<1>1. Healthy => DepositRoundTripLoses
  <2> SUFFICES ASSUME Healthy, supply > 0, NEW deposit \in Deposits,
                      ShareDefined(deposit, Pools(bank), supply),
                      Share(deposit, Pools(bank), supply) > 0,
                      NEW i \in Assets
               PROVE  LET share   == Share(deposit, Pools(bank), supply)
                          desired == DesiredAmount(Pools(bank)[i], share, supply)
                      IN  /\ desired <= deposit[i]
                          /\ Refund(Pools(bank)[i] + desired, share, supply + share)
                               <= desired
    BY DEF DepositRoundTripLoses
  <2>1. deposit \in [Assets -> Nat] /\ deposit[i] \in Nat
    BY InputsAssumption DEF Deposits
  <2>2. /\ Pools(bank) \in [Assets -> Nat] /\ Pools(bank)[i] \in Nat
        /\ supply \in Nat \ {0}
    BY AccountFacts DEF Healthy, TypeOK, Pools
  <2>3. /\ Share(deposit, Pools(bank), supply) \in Nat \ {0}
        /\ Share(deposit, Pools(bank), supply) * Pools(bank)[i] <= deposit[i] * supply
    BY <2>1, <2>2, ShareWithinDeposits
  <2> QED  BY <2>1, <2>2, <2>3, RedeemedDeposit
<1> QED  BY <1>1, AlwaysHealthy, PTL

(* Two trades that keep the product cannot return more than was offered.   *)
LEMMA ProductKeptTwice ==
  ASSUME NEW a \in Nat, NEW b \in Nat, NEW offer \in Nat,
         NEW left \in Nat, NEW back \in Nat, NEW c \in Nat, NEW final \in Nat,
         a * b <= (a + offer) * left,
         c <= b, left * (a + offer) <= c * final,
         final <= a + offer - back, back <= a + offer,
         b > 0, a > 0
  PROVE  back <= offer
<1> SUFFICES ASSUME back > offer
             PROVE  FALSE
  OBVIOUS
<1>1. a - 1 \in Nat /\ final <= a - 1
  OBVIOUS
<1>2. c * final <= b * (a - 1)
  BY <1>1, TimesMonotone
<1>3. (a + offer) * left = left * (a + offer)
  OBVIOUS
<1>4. b * (a - 1) = a * b - b
  OBVIOUS
<1>5. /\ a * b \in Nat /\ c * final \in Nat /\ left * (a + offer) \in Nat
      /\ b * (a - 1) \in Nat
  BY <1>1, TimesNat
<1> QED  BY <1>2, <1>3, <1>4, <1>5

(* SwapRoundTripLoses: selling what a swap returned, at once, never returns *)
(* more than the swap cost, whatever the decimals of the two assets.       *)
THEOREM SwapRoundTripNeverGains == Spec => []SwapRoundTripLoses
<1>1. Healthy => SwapRoundTripLoses
  <2> SUFFICES ASSUME Healthy, NEW i \in Assets, NEW offer \in Amounts,
                      SimulationDefined(i, offer)
               PROVE  LET there == Simulation(i, offer)
                          cut   == FeeCut(there.commission)
                          poolI == Pools(bank)[i] + offer
                          poolJ == Pools(bank)[Other(i)] - there.return - 2 * cut
                      IN  ComputeSwapDefined(Other(i), poolJ, poolI, there.return) =>
                            ComputeSwap(Other(i), poolJ, poolI, there.return).return
                              <= offer
    BY DEF SwapRoundTripLoses
  <2> DEFINE a     == Pools(bank)[i]
             b     == Pools(bank)[Other(i)]
             there == Simulation(i, offer)
             cut   == FeeCut(there.commission)
             poolI == a + offer
             poolJ == b - there.return - 2 * cut
             back  == ComputeSwap(Other(i), poolJ, poolI, there.return)
             cutI  == FeeCut(back.commission)
  <2> SUFFICES ASSUME ComputeSwapDefined(Other(i), poolJ, poolI, there.return)
               PROVE  back.return <= offer
    OBVIOUS
  <2>1. offer \in Nat /\ Other(i) \in Assets
    BY InputsAssumption, AssetFacts
  <2>2. a \in Nat /\ b \in Nat
    BY <2>1, AccountFacts DEF Healthy, TypeOK, Pools
  <2>3. /\ ComputeSwapDefined(i, a, b, offer)
        /\ there = ComputeSwap(i, a, b, offer)
    BY DEF Simulation, SimulationDefined
  <2> HIDE DEF a, b, there
  <2>4. /\ there.return \in Nat /\ cut \in Nat
        /\ there.return + 2 * cut <= b
        /\ a * b <= (a + offer) * (b - (there.return + 2 * cut))
    BY <2>1, <2>2, <2>3, SwapKeepsProduct
  <2> HIDE DEF cut
  <2>5. poolI \in Nat /\ poolJ \in Nat /\ poolJ = b - (there.return + 2 * cut)
    BY <2>1, <2>2, <2>4
  <2>6. a * b <= poolI * poolJ
    BY <2>4, <2>5
  <2> HIDE DEF poolI, poolJ
  <2>7. /\ back.return \in Nat /\ cutI \in Nat
        /\ back.return + 2 * cutI <= poolI
        /\ poolJ * poolI <= (poolJ + there.return) * (poolI - (back.return + 2 * cutI))
    BY <2>1, <2>4, <2>5, SwapKeepsProduct
  <2> HIDE DEF back, cutI
  <2>8. a > 0 /\ poolJ > 0
    <3>1. Scale[i] \in Nat \ {0} /\ Scale[Other(i)] \in Nat \ {0}
      BY <2>1, ScaleAssumption
    <3>2. a * Scale[i] > 0 /\ poolJ * Scale[Other(i)] > 0
      BY <2>3 DEF ComputeSwapDefined, SwapRawDefined
    <3> QED  BY <2>2, <2>5, <3>1, <3>2
  <2>9. b > 0 /\ poolJ + there.return \in Nat /\ poolJ + there.return <= b
    BY <2>2, <2>4, <2>5, <2>8
  <2> DEFINE c     == poolJ + there.return
             final == poolI - (back.return + 2 * cutI)
  <2>10. /\ final \in Nat /\ final <= a + offer - back.return
         /\ back.return <= a + offer
    <3>1. poolI = a + offer
      BY DEF poolI
    <3> QED  BY <2>1, <2>2, <2>5, <2>7, <3>1
  <2>11. /\ a * b <= (a + offer) * poolJ
         /\ poolJ * (a + offer) <= c * final
    BY <2>6, <2>7 DEF poolI
  <2>12. c \in Nat /\ c <= b
    BY <2>9
  <2> HIDE DEF c, final
  <2> QED  BY <2>1, <2>2, <2>5, <2>7, <2>8, <2>9, <2>10, <2>11, <2>12,
              ProductKeptTwice
<1> QED  BY <1>1, AlwaysHealthy, PTL

(* ReverseQuoteSuffices: what query_reverse_simulation quotes, offered at   *)
(* once, buys what was asked for but for the units lost to rounding.       *)
THEOREM ReverseQuoteBuys == Spec => []ReverseQuoteSuffices
<1>1. Healthy => ReverseQuoteSuffices
  <2> SUFFICES ASSUME Healthy, NEW i \in Assets, NEW ask \in Amounts,
                      ReverseSimulationDefined(i, ask),
                      SimulationDefined(Other(i), ReverseSimulation(i, ask).offer)
               PROVE  Simulation(Other(i), ReverseSimulation(i, ask).offer).return
                        >= ask - (1 + ask \div One)
    BY DEF ReverseQuoteSuffices
  <2> DEFINE j     == Other(i)
             offer == ReverseSimulation(i, ask).offer
  <2>1. j \in Assets /\ Other(j) = i /\ ask \in Nat
    BY InputsAssumption DEF Assets, Other
  <2> HIDE DEF j
  <2>2. Pools(bank)[i] \in Nat /\ Pools(bank)[j] \in Nat
    BY <2>1, AccountFacts DEF Healthy, TypeOK, Pools
  <2>3. /\ OfferAmountDefined(Pools(bank)[j], Pools(bank)[i], ask)
        /\ offer = OfferAmount(Pools(bank)[j], Pools(bank)[i], ask).offer
    BY DEF j, ReverseSimulationDefined, ReverseSimulation
  <2>4. ComputeSwapDefined(j, Pools(bank)[j], Pools(bank)[i], offer)
    BY <2>1 DEF SimulationDefined, j
  <2> HIDE DEF offer
  <2>5. ComputeSwap(j, Pools(bank)[j], Pools(bank)[i], offer).return
          >= ask - (1 + ask \div One)
    BY <2>1, <2>2, <2>3, <2>4, ReverseQuotePays
  <2> QED  BY <2>1, <2>5 DEF Simulation, j, offer
<1> QED  BY <1>1, AlwaysHealthy, PTL

-----------------------------------------------------------------------------
(* Limits that were written in an earlier state (PairMempool).             *)

(* What the pair owns and a signed transaction asks of a pool is a natural *)
(* number, also when more is redeemed than there is.                       *)
LEMMA RefundIsNat ==
  ASSUME NEW pool \in Nat, NEW amount \in Nat, NEW total \in Nat \ {0}
  PROVE  Refund(pool, amount, total) \in Nat
<1>1. One \in Nat \ {0} /\ amount * One \in Nat
  BY OneAssumption, TimesNat
<1> DEFINE ratio == (amount * One) \div total
<1>2. ratio \in Nat
  BY <1>1, DivBounds
<1> HIDE DEF ratio
<1>3. pool * ratio \in Nat
  BY <1>2, TimesNat
<1> QED  BY <1>1, <1>3, DivBounds DEF Refund, MulFloor, FromRatio, ratio

(* What signing leaves in a transaction; the belief price is that of its   *)
(* quote.                                                                  *)
Signed(o) ==
  /\ o.user \in Users
  /\ o.kind = "swap" =>
       /\ o.asset \in Assets /\ o.offer \in Nat /\ o.quote \in Nat \ {0}
       /\ o.belief = BeliefPrice(o.asset, o.offer, o.quote)
       /\ o.tolerance \in Nat
  /\ o.kind = "withdraw" => o.amount \in Nat /\ o.minimum \in [Assets -> Nat]
  /\ o.kind = "deposit" => o.deposit \in [Assets -> Nat] /\ o.tolerance \in Nat

MempoolSound == Healthy /\ \A o \in mempool : Signed(o)

LEMMA SimulationIsNat ==
  ASSUME Healthy, NEW i \in Assets, NEW offer \in Nat, SimulationDefined(i, offer)
  PROVE  Simulation(i, offer).return \in Nat
<1>1. Pools(bank)[i] \in Nat /\ Pools(bank)[Other(i)] \in Nat
  BY AssetFacts, AccountFacts DEF Healthy, TypeOK, Pools
<1> QED  BY <1>1, SwapKeepsProduct DEF Simulation, SimulationDefined

LEMMA SubmitSound ==
  ASSUME MempoolSound, NEW order, Signed(order), Submit(order)
  PROVE  MempoolSound'
<1>1. Healthy'
  BY EveryStepHealthy DEF MempoolSound, Submit
<1>2. \A o \in mempool' : Signed(o)
  BY DEF MempoolSound, Submit
<1> QED  BY <1>1, <1>2 DEF MempoolSound, Signed, BeliefPrice

LEMMA SigningSound ==
  ASSUME MempoolSound, NEW u \in Signers
  PROVE  /\ \A i \in Assets, offer \in Amounts, tolerance \in Tolerances, expiry \in Expiries :
              SignSwap(u, i, offer, tolerance, expiry) => MempoolSound'
         /\ \A amount \in Amounts, expiry \in Expiries :
              SignWithdrawal(u, amount, expiry) => MempoolSound'
         /\ \A deposit \in Deposits, tolerance \in Tolerances, expiry \in Expiries :
              SignDeposit(u, deposit, tolerance, expiry) => MempoolSound'
<1>1. /\ u \in Users /\ Tolerances \subseteq Nat /\ Amounts \subseteq Nat
      /\ Deposits \subseteq [Assets -> Nat]
  BY MempoolAssumption, InputsAssumption DEF Deposits
<1>2. ASSUME NEW i \in Assets, NEW offer \in Amounts, NEW tolerance \in Tolerances,
             NEW expiry \in Expiries, SignSwap(u, i, offer, tolerance, expiry)
      PROVE  MempoolSound'
  <2> DEFINE quote == Simulation(i, offer).return
             order == [kind |-> "swap", user |-> u, id |-> signed, asset |-> i,
                       offer |-> offer, quote |-> quote,
                       belief |-> BeliefPrice(i, offer, quote),
                       tolerance |-> tolerance, expiry |-> expiry]
  <2>1. offer \in Nat /\ tolerance \in Nat
    BY <1>1
  <2>2. quote \in Nat \ {0}
    BY <1>2, <2>1, SimulationIsNat DEF SignSwap, MempoolSound
  <2>3. Submit(order)
    BY <1>2 DEF SignSwap
  <2> HIDE DEF quote
  <2>4. Signed(order)
    BY <1>1, <2>1, <2>2 DEF Signed
  <2> HIDE DEF order
  <2> QED  BY <2>3, <2>4, SubmitSound
<1>3. ASSUME NEW amount \in Amounts, NEW expiry \in Expiries, SignWithdrawal(u, amount, expiry)
      PROVE  MempoolSound'
  <2> DEFINE minimum == [i \in Assets |-> Refund(Pools(bank)[i], amount, supply)]
             order   == [kind |-> "withdraw", user |-> u, id |-> signed,
                         amount |-> amount, minimum |-> minimum, expiry |-> expiry]
  <2>1. amount \in Nat /\ supply \in Nat \ {0}
    BY <1>1, <1>3 DEF MempoolSound, Healthy, TypeOK, SignWithdrawal
  <2>2. ASSUME NEW i \in Assets
        PROVE  Refund(Pools(bank)[i], amount, supply) \in Nat
    <3>1. Pools(bank)[i] \in Nat
      BY AccountFacts DEF MempoolSound, Healthy, TypeOK, Pools
    <3> QED  BY <2>1, <3>1, RefundIsNat
  <2>3. minimum \in [Assets -> Nat]
    BY <2>2
  <2>4. Submit(order)
    BY <1>3 DEF SignWithdrawal
  <2> HIDE DEF minimum
  <2>5. Signed(order)
    BY <1>1, <2>1, <2>3 DEF Signed
  <2> HIDE DEF order
  <2> QED  BY <2>4, <2>5, SubmitSound
<1>4. ASSUME NEW deposit \in Deposits, NEW tolerance \in Tolerances, NEW expiry \in Expiries,
             SignDeposit(u, deposit, tolerance, expiry)
      PROVE  MempoolSound'
  <2> DEFINE order == [kind |-> "deposit", user |-> u, id |-> signed,
                       deposit |-> deposit, tolerance |-> tolerance, expiry |-> expiry]
  <2>1. Submit(order)
    BY <1>4 DEF SignDeposit
  <2>2. Signed(order)
    BY <1>1 DEF Signed
  <2> HIDE DEF order
  <2> QED  BY <2>1, <2>2, SubmitSound
<1> QED  BY <1>2, <1>3, <1>4

(* What an executed transaction does to the pair, by kind. *)
LEMMA ExecuteFacts ==
  ASSUME NEW o, Execute(o)
  PROVE  /\ o.kind \in {"swap", "withdraw", "deposit"}
         /\ o.kind = "swap" =>
              Swap(o.user, o.asset, o.offer, o.belief, o.tolerance, o.user, o.expiry)
         /\ o.kind = "withdraw" =>
              WithdrawLiquidity(o.user, o.amount, o.minimum, o.expiry)
         /\ o.kind = "deposit" =>
              ProvideMore(o.user, o.deposit, o.user, o.tolerance, o.expiry)
BY DEF Execute, SwapNative, ReceiveCw20

LEMMA ExecuteSound ==
  ASSUME Healthy, NEW o, Signed(o), Execute(o)
  PROVE  Healthy'
<1>1. o.user \in Users /\ o.user \in Accounts
  BY AccountFacts DEF Signed
<1>2. CASE o.kind = "swap"
  BY <1>1, <1>2, ExecuteFacts, SwapSound DEF Healthy, Signed
<1>3. CASE o.kind = "withdraw"
  BY <1>1, <1>3, ExecuteFacts, WithdrawalSound DEF Healthy, Signed
<1>4. CASE o.kind = "deposit"
  BY <1>1, <1>4, ExecuteFacts, LaterDepositSound DEF Healthy, Signed
<1> QED  BY <1>2, <1>3, <1>4, ExecuteFacts

LEMMA MempoolStepSound ==
  MempoolSound /\ [MempoolNext]_<<vars, queue>> => MempoolSound'
<1> SUFFICES ASSUME MempoolSound, [MempoolNext]_<<vars, queue>>
             PROVE  MempoolSound'
  OBVIOUS
<1>1. ASSUME Healthy', mempool' \subseteq mempool
      PROVE  MempoolSound'
  BY <1>1 DEF MempoolSound, Signed, BeliefPrice
<1>2. UNCHANGED vars => Healthy'
  BY EveryStepHealthy DEF MempoolSound
<1>3. ASSUME NEW o \in mempool, Deliver(o) \/ Drop(o)
      PROVE  MempoolSound'
  BY <1>1, <1>2, <1>3, ExecuteSound DEF MempoolSound, Deliver, Drop
<1>4. CASE Others
  BY <1>1, <1>4, EveryStepHealthy DEF MempoolSound, Others
<1>5. CASE UNCHANGED <<vars, queue>>
  BY <1>1, <1>2, <1>5 DEF queue
<1> QED  BY <1>3, <1>4, <1>5, SigningSound DEF MempoolNext

LEMMA MempoolAlwaysSound == MempoolSpec => []MempoolSound
<1>1. MempoolInit => MempoolSound
  BY InitiallyHealthy DEF MempoolInit, MempoolSound
<1> QED  BY <1>1, MempoolStepSound, PTL DEF MempoolSpec

(* Only a delivery changes the balances and shortens the mempool. *)
LEMMA ExecutedIsDelivered ==
  ASSUME [MempoolNext]_<<vars, queue>>, NEW o \in Executed
  PROVE  o \in mempool /\ Execute(o)
<1>1. bank' # bank /\ o \in mempool /\ o \notin mempool'
  BY DEF Executed
<1>2. ~ UNCHANGED vars
  BY <1>1 DEF vars
<1>3. PICK p \in mempool : Deliver(p)
  BY <1>1, <1>2 DEF MempoolNext, SignSwap, SignWithdrawal, SignDeposit, Submit,
                    Drop, Others, queue, vars
<1>4. p = o
  BY <1>1, <1>3 DEF Deliver
<1> QED  BY <1>1, <1>3, <1>4 DEF Deliver

(* A belief price that is accepted pays the quote it was made of.          *)
LEMMA BeliefPays ==
  ASSUME NEW i \in Assets, NEW offer \in Nat, NEW quote \in Nat \ {0},
         NEW tolerance \in Nat, NEW return \in Nat, NEW spread,
         SpreadAccepted(i, offer, return, spread,
                        BeliefPrice(i, offer, quote), tolerance)
  PROVE  quote * (One - tolerance)
           <= (return + (2 + (offer * Scale[i]) \div One + quote \div One)) * One
<1> DEFINE f        == Scale[i]
           g        == Scale[Other(i)]
           x        == offer * f
           q        == quote * g
           return1  == return * g
           believed == FromRatio(x, q)
           expected == MulFloor(x, Reciprocal(believed))
           k        == x \div One
<1>1. f \in Nat \ {0} /\ g \in Nat \ {0} /\ One \in Nat \ {0}
  BY ScaleAssumption, OneAssumption, AssetFacts
<1> HIDE DEF f, g
<1>2. x \in Nat /\ q \in Nat \ {0} /\ return1 \in Nat
  BY <1>1, TimesNat
<1>3. believed = BeliefPrice(i, offer, quote)
  BY DEF BeliefPrice, f, g
<1> HIDE DEF x, q, return1
<1>4. believed \in Nat
  <2>1. x * One \in Nat
    BY <1>1, <1>2, TimesNat
  <2> QED  BY <1>2, <2>1, DivBounds DEF FromRatio
<1>5. tolerance # None /\ believed # None
  BY <1>4, NoneAssumption
<1>6. /\ believed > 0
      /\ return1 < expected => FromRatio(expected - return1, expected) <= tolerance
  BY <1>3, <1>5 DEF SpreadAccepted, x, return1, f, g
<1> HIDE DEF believed, expected
<1>7. believed = FromRatio(x, q) /\ expected = MulFloor(x, Reciprocal(believed))
  BY DEF believed, expected
<1>8. q * (One - tolerance) <= return1 * One + (x \div One + 1) * One + q
  BY <1>2, <1>6, <1>7, BeliefHonoured
<1>9. k \in Nat
  BY <1>1, <1>2, DivBounds
<1>10. (quote * g) * (One - tolerance) <= (return * g) * One + (k + 1) * One + quote * g
  BY <1>8 DEF q, return1
<1> HIDE DEF k
<1> QED  BY <1>1, <1>9, <1>10, QuoteHonoured DEF k, x, f

(* SwapHonoursQuote: whatever was traded in between, a swap with a belief  *)
(* price pays the quote less the tolerance, up to its rounding.            *)
THEOREM QuotesAreHonoured == MempoolSpec => SwapHonoursQuote
<1>1. ASSUME MempoolSound, [MempoolNext]_<<vars, queue>>,
             NEW o \in Executed, o.kind = "swap"
      PROVE  (Gain(o.user, Other(o.asset)) + LostToRounding(o)) * One
               >= o.quote * (One - o.tolerance)
  <2> DEFINE result == Simulation(o.asset, o.offer)
             return == result.return
  <2>1. Healthy /\ Signed(o) /\ Execute(o)
    BY <1>1, ExecutedIsDelivered DEF MempoolSound
  <2>2. /\ o.user \in Users /\ o.asset \in Assets /\ o.offer \in Nat
        /\ o.quote \in Nat \ {0} /\ o.tolerance \in Nat
        /\ o.belief = BeliefPrice(o.asset, o.offer, o.quote)
    BY <1>1, <2>1 DEF Signed
  <2>3. Swap(o.user, o.asset, o.offer, o.belief, o.tolerance, o.user, o.expiry)
    BY <1>1, <2>1, ExecuteFacts
  <2>4. /\ SpreadAccepted(o.asset, o.offer, return, result.spread,
                          o.belief, o.tolerance)
        /\ return \in Nat
        /\ Gain(o.user, Other(o.asset)) = return
    BY <2>1, <2>2, <2>3, SwapPays DEF Healthy, Gain
  <2> HIDE DEF result
  <2>5. o.quote * (One - o.tolerance)
          <= (return + (2 + (o.offer * Scale[o.asset]) \div One + o.quote \div One)) * One
    BY <2>2, <2>4, BeliefPays
  <2>6. Gain(o.user, Other(o.asset)) + LostToRounding(o)
          = return + (2 + (o.offer * Scale[o.asset]) \div One + o.quote \div One)
    BY <2>4 DEF LostToRounding
  <2> DEFINE paid   == (return + (2 + (o.offer * Scale[o.asset]) \div One
                                    + o.quote \div One)) * One
             quoted == o.quote * (One - o.tolerance)
  <2>7. paid \in Int /\ quoted \in Int
    <3>1. /\ One \in Nat \ {0} /\ Scale[o.asset] \in Nat
      BY <2>2, OneAssumption, ScaleAssumption
    <3>2. o.offer * Scale[o.asset] \in Nat
      BY <2>2, <3>1, TimesNat
    <3>3. (o.offer * Scale[o.asset]) \div One \in Nat /\ o.quote \div One \in Nat
      BY <2>2, <3>1, <3>2, DivBounds
    <3> QED  BY <2>2, <2>4, <3>1, <3>3
  <2>8. quoted <= paid
    BY <2>5
  <2> HIDE DEF paid, quoted
  <2>9. paid >= quoted
    BY <2>7, <2>8
  <2> QED  BY <2>6, <2>9 DEF paid, quoted
<1>2. ASSUME MempoolSound, [MempoolNext]_<<vars, queue>>
      PROVE  [\A o \in Executed : o.kind = "swap" =>
                (Gain(o.user, Other(o.asset)) + LostToRounding(o)) * One
                  >= o.quote * (One - o.tolerance)]_vars
  BY <1>1, <1>2
<1> QED  BY <1>2, MempoolAlwaysSound, PTL DEF MempoolSpec, SwapHonoursQuote

(* A withdrawal pays the refund of the state it is executed in. *)
LEMMA WithdrawalPays ==
  ASSUME Healthy, NEW u \in Users, NEW amount \in Nat, NEW minAssets, NEW deadline,
         WithdrawLiquidity(u, amount, minAssets, deadline), NEW i \in Assets
  PROVE  /\ Gain(u, i) \in Nat
         /\ minAssets # None => Gain(u, i) >= minAssets[i]
<1> DEFINE refund == Refund(Pools(bank)[i], amount, supply)
<1>1. /\ u \in Accounts /\ PairAddr \in Accounts /\ u # PairAddr
      /\ bank[i] \in [Accounts -> Nat] /\ bank[i][PairAddr] \in Nat
      /\ bank[i][u] \in Nat
      /\ Pools(bank)[i] = bank[i][PairAddr]
  BY AccountFacts DEF Healthy, TypeOK, Pools
<1>2. amount <= supply /\ amount > 0 /\ supply \in Nat \ {0}
  BY DEF Healthy, TypeOK, WithdrawLiquidity, WithdrawAllowed
<1>3. refund \in Nat /\ refund <= bank[i][PairAddr]
  BY <1>1, <1>2, RefundWithinPart
<1>4. /\ bank'[i] = Move(bank[i], PairAddr, u, refund)
      /\ minAssets # None => refund >= minAssets[i]
  BY DEF WithdrawLiquidity, WithdrawAllowed, Refunds, MinimumMet
<1> HIDE DEF refund
<1>5. bank'[i][u] = bank[i][u] + refund
  BY <1>1, <1>3, <1>4, MoveFacts
<1>6. Gain(u, i) = refund
  BY <1>1, <1>3, <1>5 DEF Gain
<1> QED  BY <1>3, <1>4, <1>6

(* A deposit costs what is desired of it, which the limit keeps near to it. *)
LEMMA DepositCosts ==
  ASSUME Healthy, NEW u \in Users, NEW deposit \in [Assets -> Nat],
         NEW receiver \in Accounts, NEW tolerance \in Nat, NEW deadline,
         ProvideMore(u, deposit, receiver, tolerance, deadline), NEW i \in Assets
  PROVE  /\ -Gain(u, i) \in Nat /\ -Gain(u, i) <= deposit[i]
         /\ i \in NativeAssets =>
              (-Gain(u, i)) * One >= deposit[i] * (One - tolerance)
<1> DEFINE share   == Share(deposit, Pools(bank), supply)
           desired == [k \in Assets |->
                         DesiredAmount(Pools(bank)[k], share, supply)]
<1>1. /\ bank \in BankType /\ supply \in Nat \ {0}
      /\ Pools(bank) \in [Assets -> Nat]
      /\ FundsSent(u, deposit)
  BY AccountFacts DEF Healthy, TypeOK, BankType, ProvideMore, Pools
<1>2. PoolsBefore(Credited(u, deposit), deposit) = Pools(bank)
  BY <1>1, PoolsBeforeAreThePools
<1>3. /\ ShareDefined(deposit, Pools(bank), supply) /\ share > 0
      /\ SettleDeposit(u, deposit, desired, Credited(u, deposit), tolerance)
  BY <1>2 DEF ProvideMore
<1>4. share \in Nat \ {0}
  BY <1>1, <1>3, ShareWithinDeposits
<1> HIDE DEF share
<1>5. desired \in [Assets -> Nat]
  BY <1>1, <1>4, DesiredCoversShare
<1> HIDE DEF desired
<1>6. bank'[i][u] = bank[i][u] - desired[i]
  BY <1>1, <1>3, <1>5, SettledDeposit
<1>7. /\ desired[i] \in Nat /\ deposit[i] \in Nat /\ desired[i] <= deposit[i]
      /\ bank[i][u] \in Nat
      /\ i \in NativeAssets =>
           deposit[i] - desired[i] <= MulFloor(deposit[i], tolerance)
  BY <1>1, <1>3, <1>5, AccountFacts, NoneAssumption
     DEF BankType, SettleDeposit, SlippageMet, Remainder
<1>8. -Gain(u, i) = desired[i]
  BY <1>6, <1>7 DEF Gain
<1>9. ASSUME i \in NativeAssets
      PROVE  desired[i] * One >= deposit[i] * (One - tolerance)
  <2> DEFINE most == MulFloor(deposit[i], tolerance)
             used == desired[i]
             sent == deposit[i]
  <2>1. One \in Nat \ {0} /\ sent * tolerance \in Nat
    BY <1>7, OneAssumption, TimesNat
  <2>2. most \in Nat /\ most * One <= sent * tolerance
    BY <2>1, DivBounds DEF MulFloor
  <2>3. used \in Nat /\ sent \in Nat /\ used <= sent /\ sent - used <= most
    BY <1>7, <1>9
  <2> HIDE DEF most, used, sent
  <2>4. (sent - used) * One <= most * One
    BY <2>1, <2>2, <2>3, TimesMonotone
  <2>5. (sent - used) * One = sent * One - used * One
    BY <2>1, <2>3
  <2>6. sent * (One - tolerance) = sent * One - sent * tolerance
    BY <2>1, <2>3
  <2>7. sent * One \in Nat /\ used * One \in Nat /\ most * One \in Nat
    BY <2>1, <2>2, <2>3, TimesNat
  <2>8. used * One >= sent * (One - tolerance)
    BY <2>1, <2>2, <2>4, <2>5, <2>6, <2>7
  <2> QED  BY <2>8 DEF used, sent
<1> QED  BY <1>7, <1>8, <1>9

(* LiquidityHonoursLimits: a withdrawal pays the refund that was quoted    *)
(* and a deposit costs no more than it says, and of a coin little less.    *)
THEOREM LimitsAreHonoured == MempoolSpec => LiquidityHonoursLimits
<1>1. ASSUME MempoolSound, [MempoolNext]_<<vars, queue>>,
             NEW o \in Executed, NEW i \in Assets
      PROVE  /\ o.kind = "withdraw" => Gain(o.user, i) >= o.minimum[i]
             /\ o.kind = "deposit" =>
                  /\ -Gain(o.user, i) <= o.deposit[i]
                  /\ i \in NativeAssets =>
                       (-Gain(o.user, i)) * One >= o.deposit[i] * (One - o.tolerance)
  <2>1. Healthy /\ Signed(o) /\ Execute(o)
    BY <1>1, ExecutedIsDelivered DEF MempoolSound
  <2>2. o.user \in Users /\ o.user \in Accounts
    BY <2>1, AccountFacts DEF Signed
  <2>3. ASSUME o.kind = "withdraw"
        PROVE  Gain(o.user, i) >= o.minimum[i]
    <3>1. o.amount \in Nat /\ o.minimum # None
      BY <2>1, <2>3, NoneAssumption DEF Signed
    <3>2. WithdrawLiquidity(o.user, o.amount, o.minimum, o.expiry)
      BY <2>1, <2>3, ExecuteFacts
    <3> QED  BY <2>1, <2>2, <3>1, <3>2, WithdrawalPays
  <2>4. ASSUME o.kind = "deposit"
        PROVE  /\ -Gain(o.user, i) <= o.deposit[i]
               /\ i \in NativeAssets =>
                    (-Gain(o.user, i)) * One >= o.deposit[i] * (One - o.tolerance)
    <3>1. o.deposit \in [Assets -> Nat] /\ o.tolerance \in Nat
      BY <2>1, <2>4 DEF Signed
    <3>2. ProvideMore(o.user, o.deposit, o.user, o.tolerance, o.expiry)
      BY <2>1, <2>4, ExecuteFacts
    <3> QED  BY <2>1, <2>2, <3>1, <3>2, DepositCosts
  <2> QED  BY <2>3, <2>4
<1>2. ASSUME MempoolSound, [MempoolNext]_<<vars, queue>>
      PROVE  [\A o \in Executed, i \in Assets :
                /\ o.kind = "withdraw" => Gain(o.user, i) >= o.minimum[i]
                /\ o.kind = "deposit" =>
                     LET used == -Gain(o.user, i) IN
                     /\ used <= o.deposit[i]
                     /\ i \in NativeAssets =>
                          used * One >= o.deposit[i] * (One - o.tolerance)]_vars
  BY <1>1, <1>2
<1> QED  BY <1>2, MempoolAlwaysSound, PTL DEF MempoolSpec, LiquidityHonoursLimits
=============================================================================
