---------------------------- MODULE RouterProofs ----------------------------
(***************************************************************************)
(* A route that is executed message by message is one exchange, which      *)
(* pays its minimum, and exactly what its simulation answered, and leaves  *)
(* nothing of what was swapped in the router, for any accounts, tokens,    *)
(* pairs, routes and payments.                                             *)
(***************************************************************************)
EXTENDS RouterProperties, PairMathProofs, SequenceTheorems

Rows  == [Accounts -> Nat]
Banks == [Tokens -> Rows]

-----------------------------------------------------------------------------
(* Accounts, pairs and the swaps of a pair.                                *)

LEMMA AccountFacts ==
  /\ Users \subseteq Accounts /\ PairAddrs \subseteq Accounts
  /\ RouterAddr \in Accounts /\ FeeWallet \in Accounts /\ BurnAddr \in Accounts
  /\ \A u \in Users : u \notin PairAddrs \union {RouterAddr, FeeWallet, BurnAddr}
  /\ \A p \in PairAddrs : p \notin Users \union {RouterAddr, FeeWallet, BurnAddr}
  /\ RouterAddr # FeeWallet /\ RouterAddr # BurnAddr /\ FeeWallet # BurnAddr
BY RouterAccountsAssumption DEF Accounts

LEMMA AccountsFinite == IsFiniteSet(Accounts)
<1>1. IsFiniteSet({RouterAddr, FeeWallet, BurnAddr})
  <2>1. IsFiniteSet({RouterAddr})
    BY FS_Singleton
  <2>2. IsFiniteSet({RouterAddr} \union {FeeWallet})
    BY <2>1, FS_AddElement
  <2>3. IsFiniteSet(({RouterAddr} \union {FeeWallet}) \union {BurnAddr})
    BY <2>2, FS_AddElement
  <2>4. ({RouterAddr} \union {FeeWallet}) \union {BurnAddr}
          = {RouterAddr, FeeWallet, BurnAddr}
    OBVIOUS
  <2> QED  BY <2>3, <2>4
<1>2. IsFiniteSet(Users \union PairAddrs)
  BY RouterInputsAssumption, FS_Union
<1> QED  BY <1>1, <1>2, FS_Union DEF Accounts

LEMMA SideFacts ==
  ASSUME NEW p \in PairAddrs, NEW i \in Assets
  PROVE  /\ Other(i) \in Assets /\ Other(i) # i
         /\ Sides[p][i] \in Tokens /\ Sides[p][Other(i)] \in Tokens
         /\ Sides[p][i] # Sides[p][Other(i)]
<1>1. Other(i) \in Assets /\ Other(i) # i /\ {i, Other(i)} = {0, 1}
  BY DEF Assets, Other
<1>2. Sides[p] \in [Assets -> Tokens] /\ Sides[p][0] # Sides[p][1]
  BY RouterPairsAssumption
<1>3. Sides[p][i] # Sides[p][Other(i)]
  <2>1. CASE i = 0
    BY <1>2, <2>1 DEF Other
  <2>2. CASE i = 1
    BY <1>2, <2>2 DEF Other
  <2> QED  BY <2>1, <2>2 DEF Assets
<1> QED  BY <1>1, <1>2, <1>3

(* The pair sends the return and the fees: it pays no more than that,      *)
(* nobody else loses anything, and only those paid notice.                 *)
LEMMA PayOutFacts ==
  ASSUME NEW p \in PairAddrs, NEW row \in Rows, NEW to \in Accounts,
         NEW return \in Nat, NEW cut \in Nat, return + 2 * cut <= row[p],
         NEW paid, paid = Pool(p)!PayOut(row, to, return, cut, cut)
  PROVE  /\ paid \in Rows
         /\ paid[p] >= row[p] - (return + 2 * cut)
         /\ \A a \in Accounts \ {p} : paid[a] >= row[a]
         /\ \A a \in Accounts \ {p, to, FeeWallet, BurnAddr} : paid[a] = row[a]
         /\ to \notin {p, FeeWallet, BurnAddr} => paid[to] = row[to] + return
         /\ SumFunction(paid) = SumFunction(row)
<1> DEFINE first  == Move(row, p, to, return)
           second == Move(first, p, BurnAddr, cut)
<1>1. /\ p \in Accounts /\ FeeWallet \in Accounts /\ BurnAddr \in Accounts
      /\ p # FeeWallet /\ p # BurnAddr /\ FeeWallet # BurnAddr
  BY AccountFacts
<1>2. row \in [Accounts -> Nat] /\ row[p] \in Nat /\ return <= row[p]
  BY <1>1 DEF Rows
<1>3. paid = Move(second, p, FeeWallet, cut)
  BY DEF Pool!PayOut, Pool!Move, Move
<1>4. /\ first \in [Accounts -> Nat]
      /\ p # to => /\ first[p] = row[p] - return
                   /\ first[to] = row[to] + return
      /\ p = to => first[p] = row[p]
      /\ \A a \in Accounts \ {p, to} : first[a] = row[a]
  BY <1>1, <1>2, MoveFacts
<1>5. SumFunction(first) = SumFunction(row)
  BY <1>1, <1>2, AccountsFinite, MoveKeepsSum
<1> HIDE DEF first
<1>6. first[p] \in Nat /\ first[p] >= row[p] - return /\ 2 * cut <= first[p]
  BY <1>1, <1>2, <1>4
<1>7. cut <= first[p]
  BY <1>6
<1>8. /\ second \in [Accounts -> Nat]
      /\ second[p] = first[p] - cut
      /\ second[BurnAddr] = first[BurnAddr] + cut
      /\ \A a \in Accounts \ {p, BurnAddr} : second[a] = first[a]
  BY <1>1, <1>4, <1>7, MoveFacts
<1>9. SumFunction(second) = SumFunction(first)
  BY <1>1, <1>4, <1>7, AccountsFinite, MoveKeepsSum
<1> HIDE DEF second
<1>10. cut <= second[p]
  BY <1>6, <1>8
<1>11. /\ paid \in [Accounts -> Nat]
       /\ paid[p] = second[p] - cut
       /\ paid[FeeWallet] = second[FeeWallet] + cut
       /\ \A a \in Accounts \ {p, FeeWallet} : paid[a] = second[a]
  BY <1>1, <1>3, <1>8, <1>10, MoveFacts
<1>12. SumFunction(paid) = SumFunction(second)
  BY <1>1, <1>3, <1>8, <1>10, AccountsFinite, MoveKeepsSum
<1>13. paid[p] >= row[p] - (return + 2 * cut)
  BY <1>2, <1>6, <1>8, <1>11
<1>14. ASSUME NEW a \in Accounts \ {p}
       PROVE  paid[a] >= row[a]
  <2>1. row[a] \in Nat /\ first[a] \in Nat /\ second[a] \in Nat /\ paid[a] \in Nat
    BY <1>2, <1>4, <1>8, <1>11
  <2>2. first[a] >= row[a]
    BY <1>4, <2>1
  <2>3. second[a] >= first[a]
    BY <1>8, <2>1
  <2>4. paid[a] >= second[a]
    BY <1>11, <2>1
  <2> QED  BY <2>1, <2>2, <2>3, <2>4
<1>15. \A a \in Accounts \ {p, to, FeeWallet, BurnAddr} : paid[a] = row[a]
  BY <1>4, <1>8, <1>11
<1>16. to \notin {p, FeeWallet, BurnAddr} => paid[to] = row[to] + return
  BY <1>4, <1>8, <1>11
<1> QED  BY <1>5, <1>9, <1>11, <1>12, <1>13, <1>14, <1>15, <1>16 DEF Rows

(* The pair computes with the operators of PairMath. *)
LEMMA SwapGuard ==
  ASSUME NEW p \in PairAddrs, NEW i \in Assets, NEW from, NEW offer \in Nat,
         NEW to, NEW deadline,
         Pool(p)!Swap(from, i, offer, None, None, to, deadline)
  PROVE  LET offered  == Sides[p][i]
             asked    == Sides[p][Other(i)]
             received == Move(bank[offered], from, p, offer)
         IN  ComputeSwapDefined(i, received[p] - offer, bank[asked][p], offer)
<1>1. Pool(p)!Other(i) = Other(i)
  BY DEF Pool!Other, Other
<1>2. ASSUME NEW x, NEW y, NEW z, Pool(p)!ComputeSwapDefined(i, x, y, z)
      PROVE  ComputeSwapDefined(i, x, y, z)
  BY <1>2 DEF Pool!ComputeSwapDefined, Pool!SwapRawDefined, Pool!GrossReturn,
              Pool!IdealReturn, Pool!FitsUint128, Pool!MulFloor, Pool!FromRatio,
              Pool!Other, ComputeSwapDefined, SwapRawDefined, GrossReturn,
              IdealReturn, FitsUint128, MulFloor, FromRatio, Other
<1>3. Other(i) \in Assets
  BY SideFacts
<1> QED  BY <1>1, <1>2, <1>3 DEF Pool!Swap, Pool!OfferPool, Pool!Move, Move

(* What a swap of pair p does: the sender pays the offer, nobody but he    *)
(* and the pair loses anything, and the product of the pools does not fall. *)
Swapped(p, i, from, offer, to) ==
  LET offered == Sides[p][i]
      asked   == Sides[p][Other(i)]
  IN  /\ bank' \in Banks
      /\ offer <= bank[offered][from]
      /\ bank'[offered][from] = bank[offered][from] - offer
      /\ bank'[offered][p] = bank[offered][p] + offer
      /\ \A a \in Accounts \ {from, p} : bank'[offered][a] = bank[offered][a]
      /\ \A a \in Accounts \ {p} : bank'[asked][a] >= bank[asked][a]
      /\ \A a \in Accounts \ {p, to, FeeWallet, BurnAddr} :
           bank'[asked][a] = bank[asked][a]
      /\ \A t \in Tokens \ {offered, asked} : bank'[t] = bank[t]
      /\ \A t \in Tokens : SumFunction(bank'[t]) = SumFunction(bank[t])
      /\ bank[offered][p] * bank[asked][p] <= bank'[offered][p] * bank'[asked][p]

(* What was computed is what arrives, unless the pair itself or a fee is   *)
(* paid to the same account.                                               *)
Returned(p, i, offer, to) ==
  LET asked  == Sides[p][Other(i)]
      return == ComputeSwap(i, bank[Sides[p][i]][p], bank[asked][p], offer).return
  IN  /\ ComputeSwapDefined(i, bank[Sides[p][i]][p], bank[asked][p], offer)
      /\ return \in Nat
      /\ to \notin {p, FeeWallet, BurnAddr} =>
           bank'[asked][to] = bank[asked][to] + return

LEMMA SwapFacts ==
  ASSUME bank \in Banks, NEW p \in PairAddrs, NEW i \in Assets,
         NEW from \in Accounts \ {p}, NEW offer \in Nat, NEW to \in Accounts,
         NEW deadline, SwapAt(p, i, from, offer, to, deadline)
  PROVE  Swapped(p, i, from, offer, to) /\ Returned(p, i, offer, to)
<1> DEFINE offered   == Sides[p][i]
           asked     == Sides[p][Other(i)]
           received  == Move(bank[offered], from, p, offer)
           offerPool == bank[offered][p]
           askPool   == bank[asked][p]
           result    == ComputeSwap(i, offerPool, askPool, offer)
           cut       == FeeCut(result.commission)
           out       == result.return + 2 * cut
           paid      == Pool(p)!PayOut(bank[asked], to, result.return, cut, cut)
<1>1. /\ Other(i) \in Assets /\ Other(i) # i
      /\ offered \in Tokens /\ asked \in Tokens /\ offered # asked
  BY SideFacts
<1>2. p \in Accounts /\ from \in Accounts /\ from # p
  BY AccountFacts
<1>3. bank[offered] \in [Accounts -> Nat] /\ bank[asked] \in [Accounts -> Nat]
  BY <1>1 DEF Banks, Rows
<1>4. offerPool \in Nat /\ askPool \in Nat
  BY <1>2, <1>3
<1>5. Pool(p)!Swap(from, i, offer, None, None, to, deadline)
  BY DEF SwapAt
<1>6. offer <= bank[offered][from]
  BY <1>5 DEF Pool!Swap
<1>7. /\ received \in [Accounts -> Nat]
      /\ received[from] = bank[offered][from] - offer
      /\ received[p] = offerPool + offer
      /\ \A a \in Accounts \ {from, p} : received[a] = bank[offered][a]
  <2> DEFINE row == bank[offered]
  <2>1. row \in [Accounts -> Nat] /\ offer \in Nat /\ offer <= row[from]
    BY <1>6, <1>3
  <2> HIDE DEF row
  <2>2. /\ Move(row, from, p, offer) \in [Accounts -> Nat]
        /\ Move(row, from, p, offer)[from] = row[from] - offer
        /\ Move(row, from, p, offer)[p] = row[p] + offer
        /\ \A a \in Accounts \ {from, p} : Move(row, from, p, offer)[a] = row[a]
    BY ONLY <1>2, <2>1, MoveFacts
  <2> QED  BY <2>2 DEF row
<1>8. SumFunction(received) = SumFunction(bank[offered])
  BY <1>6, <1>2, <1>3, AccountsFinite, MoveKeepsSum
<1>9. Pool(p)!OfferPool(received, offer) = offerPool
  BY <1>4, <1>7 DEF Pool!OfferPool
<1>10. ComputeSwapDefined(i, offerPool, askPool, offer)
  BY <1>1, <1>4, <1>5, <1>7, SwapGuard
<1>11. bank' = [bank EXCEPT ![offered] = received, ![asked] = paid]
  BY <1>9 DEF SwapAt
<1>12. /\ result.return \in Nat /\ cut \in Nat
       /\ out <= askPool
       /\ offerPool * askPool <= (offerPool + offer) * (askPool - out)
  BY <1>4, <1>10, SwapKeepsProduct
<1> HIDE DEF result, cut, received
<1>13. /\ bank[asked] \in Rows
       /\ result.return + 2 * cut <= bank[asked][p]
       /\ paid = Pool(p)!PayOut(bank[asked], to, result.return, cut, cut)
  BY <1>3, <1>12 DEF Rows
<1> HIDE DEF paid
<1>14. /\ paid \in Rows
       /\ paid[p] >= bank[asked][p] - (result.return + 2 * cut)
       /\ \A a \in Accounts \ {p} : paid[a] >= bank[asked][a]
       /\ \A a \in Accounts \ {p, to, FeeWallet, BurnAddr} :
            paid[a] = bank[asked][a]
       /\ to \notin {p, FeeWallet, BurnAddr} =>
            paid[to] = bank[asked][to] + result.return
       /\ SumFunction(paid) = SumFunction(bank[asked])
  BY <1>12, <1>13, PayOutFacts, SMTT(30)
<1> HIDE DEF offered, asked
<1>15. /\ bank'[offered] = received /\ bank'[asked] = paid
       /\ \A t \in Tokens \ {offered, asked} : bank'[t] = bank[t]
       /\ bank' \in Banks
  BY <1>1, <1>7, <1>11, <1>14 DEF Banks, Rows, paid
<1>16. offerPool * askPool <= bank'[offered][p] * bank'[asked][p]
  <2> DEFINE left == askPool - out
  <2>1. left \in Nat
    BY <1>4, <1>12
  <2>2. paid[p] \in Nat /\ left <= paid[p]
    BY <1>2, <1>4, <1>14, <2>1 DEF Rows
  <2>3. offerPool + offer \in Nat
    BY <1>4
  <2>4. offerPool * askPool <= (offerPool + offer) * left
    BY <1>12
  <2> HIDE DEF left
  <2>5. (offerPool + offer) * left <= (offerPool + offer) * paid[p]
    BY <2>1, <2>2, <2>3, TimesMonotone
  <2>6. /\ offerPool * askPool \in Nat
        /\ (offerPool + offer) * left \in Nat
        /\ (offerPool + offer) * paid[p] \in Nat
    BY <1>4, <2>1, <2>2, <2>3, TimesNat
  <2>7. offerPool * askPool <= (offerPool + offer) * paid[p]
    BY <2>4, <2>5, <2>6
  <2> QED  BY <1>7, <1>15, <2>7
<1>17. \A t \in Tokens : SumFunction(bank'[t]) = SumFunction(bank[t])
  BY <1>8, <1>14, <1>15
<1>18. Swapped(p, i, from, offer, to)
  BY <1>6, <1>7, <1>14, <1>15, <1>16, <1>17 DEF Swapped, offered, asked
<1>19. Returned(p, i, offer, to)
  <2>1. result.return \in Nat
    BY <1>12
  <2>2. to \notin {p, FeeWallet, BurnAddr} =>
          bank'[asked][to] = bank[asked][to] + result.return
    BY <1>14, <1>15
  <2> QED  BY <1>10, <2>1, <2>2 DEF Returned, result, offered, asked
<1> QED  BY <1>18, <1>19

-----------------------------------------------------------------------------
(* A route in execution: how far it is, whom it has cost what, and what it *)
(* has left in the router.                                                 *)

Hop     == [offer : Tokens, ask : Tokens]
Message == [op : Hop, to : Accounts]

Transaction ==
  [sender : Users, paid : Payments, operations : Routes, queue : Seq(Message),
   to : Recipients, minimum : Minimums, prev : Nat, deadline : Deadlines,
   before : Banks]

Last == Len(tx.operations)
Done == Last - Len(tx.queue)

(* What is queued is the rest of the messages of an accepted route.        *)
Running ==
  /\ tx \in Transaction
  /\ Last > 0 /\ OneOutput(tx.operations)
  /\ Done \in 0 .. Last
  /\ \A m \in 1 .. Len(tx.queue) :
       tx.queue[m] = [op |-> tx.operations[Done + m],
                      to |-> IF Done + m = Last THEN tx.to ELSE RouterAddr]
  /\ tx.paid.amount <= tx.before[tx.paid.token][tx.sender]
  /\ tx.prev = AfterPaying(Target(tx.operations))[tx.to]

(* The sender has lost no more than he paid and nobody else anything.      *)
Due(v, t) == IF tx.sender = v /\ t = tx.paid.token THEN tx.paid.amount ELSE 0

Exchanged ==
  /\ \A t \in Tokens, v \in Users : bank[t][v] + Due(v, t) >= tx.before[t][v]
  /\ \A t \in Tokens, a \in {FeeWallet, BurnAddr} : bank[t][a] >= tx.before[t][a]
  /\ \A t \in Tokens : SumFunction(bank[t]) = SumFunction(tx.before[t])
  /\ \A p \in PairAddrs :
       bank[Sides[p][0]][p] * bank[Sides[p][1]][p]
         >= tx.before[Sides[p][0]][p] * tx.before[Sides[p][1]][p]

(* On a connected route the router owns, but for the token that is offered *)
(* next, nothing of what was offered so far and the rest as before.        *)
OfferedSoFar(t) == \E n \in 1 .. Done : tx.operations[n].offer = t
OfferedNext(t)  == Done < Last /\ tx.operations[Done + 1].offer = t

Cleared ==
  Connected /\ tx.to # RouterAddr =>
    \A t \in Tokens : ~OfferedNext(t) =>
      bank[t][RouterAddr] = IF OfferedSoFar(t) THEN 0 ELSE tx.before[t][RouterAddr]

(* What the first k swaps return and they do not offer again. *)
Unspent(operations, k) ==
  {t \in Tokens : \E m \in 1 .. k :
     /\ operations[m].ask = t
     /\ \A l \in m + 1 .. k : operations[l].offer # t}

(* On any route, the router owns nothing of the other tokens they return.  *)
Spent ==
  \A t \in Tokens : \A n \in 1 .. Done :
    tx.operations[n].ask = t /\ t \notin Unspent(tx.operations, Done) =>
      bank[t][RouterAddr] = 0

InFlight == Running /\ Exchanged /\ Cleared /\ Spent
Sound    == bank \in Banks /\ (tx # None => InFlight)

LEMMA RouteFacts ==
  ASSUME NEW operations \in Routes
  PROVE  /\ Len(operations) \in Nat /\ DOMAIN operations = 1 .. Len(operations)
         /\ operations \in [1 .. Len(operations) -> Hop]
         /\ \A n \in 1 .. Len(operations) :
              /\ operations[n] \in Hop
              /\ operations[n].offer \in Tokens /\ operations[n].ask \in Tokens
<1>1. operations \in Seq(Hop)
  BY RouterInputsAssumption DEF Hop
<1> HIDE DEF Hop
<1>2. /\ Len(operations) \in Nat /\ DOMAIN operations = 1 .. Len(operations)
      /\ operations \in [1 .. Len(operations) -> Hop]
  BY <1>1, LenProperties
<1>3. \A n \in 1 .. Len(operations) : operations[n] \in Hop
  BY <1>2
<1>4. \A h \in Hop : h.offer \in Tokens /\ h.ask \in Tokens
  BY DEF Hop
<1> QED  BY <1>2, <1>3, <1>4

(* The balances while the handler of ExecuteSwapOperations runs.           *)
LEMMA PaymentFacts ==
  ASSUME bank \in Banks, NEW u \in Users, NEW paid \in Payments,
         Funded(u, paid),
         bank' = [bank EXCEPT ![paid.token] = Move(@, u, RouterAddr, paid.amount)]
  PROVE  /\ paid.token \in Tokens /\ paid.amount \in Nat
         /\ paid.amount <= bank[paid.token][u]
         /\ bank' \in Banks
         /\ bank'[paid.token] = Move(bank[paid.token], u, RouterAddr, paid.amount)
         /\ bank'[paid.token][u] = bank[paid.token][u] - paid.amount
         /\ \A a \in Accounts \ {u, RouterAddr} :
              bank'[paid.token][a] = bank[paid.token][a]
         /\ \A t \in Tokens \ {paid.token} : bank'[t] = bank[t]
         /\ \A t \in Tokens : SumFunction(bank'[t]) = SumFunction(bank[t])
<1> DEFINE row == bank[paid.token]
           n   == paid.amount
<1>1. paid.token \in Tokens /\ n \in Nat /\ n <= row[u]
  <2>1. paid \in [token : Tokens, amount : Nat]
    BY RouterInputsAssumption
  <2>2. paid.token \in Tokens /\ paid.amount \in Nat
    BY <2>1
  <2>3. bank[paid.token][u] \in Nat
    BY <2>2, AccountFacts DEF Banks, Rows
  <2> QED  BY <2>2, <2>3 DEF Funded
<1>2. row \in [Accounts -> Nat]
  BY <1>1 DEF Banks, Rows
<1>3. u \in Accounts /\ RouterAddr \in Accounts /\ u # RouterAddr
  BY AccountFacts
<1>4. bank'[paid.token] = Move(row, u, RouterAddr, n)
  BY <1>1 DEF Banks
<1> HIDE DEF row, n
<1>5. /\ Move(row, u, RouterAddr, n) \in [Accounts -> Nat]
      /\ Move(row, u, RouterAddr, n)[u] = row[u] - n
      /\ \A a \in Accounts \ {u, RouterAddr} : Move(row, u, RouterAddr, n)[a] = row[a]
  BY <1>1, <1>2, <1>3, MoveFacts
<1>6. SumFunction(Move(row, u, RouterAddr, n)) = SumFunction(row)
  BY <1>1, <1>2, <1>3, AccountsFinite, MoveKeepsSum
<1>7. \A t \in Tokens \ {paid.token} : bank'[t] = bank[t]
  BY DEF Banks
<1>8. bank' \in Banks
  BY <1>1, <1>4, <1>5, <1>7 DEF Banks, Rows
<1>9. \A t \in Tokens : SumFunction(bank'[t]) = SumFunction(bank[t])
  BY <1>4, <1>6, <1>7 DEF row
<1> QED  BY <1>1, <1>4, <1>5, <1>7, <1>8, <1>9 DEF row, n

(* After the payment the balances are those the minimum is counted from.   *)
LEMMA PaidBalance ==
  ASSUME bank \in Banks, NEW u \in Users, NEW paid \in Payments,
         Funded(u, paid),
         bank' = [bank EXCEPT ![paid.token] = Move(@, u, RouterAddr, paid.amount)],
         NEW t \in Tokens, NEW a \in Accounts
  PROVE  bank'[t][a] = Move(bank[t], u, RouterAddr,
                            IF t = paid.token THEN paid.amount ELSE 0)[a]
<1>1. CASE t = paid.token
  <2>1. bank'[paid.token] = Move(bank[paid.token], u, RouterAddr, paid.amount)
    BY PaymentFacts
  <2> QED  BY <1>1, <2>1
<1>2. CASE t # paid.token
  <2>1. bank'[t] = bank[t]
    BY <1>2, PaymentFacts
  <2> DEFINE row == bank[t]
  <2>2. /\ row \in [Accounts -> Nat] /\ u \in Accounts /\ RouterAddr \in Accounts
        /\ u # RouterAddr /\ row[u] \in Nat /\ row[RouterAddr] \in Nat
    BY AccountFacts DEF Banks, Rows
  <2> HIDE DEF row
  <2>3. 0 \in Nat /\ 0 <= row[u]
    BY <2>2
  <2>4. /\ Move(row, u, RouterAddr, 0)[u] = row[u] - 0
        /\ Move(row, u, RouterAddr, 0)[RouterAddr] = row[RouterAddr] + 0
        /\ \A b \in Accounts \ {u, RouterAddr} : Move(row, u, RouterAddr, 0)[b] = row[b]
    BY ONLY <2>2, <2>3, MoveFacts
  <2>5. Move(row, u, RouterAddr, 0)[a] = row[a]
    BY <2>2, <2>4
  <2> QED  BY <1>2, <2>1, <2>5 DEF row
<1> QED  BY <1>1, <1>2

LEMMA MessagesFacts ==
  ASSUME NEW operations \in Routes, NEW to \in Recipients
  PROVE  /\ Messages(operations, to) \in Seq(Message)
         /\ Len(Messages(operations, to)) = Len(operations)
         /\ \A n \in 1 .. Len(operations) : Messages(operations, to)[n] =
              [op |-> operations[n],
               to |-> IF n = Len(operations) THEN to ELSE RouterAddr]
<1> DEFINE messages == Messages(operations, to)
           N        == Len(operations)
<1>1. /\ N \in Nat /\ DOMAIN operations = 1 .. N
      /\ \A n \in 1 .. N : operations[n] \in Hop
  BY RouteFacts
<1>2. to \in Accounts /\ RouterAddr \in Accounts
  BY AccountFacts, RouterInputsAssumption
<1>3. messages = [n \in 1 .. N |-> [op |-> operations[n],
                                    to |-> IF n = N THEN to ELSE RouterAddr]]
  BY <1>1 DEF Messages
<1> HIDE DEF N
<1>4. messages \in [1 .. N -> Message]
  BY <1>1, <1>2, <1>3 DEF Message
<1> HIDE DEF messages
<1>5. messages \in Seq(Message)
  BY <1>1, <1>4, SeqDef
<1>6. Len(messages) = N
  BY <1>1, <1>4, <1>5, LenProperties
<1> QED  BY <1>3, <1>5, <1>6 DEF messages, N

(* Nothing has been swapped yet when the handler has run.                  *)
LEMMA HandlerSound ==
  ASSUME Sound, NEW u \in Users, NEW paid \in Payments, NEW operations \in Routes,
         NEW minimum \in Minimums, NEW to \in Recipients, NEW deadline \in Deadlines,
         ExecuteSwapOperations(u, paid, operations, minimum, to, deadline)
  PROVE  Sound'
<1> DEFINE N == Len(operations)
<1>1. /\ bank \in Banks /\ Funded(u, paid) /\ N > 0 /\ OneOutput(operations)
      /\ bank' = [bank EXCEPT ![paid.token] = Move(@, u, RouterAddr, paid.amount)]
  BY DEF Sound, ExecuteSwapOperations
<1>2. tx' = [sender |-> u, paid |-> paid, operations |-> operations,
             queue |-> Messages(operations, to), to |-> to, minimum |-> minimum,
             prev |-> bank'[Target(operations)][to], deadline |-> deadline,
             before |-> bank]
  BY DEF ExecuteSwapOperations
<1>3. /\ paid.token \in Tokens /\ paid.amount \in Nat
      /\ paid.amount <= bank[paid.token][u]
      /\ bank' \in Banks
      /\ bank'[paid.token][u] = bank[paid.token][u] - paid.amount
      /\ \A a \in Accounts \ {u, RouterAddr} :
           bank'[paid.token][a] = bank[paid.token][a]
      /\ \A t \in Tokens \ {paid.token} : bank'[t] = bank[t]
      /\ \A t \in Tokens : SumFunction(bank'[t]) = SumFunction(bank[t])
  BY <1>1, PaymentFacts
<1>4. /\ N \in Nat /\ DOMAIN operations = 1 .. N
      /\ \A n \in 1 .. N : /\ operations[n].offer \in Tokens
                           /\ operations[n].ask \in Tokens
  BY RouteFacts
<1>5. to \in Accounts /\ u \in Accounts
  BY AccountFacts, RouterInputsAssumption
<1>6. /\ tx'.sender = u /\ tx'.paid = paid /\ tx'.operations = operations
      /\ tx'.queue = Messages(operations, to) /\ tx'.to = to /\ tx'.before = bank
      /\ tx'.prev = bank'[Target(operations)][to]
  BY <1>2
<1>7. /\ Messages(operations, to) \in Seq(Message)
      /\ Len(Messages(operations, to)) = N
      /\ \A n \in 1 .. N : Messages(operations, to)[n] =
           [op |-> operations[n], to |-> IF n = N THEN to ELSE RouterAddr]
  BY MessagesFacts
<1>8. Target(operations) \in Tokens
  BY <1>1, <1>4 DEF Target
<1>9. tx' \in Transaction
  <2>1. bank'[Target(operations)][to] \in Nat
    BY <1>3, <1>5, <1>8 DEF Banks, Rows
  <2> QED  BY <1>1, <1>2, <1>7, <2>1 DEF Transaction
<1>10. Last' = N /\ Done' = 0
  <2>1. Len(tx'.operations) = N /\ Len(tx'.queue) = N
    BY <1>6, <1>7
  <2>2. N - N = 0
    BY <1>4
  <2> QED  BY <2>1, <2>2 DEF Last, Done
<1>11. Running'
  <2>1. AfterPaying(Target(operations))'[to] = bank'[Target(operations)][to]
    <3>1. Funded(u, paid)
      BY <1>1
    <3>2. bank'[Target(operations)][to]
            = Move(bank[Target(operations)], u, RouterAddr,
                   IF Target(operations) = paid.token THEN paid.amount ELSE 0)[to]
      BY <1>1, <1>5, <1>8, <3>1, PaidBalance
    <3>3. AfterPaying(Target(operations))'
            = Move(tx'.before[Target(operations)], tx'.sender, RouterAddr,
                   IF Target(operations) = tx'.paid.token THEN tx'.paid.amount ELSE 0)
      BY DEF AfterPaying
    <3> QED  BY <1>6, <3>2, <3>3
  <2>2. \A m \in 1 .. Len(tx'.queue) :
          tx'.queue[m] = [op |-> tx'.operations[Done' + m],
                          to |-> IF Done' + m = Last' THEN tx'.to ELSE RouterAddr]
    <3> SUFFICES ASSUME NEW m \in 1 .. N
                 PROVE  Messages(operations, to)[m] =
                          [op |-> operations[0 + m],
                           to |-> IF 0 + m = N THEN to ELSE RouterAddr]
      BY <1>6, <1>7, <1>10
    <3>1. 0 + m = m
      OBVIOUS
    <3> QED  BY <1>7, <3>1
  <2>3. (tx.prev = AfterPaying(Target(tx.operations))[tx.to])'
    BY <1>6, <2>1 DEF AfterPaying
  <2>4. tx'.paid.amount <= tx'.before[tx'.paid.token][tx'.sender]
    BY <1>3, <1>6
  <2>5. Last' > 0 /\ OneOutput(tx'.operations) /\ Done' \in 0 .. Last'
    BY <1>1, <1>4, <1>6, <1>10
  <2> HIDE DEF N
  <2> QED  BY <1>9, <2>2, <2>3, <2>4, <2>5 DEF Running
<1>12. Exchanged'
  <2>1. ASSUME NEW t \in Tokens, NEW v \in Users
        PROVE  bank'[t][v] + Due(v, t)' >= bank[t][v]
    <3>1. /\ v \in Accounts \ {RouterAddr} /\ bank[t][v] \in Nat /\ bank'[t][v] \in Nat
      BY <1>1, <1>3, AccountFacts DEF Banks, Rows
    <3>2. Due(v, t)' = IF u = v /\ t = paid.token THEN paid.amount ELSE 0
      BY <1>6 DEF Due
    <3>3. CASE t = paid.token /\ v = u
      BY <1>3, <3>1, <3>2, <3>3
    <3>4. CASE ~(t = paid.token /\ v = u)
      <4>1. bank'[t][v] = bank[t][v]
        BY <1>3, <3>1, <3>4
      <4> QED  BY <3>1, <3>2, <3>4, <4>1
    <3> QED  BY <3>3, <3>4
  <2>2. ASSUME NEW t \in Tokens, NEW a \in Accounts \ {u, RouterAddr}
        PROVE  bank'[t][a] = bank[t][a] /\ bank[t][a] \in Nat
    BY <1>1, <1>3 DEF Banks, Rows
  <2>3. \A t \in Tokens, a \in {FeeWallet, BurnAddr} : bank'[t][a] >= bank[t][a]
    BY <2>2, AccountFacts
  <2>4. ASSUME NEW p \in PairAddrs
        PROVE  bank'[Sides[p][0]][p] * bank'[Sides[p][1]][p]
                 >= bank[Sides[p][0]][p] * bank[Sides[p][1]][p]
    <3>1. Sides[p][0] \in Tokens /\ Sides[p][1] \in Tokens
      BY SideFacts DEF Assets
    <3>2. p \in Accounts \ {u, RouterAddr}
      BY AccountFacts
    <3>3. bank[Sides[p][0]][p] * bank[Sides[p][1]][p] \in Nat
      BY <2>2, <3>1, <3>2, TimesNat
    <3> QED  BY <2>2, <3>1, <3>2, <3>3
  <2> QED  BY <1>3, <1>6, <2>1, <2>3, <2>4 DEF Exchanged
<1>13. Cleared'
  <2>1. SUFFICES ASSUME Connected', NEW t \in Tokens, ~OfferedNext(t)'
                 PROVE  /\ ~OfferedSoFar(t)'
                        /\ bank'[t][RouterAddr] = bank[t][RouterAddr]
    BY <1>6 DEF Cleared
  <2>2. ~OfferedSoFar(t)'
    BY <1>10 DEF OfferedSoFar
  <2>3. operations[1].offer = paid.token
    BY <1>6, <2>1 DEF Connected
  <2>4. t # paid.token
    BY <1>1, <1>6, <1>10, <2>1, <2>3 DEF OfferedNext
  <2> QED  BY <1>3, <2>2, <2>4
<1>14. Spent'
  BY <1>10 DEF Spent
<1> QED  BY <1>3, <1>11, <1>12, <1>13, <1>14 DEF Sound, InFlight

-----------------------------------------------------------------------------
(* The effects of a swap on everybody.                                     *)

LEMMA NobodyElseLoses ==
  ASSUME bank \in Banks, NEW p \in PairAddrs, NEW i \in Assets,
         NEW from \in Accounts \ PairAddrs, NEW offer, NEW to,
         Swapped(p, i, from, offer, to), NEW t \in Tokens
  PROVE  /\ \A a \in Accounts \ {from, p} : bank'[t][a] >= bank[t][a]
         /\ t # Sides[p][i] => bank'[t][from] >= bank[t][from]
<1>1. \A a \in Accounts : bank[t][a] \in Nat
  BY DEF Banks, Rows
<1>2. CASE t = Sides[p][i]
  BY <1>1, <1>2 DEF Swapped
<1>3. CASE t = Sides[p][Other(i)]
  <2>1. Sides[p][i] # Sides[p][Other(i)]
    BY SideFacts
  <2> QED  BY <1>1, <1>3, <2>1 DEF Swapped
<1>4. CASE t \notin {Sides[p][i], Sides[p][Other(i)]}
  <2>1. bank'[t] = bank[t]
    BY <1>4 DEF Swapped
  <2> QED  BY <1>1, <2>1
<1> QED  BY <1>2, <1>3, <1>4

(* A pair that is not swapped with loses nothing, also if it is paid.      *)
LEMMA EveryCurveKept ==
  ASSUME bank \in Banks, NEW p \in PairAddrs, NEW i \in Assets,
         NEW from \in Accounts \ PairAddrs, NEW offer, NEW to,
         Swapped(p, i, from, offer, to), NEW q \in PairAddrs
  PROVE  /\ bank[Sides[q][0]][q] * bank[Sides[q][1]][q] \in Nat
         /\ bank'[Sides[q][0]][q] * bank'[Sides[q][1]][q] \in Nat
         /\ bank[Sides[q][0]][q] * bank[Sides[q][1]][q]
              <= bank'[Sides[q][0]][q] * bank'[Sides[q][1]][q]
<1>1. Sides[q][0] \in Tokens /\ Sides[q][1] \in Tokens
  BY SideFacts DEF Assets
<1>2. \A t \in Tokens, a \in Accounts : bank[t][a] \in Nat /\ bank'[t][a] \in Nat
  BY DEF Banks, Rows, Swapped
<1>3. q \in Accounts /\ q # from
  BY AccountFacts
<1>4. /\ bank[Sides[q][0]][q] \in Nat /\ bank[Sides[q][1]][q] \in Nat
      /\ bank'[Sides[q][0]][q] \in Nat /\ bank'[Sides[q][1]][q] \in Nat
  BY <1>1, <1>2, <1>3
<1>5. CASE q = p
  <2>1. bank[Sides[p][i]][p] * bank[Sides[p][Other(i)]][p]
          <= bank'[Sides[p][i]][p] * bank'[Sides[p][Other(i)]][p]
    BY DEF Swapped
  <2>2. CASE i = 0
    BY <1>4, <1>5, <2>1, <2>2, TimesNat DEF Other
  <2>3. CASE i = 1
    <3> DEFINE x == bank[Sides[q][0]][q]
               y == bank[Sides[q][1]][q]
               v == bank'[Sides[q][0]][q]
               w == bank'[Sides[q][1]][q]
    <3>1. Other(i) = 0
      BY <2>3 DEF Other
    <3>2. /\ x \in Nat /\ y \in Nat /\ v \in Nat /\ w \in Nat
          /\ y * x <= w * v
      BY <1>4, <1>5, <2>1, <2>3, <3>1
    <3> HIDE DEF x, y, v, w
    <3>3. x * y = y * x /\ v * w = w * v /\ x * y \in Nat /\ v * w \in Nat
      BY <3>2, TimesNat
    <3>4. x * y \in Nat /\ v * w \in Nat /\ x * y <= v * w
      BY <3>2, <3>3
    <3> QED  BY <3>4 DEF x, y, v, w
  <2> QED  BY <2>2, <2>3 DEF Assets
<1>6. CASE q # p
  <2>1. /\ bank'[Sides[q][0]][q] >= bank[Sides[q][0]][q]
        /\ bank'[Sides[q][1]][q] >= bank[Sides[q][1]][q]
    BY <1>1, <1>3, <1>6, NobodyElseLoses
  <2> QED  BY <1>4, <2>1, TimesNat, TimesMonotone
<1> QED  BY <1>5, <1>6

(* The next swap of a route, as its message says.                          *)
NextHop      == tx.operations[Done + 1]
NextReceiver == IF Done + 1 = Last THEN tx.to ELSE RouterAddr

LEMMA QueueFacts ==
  ASSUME Running, tx.queue # <<>>
  PROVE  /\ Last \in Nat /\ Done \in Nat /\ Done + 1 <= Last
         /\ NextHop.offer \in Tokens /\ NextHop.ask \in Tokens
         /\ NextReceiver \in Accounts
         /\ Head(tx.queue) = [op |-> NextHop, to |-> NextReceiver]
         /\ Tail(tx.queue) \in Seq(Message)
         /\ Len(Tail(tx.queue)) = Len(tx.queue) - 1
         /\ \A m \in 1 .. Len(Tail(tx.queue)) :
              Tail(tx.queue)[m] = tx.queue[m + 1]
<1>1. /\ tx.queue \in Seq(Message) /\ tx.operations \in Routes /\ tx.to \in Recipients
  BY DEF Running, Transaction
<1>2. /\ Len(tx.queue) \in Nat /\ Len(tx.queue) > 0
      /\ Head(tx.queue) = tx.queue[1]
      /\ Tail(tx.queue) \in Seq(Message)
      /\ Len(Tail(tx.queue)) = Len(tx.queue) - 1
      /\ \A m \in 1 .. Len(Tail(tx.queue)) : Tail(tx.queue)[m] = tx.queue[m + 1]
  <2> HIDE DEF Message
  <2>1. tx.queue \in Seq(Message) /\ tx.queue # <<>>
    BY <1>1
  <2> QED  BY ONLY <2>1, HeadTailProperties, EmptySeq, LenProperties
<1>3. Last \in Nat /\ Done \in Nat /\ Done + 1 <= Last
  BY <1>1, <1>2, RouteFacts DEF Running, Last, Done
<1>4. NextHop.offer \in Tokens /\ NextHop.ask \in Tokens
  BY <1>1, <1>3, RouteFacts DEF NextHop, Last
<1>5. NextReceiver \in Accounts
  BY <1>1, AccountFacts, RouterInputsAssumption DEF NextReceiver
<1>6. Head(tx.queue) = [op |-> NextHop, to |-> NextReceiver]
  BY <1>2 DEF Running, NextHop, NextReceiver
<1> QED  BY <1>2, <1>3, <1>4, <1>5, <1>6

LEMMA HopSwaps ==
  ASSUME Sound, ExecuteSwapOperation
  PROVE  /\ InFlight /\ tx # None /\ tx.queue # <<>>
         /\ tx' = [tx EXCEPT !.queue = Tail(tx.queue)]
         /\ \E p \in PairAddrs, i \in Assets :
              /\ Sides[p][i] = NextHop.offer /\ Sides[p][Other(i)] = NextHop.ask
              /\ Swapped(p, i, RouterAddr, bank[NextHop.offer][RouterAddr],
                         NextReceiver)
              /\ Returned(p, i, bank[NextHop.offer][RouterAddr], NextReceiver)
<1>1. InFlight /\ tx # None /\ tx.queue # <<>>
  BY DEF Sound, ExecuteSwapOperation
<1>2. /\ Head(tx.queue) = [op |-> NextHop, to |-> NextReceiver]
      /\ NextHop.offer \in Tokens /\ NextReceiver \in Accounts
  BY <1>1, QueueFacts DEF InFlight
<1>3. Head(tx.queue).op = NextHop /\ Head(tx.queue).to = NextReceiver
  BY <1>2
<1> DEFINE amount == bank[NextHop.offer][RouterAddr]
<1>4. PICK p \in PairAddrs, i \in Assets :
        /\ Lists(p, NextHop.offer, NextHop.ask) /\ Sides[p][i] = NextHop.offer
        /\ SwapAt(p, i, RouterAddr, amount, NextReceiver, tx.deadline)
  BY <1>3 DEF ExecuteSwapOperation, OfferedAmount
<1>5. Sides[p][Other(i)] = NextHop.ask
  <2>1. {Sides[p][k] : k \in Assets} = {NextHop.offer, NextHop.ask}
    BY <1>4 DEF Lists
  <2>2. Other(i) \in Assets /\ Sides[p][Other(i)] # Sides[p][i]
    BY SideFacts
  <2> QED  BY <1>4, <2>1, <2>2
<1>6. amount \in Nat /\ RouterAddr \in Accounts \ {p} /\ bank \in Banks
  BY <1>2, AccountFacts DEF Sound, Banks, Rows
<1> HIDE DEF amount
<1>7. SwapAt(p, i, RouterAddr, amount, NextReceiver, tx.deadline)
  BY <1>4
<1>8. /\ Swapped(p, i, RouterAddr, amount, NextReceiver)
      /\ Returned(p, i, amount, NextReceiver)
  BY <1>2, <1>6, <1>7, SwapFacts
<1>9. tx' = [tx EXCEPT !.queue = Tail(tx.queue)]
  BY DEF ExecuteSwapOperation
<1> QED  BY <1>1, <1>4, <1>5, <1>8, <1>9 DEF amount

LEMMA HopAdvances ==
  ASSUME Running, tx.queue # <<>>, tx' = [tx EXCEPT !.queue = Tail(tx.queue)]
  PROVE  /\ Running'
         /\ tx'.sender = tx.sender /\ tx'.paid = tx.paid /\ tx'.to = tx.to
         /\ tx'.operations = tx.operations /\ tx'.before = tx.before
         /\ Last' = Last /\ Done' = Done + 1
<1>1. tx \in Transaction
  BY DEF Running
<1> HIDE DEF Transaction
<1>2. /\ Last \in Nat /\ Done \in Nat /\ Done + 1 <= Last
      /\ Tail(tx.queue) \in Seq(Message)
      /\ Len(Tail(tx.queue)) = Len(tx.queue) - 1
      /\ \A m \in 1 .. Len(Tail(tx.queue)) : Tail(tx.queue)[m] = tx.queue[m + 1]
  BY QueueFacts
<1>3. /\ tx' \in Transaction /\ tx'.queue = Tail(tx.queue)
      /\ tx'.sender = tx.sender /\ tx'.paid = tx.paid /\ tx'.to = tx.to
      /\ tx'.operations = tx.operations /\ tx'.before = tx.before
      /\ tx'.prev = tx.prev
  BY <1>1, <1>2 DEF Transaction
<1>4. Len(tx.queue) \in Nat /\ Done = Last - Len(tx.queue)
  <2>1. tx.queue \in Seq(Message)
    BY <1>1 DEF Transaction
  <2> QED  BY <2>1, LenProperties DEF Done
<1>5. Last' = Last /\ Done' = Done + 1
  <2>1. Last' = Last
    BY <1>3 DEF Last
  <2>2. Done' = Last' - Len(tx'.queue)
    BY DEF Done
  <2> QED  BY <1>2, <1>3, <1>4, <2>1, <2>2
<1>6. \A m \in 1 .. Len(tx'.queue) :
        tx'.queue[m] = [op |-> tx'.operations[Done' + m],
                        to |-> IF Done' + m = Last' THEN tx'.to ELSE RouterAddr]
  <2> SUFFICES ASSUME NEW m \in 1 .. Len(tx.queue) - 1
               PROVE  Tail(tx.queue)[m] =
                        [op |-> tx.operations[(Done + 1) + m],
                         to |-> IF (Done + 1) + m = Last THEN tx.to ELSE RouterAddr]
    BY <1>2, <1>3, <1>5
  <2>1. m + 1 \in 1 .. Len(tx.queue) /\ (Done + 1) + m = Done + (m + 1)
    BY <1>2, SMTT(30), <1>4
  <2>2. Tail(tx.queue)[m] = tx.queue[m + 1]
    BY <1>2
  <2> QED  BY <2>1, <2>2 DEF Running
<1>7. (tx.prev = AfterPaying(Target(tx.operations))[tx.to])'
  BY <1>3 DEF Running, AfterPaying
<1>8. tx'.paid.amount <= tx'.before[tx'.paid.token][tx'.sender]
  BY <1>3 DEF Running
<1>9. Last' > 0 /\ OneOutput(tx'.operations) /\ Done' \in 0 .. Last'
  BY <1>2, <1>3, <1>5 DEF Running
<1> QED  BY <1>3, <1>5, <1>6, <1>7, <1>8, <1>9 DEF Running

(* Whatever the pair and whoever is paid, the route costs others nothing.  *)
LEMMA HopExchanges ==
  ASSUME Sound, ExecuteSwapOperation
  PROVE  Exchanged'
<1>1. /\ InFlight /\ tx.queue # <<>>
      /\ tx' = [tx EXCEPT !.queue = Tail(tx.queue)]
  BY HopSwaps
<1>2. PICK p \in PairAddrs, i \in Assets :
        Swapped(p, i, RouterAddr, bank[NextHop.offer][RouterAddr], NextReceiver)
  BY HopSwaps
<1>3. /\ tx'.sender = tx.sender /\ tx'.paid = tx.paid /\ tx'.before = tx.before
      /\ tx \in Transaction
  BY <1>1, HopAdvances DEF InFlight, Running
<1>4. RouterAddr \in Accounts \ PairAddrs /\ bank \in Banks
  BY AccountFacts DEF Sound
<1>5. /\ tx.sender \in Users /\ tx.before \in Banks /\ tx.paid.amount \in Nat
  BY <1>3, RouterInputsAssumption DEF Transaction
<1>6. Exchanged
  BY <1>1 DEF InFlight
<1>7. ASSUME NEW t \in Tokens, NEW a \in Users \union {FeeWallet, BurnAddr}
      PROVE  /\ bank[t][a] \in Nat /\ bank'[t][a] \in Nat /\ tx.before[t][a] \in Nat
             /\ bank'[t][a] >= bank[t][a]
  <2>1. a \in Accounts \ {RouterAddr, p}
    BY AccountFacts
  <2>2. bank'[t][a] >= bank[t][a]
    BY <1>2, <1>4, <2>1, NobodyElseLoses
  <2> QED  BY <1>2, <1>4, <1>5, <2>1, <2>2 DEF Banks, Rows, Swapped
<1>8. ASSUME NEW t \in Tokens, NEW v \in Users
      PROVE  bank'[t][v] + Due(v, t)' >= tx.before[t][v]
  <2>1. bank[t][v] + Due(v, t) >= tx.before[t][v]
    BY <1>6 DEF Exchanged
  <2>2. Due(v, t)' = Due(v, t) /\ Due(v, t) \in Nat
    BY <1>3, <1>5 DEF Due
  <2> QED  BY <1>7, <2>1, <2>2
<1>9. ASSUME NEW t \in Tokens, NEW a \in {FeeWallet, BurnAddr}
      PROVE  bank'[t][a] >= tx.before[t][a]
  <2>1. bank[t][a] >= tx.before[t][a]
    BY <1>6 DEF Exchanged
  <2> QED  BY <1>7, <2>1
<1>10. \A t \in Tokens : SumFunction(bank'[t]) = SumFunction(tx.before[t])
  BY <1>2, <1>6 DEF Exchanged, Swapped
<1>11. ASSUME NEW q \in PairAddrs
       PROVE  bank'[Sides[q][0]][q] * bank'[Sides[q][1]][q]
                >= tx.before[Sides[q][0]][q] * tx.before[Sides[q][1]][q]
  <2>1. /\ bank[Sides[q][0]][q] * bank[Sides[q][1]][q] \in Nat
        /\ bank'[Sides[q][0]][q] * bank'[Sides[q][1]][q] \in Nat
        /\ bank[Sides[q][0]][q] * bank[Sides[q][1]][q]
             <= bank'[Sides[q][0]][q] * bank'[Sides[q][1]][q]
    BY <1>2, <1>4, EveryCurveKept
  <2>2. bank[Sides[q][0]][q] * bank[Sides[q][1]][q]
          >= tx.before[Sides[q][0]][q] * tx.before[Sides[q][1]][q]
    BY <1>6 DEF Exchanged
  <2>3. tx.before[Sides[q][0]][q] * tx.before[Sides[q][1]][q] \in Nat
    <3>1. Sides[q][0] \in Tokens /\ Sides[q][1] \in Tokens /\ q \in Accounts
      BY SideFacts, AccountFacts DEF Assets
    <3> QED  BY <1>5, <3>1, TimesNat DEF Banks, Rows
  <2> QED  BY <2>1, <2>2, <2>3
<1> QED  BY <1>3, <1>8, <1>9, <1>10, <1>11 DEF Exchanged

-----------------------------------------------------------------------------
(* What a swap of the route does to the router itself.                     *)

LEMMA HopMoves ==
  ASSUME Sound, ExecuteSwapOperation
  PROVE  /\ NextHop.offer # NextHop.ask
         /\ bank'[NextHop.offer][RouterAddr] = 0
         /\ \A t \in Tokens \ {NextHop.offer, NextHop.ask} :
              bank'[t][RouterAddr] = bank[t][RouterAddr]
         /\ NextReceiver # RouterAddr =>
              bank'[NextHop.ask][RouterAddr] = bank[NextHop.ask][RouterAddr]
<1>1. PICK p \in PairAddrs, i \in Assets :
        /\ Sides[p][i] = NextHop.offer /\ Sides[p][Other(i)] = NextHop.ask
        /\ Swapped(p, i, RouterAddr, bank[NextHop.offer][RouterAddr], NextReceiver)
  BY HopSwaps
<1>2. Sides[p][i] \in Tokens /\ Sides[p][i] # Sides[p][Other(i)]
  BY SideFacts
<1>3. /\ RouterAddr \in Accounts \ {p, FeeWallet, BurnAddr}
      /\ bank[NextHop.offer][RouterAddr] \in Nat
  BY <1>1, <1>2, AccountFacts DEF Sound, Banks, Rows
<1>4. bank'[NextHop.offer][RouterAddr]
        = bank[NextHop.offer][RouterAddr] - bank[NextHop.offer][RouterAddr]
  BY <1>1 DEF Swapped
<1>5. \A t \in Tokens \ {NextHop.offer, NextHop.ask} : bank'[t] = bank[t]
  BY <1>1 DEF Swapped
<1>6. NextReceiver # RouterAddr =>
        bank'[NextHop.ask][RouterAddr] = bank[NextHop.ask][RouterAddr]
  BY <1>1, <1>3 DEF Swapped
<1> QED  BY <1>1, <1>2, <1>3, <1>4, <1>5, <1>6

LEMMA HopClears ==
  ASSUME Sound, ExecuteSwapOperation
  PROVE  Cleared'
<1>1. /\ InFlight /\ Running /\ tx.queue # <<>>
      /\ tx' = [tx EXCEPT !.queue = Tail(tx.queue)]
  BY HopSwaps DEF InFlight
<1>2. /\ tx'.paid = tx.paid /\ tx'.to = tx.to /\ tx'.operations = tx.operations
      /\ tx'.before = tx.before
      /\ Last' = Last /\ Done' = Done + 1
  BY <1>1, HopAdvances
<1>3. /\ Last \in Nat /\ Done \in Nat /\ Done + 1 <= Last
      /\ NextHop.offer \in Tokens /\ NextHop.ask \in Tokens
  BY <1>1, QueueFacts
<1>4. /\ NextHop.offer # NextHop.ask
      /\ bank'[NextHop.offer][RouterAddr] = 0
      /\ \A t \in Tokens \ {NextHop.offer, NextHop.ask} :
           bank'[t][RouterAddr] = bank[t][RouterAddr]
      /\ NextReceiver # RouterAddr =>
           bank'[NextHop.ask][RouterAddr] = bank[NextHop.ask][RouterAddr]
  BY HopMoves
<1> SUFFICES ASSUME Connected', tx.to # RouterAddr,
                    NEW t \in Tokens, ~OfferedNext(t)'
             PROVE  bank'[t][RouterAddr] =
                      IF OfferedSoFar(t)' THEN 0 ELSE tx.before[t][RouterAddr]
  BY <1>2 DEF Cleared
<1>5. Connected
  BY <1>2 DEF Connected
<1>6. ~OfferedNext(t) => bank[t][RouterAddr] =
                           IF OfferedSoFar(t) THEN 0 ELSE tx.before[t][RouterAddr]
  BY <1>1, <1>5 DEF InFlight, Cleared
<1>7. OfferedNext(t) <=> NextHop.offer = t
  BY <1>3 DEF OfferedNext, NextHop
<1>8. OfferedSoFar(t)' <=> OfferedSoFar(t) \/ NextHop.offer = t
  <2>1. 1 .. Done + 1 = (1 .. Done) \union {Done + 1}
    BY <1>3
  <2> QED  BY <1>2, <2>1 DEF OfferedSoFar, NextHop
<1>9. CASE t = NextHop.offer
  BY <1>4, <1>8, <1>9
<1>10. CASE t # NextHop.offer /\ t # NextHop.ask
  BY <1>4, <1>6, <1>7, <1>8, <1>10
<1>11. CASE t # NextHop.offer /\ t = NextHop.ask
  (* What is returned to the router is offered next, or the route is over. *)
  <2>1. NextReceiver # RouterAddr
    <3>1. ASSUME Done + 1 < Last
          PROVE  FALSE
      <4>1. /\ Done + 2 \in 2 .. Len(tx.operations)
            /\ (Done + 2) - 1 = Done + 1 /\ (Done + 1) + 1 = Done + 2
        BY <1>3, <3>1 DEF Last
      <4>2. tx.operations[Done + 2].offer = tx.operations[(Done + 2) - 1].ask
        BY <1>5, <4>1 DEF Connected
      <4>3. tx.operations[Done + 2].offer = t
        BY <1>11, <4>1, <4>2 DEF NextHop
      <4>4. OfferedNext(t)'
        BY <1>2, <3>1, <4>1, <4>3 DEF OfferedNext
      <4> QED  BY <4>4
    <3>2. Done + 1 = Last
      BY <1>3, <3>1
    <3> QED  BY <3>2 DEF NextReceiver
  <2> QED  BY <1>4, <1>6, <1>7, <1>8, <1>11, <2>1
<1> QED  BY <1>9, <1>10, <1>11

LEMMA UnspentGrows ==
  ASSUME NEW operations \in Routes, NEW k \in Nat, k + 1 <= Len(operations)
  PROVE  Unspent(operations, k + 1) =
           (Unspent(operations, k) \ {operations[k + 1].offer})
             \union {operations[k + 1].ask}
<1>1. operations[k + 1].ask \in Tokens
  BY RouteFacts
<1>2. 1 .. k + 1 = (1 .. k) \union {k + 1}
  OBVIOUS
<1>3. \A m \in 1 .. k : m + 1 .. k + 1 = (m + 1 .. k) \union {k + 1}
  OBVIOUS
<1>4. (k + 1) + 1 .. k + 1 = {}
  OBVIOUS
<1>5. ASSUME NEW t \in Tokens
      PROVE  t \in Unspent(operations, k + 1) <=>
               \/ t = operations[k + 1].ask
               \/ t \in Unspent(operations, k) /\ operations[k + 1].offer # t
  <2>1. CASE t = operations[k + 1].ask
    BY <1>2, <1>4, <2>1 DEF Unspent
  <2>2. CASE t # operations[k + 1].ask
    <3>1. t \in Unspent(operations, k + 1) <=>
            \E m \in 1 .. k : /\ operations[m].ask = t
                              /\ \A l \in m + 1 .. k + 1 : operations[l].offer # t
      BY <1>2, <2>2 DEF Unspent
    <3>2. \A m \in 1 .. k :
            (\A l \in m + 1 .. k + 1 : operations[l].offer # t) <=>
              /\ \A l \in m + 1 .. k : operations[l].offer # t
              /\ operations[k + 1].offer # t
      BY <1>3
    <3> QED  BY <2>2, <3>1, <3>2 DEF Unspent
  <2> QED  BY <2>1, <2>2
<1> QED  BY <1>1, <1>5 DEF Unspent

LEMMA HopSpends ==
  ASSUME Sound, ExecuteSwapOperation
  PROVE  Spent'
<1>1. /\ InFlight /\ Running /\ tx.queue # <<>>
      /\ tx' = [tx EXCEPT !.queue = Tail(tx.queue)]
  BY HopSwaps DEF InFlight
<1>2. tx'.operations = tx.operations /\ Last' = Last /\ Done' = Done + 1
  BY <1>1, HopAdvances
<1>3. Last \in Nat /\ Done \in Nat /\ Done + 1 <= Last /\ tx.operations \in Routes
  BY <1>1, QueueFacts DEF Running, Transaction
<1>4. /\ bank'[NextHop.offer][RouterAddr] = 0
      /\ \A t \in Tokens \ {NextHop.offer, NextHop.ask} :
           bank'[t][RouterAddr] = bank[t][RouterAddr]
  BY HopMoves
<1>5. Unspent(tx.operations, Done + 1) =
        (Unspent(tx.operations, Done) \ {NextHop.offer}) \union {NextHop.ask}
  BY <1>3, UnspentGrows DEF NextHop, Last
<1> SUFFICES ASSUME NEW t \in Tokens, NEW n \in 1 .. Done + 1,
                    tx.operations[n].ask = t,
                    t \notin Unspent(tx.operations, Done + 1)
             PROVE  bank'[t][RouterAddr] = 0
  BY <1>2 DEF Spent
<1>6. t # NextHop.ask /\ (t # NextHop.offer => t \notin Unspent(tx.operations, Done))
  BY <1>5
<1>7. n \in 1 .. Done
  BY <1>3, <1>6 DEF NextHop
<1>8. CASE t = NextHop.offer
  BY <1>4, <1>8
<1>9. CASE t # NextHop.offer
  <2>1. bank[t][RouterAddr] = 0
    BY <1>1, <1>6, <1>7, <1>9 DEF InFlight, Spent
  <2> QED  BY <1>4, <1>6, <1>9, <2>1
<1> QED  BY <1>8, <1>9

LEMMA HopSound ==
  ASSUME Sound, ExecuteSwapOperation
  PROVE  Sound'
<1>1. /\ InFlight /\ tx.queue # <<>>
      /\ tx' = [tx EXCEPT !.queue = Tail(tx.queue)]
      /\ bank' \in Banks
  BY HopSwaps DEF Swapped
<1>2. Running'
  BY <1>1, HopAdvances DEF InFlight
<1> QED  BY <1>1, <1>2, HopExchanges, HopClears, HopSpends DEF Sound, InFlight

-----------------------------------------------------------------------------
(* Every step keeps the invariant.                                         *)

(* A trade with the pair itself.                                           *)
LEMMA TradeSwaps ==
  ASSUME Sound, NEW u \in Users, NEW p \in PairAddrs, NEW i \in Assets,
         NEW offer \in Payments, Trade(u, p, i, offer)
  PROVE  /\ Swapped(p, i, u, offer.amount, u) /\ Sides[p][i] = offer.token
         /\ offer.amount \in Nat /\ offer.token \in Tokens
         /\ tx = None /\ tx' = None
<1>1. offer.amount \in Nat /\ offer.token \in Tokens
  BY RouterInputsAssumption
<1>2. u \in Accounts \ {p} /\ u \in Accounts /\ bank \in Banks
  BY AccountFacts DEF Sound
<1>3. SwapAt(p, i, u, offer.amount, u, None)
  BY DEF Trade
<1>4. Swapped(p, i, u, offer.amount, u)
  BY <1>1, <1>2, <1>3, SwapFacts
<1> QED  BY <1>1, <1>4 DEF Trade

(* Tokens sent to the router.                                             *)
LEMMA SendPays ==
  ASSUME Sound, NEW u \in Users, NEW paid \in Payments, Send(u, paid)
  PROVE  /\ bank \in Banks /\ Funded(u, paid)
         /\ bank' = [bank EXCEPT ![paid.token] = Move(@, u, RouterAddr, paid.amount)]
         /\ bank' \in Banks
         /\ tx = None /\ tx' = None
<1>1. /\ bank \in Banks /\ Funded(u, paid)
      /\ bank' = [bank EXCEPT ![paid.token] = Move(@, u, RouterAddr, paid.amount)]
  BY DEF Sound, Send
<1>2. bank' \in Banks
  BY <1>1, PaymentFacts
<1> QED  BY <1>1, <1>2 DEF Send

LEMMA StepSound ==
  ASSUME Sound, [Next]_vars
  PROVE  Sound'
<1>1. ASSUME NEW u \in Users, NEW paid \in Payments, NEW operations \in Routes,
             NEW minimum \in Minimums, NEW to \in Recipients,
             NEW deadline \in Deadlines,
             ExecuteSwapOperations(u, paid, operations, minimum, to, deadline)
      PROVE  Sound'
  BY <1>1, HandlerSound
<1>2. CASE ExecuteSwapOperation
  BY <1>2, HopSound
<1>3. CASE Commit
  BY <1>3 DEF Sound, Commit
<1>4. CASE Revert
  BY <1>4 DEF Sound, Revert, InFlight, Running, Transaction
<1>5. ASSUME NEW u \in Users, NEW p \in PairAddrs, NEW i \in Assets,
             NEW offer \in Payments, Trade(u, p, i, offer)
      PROVE  Sound'
  <2>1. bank' \in Banks /\ tx' = None
    BY <1>5, TradeSwaps DEF Swapped
  <2> QED  BY <2>1 DEF Sound
<1>6. ASSUME NEW u \in Users, NEW paid \in Payments, Send(u, paid)
      PROVE  Sound'
  <2>1. bank' \in Banks /\ tx' = None
    BY <1>6, SendPays
  <2> QED  BY <2>1 DEF Sound
<1>7. CASE Tick
  BY <1>7 DEF Sound, Tick
<1>8. CASE UNCHANGED vars
  BY <1>8, ZenonT(40) DEF vars, Sound, InFlight, Running, Exchanged, Cleared, Spent, Due,
              AfterPaying, Connected, OfferedNext, OfferedSoFar, Last, Done
<1> QED  BY <1>1, <1>2, <1>3, <1>4, <1>5, <1>6, <1>7, <1>8 DEF Next

LEMMA InitiallySound == Init => Sound
<1> SUFFICES ASSUME Init
             PROVE  bank \in Banks /\ tx = None
  BY DEF Sound
<1>1. ASSUME NEW t \in Tokens, NEW a \in Accounts
      PROVE  (IF a \in Users THEN Genesis[t][a]
              ELSE IF a \in PairAddrs /\ \E i \in Assets : Sides[a][i] = t
                   THEN Reserves[a][SideOf(a, t)]
                   ELSE 0) \in Nat
  <2>1. CASE a \in Users
    BY <2>1, RouterInputsAssumption
  <2>2. CASE a \notin Users /\ a \in PairAddrs /\ \E i \in Assets : Sides[a][i] = t
    <3>1. SideOf(a, t) \in Assets
      BY <2>2 DEF SideOf
    <3>2. Reserves[a][SideOf(a, t)] \in Nat \ {0}
      BY <2>2, <3>1, RouterPairsAssumption
    <3> QED  BY <2>2, <3>2
  <2> QED  BY <2>1, <2>2
<1>2. bank \in Banks
  BY <1>1 DEF Init, Banks, Rows
<1> QED  BY <1>2 DEF Init

LEMMA AlwaysSound == Spec => []Sound
BY InitiallySound, StepSound, PTL DEF Spec

-----------------------------------------------------------------------------
(* What the router promises.                                               *)

LEMMA CommitPays ==
  ASSUME Sound, [Next]_vars, Committed, tx.minimum # None
  PROVE  Gained >= tx.minimum
<1>1. Commit
  BY DEF Committed, Next, vars, ExecuteSwapOperations, ExecuteSwapOperation,
         Revert, Trade, Send, Tick
<1>2. Running
  BY <1>1 DEF Commit, Sound, InFlight
<1>3. bank[Target(tx.operations)][tx.to] - tx.prev >= tx.minimum
  BY <1>1 DEF Commit, MinimumReached
<1>4. tx.prev = AfterPaying(Target(tx.operations))[tx.to]
  BY <1>2 DEF Running
<1> QED  BY <1>3, <1>4 DEF Gained

(* A transaction with a minimum_receive commits only if its receiver gets  *)
(* that much out of it, counted from the moment he has paid: the balance   *)
(* the handler records stays the one after the payment, and no route,      *)
(* circular or not, makes assert_minimum_receive compare with another.     *)
THEOREM MinimumIsReceived == Spec => MinimumReceived
<1>1. Sound /\ [Next]_vars => [Committed /\ tx.minimum # None => Gained >= tx.minimum]_vars
  BY CommitPays
<1> QED  BY <1>1, AlwaysSound, PTL DEF Spec, MinimumReceived

LEMMA CommitClears ==
  ASSUME Sound, [Next]_vars, Committed
  PROVE  /\ Connected /\ tx.to # RouterAddr =>
              \A t \in Tokens : bank[t][RouterAddr] =
                IF t \in Offered THEN 0 ELSE tx.before[t][RouterAddr]
         /\ \A t \in Asked : t \notin Unspent(tx.operations, Last) =>
              bank[t][RouterAddr] = 0
<1>1. Commit
  BY DEF Committed, Next, vars, ExecuteSwapOperations, ExecuteSwapOperation,
         Revert, Trade, Send, Tick
<1>2. InFlight /\ Running /\ tx.queue = <<>>
  BY <1>1 DEF Commit, Sound, InFlight
<1>3. /\ Last \in Nat /\ Done = Last /\ DOMAIN tx.operations = 1 .. Last
      /\ \A n \in 1 .. Last : tx.operations[n].ask \in Tokens
  <2>1. tx.operations \in Routes
    BY <1>2 DEF Running, Transaction
  <2>2. /\ Last \in Nat /\ DOMAIN tx.operations = 1 .. Last
        /\ \A n \in 1 .. Last : tx.operations[n].ask \in Tokens
    BY <2>1, RouteFacts DEF Last
  <2>3. Len(<<>>) = 0
    OBVIOUS
  <2>4. Done = Last - 0
    BY <1>2, <2>3 DEF Done
  <2> QED  BY <2>2, <2>4
<1>4. ASSUME NEW t \in Tokens
      PROVE  ~OfferedNext(t) /\ (OfferedSoFar(t) <=> t \in Offered)
  BY <1>3 DEF OfferedNext, OfferedSoFar, Offered
<1>5. Connected /\ tx.to # RouterAddr =>
        \A t \in Tokens : bank[t][RouterAddr] =
          IF t \in Offered THEN 0 ELSE tx.before[t][RouterAddr]
  BY <1>2, <1>4 DEF InFlight, Cleared
<1>6. ASSUME NEW t \in Asked, t \notin Unspent(tx.operations, Last)
      PROVE  bank[t][RouterAddr] = 0
  <2>1. PICK n \in 1 .. Last : tx.operations[n].ask = t
    BY <1>3, <1>6 DEF Asked
  <2> QED  BY <1>2, <1>3, <1>6, <2>1 DEF InFlight, Spent
<1> QED  BY <1>5, <1>6

(* A connected route leaves nothing behind: all that was paid or returned  *)
(* on the way has been swapped on, and the rest of the router's balances   *)
(* is as it was, however long the route and whatever it passes twice.      *)
THEOREM RouterIsCleared == Spec => NothingLeftBehind
<1>1. Sound /\ [Next]_vars =>
        [Committed /\ Connected /\ tx.to # RouterAddr =>
           \A t \in Tokens :
             bank[t][RouterAddr] =
               IF t \in Offered THEN 0 ELSE tx.before[t][RouterAddr]]_vars
  BY CommitClears
<1> QED  BY <1>1, AlwaysSound, PTL DEF Spec, NothingLeftBehind

(* assert_operations counts the tokens that are left at the end.           *)
Follows(after, operations) ==
  after = [n \in 0 .. Len(operations) |->
             IF n = 0 THEN {}
             ELSE (after[n - 1] \ {operations[n].offer}) \union {operations[n].ask}]

LEMMA OutputsFollow ==
  ASSUME NEW operations \in Routes
  PROVE  \E after : /\ Follows(after, operations)
                    /\ Outputs(operations) = after[Len(operations)]
<1> DEFINE N       == Len(operations)
           unspent == [n \in 0 .. N |-> Unspent(operations, n)]
           after   == CHOOSE after : Follows(after, operations)
<1>1. N \in Nat
  BY RouteFacts
<1>2. Follows(unspent, operations)
  <2> SUFFICES ASSUME NEW n \in 0 .. N
               PROVE  Unspent(operations, n) =
                        IF n = 0 THEN {}
                        ELSE (unspent[n - 1] \ {operations[n].offer})
                               \union {operations[n].ask}
    BY DEF Follows
  <2>1. CASE n = 0
    BY <2>1 DEF Unspent
  <2>2. CASE n # 0
    <3>1. n - 1 \in Nat /\ (n - 1) + 1 = n /\ n - 1 \in 0 .. N
      BY <1>1, <2>2
    <3>2. Unspent(operations, n) =
            (Unspent(operations, n - 1) \ {operations[n].offer})
              \union {operations[n].ask}
      BY <1>1, <3>1, UnspentGrows
    <3> QED  BY <2>2, <3>1, <3>2
  <2> QED  BY <2>1, <2>2
<1>3. Follows(after, operations)
  <2> HIDE DEF unspent
  <2> QED  BY <1>2
<1>4. Outputs(operations) = after[N]
  BY DEF Outputs, Follows
<1> HIDE DEF after
<1> QED  BY <1>3, <1>4

LEMMA OutputsAreUnspent ==
  ASSUME NEW operations \in Routes
  PROVE  Outputs(operations) = Unspent(operations, Len(operations))
<1> DEFINE N == Len(operations)
<1>1. N \in Nat
  BY RouteFacts
<1>2. PICK after : Follows(after, operations) /\ Outputs(operations) = after[N]
  BY OutputsFollow
<1>3. /\ after[0] = {}
      /\ \A n \in 0 .. N : n # 0 =>
           after[n] = (after[n - 1] \ {operations[n].offer}) \union {operations[n].ask}
  <2>1. \A n \in 0 .. N :
          after[n] = IF n = 0 THEN {}
                     ELSE (after[n - 1] \ {operations[n].offer})
                            \union {operations[n].ask}
    BY <1>2 DEF Follows
  <2>2. 0 \in 0 .. N
    BY <1>1
  <2> QED  BY <2>1, <2>2
<1> DEFINE Differ == {n \in 0 .. N : after[n] # Unspent(operations, n)}
<1>4. ASSUME Differ # {}
      PROVE  FALSE
  <2>1. PICK m \in Differ : \A k \in Differ : m <= k
    <3>1. Differ \subseteq Nat
      BY <1>1
    <3> HIDE DEF Differ
    <3> QED  BY <1>4, <3>1, LeastNatural
  <2>2. m \in 0 .. N /\ after[m] # Unspent(operations, m)
    BY <2>1
  <2>3. m # 0
    BY <1>3, <2>2 DEF Unspent
  <2>4. m - 1 \in Nat /\ (m - 1) + 1 = m /\ m - 1 \in 0 .. N /\ ~(m <= m - 1)
    BY <1>1, <2>2, <2>3
  <2>5. after[m - 1] = Unspent(operations, m - 1)
    BY <2>1, <2>4
  <2>6. Unspent(operations, m) =
          (Unspent(operations, m - 1) \ {operations[m].offer})
            \union {operations[m].ask}
    BY <1>1, <2>2, <2>4, UnspentGrows
  <2> QED  BY <1>3, <2>2, <2>3, <2>5, <2>6
<1>5. N \in 0 .. N /\ N \notin Differ
  BY <1>1, <1>4
<1> QED  BY <1>2, <1>5

LEMMA OneOutputLeft ==
  ASSUME NEW operations \in Routes, Len(operations) > 0, OneOutput(operations)
  PROVE  Unspent(operations, Len(operations)) = {Target(operations)}
<1> DEFINE N       == Len(operations)
           outputs == Unspent(operations, N)
<1>1. N \in Nat \ {0} /\ N - 1 \in Nat /\ (N - 1) + 1 = N
  BY RouteFacts
<1>2. Target(operations) \in outputs
  <2>1. Target(operations) \in Unspent(operations, (N - 1) + 1)
    <3> DEFINE k == N - 1
    <3>1. k \in Nat /\ k + 1 = N /\ k + 1 <= Len(operations)
      BY <1>1
    <3> HIDE DEF k
    <3>2. operations[k + 1].ask \in Unspent(operations, k + 1)
      BY <3>1, UnspentGrows
    <3> QED  BY <1>1, <3>1, <3>2 DEF Target
  <2> QED  BY <1>1, <2>1
<1>3. Cardinality(outputs) = 1
  BY OutputsAreUnspent DEF OneOutput
<1>4. IsFiniteSet(outputs)
  <2> DEFINE asked == {operations[m].ask : m \in 1 .. N}
             f     == [m \in 1 .. N |-> operations[m].ask]
  <2>1. outputs \subseteq asked
    BY DEF Unspent
  <2>2. IsFiniteSet(1 .. N)
    BY <1>1, FS_Interval
  <2>3. f \in Surjection(1 .. N, asked)
    BY DEF Surjection
  <2> HIDE DEF f, asked
  <2>4. IsFiniteSet(asked)
    BY <2>2, <2>3, FS_Surjection
  <2> QED  BY <2>1, <2>4, FS_Subset
<1> HIDE DEF outputs
<1>5. PICK t : outputs = {t}
  BY <1>3, <1>4, FS_Singleton
<1> QED  BY <1>2, <1>5 DEF outputs

(* "The contract will check whether the resulting token is swapped into    *)
(* one token": of all accepted routes, connected or not and of any length, *)
(* the router is left with no token that a swap returned, but the one the  *)
(* route ends in.                                                          *)
THEOREM OnlyTheTargetIsLeft == Spec => SwappedIntoOneToken
<1>1. ASSUME Sound, [Next]_vars, Committed
      PROVE  \A t \in Asked \ {Target(tx.operations)} : bank[t][RouterAddr] = 0
  <2>1. tx.operations \in Routes /\ Len(tx.operations) > 0 /\ OneOutput(tx.operations)
    BY <1>1 DEF Committed, Sound, InFlight, Running, Transaction, Last
  <2>2. Unspent(tx.operations, Last) = {Target(tx.operations)}
    BY <2>1, OneOutputLeft DEF Last
  <2>3. \A t \in Asked : t \notin Unspent(tx.operations, Last) =>
          bank[t][RouterAddr] = 0
    BY <1>1, CommitClears
  <2> QED  BY <2>2, <2>3
<1>2. Sound /\ [Next]_vars =>
        [Committed => \A t \in Asked \ {Target(tx.operations)} :
                        bank[t][RouterAddr] = 0]_vars
  BY <1>1
<1> QED  BY <1>2, AlwaysSound, PTL DEF Spec, SwappedIntoOneToken

-----------------------------------------------------------------------------
(* A route, step by step, is one exchange.                                 *)

(* The balances that everybody else sees. *)
Seen == IF tx = None THEN bank ELSE tx.before

(* None is told from any transaction. *)
NoneIsNoTransaction == None \notin Transaction

Exchange(u, paid) == Settled!Pay(u, paid)

LEMMA SumSeen ==
  ASSUME NEW row
  PROVE  Settled!SumFunction(row) = SumFunction(row)
BY DEF Settled!SumFunction, Settled!SumFunctionOnSet, Settled!FoldFunctionOnSet,
       Settled!MapThenFoldSet, SumFunction, SumFunctionOnSet, FoldFunctionOnSet,
       MapThenFoldSet

LEMMA ExchangeMeans ==
  ASSUME NEW u, NEW paid, NEW b, NEW c, Seen = b, Seen' = c,
         b[paid.token][u] >= paid.amount,
         \A t \in Tokens, v \in Users :
           c[t][v] + (IF u = v /\ t = paid.token THEN paid.amount ELSE 0) >= b[t][v],
         \A t \in Tokens, a \in {FeeWallet, BurnAddr} : c[t][a] >= b[t][a],
         \A t \in Tokens : SumFunction(c[t]) = SumFunction(b[t]),
         \A p \in PairAddrs : c[Sides[p][0]][p] * c[Sides[p][1]][p]
                               >= b[Sides[p][0]][p] * b[Sides[p][1]][p]
  PROVE  Exchange(u, paid)
<1>1. (IF tx = None THEN bank ELSE tx.before) = b
  BY DEF Seen
<1>2. (IF tx = None THEN bank ELSE tx.before)' = c
  BY DEF Seen
<1>3. \A t \in Tokens : Settled!Owned(t)' = Settled!Owned(t)
  <2> SUFFICES ASSUME NEW t \in Tokens
               PROVE  Settled!Owned(t)' = Settled!Owned(t)
    OBVIOUS
  <2>1. Settled!Owned(t) = Settled!SumFunction(b[t])
    BY <1>1 DEF Settled!Owned
  <2>2. Settled!Owned(t)' = Settled!SumFunction(c[t])
    BY <1>2 DEF Settled!Owned
  <2>3. Settled!SumFunction(b[t]) = SumFunction(b[t])
    BY SumSeen
  <2>4. Settled!SumFunction(c[t]) = SumFunction(c[t])
    BY SumSeen
  <2> QED  BY <2>1, <2>2, <2>3, <2>4
<1>4. \A p \in PairAddrs : Settled!Product(p)' >= Settled!Product(p)
  BY <1>1, <1>2 DEF Settled!Product
<1> QED  BY <1>1, <1>2, <1>3, <1>4 DEF Exchange, Settled!Pay

LEMMA CommitExchanges ==
  ASSUME Sound, Commit
  PROVE  \E u \in Users, paid \in Payments : Exchange(u, paid)
<1>1. Running /\ Exchanged /\ tx # None /\ tx' = None /\ bank' = bank
  BY DEF Commit, Sound, InFlight
<1>2. Seen = tx.before /\ Seen' = bank
  BY <1>1 DEF Seen
<1>3. tx.sender \in Users /\ tx.paid \in Payments
  BY <1>1 DEF Running, Transaction
<1>4. tx.before[tx.paid.token][tx.sender] >= tx.paid.amount
  <2>1. tx.paid.amount <= tx.before[tx.paid.token][tx.sender]
    BY <1>1 DEF Running
  <2> QED  BY <2>1
<1>5. Exchange(tx.sender, tx.paid)
  <2>1. \A t \in Tokens, v \in Users :
          bank[t][v] + (IF tx.sender = v /\ t = tx.paid.token
                        THEN tx.paid.amount ELSE 0) >= tx.before[t][v]
    BY <1>1 DEF Exchanged, Due
  <2>2. /\ \A t \in Tokens, a \in {FeeWallet, BurnAddr} :
             bank[t][a] >= tx.before[t][a]
        /\ \A t \in Tokens : SumFunction(bank[t]) = SumFunction(tx.before[t])
        /\ \A p \in PairAddrs :
             bank[Sides[p][0]][p] * bank[Sides[p][1]][p]
               >= tx.before[Sides[p][0]][p] * tx.before[Sides[p][1]][p]
    BY <1>1 DEF Exchanged
  <2> QED  BY <1>2, <1>4, <2>1, <2>2, ExchangeMeans
<1> QED  BY <1>3, <1>5

LEMMA TradeExchanges ==
  ASSUME Sound, NEW u \in Users, NEW p \in PairAddrs, NEW i \in Assets,
         NEW offer \in Payments, Trade(u, p, i, offer)
  PROVE  Exchange(u, offer)
<1>1. /\ Swapped(p, i, u, offer.amount, u) /\ Sides[p][i] = offer.token
      /\ offer.amount \in Nat /\ offer.token \in Tokens
      /\ tx = None /\ tx' = None
  BY TradeSwaps
<1>2. Seen = bank /\ Seen' = bank' /\ bank \in Banks /\ bank' \in Banks
  BY <1>1 DEF Seen, Sound, Swapped
<1>3. u \in Accounts \ PairAddrs
  BY AccountFacts
<1>4. ASSUME NEW t \in Tokens
      PROVE  /\ \A a \in Accounts \ {u, p} : bank'[t][a] >= bank[t][a]
             /\ t # offer.token => bank'[t][u] >= bank[t][u]
  BY <1>1, <1>2, <1>3, NobodyElseLoses
<1>5. /\ bank[offer.token][u] \in Nat /\ offer.amount <= bank[offer.token][u]
      /\ bank'[offer.token][u] = bank[offer.token][u] - offer.amount
  BY <1>1, <1>2, <1>3 DEF Swapped, Banks, Rows
<1>6. ASSUME NEW t \in Tokens, NEW v \in Users
      PROVE  bank'[t][v] + (IF u = v /\ t = offer.token THEN offer.amount ELSE 0)
               >= bank[t][v]
  <2>1. bank[t][v] \in Nat /\ bank'[t][v] \in Nat /\ v \in Accounts /\ v # p
    BY <1>2, AccountFacts DEF Banks, Rows
  <2>2. CASE u = v /\ t = offer.token
    BY <1>1, <1>5, <2>1, <2>2
  <2>3. CASE ~(u = v /\ t = offer.token)
    <3>1. bank'[t][v] >= bank[t][v]
      BY <1>4, <2>1, <2>3
    <3> QED  BY <2>1, <2>3, <3>1
  <2> QED  BY <2>2, <2>3
<1>7. \A t \in Tokens, a \in {FeeWallet, BurnAddr} : bank'[t][a] >= bank[t][a]
  BY <1>4, AccountFacts
<1>8. ASSUME NEW q \in PairAddrs
      PROVE  bank'[Sides[q][0]][q] * bank'[Sides[q][1]][q]
               >= bank[Sides[q][0]][q] * bank[Sides[q][1]][q]
  <2>1. /\ bank[Sides[q][0]][q] * bank[Sides[q][1]][q] \in Nat
        /\ bank'[Sides[q][0]][q] * bank'[Sides[q][1]][q] \in Nat
        /\ bank[Sides[q][0]][q] * bank[Sides[q][1]][q]
             <= bank'[Sides[q][0]][q] * bank'[Sides[q][1]][q]
    BY <1>1, <1>2, <1>3, EveryCurveKept
  <2> QED  BY <2>1
<1>9. \A t \in Tokens : SumFunction(bank'[t]) = SumFunction(bank[t])
  BY <1>1 DEF Swapped
<1>10. bank[offer.token][u] >= offer.amount
  BY <1>1, <1>5
<1> QED  BY <1>2, <1>6, <1>7, <1>8, <1>9, <1>10, ExchangeMeans

LEMMA SendExchanges ==
  ASSUME Sound, NEW u \in Users, NEW paid \in Payments, Send(u, paid)
  PROVE  Exchange(u, paid)
<1>1. /\ bank \in Banks /\ Funded(u, paid) /\ bank' \in Banks
      /\ bank' = [bank EXCEPT ![paid.token] = Move(@, u, RouterAddr, paid.amount)]
      /\ Seen = bank /\ Seen' = bank'
  BY SendPays DEF Seen
<1>2. /\ paid.token \in Tokens /\ paid.amount \in Nat
      /\ bank'[paid.token][u] = bank[paid.token][u] - paid.amount
      /\ \A a \in Accounts \ {u, RouterAddr} :
           bank'[paid.token][a] = bank[paid.token][a]
      /\ \A t \in Tokens \ {paid.token} : bank'[t] = bank[t]
      /\ \A t \in Tokens : SumFunction(bank'[t]) = SumFunction(bank[t])
  BY <1>1, PaymentFacts
<1>3. ASSUME NEW t \in Tokens, NEW a \in Accounts \ {u, RouterAddr}
      PROVE  bank'[t][a] = bank[t][a]
  BY <1>2
<1>4. \A t \in Tokens, a \in Accounts : bank[t][a] \in Nat
  BY <1>1 DEF Banks, Rows
<1>5. ASSUME NEW t \in Tokens, NEW v \in Users
      PROVE  bank'[t][v] + (IF u = v /\ t = paid.token THEN paid.amount ELSE 0)
               >= bank[t][v]
  <2>1. v \in Accounts /\ v # RouterAddr /\ bank[t][v] \in Nat
    BY <1>4, AccountFacts
  <2>2. CASE u = v /\ t = paid.token
    BY <1>2, <2>1, <2>2
  <2>3. CASE ~(u = v /\ t = paid.token)
    <3>1. bank'[t][v] = bank[t][v]
      BY <1>2, <1>3, <2>1, <2>3
    <3> QED  BY <2>1, <2>3, <3>1
  <2> QED  BY <2>2, <2>3
<1>6. ASSUME NEW t \in Tokens, NEW a \in {FeeWallet, BurnAddr}
      PROVE  bank'[t][a] >= bank[t][a]
  <2>1. a \in Accounts \ {u, RouterAddr}
    BY AccountFacts
  <2>2. bank'[t][a] = bank[t][a] /\ bank[t][a] \in Nat
    BY <1>3, <1>4, <2>1
  <2> QED  BY <2>2
<1>7. ASSUME NEW q \in PairAddrs
      PROVE  bank'[Sides[q][0]][q] * bank'[Sides[q][1]][q]
               >= bank[Sides[q][0]][q] * bank[Sides[q][1]][q]
  <2>1. q \in Accounts \ {u, RouterAddr} /\ q \in Accounts
    BY AccountFacts
  <2>2. Sides[q][0] \in Tokens /\ Sides[q][1] \in Tokens
    BY SideFacts DEF Assets
  <2>3. /\ bank'[Sides[q][0]][q] = bank[Sides[q][0]][q]
        /\ bank'[Sides[q][1]][q] = bank[Sides[q][1]][q]
    BY <1>3, <2>1, <2>2
  <2>4. bank[Sides[q][0]][q] * bank[Sides[q][1]][q] \in Nat
    BY <1>4, <2>1, <2>2
  <2> QED  BY <2>3, <2>4
<1>8. bank[paid.token][u] >= paid.amount
  BY <1>1 DEF Funded
<1>9. /\ Seen = bank /\ Seen' = bank'
      /\ \A t \in Tokens : SumFunction(bank'[t]) = SumFunction(bank[t])
  BY <1>1, <1>2
<1> QED  BY <1>5, <1>6, <1>7, <1>8, <1>9, ExchangeMeans

LEMMA StepExchanges ==
  ASSUME NoneIsNoTransaction, Sound, Sound', [Next]_vars
  PROVE  (\E u \in Users, paid \in Payments : Exchange(u, paid)) \/ Seen' = Seen
<1>1. ASSUME NEW u \in Users, NEW paid \in Payments, NEW operations \in Routes,
             NEW minimum \in Minimums, NEW to \in Recipients,
             NEW deadline \in Deadlines,
             ExecuteSwapOperations(u, paid, operations, minimum, to, deadline)
      PROVE  Seen' = Seen
  <2>1. /\ tx = None
        /\ tx' = [sender |-> u, paid |-> paid, operations |-> operations,
                  queue |-> Messages(operations, to), to |-> to,
                  minimum |-> minimum, prev |-> bank'[Target(operations)][to],
                  deadline |-> deadline, before |-> bank]
    BY <1>1 DEF ExecuteSwapOperations
  <2>2. tx'.before = bank
    BY <2>1
  <2>3. tx' # None
    <3>1. /\ operations \in Routes /\ Len(operations) > 0
          /\ bank \in Banks /\ bank' \in Banks
      BY <1>1 DEF Sound, ExecuteSwapOperations
    <3>2. /\ Target(operations) \in Tokens /\ to \in Accounts
      <4>1. Len(operations) \in 1 .. Len(operations)
        BY <3>1, RouteFacts
      <4> QED  BY <4>1, RouteFacts, RouterInputsAssumption DEF Target
    <3>3. bank'[Target(operations)][to] \in Nat
      BY <3>1, <3>2 DEF Banks, Rows
    <3>4. Messages(operations, to) \in Seq(Message)
      BY MessagesFacts
    <3>5. tx' \in Transaction
      BY <2>1, <3>1, <3>3, <3>4 DEF Transaction
    <3> QED  BY <3>5 DEF NoneIsNoTransaction
  <2> QED  BY <2>1, <2>2, <2>3 DEF Seen
<1>2. CASE ExecuteSwapOperation
  <2>1. /\ tx # None /\ Running /\ tx.queue # <<>>
        /\ tx' = [tx EXCEPT !.queue = Tail(tx.queue)]
    BY <1>2, HopSwaps DEF InFlight
  <2>2. tx'.before = tx.before /\ tx' \in Transaction
    BY <2>1, HopAdvances DEF Running
  <2>3. tx' # None
    BY <2>2 DEF NoneIsNoTransaction
  <2> QED  BY <2>1, <2>2, <2>3 DEF Seen
<1>3. CASE Commit
  BY <1>3, CommitExchanges
<1>4. CASE Revert
  BY <1>4 DEF Revert, Seen
<1>5. ASSUME NEW u \in Users, NEW p \in PairAddrs, NEW i \in Assets,
             NEW offer \in Payments, Trade(u, p, i, offer)
      PROVE  Exchange(u, offer)
  BY <1>5, TradeExchanges
<1>6. ASSUME NEW u \in Users, NEW paid \in Payments, Send(u, paid)
      PROVE  Exchange(u, paid)
  BY <1>6, SendExchanges
<1>7. CASE Tick
  BY <1>7 DEF Tick, Seen
<1>8. CASE UNCHANGED vars
  BY <1>8 DEF vars, Seen
<1> QED  BY <1>1, <1>2, <1>3, <1>4, <1>5, <1>6, <1>7, <1>8 DEF Next

(* Handler, swaps and assertion together are one exchange, whatever the    *)
(* route is: at once one account pays no more than it has sent, nobody     *)
(* else loses anything, no token is made or lost and every pair keeps to   *)
(* its curve; a transaction that fails on the way has not happened.        *)
THEOREM RoutesAreExchanges ==
  ASSUME NoneIsNoTransaction
  PROVE  Spec => ImplementsExchange
<1>1. Sound /\ Sound' /\ [Next]_vars =>
        [\E u \in Users, paid \in Payments : Settled!Pay(u, paid)]_(
           IF tx = None THEN bank ELSE tx.before)
  BY StepExchanges DEF Exchange, Seen
<1> QED  BY <1>1, AlwaysSound, PTL DEF Spec, ImplementsExchange, Settled!Spec

-----------------------------------------------------------------------------
(* What a route pays is what was simulated.                                *)

(* A pair that starts with both assets never runs out of one. *)
Stocked(b) == \A p \in PairAddrs, i \in Assets : b[Sides[p][i]][p] > 0

Supplied == Stocked(bank) /\ (tx # None => Stocked(tx.before))

LEMMA PositiveFactors ==
  ASSUME NEW a \in Nat, NEW b \in Nat, NEW c \in Nat \ {0}, NEW d \in Nat \ {0},
         c * d <= a * b
  PROVE  a > 0 /\ b > 0
<1>1. c * d \in Nat \ {0}
  OBVIOUS
<1>2. a # 0 /\ b # 0
  BY <1>1
<1> QED  BY <1>2

LEMMA SwapStocks ==
  ASSUME bank \in Banks, NEW p \in PairAddrs, NEW i \in Assets,
         NEW from \in Accounts \ PairAddrs, NEW offer, NEW to,
         Swapped(p, i, from, offer, to), Stocked(bank)
  PROVE  Stocked(bank')
<1> SUFFICES ASSUME NEW q \in PairAddrs
             PROVE  bank'[Sides[q][0]][q] > 0 /\ bank'[Sides[q][1]][q] > 0
  BY DEF Stocked, Assets
<1> DEFINE a == bank'[Sides[q][0]][q]
           b == bank'[Sides[q][1]][q]
           c == bank[Sides[q][0]][q]
           d == bank[Sides[q][1]][q]
<1>1. Sides[q][0] \in Tokens /\ Sides[q][1] \in Tokens /\ q \in Accounts
  BY SideFacts, AccountFacts DEF Assets
<1>2. a \in Nat /\ b \in Nat /\ c \in Nat /\ d \in Nat
  BY <1>1 DEF Banks, Rows, Swapped
<1>3. c > 0 /\ d > 0
  BY DEF Stocked, Assets
<1>4. c * d <= a * b
  BY EveryCurveKept
<1> HIDE DEF a, b, c, d
<1>5. c \in Nat \ {0} /\ d \in Nat \ {0}
  BY <1>2, <1>3
<1>6. a > 0 /\ b > 0
  BY <1>2, <1>4, <1>5, PositiveFactors
<1> QED  BY <1>6 DEF a, b

LEMMA PaymentStocks ==
  ASSUME bank \in Banks, NEW u \in Users, NEW paid \in Payments,
         Funded(u, paid),
         bank' = [bank EXCEPT ![paid.token] = Move(@, u, RouterAddr, paid.amount)],
         Stocked(bank)
  PROVE  Stocked(bank')
<1>1. /\ paid.token \in Tokens
      /\ \A a \in Accounts \ {u, RouterAddr} :
           bank'[paid.token][a] = bank[paid.token][a]
      /\ \A t \in Tokens \ {paid.token} : bank'[t] = bank[t]
  BY PaymentFacts
<1>2. ASSUME NEW q \in PairAddrs, NEW i \in Assets
      PROVE  bank'[Sides[q][i]][q] = bank[Sides[q][i]][q]
  <2>1. Sides[q][i] \in Tokens /\ q \in Accounts \ {u, RouterAddr}
    BY SideFacts, AccountFacts
  <2> QED  BY <1>1, <2>1
<1> QED  BY <1>2 DEF Stocked

LEMMA StepSupplied ==
  ASSUME Sound, Supplied, [Next]_vars
  PROVE  Supplied'
<1>1. ASSUME NEW u \in Users, NEW paid \in Payments, NEW operations \in Routes,
             NEW minimum \in Minimums, NEW to \in Recipients,
             NEW deadline \in Deadlines,
             ExecuteSwapOperations(u, paid, operations, minimum, to, deadline)
      PROVE  Supplied'
  <2>1. /\ bank \in Banks /\ Funded(u, paid) /\ tx'.before = bank
        /\ bank' = [bank EXCEPT ![paid.token] = Move(@, u, RouterAddr, paid.amount)]
    BY <1>1 DEF Sound, ExecuteSwapOperations
  <2>2. Stocked(bank')
    BY <2>1, PaymentStocks DEF Supplied
  <2> QED  BY <2>1, <2>2 DEF Supplied
<1>2. CASE ExecuteSwapOperation
  <2>1. /\ InFlight /\ tx # None /\ tx.queue # <<>>
        /\ tx' = [tx EXCEPT !.queue = Tail(tx.queue)]
    BY <1>2, HopSwaps
  <2>2. PICK p \in PairAddrs, i \in Assets :
          Swapped(p, i, RouterAddr, bank[NextHop.offer][RouterAddr], NextReceiver)
    BY <1>2, HopSwaps
  <2>3. tx'.before = tx.before
    BY <2>1, HopAdvances DEF InFlight
  <2>4. RouterAddr \in Accounts \ PairAddrs /\ bank \in Banks
    BY AccountFacts DEF Sound
  <2>5. Stocked(bank')
    BY <2>2, <2>4, SwapStocks DEF Supplied
  <2> QED  BY <2>1, <2>3, <2>5 DEF Supplied
<1>3. CASE Commit
  BY <1>3 DEF Commit, Supplied
<1>4. CASE Revert
  BY <1>4 DEF Revert, Supplied
<1>5. ASSUME NEW u \in Users, NEW p \in PairAddrs, NEW i \in Assets,
             NEW offer \in Payments, Trade(u, p, i, offer)
      PROVE  Supplied'
  <2>1. Swapped(p, i, u, offer.amount, u) /\ tx' = None
    BY <1>5, TradeSwaps
  <2>2. u \in Accounts \ PairAddrs /\ bank \in Banks
    BY AccountFacts DEF Sound
  <2>3. Stocked(bank')
    BY <2>1, <2>2, SwapStocks DEF Supplied
  <2> QED  BY <2>1, <2>3 DEF Supplied
<1>6. ASSUME NEW u \in Users, NEW paid \in Payments, Send(u, paid)
      PROVE  Supplied'
  <2>1. /\ bank \in Banks /\ Funded(u, paid) /\ tx' = None
        /\ bank' = [bank EXCEPT ![paid.token] = Move(@, u, RouterAddr, paid.amount)]
    BY <1>6, SendPays
  <2>2. Stocked(bank')
    BY <2>1, PaymentStocks DEF Supplied
  <2> QED  BY <2>1, <2>2 DEF Supplied
<1>7. CASE Tick
  BY <1>7 DEF Tick, Supplied
<1>8. CASE UNCHANGED vars
  BY <1>8 DEF vars, Supplied
<1> QED  BY <1>1, <1>2, <1>3, <1>4, <1>5, <1>6, <1>7, <1>8 DEF Next

LEMMA InitiallySupplied == Init => Supplied
<1> SUFFICES ASSUME Init, NEW p \in PairAddrs, NEW i \in Assets
             PROVE  bank[Sides[p][i]][p] > 0
  BY DEF Supplied, Stocked, Init
<1>1. Sides[p][i] \in Tokens /\ p \in Accounts /\ p \notin Users
  BY SideFacts, AccountFacts
<1>2. SideOf(p, Sides[p][i]) \in Assets
  BY DEF SideOf
<1>3. Reserves[p][SideOf(p, Sides[p][i])] \in Nat \ {0}
  BY <1>2, RouterPairsAssumption
<1>4. bank[Sides[p][i]][p] = Reserves[p][SideOf(p, Sides[p][i])]
  BY <1>1 DEF Init
<1> QED  BY <1>3, <1>4

(* The factory's pair for a swap is the one that is swapped with. *)
LEMMA ListedPair ==
  ASSUME NEW p \in PairAddrs, NEW i \in Assets, NEW op,
         Sides[p][i] = op.offer, Sides[p][Other(i)] = op.ask
  PROVE  PairOf(op) = p /\ SideOf(p, op.offer) = i
<1>1. Other(i) \in Assets /\ Sides[p][i] # Sides[p][Other(i)] /\ Assets = {i, Other(i)}
  <2>1. Assets = {i, Other(i)}
    BY DEF Assets, Other
  <2> QED  BY <2>1, SideFacts
<1>2. Lists(p, op.offer, op.ask)
  BY <1>1 DEF Lists
<1>3. ASSUME NEW q \in PairAddrs, Lists(q, op.offer, op.ask)
      PROVE  q = p
  <2>1. {Sides[p][0], Sides[p][1]} = {op.offer, op.ask}
    BY <1>2 DEF Lists, Assets
  <2>2. Lists(q, Sides[p][0], Sides[p][1])
    BY <1>3, <2>1 DEF Lists
  <2> QED  BY <2>2, RouterPairsAssumption
<1>4. PairOf(op) = p
  BY <1>2, <1>3 DEF PairOf
<1>5. ASSUME NEW j \in Assets, Sides[p][j] = op.offer
      PROVE  j = i
  BY <1>1, <1>5
<1> QED  BY <1>4, <1>5 DEF SideOf

(* A route for which the simulation query is right: no pair is asked about *)
(* balances that the route has changed.                                    *)
Followed ==
  /\ Connected /\ PairsDiffer /\ tx.to \in Users
  /\ \A t \in Offered : tx.before[t][RouterAddr] = 0

(* The pair of swap op returns out for in, at the balances of b.           *)
Answers(b, op, in, out) ==
  LET p == PairOf(op)
      i == SideOf(p, op.offer)
  IN  /\ p \in PairAddrs /\ i \in Assets
      /\ Sides[p][i] = op.offer /\ Sides[p][Other(i)] = op.ask
      /\ ComputeSwapDefined(i, b[op.offer][p], b[op.ask][p], in)
      /\ out = ComputeSwap(i, b[op.offer][p], b[op.ask][p], in).return
      /\ out \in Nat

(* The first k amounts that are carried from pair to pair.                 *)
Carries(f, b, operations, k, offer) ==
  /\ f \in [0 .. k -> Nat]
  /\ f[0] = offer
  /\ \A n \in 1 .. k : Answers(b, operations[n], f[n - 1], f[n])

(* What has been carried so far is the router's, or the receiver's.        *)
Arrived(f) ==
  /\ Done < Last => bank[NextHop.offer][RouterAddr] = f[Done]
  /\ bank[Target(tx.operations)][tx.to] =
       AfterPaying(Target(tx.operations))[tx.to]
         + (IF Done = Last THEN f[Done] ELSE 0)

(* Pairs that the route has not visited are as they were.                  *)
Untouched ==
  \A p \in PairAddrs : (\A n \in 1 .. Done : PairOf(tx.operations[n]) # p) =>
    \A i \in Assets : bank[Sides[p][i]][p] = tx.before[Sides[p][i]][p]

Traced ==
  tx # None /\ Followed =>
    /\ Untouched
    /\ \E f : /\ Carries(f, tx.before, tx.operations, Done, tx.paid.amount)
              /\ Arrived(f)

LEMMA HandlerTraces ==
  ASSUME Sound, Sound', NEW u \in Users, NEW paid \in Payments, NEW operations \in Routes,
         NEW minimum \in Minimums, NEW to \in Recipients, NEW deadline \in Deadlines,
         ExecuteSwapOperations(u, paid, operations, minimum, to, deadline)
  PROVE  Traced'
<1>1. /\ bank \in Banks /\ Funded(u, paid) /\ Len(operations) > 0
      /\ bank' = [bank EXCEPT ![paid.token] = Move(@, u, RouterAddr, paid.amount)]
  BY DEF Sound, ExecuteSwapOperations
<1>2. tx' = [sender |-> u, paid |-> paid, operations |-> operations,
             queue |-> Messages(operations, to), to |-> to, minimum |-> minimum,
             prev |-> bank'[Target(operations)][to], deadline |-> deadline,
             before |-> bank]
  BY DEF ExecuteSwapOperations
<1>3. /\ tx'.paid = paid /\ tx'.operations = operations /\ tx'.to = to
      /\ tx'.queue = Messages(operations, to) /\ tx'.before = bank
      /\ tx'.prev = bank'[Target(operations)][to]
  BY <1>2
<1>4. /\ paid.token \in Tokens /\ paid.amount \in Nat
      /\ paid.amount <= bank[paid.token][u]
      /\ bank'[paid.token] = Move(bank[paid.token], u, RouterAddr, paid.amount)
      /\ \A a \in Accounts \ {u, RouterAddr} :
           bank'[paid.token][a] = bank[paid.token][a]
      /\ \A t \in Tokens \ {paid.token} : bank'[t] = bank[t]
  BY <1>1, PaymentFacts
<1>5. Len(operations) \in Nat /\ Len(Messages(operations, to)) = Len(operations)
  BY RouteFacts, MessagesFacts
<1>6. Last' = Len(operations) /\ Done' = 0
  BY <1>3, <1>5 DEF Last, Done
<1> SUFFICES ASSUME tx' # None, Followed'
             PROVE  /\ Untouched'
                    /\ \E f : /\ Carries(f, tx'.before, tx'.operations, Done',
                                         tx'.paid.amount)
                              /\ Arrived(f)'
  BY DEF Traced
<1>7. Untouched'
  <2> SUFFICES ASSUME NEW q \in PairAddrs, NEW i \in Assets
               PROVE  bank'[Sides[q][i]][q] = bank[Sides[q][i]][q]
    BY <1>3 DEF Untouched
  <2>1. Sides[q][i] \in Tokens /\ q \in Accounts \ {u, RouterAddr}
    BY SideFacts, AccountFacts
  <2> QED  BY <1>4, <2>1
<1> DEFINE f == [n \in 0 .. 0 |-> paid.amount]
<1>8. f \in [0 .. 0 -> Nat] /\ f[0] = paid.amount
  BY <1>4
<1> HIDE DEF f
<1>9. Carries(f, tx'.before, tx'.operations, Done', tx'.paid.amount)
  BY <1>3, <1>6, <1>8 DEF Carries
<1>10. bank'[paid.token][RouterAddr] = paid.amount
  <2>1. operations[1].offer = paid.token /\ 1 \in DOMAIN operations
    BY <1>1, <1>3, <1>5, RouteFacts DEF Followed, Connected
  <2>2. bank[paid.token][RouterAddr] = 0
    BY <1>3, <2>1 DEF Followed, Offered
  <2> DEFINE row == bank[paid.token]
             n   == paid.amount
  <2>3. /\ row \in [Accounts -> Nat] /\ u \in Accounts /\ RouterAddr \in Accounts
        /\ u # RouterAddr /\ n \in Nat /\ n <= row[u] /\ row[RouterAddr] = 0
    BY <1>1, <1>4, <2>2, AccountFacts DEF Banks, Rows
  <2> HIDE DEF row, n
  <2>4. Move(row, u, RouterAddr, n)[RouterAddr] = row[RouterAddr] + n
    BY ONLY <2>3, MoveFacts
  <2>5. Move(row, u, RouterAddr, n)[RouterAddr] = n
    BY <2>3, <2>4
  <2> QED  BY <1>4, <2>5 DEF row, n
<1>11. Arrived(f)'
  <2>1. bank'[NextHop'.offer][RouterAddr] = f[0]
    <3>1. NextHop' = operations[1]
      BY <1>3, <1>6 DEF NextHop
    <3>2. operations[1].offer = paid.token
      BY <1>3 DEF Followed, Connected
    <3> QED  BY <1>8, <1>10, <3>1, <3>2
  <2>2. /\ tx'.prev = AfterPaying(Target(tx.operations))'[tx'.to]
        /\ tx'.prev \in Nat
    BY DEF Sound, InFlight, Running, Transaction
  <2>3. bank'[Target(tx'.operations)][tx'.to] = tx'.prev + 0
    BY <1>3, <2>2
  <2>4. 0 # Last'
    BY <1>1, <1>5, <1>6
  <2>5. /\ Done' < Last' => bank'[NextHop'.offer][RouterAddr] = f[Done']
        /\ bank'[Target(tx'.operations)][tx'.to] =
             AfterPaying(Target(tx.operations))'[tx'.to]
               + (IF Done' = Last' THEN f[Done'] ELSE 0)
    BY <1>6, <2>1, <2>2, <2>3, <2>4
  <2> QED  BY <2>5 DEF Arrived
<1> QED  BY <1>7, <1>9, <1>11

LEMMA HopTraces ==
  ASSUME Sound, Traced, ExecuteSwapOperation
  PROVE  Traced'
<1>1. /\ InFlight /\ Running /\ tx # None /\ tx.queue # <<>>
      /\ tx' = [tx EXCEPT !.queue = Tail(tx.queue)]
  BY HopSwaps DEF InFlight
<1>2. /\ tx'.sender = tx.sender /\ tx'.paid = tx.paid /\ tx'.to = tx.to
      /\ tx'.operations = tx.operations /\ tx'.before = tx.before
      /\ Last' = Last /\ Done' = Done + 1
  BY <1>1, HopAdvances
<1>3. /\ Last \in Nat /\ Done \in Nat /\ Done + 1 <= Last
      /\ NextHop.offer \in Tokens /\ NextHop.ask \in Tokens
  BY <1>1, QueueFacts
<1>4. DOMAIN tx.operations = 1 .. Last /\ Len(tx.operations) = Last
      /\ tx.operations \in Routes
  BY <1>1, RouteFacts DEF Running, Transaction, Last
<1> SUFFICES ASSUME Followed'
             PROVE  /\ Untouched'
                    /\ \E g : /\ Carries(g, tx.before, tx.operations, Done + 1,
                                         tx.paid.amount)
                              /\ Arrived(g)'
  BY <1>2 DEF Traced
<1>5. Followed
  BY <1>2 DEF Followed, Connected, PairsDiffer, Offered
<1>6. PICK f : /\ Carries(f, tx.before, tx.operations, Done, tx.paid.amount)
               /\ Arrived(f)
  BY <1>1, <1>5 DEF Traced
<1>7. Untouched
  BY <1>1, <1>5 DEF Traced
<1>8. PICK p \in PairAddrs, i \in Assets :
        /\ Sides[p][i] = NextHop.offer /\ Sides[p][Other(i)] = NextHop.ask
        /\ Swapped(p, i, RouterAddr, bank[NextHop.offer][RouterAddr], NextReceiver)
        /\ Returned(p, i, bank[NextHop.offer][RouterAddr], NextReceiver)
  BY HopSwaps
<1>9. PairOf(NextHop) = p /\ SideOf(p, NextHop.offer) = i
  BY <1>8, ListedPair
<1>10. f \in [0 .. Done -> Nat] /\ f[Done] \in Nat /\ f[0] = tx.paid.amount
  BY <1>3, <1>6 DEF Carries
<1>11. bank[NextHop.offer][RouterAddr] = f[Done]
  BY <1>3, <1>6 DEF Arrived
<1>12. /\ bank[NextHop.offer][p] = tx.before[NextHop.offer][p]
       /\ bank[NextHop.ask][p] = tx.before[NextHop.ask][p]
  <2>1. ASSUME NEW n \in 1 .. Done
        PROVE  PairOf(tx.operations[n]) # p
    <3>1. n \in DOMAIN tx.operations /\ Done + 1 \in DOMAIN tx.operations
          /\ n # Done + 1
      BY <1>3, <1>4
    <3>2. PairOf(tx.operations[n]) # PairOf(tx.operations[Done + 1])
      BY <1>5, <3>1 DEF Followed, PairsDiffer
    <3> QED  BY <1>9, <3>2 DEF NextHop
  <2>2. \A j \in Assets : bank[Sides[p][j]][p] = tx.before[Sides[p][j]][p]
    BY <1>7, <2>1 DEF Untouched
  <2>3. Other(i) \in Assets
    BY SideFacts
  <2> QED  BY <1>8, <2>2, <2>3
<1> DEFINE out == ComputeSwap(i, tx.before[NextHop.offer][p],
                              tx.before[NextHop.ask][p], f[Done]).return
<1>13. /\ ComputeSwapDefined(i, tx.before[NextHop.offer][p],
                             tx.before[NextHop.ask][p], f[Done])
       /\ out \in Nat
       /\ NextReceiver \notin {p, FeeWallet, BurnAddr} =>
            bank'[NextHop.ask][NextReceiver] = bank[NextHop.ask][NextReceiver] + out
  BY <1>8, <1>11, <1>12 DEF Returned
<1> HIDE DEF out
<1>14. Answers(tx.before, NextHop, f[Done], out)
  BY <1>8, <1>9, <1>13 DEF Answers, out
<1>15. tx.to \in Users
  BY <1>5 DEF Followed
<1>16. NextReceiver \notin PairAddrs \union {FeeWallet, BurnAddr}
  BY <1>15, AccountFacts DEF NextReceiver
(* Nobody but the router, this pair, the receiver and the wallets notices. *)
<1>17. ASSUME NEW t \in Tokens,
              NEW a \in Accounts \ {RouterAddr, p, NextReceiver, FeeWallet, BurnAddr}
       PROVE  bank'[t][a] = bank[t][a]
  <2>1. CASE t = NextHop.offer
    BY <1>8, <2>1 DEF Swapped
  <2>2. CASE t = NextHop.ask
    BY <1>8, <2>2 DEF Swapped
  <2>3. CASE t \notin {NextHop.offer, NextHop.ask}
    <3>1. bank'[t] = bank[t]
      BY <1>8, <2>3 DEF Swapped
    <3> QED  BY <3>1
  <2> QED  BY <2>1, <2>2, <2>3
<1>18. Untouched'
  <2> SUFFICES ASSUME NEW q \in PairAddrs,
                      \A n \in 1 .. Done + 1 : PairOf(tx.operations[n]) # q,
                      NEW j \in Assets
               PROVE  bank'[Sides[q][j]][q] = tx.before[Sides[q][j]][q]
    BY <1>2 DEF Untouched
  <2>1. q # p
    <3>1. Done + 1 \in 1 .. Done + 1
      BY <1>3
    <3>2. PairOf(tx.operations[Done + 1]) # q
      BY <3>1
    <3> QED  BY <1>9, <3>2 DEF NextHop
  <2>2. bank[Sides[q][j]][q] = tx.before[Sides[q][j]][q]
    <3>1. \A n \in 1 .. Done : PairOf(tx.operations[n]) # q
      BY <1>3
    <3> QED  BY <1>7, <3>1 DEF Untouched
  <2>3. /\ Sides[q][j] \in Tokens
        /\ q \in Accounts \ {RouterAddr, p, NextReceiver, FeeWallet, BurnAddr}
    BY <1>16, <2>1, SideFacts, AccountFacts
  <2> QED  BY <1>17, <2>2, <2>3
<1>19. PICK g : /\ g \in [0 .. Done + 1 -> Nat] /\ g[Done + 1] = out
                /\ \A n \in 0 .. Done : g[n] = f[n]
  <2> DEFINE more == [n \in 0 .. Done + 1 |-> IF n <= Done THEN f[n] ELSE out]
  <2>1. \A n \in 0 .. Done + 1 : n <= Done => n \in 0 .. Done
    BY <1>3
  <2>2. more \in [0 .. Done + 1 -> Nat]
    BY <1>10, <1>13, <2>1
  <2>3. Done + 1 \in 0 .. Done + 1 /\ ~(Done + 1 <= Done)
    BY <1>3
  <2>4. \A n \in 0 .. Done : n \in 0 .. Done + 1 /\ n <= Done
    BY <1>3
  <2>5. more[Done + 1] = out /\ \A n \in 0 .. Done : more[n] = f[n]
    BY <2>3, <2>4
  <2> HIDE DEF more
  <2> QED  BY <2>2, <2>5
<1>20. Carries(g, tx.before, tx.operations, Done + 1, tx.paid.amount)
  <2>1. g[0] = tx.paid.amount
    BY <1>3, <1>10, <1>19
  <2>2. ASSUME NEW n \in 1 .. Done + 1
        PROVE  Answers(tx.before, tx.operations[n], g[n - 1], g[n])
    <3>1. n - 1 \in 0 .. Done /\ g[n - 1] = f[n - 1]
      BY <1>3, <1>19
    <3>2. CASE n = Done + 1
      <4>1. n - 1 = Done /\ g[n] = out
        BY <1>3, <1>19, <3>2
      <4> QED  BY <1>14, <3>1, <3>2, <4>1 DEF NextHop
    <3>3. CASE n # Done + 1
      <4>1. n \in 1 .. Done /\ g[n] = f[n]
        BY <1>3, <1>19, <3>3
      <4> QED  BY <1>6, <3>1, <4>1 DEF Carries
    <3> QED  BY <3>2, <3>3
  <2> QED  BY <1>19, <2>1, <2>2 DEF Carries
<1> DEFINE target == Target(tx.operations)
           due    == AfterPaying(target)[tx.to]
<1>21. /\ target = tx.operations[Last].ask /\ target \in Tokens
       /\ due \in Nat /\ AfterPaying(Target(tx.operations))'[tx'.to] = due
  <2>1. due \in Nat
    BY <1>1 DEF Running, Transaction
  <2>2. AfterPaying(Target(tx.operations))'[tx'.to] = due
    BY <1>2 DEF AfterPaying
  <2>3. target = tx.operations[Last].ask /\ target \in Tokens
    BY <1>3, <1>4, RouteFacts DEF Target
  <2> QED  BY <2>1, <2>2, <2>3
<1>22. bank[target][tx.to] = due
  <2>1. Done # Last
    BY <1>3
  <2>2. bank[target][tx.to] = due + 0
    BY <1>6, <2>1 DEF Arrived
  <2> QED  BY <1>21, <2>2
<1> HIDE DEF due
<1>23. CASE Done + 1 = Last
  <2>1. NextReceiver = tx.to /\ target = NextHop.ask
    BY <1>21, <1>23 DEF NextReceiver, NextHop
  <2>2. bank'[target][tx.to] = due + out
    BY <1>13, <1>16, <1>22, <2>1
  <2>3. /\ ~(Done' < Last') /\ Done' = Last' /\ g[Done'] = out
    BY <1>2, <1>3, <1>19, <1>23
  <2>4. /\ Done' < Last' => bank'[NextHop'.offer][RouterAddr] = g[Done']
        /\ bank'[Target(tx'.operations)][tx'.to] =
             AfterPaying(Target(tx.operations))'[tx'.to]
               + (IF Done' = Last' THEN g[Done'] ELSE 0)
    BY <1>2, <1>21, <2>2, <2>3
  <2>5. Arrived(g)'
    BY <2>4 DEF Arrived
  <2> QED  BY <1>18, <1>20, <2>5
<1>24. CASE Done + 1 # Last
  <2>1. /\ Done + 2 \in 2 .. Len(tx.operations) /\ (Done + 2) - 1 = Done + 1
        /\ (Done + 1) + 1 = Done + 2 /\ Done + 2 \in DOMAIN tx.operations
    BY <1>3, <1>4, <1>24
  <2>2. tx.operations[Done + 2].offer = NextHop.ask
    <3>1. tx.operations[Done + 2].offer = tx.operations[(Done + 2) - 1].ask
      BY <1>5, <2>1 DEF Followed, Connected
    <3> QED  BY <2>1, <3>1 DEF NextHop
  <2>3. NextReceiver = RouterAddr
    BY <1>24 DEF NextReceiver
  <2>4. bank[NextHop.ask][RouterAddr] = 0
    <3>1. ~OfferedNext(NextHop.ask)
      <4>1. NextHop.offer # NextHop.ask
        BY HopMoves
      <4> QED  BY <4>1 DEF OfferedNext, NextHop
    <3>2. Connected /\ tx.to # RouterAddr
      BY <1>5, <1>15, AccountFacts DEF Followed
    <3>3. bank[NextHop.ask][RouterAddr] =
            IF OfferedSoFar(NextHop.ask) THEN 0 ELSE tx.before[NextHop.ask][RouterAddr]
      BY <1>1, <1>3, <3>1, <3>2 DEF InFlight, Cleared
    <3>4. tx.before[NextHop.ask][RouterAddr] = 0
      BY <1>5, <2>1, <2>2 DEF Followed, Offered
    <3> QED  BY <3>3, <3>4
  <2>5. bank'[NextHop.ask][RouterAddr] = out
    BY <1>13, <1>16, <2>3, <2>4
  <2>6. NextHop' = tx.operations[Done + 2]
    BY <1>2, <2>1 DEF NextHop
  <2>7. tx.to \in Accounts \ {RouterAddr, p, NextReceiver, FeeWallet, BurnAddr}
    BY <1>15, <2>3, AccountFacts
  <2>8. bank'[target][tx.to] = due + 0
    BY <1>17, <1>21, <1>22, <2>7
  <2>9. Done' # Last' /\ g[Done'] = out
    BY <1>2, <1>3, <1>19, <1>24
  <2>10. /\ Done' < Last' => bank'[NextHop'.offer][RouterAddr] = g[Done']
         /\ bank'[Target(tx'.operations)][tx'.to] =
              AfterPaying(Target(tx.operations))'[tx'.to]
                + (IF Done' = Last' THEN g[Done'] ELSE 0)
    BY <1>2, <1>21, <2>2, <2>5, <2>6, <2>8, <2>9
  <2>11. Arrived(g)'
    BY <2>10 DEF Arrived
  <2> QED  BY <1>18, <1>20, <2>11
<1> QED  BY <1>23, <1>24

LEMMA StepTraces ==
  ASSUME Sound, Traced, [Next]_vars
  PROVE  Traced'
<1>1. ASSUME NEW u \in Users, NEW paid \in Payments, NEW operations \in Routes,
             NEW minimum \in Minimums, NEW to \in Recipients,
             NEW deadline \in Deadlines,
             ExecuteSwapOperations(u, paid, operations, minimum, to, deadline)
      PROVE  Traced'
  BY <1>1, StepSound, HandlerTraces
<1>2. CASE ExecuteSwapOperation
  BY <1>2, HopTraces
<1>3. CASE tx' = None
  BY <1>3 DEF Traced
<1>4. CASE UNCHANGED vars
  BY <1>4, ZenonT(40) DEF vars, Traced, Followed, Untouched, Arrived, Connected, PairsDiffer,
                Offered, NextHop, AfterPaying, Last, Done
<1>5. Commit \/ Revert => tx' = None
  BY DEF Commit, Revert
<1>6. ASSUME NEW u \in Users, NEW p \in PairAddrs, NEW i \in Assets,
             NEW offer \in Payments, Trade(u, p, i, offer)
      PROVE  tx' = None
  BY <1>6 DEF Trade
<1>7. ASSUME NEW u \in Users, NEW paid \in Payments, Send(u, paid)
      PROVE  tx' = None
  BY <1>7 DEF Send
<1>8. Tick => tx' = None
  BY DEF Tick
<1> QED  BY <1>1, <1>2, <1>3, <1>4, <1>5, <1>6, <1>7, <1>8 DEF Next

LEMMA AlwaysTraced == Spec => [](Sound /\ Supplied /\ Traced)
<1>1. Init => Supplied /\ Traced
  BY InitiallySupplied DEF Init, Traced
<1>2. Sound /\ Supplied /\ Traced /\ [Next]_vars => Supplied' /\ Traced'
  BY StepSupplied, StepTraces
<1> QED  BY <1>1, <1>2, AlwaysSound, PTL DEF Spec

(* The simulation query computes what is carried. *)
Simulates(s, b, offer, operations) ==
  s = [n \in 0 .. Len(operations) |->
         IF n = 0 THEN offer
         ELSE LET op == operations[n]
                  p  == PairOf(op)
              IN  ComputeSwap(SideOf(p, op.offer), b[op.offer][p], b[op.ask][p],
                              s[n - 1]).return]

LEMMA SimulationFollows ==
  ASSUME NEW operations \in Routes, NEW b, NEW offer, NEW f,
         Carries(f, b, operations, Len(operations), offer)
  PROVE  SimulateSwapOperations(b, offer, operations) = f[Len(operations)]
<1> DEFINE N == Len(operations)
           s == CHOOSE s : Simulates(s, b, offer, operations)
<1>1. N \in Nat
  BY RouteFacts
<1>2. f \in [0 .. N -> Nat] /\ f[0] = offer
  BY DEF Carries
<1>3. ASSUME NEW n \in 1 .. N
      PROVE  f[n] = LET op == operations[n]
                        p  == PairOf(op)
                    IN  ComputeSwap(SideOf(p, op.offer), b[op.offer][p],
                                    b[op.ask][p], f[n - 1]).return
  BY DEF Carries, Answers
<1>4. Simulates(f, b, offer, operations)
  <2>1. f = [n \in 0 .. N |-> f[n]]
    BY <1>2
  <2>2. ASSUME NEW n \in 0 .. N
        PROVE  f[n] = IF n = 0 THEN offer
                      ELSE LET op == operations[n]
                               p  == PairOf(op)
                           IN  ComputeSwap(SideOf(p, op.offer), b[op.offer][p],
                                           b[op.ask][p], f[n - 1]).return
    <3>1. CASE n = 0
      BY <1>2, <3>1
    <3>2. CASE n # 0
      <4>1. n \in 1 .. N
        BY <1>1, <3>2
      <4> QED  BY <1>3, <3>2, <4>1
    <3> QED  BY <3>1, <3>2
  <2> QED  BY <2>1, <2>2 DEF Simulates
<1>5. Simulates(s, b, offer, operations)
  BY <1>4
<1>6. SimulateSwapOperations(b, offer, operations) = s[N]
  BY DEF SimulateSwapOperations, Simulates
<1> HIDE DEF s
<1> DEFINE Good == {n \in 0 .. N : s[n] = f[n]}
<1>7. 0 \in Good
  <2>1. 0 \in 0 .. N
    BY <1>1
  <2>2. s[0] = offer
    BY <1>5, <2>1 DEF Simulates
  <2> QED  BY <1>2, <2>1, <2>2
<1>8. ASSUME NEW n \in 1 .. N, n - 1 \in Good
      PROVE  n \in Good
  <2>1. n \in 0 .. N /\ n # 0 /\ s[n - 1] = f[n - 1]
    BY <1>8
  <2>2. s[n] = LET op == operations[n]
                   p  == PairOf(op)
               IN  ComputeSwap(SideOf(p, op.offer), b[op.offer][p],
                               b[op.ask][p], s[n - 1]).return
    BY <1>5, <2>1 DEF Simulates
  <2> QED  BY <1>3, <2>1, <2>2
<1>9. N \in Good
  <2> HIDE DEF Good
  <2>1. \A n \in 0 .. N : n \in Good
    BY <1>1, <1>7, <1>8, UptoInduction
  <2> QED  BY <1>1, <2>1
<1> QED  BY <1>6, <1>9

(* The reverse query asks no pair for more than it was offered. *)
TakesFor(b, op, ask) ==
  OfferAmount(b[op.offer][PairOf(op)], b[op.ask][PairOf(op)], ask).offer

LEMMA AnswerWithin ==
  ASSUME NEW b \in Banks, Stocked(b), NEW op,
         Scale[Other(SideOf(PairOf(op), op.offer))] = 1,
         NEW in \in Nat, NEW out, Answers(b, op, in, out),
         NEW ask \in Nat, ask <= out
  PROVE  TakesFor(b, op, ask) \in Nat /\ TakesFor(b, op, ask) <= in
<1> DEFINE p == PairOf(op)
           i == SideOf(p, op.offer)
           x == b[op.offer][p]
           y == b[op.ask][p]
<1>1. /\ p \in PairAddrs /\ i \in Assets
      /\ Sides[p][i] = op.offer /\ Sides[p][Other(i)] = op.ask
      /\ out = ComputeSwap(i, x, y, in).return
  BY DEF Answers
<1>2. Other(i) \in Assets /\ op.offer \in Tokens /\ op.ask \in Tokens /\ p \in Accounts
  BY <1>1, SideFacts, AccountFacts
<1>3. x \in Nat \ {0} /\ y \in Nat \ {0}
  <2>1. x \in Nat /\ y \in Nat
    BY <1>2 DEF Banks, Rows
  <2>2. b[Sides[p][i]][p] > 0 /\ b[Sides[p][Other(i)]][p] > 0
    BY <1>1, <1>2 DEF Stocked
  <2> QED  BY <1>1, <2>1, <2>2
<1>4. Scale[i] \in Nat \ {0} /\ Scale[Other(i)] = 1
  BY <1>1, ScaleAssumption
<1>5. TakesFor(b, op, ask) = OfferAmount(x, y, ask).offer
  BY DEF TakesFor
<1> HIDE DEF p, i, x, y
<1>6. out = SwapRaw(x, y, in).return
  <2> DEFINE k == Scale[i]
  <2>1. y * 1 = y
    BY <1>3
  <2>2. out = SwapRaw(x * k, y, in * k).return \div 1
    BY <1>1, <1>4, <2>1 DEF ComputeSwap
  <2>3. k \in Nat \ {0} /\ x \in Nat \ {0} /\ y \in Nat
    BY <1>3, <1>4
  <2> HIDE DEF k
  <2>4. SwapRaw(x * k, y, in * k).return = SwapRaw(x, y, in).return
    BY <2>3, OfferScaled
  <2>5. SwapRaw(x, y, in).return \in Int
    <3>1. GrossReturn(x, y, in) \in Nat
      BY <1>3, GrossBounds
    <3>2. Commission(GrossReturn(x, y, in)) \in Nat
      BY <3>1, CommissionWithinGross
    <3> QED  BY <3>1, <3>2 DEF SwapRaw
  <2>6. \A r \in Int : r \div 1 = r
    OBVIOUS
  <2> QED  BY ONLY <2>2, <2>4, <2>5, <2>6
<1> QED  BY <1>3, <1>5, <1>6, OfferWithin

Reverses(r, b, ask, operations) ==
  r = [n \in 0 .. Len(operations) |->
         IF n = 0 THEN ask
         ELSE LET op == operations[Len(operations) - n + 1]
                  p  == PairOf(op)
              IN  OfferAmount(b[op.offer][p], b[op.ask][p], r[n - 1]).offer]

LEMMA ReversesMeans ==
  ASSUME NEW operations \in Routes, NEW b, NEW ask, NEW r
  PROVE  Reverses(r, b, ask, operations) <=>
           r = [n \in 0 .. Len(operations) |->
                  IF n = 0 THEN ask
                  ELSE TakesFor(b, operations[Len(operations) - n + 1], r[n - 1])]
BY DEF Reverses, TakesFor

LEMMA ReverseWithin ==
  ASSUME NEW b \in Banks, Stocked(b), NEW operations \in Routes,
         \A n \in 1 .. Len(operations) :
           Scale[Other(SideOf(PairOf(operations[n]), operations[n].offer))] = 1,
         NEW offer, NEW f, Carries(f, b, operations, Len(operations), offer)
  PROVE  ReverseSimulateSwapOperations(b, f[Len(operations)], operations) <= offer
<1> DEFINE N   == Len(operations)
           ask == f[N]
           G   == [n \in 1 .. N |-> [a \in Nat |->
                     IF TakesFor(b, operations[N - n + 1], a) \in Nat
                     THEN TakesFor(b, operations[N - n + 1], a) ELSE 0]]
           r   == CHOOSE r : Reverses(r, b, ask, operations)
<1>1. N \in Nat
  BY RouteFacts
<1>2. /\ f \in [0 .. N -> Nat] /\ f[0] = offer
      /\ \A n \in 1 .. N : Answers(b, operations[n], f[n - 1], f[n])
  BY DEF Carries
<1>3. ask \in Nat
  BY <1>1, <1>2
<1>4. ReverseSimulateSwapOperations(b, ask, operations) = r[N]
  BY DEF ReverseSimulateSwapOperations, Reverses
(* One pair backwards. *)
<1>5. ASSUME NEW n \in 1 .. N, NEW a \in Nat, a <= f[N - (n - 1)]
      PROVE  /\ TakesFor(b, operations[N - n + 1], a) \in Nat
             /\ TakesFor(b, operations[N - n + 1], a) <= f[N - n]
  <2> DEFINE m == N - n + 1
  <2>1. m \in 1 .. N /\ m - 1 = N - n /\ m = N - (n - 1) /\ m - 1 \in 0 .. N
    BY <1>1
  <2>2. Answers(b, operations[m], f[m - 1], f[m])
    BY <1>2, <2>1
  <2>3. f[m - 1] \in Nat /\ a <= f[m]
        /\ Scale[Other(SideOf(PairOf(operations[m]), operations[m].offer))] = 1
    BY <1>2, <1>5, <2>1
  <2> HIDE DEF m
  <2>4. TakesFor(b, operations[m], a) \in Nat /\ TakesFor(b, operations[m], a) <= f[m - 1]
    BY <2>2, <2>3, AnswerWithin
  <2> QED  BY <2>1, <2>4 DEF m
<1>6. \E h : Reverses(h, b, ask, operations)
  <2>1. /\ G \in [1 .. N -> [Nat -> Nat]]
        /\ \A n \in 1 .. N, a \in Nat :
             TakesFor(b, operations[N - n + 1], a) \in Nat =>
               G[n][a] = TakesFor(b, operations[N - n + 1], a)
    OBVIOUS
  <2> HIDE DEF G, ask
  <2>2. \E h : Iterates(h, N, Nat, ask, G)
    BY <1>1, <1>3, <2>1, RecursionExists
  <2>3. PICK h : /\ h \in [0 .. N -> Nat] /\ h[0] = ask
                 /\ \A n \in 1 .. N : h[n] = G[n][h[n - 1]]
    BY <2>2 DEF Iterates
  <2> DEFINE Good == {n \in 0 .. N : h[n] <= f[N - n]}
  <2>4. 0 \in Good
    <3>1. 0 \in 0 .. N /\ N - 0 = N
      BY <1>1
    <3>2. ask <= f[N - 0]
      BY <1>3, <3>1 DEF ask
    <3> QED  BY <2>3, <3>1, <3>2
  <2>5. ASSUME NEW n \in 1 .. N, n - 1 \in Good
        PROVE  n \in Good /\ h[n] = TakesFor(b, operations[N - n + 1], h[n - 1])
    <3>1. n \in 0 .. N /\ n - 1 \in 0 .. N /\ h[n - 1] \in Nat
          /\ h[n - 1] <= f[N - (n - 1)]
      BY <2>3, <2>5
    <3>2. /\ TakesFor(b, operations[N - n + 1], h[n - 1]) \in Nat
          /\ TakesFor(b, operations[N - n + 1], h[n - 1]) <= f[N - n]
      BY <1>5, <3>1
    <3>3. h[n] = TakesFor(b, operations[N - n + 1], h[n - 1])
      BY <2>1, <2>3, <3>1, <3>2
    <3> QED  BY <3>1, <3>2, <3>3
  <2>6. \A n \in 0 .. N : n \in Good
    <3> HIDE DEF Good
    <3> QED  BY <1>1, <2>4, <2>5, UptoInduction
  <2>7. ASSUME NEW n \in 0 .. N
        PROVE  h[n] = IF n = 0 THEN ask
                      ELSE TakesFor(b, operations[N - n + 1], h[n - 1])
    <3>1. CASE n = 0
      BY <2>3, <3>1
    <3>2. CASE n # 0
      <4>1. n \in 1 .. N /\ n - 1 \in 0 .. N
        BY <1>1, <3>2
      <4>2. n - 1 \in Good
        BY <2>6, <4>1
      <4> QED  BY <2>5, <3>2, <4>1, <4>2
    <3> QED  BY <3>1, <3>2
  <2>8. h = [n \in 0 .. N |-> h[n]]
    BY <2>3
  <2>9. Reverses(h, b, ask, operations)
    BY <2>7, <2>8, ReversesMeans
  <2> QED  BY <2>9
<1>7. Reverses(r, b, ask, operations)
  BY <1>6
<1> HIDE DEF r, G, ask
<1>8. \A n \in 0 .. N : r[n] = IF n = 0 THEN ask
                               ELSE TakesFor(b, operations[N - n + 1], r[n - 1])
  <2>1. r = [n \in 0 .. N |-> IF n = 0 THEN ask
                              ELSE TakesFor(b, operations[N - n + 1], r[n - 1])]
    BY <1>7, ReversesMeans
  <2> QED  BY <2>1
<1> DEFINE Good == {n \in 0 .. N : r[n] \in Nat /\ r[n] <= f[N - n]}
<1>9. 0 \in Good
  <2>1. 0 \in 0 .. N /\ N - 0 = N
    BY <1>1
  <2>2. ask <= f[N - 0]
    BY <1>3, <2>1 DEF ask
  <2>3. r[0] = ask
    BY <1>8, <2>1
  <2> QED  BY <1>3, <2>1, <2>2, <2>3
<1>10. ASSUME NEW n \in 1 .. N, n - 1 \in Good
       PROVE  n \in Good
  <2>1. n \in 0 .. N /\ n # 0 /\ r[n - 1] \in Nat /\ r[n - 1] <= f[N - (n - 1)]
    BY <1>10
  <2>2. r[n] = TakesFor(b, operations[N - n + 1], r[n - 1])
    BY <1>8, <2>1
  <2>3. r[n] \in Nat /\ r[n] <= f[N - n]
    BY <1>5, <2>1, <2>2
  <2> QED  BY <2>1, <2>3
<1>11. N \in Good
  <2> HIDE DEF Good
  <2>1. \A n \in 0 .. N : n \in Good
    BY <1>1, <1>9, <1>10, UptoInduction
  <2> QED  BY <1>1, <2>1
<1>12. N - N = 0
  BY <1>1
<1>13. r[N] <= offer
  BY <1>2, <1>11, <1>12
<1> QED  BY <1>4, <1>13 DEF ask

LEMMA CommitMatches ==
  ASSUME Sound, Supplied, Traced, [Next]_vars, Committed, Followed
  PROVE  /\ Gained = SimulateSwapOperations(tx.before, tx.paid.amount, tx.operations)
         /\ DecimalsKept =>
              ReverseSimulateSwapOperations(tx.before, Gained, tx.operations)
                <= tx.paid.amount
<1>1. Commit
  BY DEF Committed, Next, vars, ExecuteSwapOperations, ExecuteSwapOperation,
         Revert, Trade, Send, Tick
<1>2. tx # None /\ InFlight /\ Running /\ tx.queue = <<>>
  BY <1>1 DEF Commit, Sound, InFlight
<1>3. /\ tx.operations \in Routes /\ tx.before \in Banks /\ tx.prev \in Nat
      /\ tx.prev = AfterPaying(Target(tx.operations))[tx.to]
  BY <1>2 DEF Running, Transaction
<1>4. Last \in Nat /\ Done = Last
  <2>1. Last \in Nat
    BY <1>3, RouteFacts DEF Last
  <2>2. Done = Last - 0
    <3>1. Len(<<>>) = 0
      OBVIOUS
    <3> QED  BY <1>2, <3>1 DEF Done
  <2> QED  BY <2>1, <2>2
<1>5. PICK f : /\ Carries(f, tx.before, tx.operations, Last, tx.paid.amount)
               /\ Arrived(f)
  BY <1>2, <1>4 DEF Traced
<1>6. f[Last] \in Nat
  BY <1>4, <1>5 DEF Carries
<1>7. Gained = f[Last]
  <2>1. bank[Target(tx.operations)][tx.to]
          = AfterPaying(Target(tx.operations))[tx.to] + f[Last]
    BY <1>4, <1>5 DEF Arrived
  <2>2. Gained = bank[Target(tx.operations)][tx.to]
                   - AfterPaying(Target(tx.operations))[tx.to]
    BY DEF Gained
  <2> QED  BY <1>3, <1>6, <2>1, <2>2
<1>8. Carries(f, tx.before, tx.operations, Len(tx.operations), tx.paid.amount)
      /\ f[Last] = f[Len(tx.operations)]
  BY <1>5 DEF Last
<1>9. SimulateSwapOperations(tx.before, tx.paid.amount, tx.operations)
        = f[Len(tx.operations)]
  BY <1>3, <1>8, SimulationFollows
<1>10. ASSUME DecimalsKept
       PROVE  ReverseSimulateSwapOperations(tx.before, f[Len(tx.operations)],
                                            tx.operations) <= tx.paid.amount
  <2>1. Stocked(tx.before)
    BY <1>2 DEF Supplied
  <2>2. \A n \in 1 .. Len(tx.operations) :
          Scale[Other(SideOf(PairOf(tx.operations[n]), tx.operations[n].offer))] = 1
    BY <1>3, <1>10, RouteFacts DEF DecimalsKept
  <2> QED  BY <1>3, <1>8, <2>1, <2>2, ReverseWithin
<1> QED  BY <1>7, <1>8, <1>9, <1>10

(* A connected route over different pairs pays a user exactly what the     *)
(* simulation query answers before it, if the router owns nothing that it  *)
(* offers, and the reverse query never answers that this takes more than   *)
(* what was paid in, if no swap rounds to fewer decimals: however long the *)
(* route, whatever the pools, amounts and rates.                           *)
THEOREM SimulationIsExact == Spec => SimulationExact
<1>1. Sound /\ Supplied /\ Traced /\ [Next]_vars =>
        [ /\ Committed /\ Connected /\ PairsDiffer /\ tx.to \in Users
          /\ \A t \in Offered : tx.before[t][RouterAddr] = 0
          => /\ Gained = SimulateSwapOperations(tx.before, tx.paid.amount,
                                                tx.operations)
             /\ DecimalsKept =>
                  ReverseSimulateSwapOperations(tx.before, Gained, tx.operations)
                    <= tx.paid.amount]_vars
  BY CommitMatches DEF Followed
<1> QED  BY <1>1, AlwaysTraced, PTL DEF Spec, SimulationExact
=============================================================================
