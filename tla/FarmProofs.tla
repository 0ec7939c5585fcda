----------------------------- MODULE FarmProofs -----------------------------
(***************************************************************************)
(* The farm keeps the bonded tokens and gives them back on demand, issues  *)
(* what the schedule says and takes back nothing that was earned, for any  *)
(* users, schedules, amounts and times.                                    *)
(***************************************************************************)
EXTENDS FarmProperties, ArithmeticProofs

LEMMA FarmAccountFacts ==
  /\ Users \subseteq Accounts
  /\ Owner \in Accounts /\ FarmAddr \in Accounts /\ NewFarm \in Accounts
  /\ FarmAddr \notin Users /\ FarmAddr # Owner /\ FarmAddr # NewFarm
  /\ StakingToken \in Tokens /\ RewardToken \in Tokens
BY FarmAccountsAssumption DEF Accounts, Tokens

(* Rounding down after a multiplication gives a natural number. *)
LEMMA MulFloorType ==
  ASSUME NEW n \in Nat, NEW d \in Nat
  PROVE  MulFloor(n, d) \in Nat
BY OneAssumption, TimesNat, DivBounds DEF MulFloor

(* A fitting number is a natural one. *)
LEMMA FittingIsNatural ==
  ASSUME NEW n, FitsUint128(n)
  PROVE  n \in Nat
BY Uint128Assumption DEF FitsUint128

-----------------------------------------------------------------------------
(* The inductive invariant: types, indices behind the global one, and the  *)
(* principal of the stakers.                                               *)
Sound == TypeOK /\ IndexNotAhead /\ PrincipalCovered

(* A settlement that is defined moves the index forward ... *)
LEMMA IndexRises ==
  ASSUME Sound, RewardDefined(now)
  PROVE  /\ IndexAt(now) \in Nat
         /\ IndexAt(now) >= globalIndex
<1>1. CASE totalBond = 0
  BY <1>1 DEF IndexAt, Sound, TypeOK
<1>2. CASE totalBond # 0
  <2> DEFINE rise == FromRatio(Distributed(schedule, lastDistributed, now), totalBond)
  <2>1. totalBond > 0 /\ globalIndex \in Nat
    BY <1>2 DEF Sound, TypeOK
  <2>2. FitsUint128(rise)
    BY <2>1 DEF RewardDefined
  <2>3. rise \in Nat
    BY <2>2, FittingIsNatural
  <2>4. IndexAt(now) = globalIndex + rise
    BY <1>2 DEF IndexAt
  <2> HIDE DEF rise
  <2> QED  BY <2>1, <2>3, <2>4
<1> QED  BY <1>1, <1>2

(* ... and leaves a staker with a well-formed record at that index. *)
LEMMA SettledRecord ==
  ASSUME Sound, NEW u \in Users, Settleable(u)
  PROVE  /\ IndexAt(now) \in Nat /\ IndexAt(now) >= globalIndex
         /\ Settled(u) \in Staker
         /\ Settled(u).index = IndexAt(now)
         /\ Settled(u).bond = staker[u].bond
<1>1. IndexAt(now) \in Nat /\ IndexAt(now) >= globalIndex
  BY IndexRises DEF Settleable
<1>2. staker[u].bond \in Nat
  BY DEF Sound, TypeOK, Staker
<1>3. Settled(u).pending \in Nat
  BY FittingIsNatural DEF Settleable
<1>4. Settled(u) = [index |-> IndexAt(now), bond |-> staker[u].bond,
                    pending |-> staker[u].pending + Earned(staker[u], IndexAt(now))]
  BY DEF Settled
<1> QED  BY <1>1, <1>2, <1>3, <1>4 DEF Staker

(* What is stored of a record keeps its type and is not ahead. *)
LEMMA StoredRecord ==
  ASSUME NEW info \in Staker
  PROVE  /\ Stored(info) \in Staker
         /\ Stored(info).index <= info.index
BY DEF Stored, NoStaker, Staker

(* The step of one settlement: any record that is not ahead of the index   *)
(* may replace that of u.                                                  *)
LEMMA SettlementKeepsIndices ==
  ASSUME Sound, NEW u \in Users, NEW info \in Staker,
         IndexAt(now) \in Nat, IndexAt(now) >= globalIndex,
         info.index <= IndexAt(now),
         staker' = [staker EXCEPT ![u] = info],
         globalIndex' = IndexAt(now), lastDistributed' = now, now' = now
  PROVE  IndexNotAhead' /\ staker' \in [Users -> Staker]
         /\ globalIndex' \in Nat /\ lastDistributed' \in Nat /\ now' \in Nat
<1>1. /\ now \in Nat /\ globalIndex \in Nat
      /\ staker \in [Users -> Staker]
      /\ \A v \in Users : staker[v].index <= globalIndex
  BY DEF Sound, TypeOK, IndexNotAhead
<1>2. staker' \in [Users -> Staker]
  BY <1>1
<1>3. ASSUME NEW v \in Users
      PROVE  staker'[v].index <= globalIndex'
  <2>1. CASE v = u
    BY <1>1, <2>1
  <2>2. CASE v # u
    <3>1. staker'[v] = staker[v] /\ staker[v].index \in Nat
      BY <1>1, <2>2 DEF Staker
    <3> QED  BY <1>1, <3>1
  <2> QED  BY <2>1, <2>2
<1> QED  BY <1>1, <1>2, <1>3 DEF IndexNotAhead

(* A transfer of one token leaves the other alone. *)
LEMMA TransferFacts ==
  ASSUME Sound, NEW token \in Tokens, NEW from \in Accounts, NEW to \in Accounts,
         from # to, NEW n \in Nat, bank[token][from] >= n,
         bank' = [bank EXCEPT ![token] = Move(bank[token], from, to, n)]
  PROVE  /\ bank' \in [Tokens -> [Accounts -> Nat]]
         /\ bank[token] \in [Accounts -> Nat]
         /\ bank'[token] = Move(bank[token], from, to, n)
         /\ \A other \in Tokens \ {token} : bank'[other] = bank[other]
<1> DEFINE moved == Move(bank[token], from, to, n)
<1>1. bank \in [Tokens -> [Accounts -> Nat]] /\ bank[token] \in [Accounts -> Nat]
  BY DEF Sound, TypeOK
<1>2. moved \in [Accounts -> Nat]
  BY <1>1, MoveFacts
<1> HIDE DEF moved
<1>3. bank' = [bank EXCEPT ![token] = moved]
  BY DEF moved
<1> QED  BY <1>1, <1>2, <1>3 DEF moved

-----------------------------------------------------------------------------
(* The actions.  A step is forward when it takes back neither the index    *)
(* nor the clock of the farm.                                              *)
Forward == globalIndex' >= globalIndex /\ lastDistributed' >= lastDistributed

LEMMA BondSound ==
  ASSUME Sound, NEW u \in Users, NEW amount \in Nat, Bond(u, amount)
  PROVE  Sound' /\ Forward
<1> DEFINE info == [Settled(u) EXCEPT !.bond = Settled(u).bond + amount]
<1>1. /\ Settleable(u) /\ bank[StakingToken][u] >= amount
      /\ bank' = [bank EXCEPT ![StakingToken] =
                     Move(bank[StakingToken], u, FarmAddr, amount)]
      /\ staker' = [staker EXCEPT ![u] = info]
      /\ totalBond' = totalBond + amount
      /\ globalIndex' = IndexAt(now) /\ lastDistributed' = now
      /\ schedule' = schedule /\ now' = now
  BY DEF Bond
<1>2. /\ IndexAt(now) \in Nat /\ IndexAt(now) >= globalIndex
      /\ Settled(u) \in Staker /\ Settled(u).index = IndexAt(now)
  BY <1>1, SettledRecord
<1>3. info \in Staker /\ info.index <= IndexAt(now)
  BY <1>2 DEF Staker
<1> HIDE DEF info
<1>4. /\ IndexNotAhead' /\ staker' \in [Users -> Staker]
      /\ globalIndex' \in Nat /\ lastDistributed' \in Nat /\ now' \in Nat
  BY <1>1, <1>2, <1>3, SettlementKeepsIndices
<1>5. /\ u \in Accounts /\ FarmAddr \in Accounts /\ u # FarmAddr
      /\ StakingToken \in Tokens
  BY FarmAccountFacts
<1>6. /\ bank' \in [Tokens -> [Accounts -> Nat]]
      /\ bank[StakingToken][FarmAddr] \in Nat
      /\ bank'[StakingToken][FarmAddr] = bank[StakingToken][FarmAddr] + amount
  <2>1. /\ bank[StakingToken][u] >= amount
        /\ bank' = [bank EXCEPT ![StakingToken] =
                       Move(bank[StakingToken], u, FarmAddr, amount)]
    BY <1>1
  <2>2. /\ bank' \in [Tokens -> [Accounts -> Nat]]
        /\ bank[StakingToken] \in [Accounts -> Nat]
        /\ bank'[StakingToken] = Move(bank[StakingToken], u, FarmAddr, amount)
    BY <1>5, <2>1, TransferFacts
  <2>3. Move(bank[StakingToken], u, FarmAddr, amount)[FarmAddr]
          = bank[StakingToken][FarmAddr] + amount
    BY <1>5, <2>1, <2>2, MoveFacts
  <2> QED  BY <1>5, <2>2, <2>3
<1>7. totalBond \in Nat /\ totalBond' \in Nat /\ lastDistributed <= now
  BY <1>1 DEF Sound, TypeOK, IndexNotAhead
<1>8. PrincipalCovered'
  BY <1>1, <1>6, <1>7 DEF Sound, PrincipalCovered
<1> QED  BY <1>1, <1>2, <1>4, <1>6, <1>7, <1>8
         DEF Sound, TypeOK, IsSchedule, Forward

LEMMA UnbondSound ==
  ASSUME Sound, NEW u \in Users, NEW amount \in Nat, Unbond(u, amount)
  PROVE  Sound' /\ Forward
<1> DEFINE rest == [Settled(u) EXCEPT !.bond = Settled(u).bond - amount]
<1>1. /\ Settleable(u) /\ bank[StakingToken][FarmAddr] >= amount
      /\ staker[u].bond >= amount /\ totalBond >= amount
      /\ bank' = [bank EXCEPT ![StakingToken] =
                     Move(bank[StakingToken], FarmAddr, u, amount)]
      /\ staker' = [staker EXCEPT ![u] = Stored(rest)]
      /\ totalBond' = totalBond - amount
      /\ globalIndex' = IndexAt(now) /\ lastDistributed' = now
      /\ schedule' = schedule /\ now' = now
  BY DEF Unbond, UnbondAllowed, HasBonded
<1>2. /\ IndexAt(now) \in Nat /\ IndexAt(now) >= globalIndex
      /\ Settled(u) \in Staker /\ Settled(u).index = IndexAt(now)
      /\ Settled(u).bond = staker[u].bond
  BY <1>1, SettledRecord
<1>3. rest \in Staker /\ rest.index = IndexAt(now)
  BY <1>1, <1>2 DEF Staker
<1> HIDE DEF rest
<1>4. Stored(rest) \in Staker /\ Stored(rest).index <= IndexAt(now)
  BY <1>3, StoredRecord
<1>5. /\ IndexNotAhead' /\ staker' \in [Users -> Staker]
      /\ globalIndex' \in Nat /\ lastDistributed' \in Nat /\ now' \in Nat
  BY <1>1, <1>2, <1>4, SettlementKeepsIndices
<1>6. /\ u \in Accounts /\ FarmAddr \in Accounts /\ u # FarmAddr
      /\ StakingToken \in Tokens
  BY FarmAccountFacts
<1>7. /\ bank' \in [Tokens -> [Accounts -> Nat]]
      /\ bank[StakingToken][FarmAddr] \in Nat
      /\ bank'[StakingToken][FarmAddr] = bank[StakingToken][FarmAddr] - amount
  <2>1. /\ bank[StakingToken][FarmAddr] >= amount
        /\ bank' = [bank EXCEPT ![StakingToken] =
                       Move(bank[StakingToken], FarmAddr, u, amount)]
    BY <1>1
  <2>2. /\ bank' \in [Tokens -> [Accounts -> Nat]]
        /\ bank[StakingToken] \in [Accounts -> Nat]
        /\ bank'[StakingToken] = Move(bank[StakingToken], FarmAddr, u, amount)
    BY <1>6, <2>1, TransferFacts
  <2>3. Move(bank[StakingToken], FarmAddr, u, amount)[FarmAddr]
          = bank[StakingToken][FarmAddr] - amount
    BY <1>6, <2>1, <2>2, MoveFacts
  <2> QED  BY <1>6, <2>2, <2>3
<1>8. totalBond \in Nat /\ totalBond' \in Nat /\ lastDistributed <= now
  BY <1>1 DEF Sound, TypeOK, IndexNotAhead
<1>9. PrincipalCovered'
  BY <1>1, <1>7, <1>8 DEF Sound, PrincipalCovered
<1> QED  BY <1>1, <1>2, <1>5, <1>7, <1>8, <1>9
         DEF Sound, TypeOK, IsSchedule, Forward

LEMMA WithdrawSound ==
  ASSUME Sound, NEW u \in Users, Withdraw(u)
  PROVE  Sound' /\ Forward
<1> DEFINE amount == Settled(u).pending
           rest   == [Settled(u) EXCEPT !.pending = 0]
<1>1. /\ Settleable(u) /\ bank[RewardToken][FarmAddr] >= amount
      /\ bank' = [bank EXCEPT ![RewardToken] =
                     Move(bank[RewardToken], FarmAddr, u, amount)]
      /\ staker' = [staker EXCEPT ![u] = Stored(rest)]
      /\ globalIndex' = IndexAt(now) /\ lastDistributed' = now
      /\ schedule' = schedule /\ totalBond' = totalBond /\ now' = now
  BY DEF Withdraw, Cleared, RewardPaid
<1>2. /\ IndexAt(now) \in Nat /\ IndexAt(now) >= globalIndex
      /\ Settled(u) \in Staker /\ Settled(u).index = IndexAt(now)
  BY <1>1, SettledRecord
<1>3. rest \in Staker /\ rest.index = IndexAt(now) /\ amount \in Nat
  BY <1>2 DEF Staker
<1> HIDE DEF rest, amount
<1>4. Stored(rest) \in Staker /\ Stored(rest).index <= IndexAt(now)
  BY <1>3, StoredRecord
<1>5. /\ IndexNotAhead' /\ staker' \in [Users -> Staker]
      /\ globalIndex' \in Nat /\ lastDistributed' \in Nat /\ now' \in Nat
  BY <1>1, <1>2, <1>4, SettlementKeepsIndices
<1>6. /\ u \in Accounts /\ FarmAddr \in Accounts /\ u # FarmAddr
      /\ StakingToken \in Tokens /\ RewardToken \in Tokens
  BY FarmAccountFacts
<1>7. /\ bank' \in [Tokens -> [Accounts -> Nat]]
      /\ \A other \in Tokens \ {RewardToken} : bank'[other] = bank[other]
  BY <1>1, <1>3, <1>6, TransferFacts
<1>8. totalBond' \in Nat /\ lastDistributed <= now
  BY <1>1 DEF Sound, TypeOK, IndexNotAhead
<1>9. PrincipalCovered'
  BY <1>1, <1>6, <1>7 DEF Sound, PrincipalCovered
<1> QED  BY <1>1, <1>2, <1>5, <1>7, <1>8, <1>9
         DEF Sound, TypeOK, IsSchedule, Forward

LEMMA UpdateConfigSound ==
  ASSUME Sound, NEW a, NEW new \in Schedules, UpdateConfig(a, new)
  PROVE  Sound' /\ Forward
<1>1. IsSchedule(new)
  BY FarmInputsAssumption
<1>2. schedule' = new /\ UNCHANGED <<bank, state, staker, now>>
  BY DEF UpdateConfig
<1> QED  BY <1>1, <1>2
         DEF Sound, TypeOK, IsSchedule, IndexNotAhead, PrincipalCovered, Forward, state

LEMMA MigrateStakingSound ==
  ASSUME Sound, NEW a, MigrateStaking(a, NewFarm)
  PROVE  Sound' /\ Forward
<1> DEFINE begun     == {k \in DOMAIN schedule : schedule[k].begin < now}
           closed    == [k \in begun |-> CutOff(schedule[k])]
           remaining == Total(schedule) - Total(closed)
<1>1. /\ RewardDefined(now) /\ FitsUint128(remaining)
      /\ \A k \in begun :
           schedule[k].end >= now => FitsUint128(SlotRate(schedule[k]))
      /\ bank[RewardToken][FarmAddr] >= remaining
      /\ bank' = [bank EXCEPT ![RewardToken] =
                     Move(bank[RewardToken], FarmAddr, NewFarm, remaining)]
      /\ schedule' = closed
      /\ globalIndex' = IndexAt(now) /\ lastDistributed' = now
      /\ totalBond' = totalBond /\ staker' = staker /\ now' = now
  BY DEF MigrateStaking, RewardPaid
<1>2. IndexAt(now) \in Nat /\ IndexAt(now) >= globalIndex
  BY <1>1, IndexRises
<1>3. IsSchedule(schedule) /\ now \in Nat /\ lastDistributed <= now
  BY DEF Sound, TypeOK, IndexNotAhead
<1>4. IsSchedule(closed)
  <2>1. IsFiniteSet(begun)
    BY <1>3, FS_Subset DEF IsSchedule
  <2>2. ASSUME NEW k \in begun
        PROVE  CutOff(schedule[k]) \in Slot
    <3>1. /\ schedule[k] \in Slot /\ schedule[k].begin \in Nat
          /\ schedule[k].end \in Nat /\ schedule[k].begin < now
      BY <1>3 DEF IsSchedule, Slot
    <3>2. CASE schedule[k].end < now
      BY <3>1, <3>2 DEF CutOff
    <3>3. CASE ~ (schedule[k].end < now)
      <4>1. SlotRate(schedule[k]) \in Nat
        BY <1>1, <1>3, <3>1, <3>3, FittingIsNatural
      <4>2. now - schedule[k].begin \in Nat
        BY <1>3, <3>1
      <4>3. MulFloor(now - schedule[k].begin, SlotRate(schedule[k])) \in Nat
        BY <4>1, <4>2, MulFloorType
      <4> QED  BY <1>3, <3>1, <3>3, <4>3 DEF CutOff, Slot
    <3> QED  BY <3>2, <3>3
  <2>3. DOMAIN closed = begun /\ closed \in [begun -> Slot]
    BY <2>2
  <2> QED  BY <2>1, <2>3 DEF IsSchedule
<1>5. remaining \in Nat
  BY <1>1, FittingIsNatural
<1> HIDE DEF begun, closed, remaining
<1>6. /\ FarmAddr \in Accounts /\ NewFarm \in Accounts /\ FarmAddr # NewFarm
      /\ StakingToken \in Tokens /\ RewardToken \in Tokens
  BY FarmAccountFacts
<1>7. /\ bank' \in [Tokens -> [Accounts -> Nat]]
      /\ \A other \in Tokens \ {RewardToken} : bank'[other] = bank[other]
  BY <1>1, <1>5, <1>6, TransferFacts
<1>8. PrincipalCovered'
  BY <1>1, <1>6, <1>7 DEF Sound, PrincipalCovered
<1>9. IndexNotAhead'
  <2>1. ASSUME NEW v \in Users
        PROVE  staker[v].index <= IndexAt(now)
    BY <1>2 DEF Sound, TypeOK, IndexNotAhead, Staker
  <2> QED  BY <1>1, <1>3, <2>1 DEF IndexNotAhead
<1>10. IsSchedule(schedule)'
  BY <1>1, <1>4 DEF IsSchedule
<1> QED  BY <1>1, <1>2, <1>3, <1>7, <1>8, <1>9, <1>10
         DEF Sound, TypeOK, Forward

LEMMA FundSound ==
  ASSUME Sound, NEW n \in Nat, Fund(Owner, n)
  PROVE  Sound' /\ Forward
<1>1. /\ bank[RewardToken][Owner] >= n
      /\ bank' = [bank EXCEPT ![RewardToken] =
                     Move(bank[RewardToken], Owner, FarmAddr, n)]
      /\ UNCHANGED <<schedule, state, staker, now>>
  BY DEF Fund
<1>2. /\ FarmAddr \in Accounts /\ Owner \in Accounts /\ FarmAddr # Owner
      /\ StakingToken \in Tokens /\ RewardToken \in Tokens
  BY FarmAccountFacts
<1>3. /\ bank' \in [Tokens -> [Accounts -> Nat]]
      /\ \A other \in Tokens \ {RewardToken} : bank'[other] = bank[other]
  BY <1>1, <1>2, TransferFacts
<1>4. PrincipalCovered'
  BY <1>1, <1>2, <1>3 DEF Sound, PrincipalCovered, state
<1> QED  BY <1>1, <1>3, <1>4
         DEF Sound, TypeOK, IsSchedule, IndexNotAhead, Forward, state

LEMMA TickSound ==
  ASSUME Sound, Tick
  PROVE  Sound' /\ Forward
BY DEF Tick, Sound, TypeOK, IsSchedule, IndexNotAhead, PrincipalCovered, Forward, state

LEMMA EveryStepSound == Sound /\ [Next]_vars => Sound' /\ [Forward]_vars
<1> SUFFICES ASSUME Sound, [Next]_vars
             PROVE  Sound' /\ [Forward]_vars
  OBVIOUS
<1>1. CASE UNCHANGED vars
  BY <1>1 DEF vars, state, Sound, TypeOK, IsSchedule, IndexNotAhead, PrincipalCovered
<1>2. ASSUME NEW u \in Users, NEW amount \in Amounts,
             Bond(u, amount) \/ Unbond(u, amount)
      PROVE  Sound' /\ Forward
  BY <1>2, FarmInputsAssumption, BondSound, UnbondSound
<1>3. ASSUME NEW u \in Users, Withdraw(u)
      PROVE  Sound' /\ Forward
  BY <1>3, WithdrawSound
<1>4. ASSUME NEW a \in Users \union {Owner}, NEW new \in Schedules, UpdateConfig(a, new)
      PROVE  Sound' /\ Forward
  BY <1>4, UpdateConfigSound
<1>5. ASSUME NEW a \in Users \union {Owner}, MigrateStaking(a, NewFarm)
      PROVE  Sound' /\ Forward
  BY <1>5, MigrateStakingSound
<1>6. ASSUME NEW n \in Amounts, Fund(Owner, n)
      PROVE  Sound' /\ Forward
  BY <1>6, FarmInputsAssumption, FundSound
<1>7. CASE Tick
  BY <1>7, TickSound
<1> QED  BY <1>1, <1>2, <1>3, <1>4, <1>5, <1>6, <1>7 DEF Next

LEMMA InitiallySound == Init => Sound
<1> SUFFICES ASSUME Init
             PROVE  Sound
  OBVIOUS
<1>1. TypeOK
  BY FarmInputsAssumption DEF Init, TypeOK, NoStaker, Staker, IsSchedule
<1>2. IndexNotAhead
  BY DEF Init, IndexNotAhead, NoStaker
<1>3. bank[StakingToken][FarmAddr] \in Nat
  BY <1>1, FarmAccountFacts DEF TypeOK
<1> QED  BY <1>1, <1>2, <1>3 DEF Sound, PrincipalCovered, Init

LEMMA AlwaysSound == Spec => []Sound
BY InitiallySound, EveryStepSound, PTL DEF Spec

-----------------------------------------------------------------------------
(* TypeOK: no handler makes a balance, a bond or a reward negative. *)
THEOREM FarmTypeCorrect == Spec => []TypeOK
<1>1. Sound => TypeOK
  BY DEF Sound
<1> QED  BY <1>1, AlwaysSound, PTL

(* IndexNotAhead: the index a staker settled at is never ahead of the      *)
(* global one, also after his record was removed and made again.           *)
THEOREM IndexNeverAhead == Spec => []IndexNotAhead
<1>1. Sound => IndexNotAhead
  BY DEF Sound
<1> QED  BY <1>1, AlwaysSound, PTL

(* PrincipalCovered: rewards and migrations never touch the bonded tokens  *)
(* when the reward is another token.                                       *)
THEOREM PrincipalStaysCovered == Spec => []PrincipalCovered
<1>1. Sound => PrincipalCovered
  BY DEF Sound
<1> QED  BY <1>1, AlwaysSound, PTL

(* IndexNeverFalls: no transaction takes back what was distributed. *)
THEOREM IndexOnlyRises == Spec => IndexNeverFalls
<1>1. Sound /\ [Next]_vars
        => [globalIndex' >= globalIndex /\ lastDistributed' >= lastDistributed]_vars
  BY EveryStepSound DEF Forward
<1> QED  BY <1>1, AlwaysSound, PTL DEF Spec, IndexNeverFalls

-----------------------------------------------------------------------------
(* What the three messages of a staker have in common: he is settled, and  *)
(* what he has been paid and may still be paid stays the same.             *)
Settles(u, info) ==
  /\ Settleable(u)
  /\ info \in Staker
  /\ info.index = IndexAt(now) \/ info = NoStaker
  /\ staker' = [staker EXCEPT ![u] = info]
  /\ totalBond' = totalBond + info.bond - staker[u].bond
  /\ Paid(u)' + info.pending = Paid(u) + Settled(u).pending /\ Paid(u)' \in Int
  /\ \A w \in Users \ {u} : Paid(w)' = Paid(w)
  /\ globalIndex' = IndexAt(now) /\ lastDistributed' = now
  /\ schedule' = schedule /\ now' = now

LEMMA PaidType ==
  ASSUME Sound, NEW u \in Users
  PROVE  /\ Paid(u) \in Int
         /\ bank[RewardToken][u] \in Nat /\ Genesis[RewardToken][u] \in Nat
         /\ staker[u] \in Staker
         /\ staker[u].bond \in Nat /\ staker[u].index \in Nat /\ staker[u].pending \in Nat
<1>1. RewardToken \in Tokens /\ u \in Accounts
  BY FarmAccountFacts
<1>2. bank[RewardToken][u] \in Nat /\ staker[u] \in Staker
  BY <1>1 DEF Sound, TypeOK
<1>3. Genesis[RewardToken][u] \in Nat
  BY <1>1, FarmInputsAssumption
<1> QED  BY <1>2, <1>3 DEF Paid, Bonded, Staker

(* A transfer between a staker and the contract changes what one staker    *)
(* has been paid.                                                          *)
LEMMA OthersPaidTheSame ==
  ASSUME Sound, NEW u \in Users, NEW info,
         staker' = [staker EXCEPT ![u] = info],
         NEW token \in Tokens, NEW n \in Nat,
         \/ /\ bank[token][u] >= n
            /\ bank' = [bank EXCEPT ![token] = Move(bank[token], u, FarmAddr, n)]
         \/ /\ bank[token][FarmAddr] >= n
            /\ bank' = [bank EXCEPT ![token] = Move(bank[token], FarmAddr, u, n)]
  PROVE  \A w \in Users \ {u} : Paid(w)' = Paid(w)
<1>1. /\ u \in Accounts /\ FarmAddr \in Accounts /\ u # FarmAddr
      /\ RewardToken \in Tokens /\ Users \subseteq Accounts /\ FarmAddr \notin Users
  BY FarmAccountFacts
<1>2. bank[token] \in [Accounts -> Nat]
  BY DEF Sound, TypeOK
<1>3. \A w \in Users \ {u} : bank'[token][w] = bank[token][w]
  <2>1. CASE /\ bank[token][u] >= n
             /\ bank' = [bank EXCEPT ![token] = Move(bank[token], u, FarmAddr, n)]
    <3>1. bank'[token] = Move(bank[token], u, FarmAddr, n)
      BY <1>1, <2>1, TransferFacts
    <3>2. \A w \in Accounts \ {u, FarmAddr} :
            Move(bank[token], u, FarmAddr, n)[w] = bank[token][w]
      BY <1>1, <1>2, <2>1, MoveFacts
    <3> QED  BY <1>1, <3>1, <3>2
  <2>2. CASE /\ bank[token][FarmAddr] >= n
             /\ bank' = [bank EXCEPT ![token] = Move(bank[token], FarmAddr, u, n)]
    <3>1. bank'[token] = Move(bank[token], FarmAddr, u, n)
      BY <1>1, <2>2, TransferFacts
    <3>2. \A w \in Accounts \ {FarmAddr, u} :
            Move(bank[token], FarmAddr, u, n)[w] = bank[token][w]
      BY <1>1, <1>2, <2>2, MoveFacts
    <3> QED  BY <1>1, <3>1, <3>2
  <2> QED  BY <2>1, <2>2
<1>4. \A other \in Tokens \ {token} : bank'[other] = bank[other]
  BY <1>1, TransferFacts
<1>5. ASSUME NEW w \in Users \ {u}
      PROVE  Paid(w)' = Paid(w)
  <2>1. bank'[RewardToken][w] = bank[RewardToken][w]
    BY <1>1, <1>3, <1>4
  <2>2. staker'[w] = staker[w]
    BY DEF Sound, TypeOK
  <2> QED  BY <2>1, <2>2 DEF Paid, Bonded
<1> QED  BY <1>5

LEMMA BondSettles ==
  ASSUME Sound, NEW u \in Users, NEW amount \in Nat, Bond(u, amount)
  PROVE  Settles(u, [Settled(u) EXCEPT !.bond = staker[u].bond + amount])
<1> DEFINE info == [Settled(u) EXCEPT !.bond = staker[u].bond + amount]
<1>1. /\ Settled(u) \in Staker /\ Settled(u).index = IndexAt(now)
      /\ Settled(u).bond = staker[u].bond
  BY SettledRecord DEF Bond
<1>2. /\ Settleable(u) /\ bank[StakingToken][u] >= amount
      /\ bank' = [bank EXCEPT ![StakingToken] =
                     Move(bank[StakingToken], u, FarmAddr, amount)]
      /\ staker' = [staker EXCEPT ![u] = info]
      /\ totalBond' = totalBond + amount
      /\ globalIndex' = IndexAt(now) /\ lastDistributed' = now
      /\ schedule' = schedule /\ now' = now
  BY <1>1 DEF Bond
<1>3. /\ info \in Staker /\ info.index = IndexAt(now)
      /\ info.bond = staker[u].bond + amount /\ info.pending = Settled(u).pending
  BY <1>1 DEF Staker
<1> HIDE DEF info
<1>4. /\ u \in Accounts /\ FarmAddr \in Accounts /\ u # FarmAddr
      /\ StakingToken \in Tokens /\ RewardToken \in Tokens
  BY FarmAccountFacts
<1>5. /\ bank[RewardToken][u] \in Nat /\ Genesis[RewardToken][u] \in Nat
      /\ staker[u].bond \in Nat /\ totalBond \in Nat
  BY PaidType DEF Sound, TypeOK
<1>6. \A w \in Users \ {u} : Paid(w)' = Paid(w)
  BY <1>2, <1>4, OthersPaidTheSame
<1>7. staker'[u] = info
  BY <1>2 DEF Sound, TypeOK
<1>8. Paid(u)' = Paid(u)
  <2>1. CASE StakingToken = RewardToken
    <3>1. bank'[RewardToken] = Move(bank[RewardToken], u, FarmAddr, amount)
      BY <1>2, <1>4, <2>1, TransferFacts
    <3>2. bank[RewardToken] \in [Accounts -> Nat]
      BY <1>4 DEF Sound, TypeOK
    <3>3. bank'[RewardToken][u] = bank[RewardToken][u] - amount
      BY <1>2, <1>4, <2>1, <3>1, <3>2, MoveFacts
    <3> QED  BY <1>3, <1>5, <1>7, <2>1, <3>3 DEF Paid, Bonded
  <2>2. CASE StakingToken # RewardToken
    <3>1. bank'[RewardToken] = bank[RewardToken]
      BY <1>2, <1>4, <2>2, TransferFacts
    <3> QED  BY <2>2, <3>1 DEF Paid, Bonded
  <2> QED  BY <2>1, <2>2
<1> QED  BY <1>2, <1>3, <1>5, <1>6, <1>8, PaidType DEF Settles, info

LEMMA UnbondSettles ==
  ASSUME Sound, NEW u \in Users, NEW amount \in Nat, Unbond(u, amount)
  PROVE  Settles(u, Stored([Settled(u) EXCEPT !.bond = staker[u].bond - amount]))
<1> DEFINE rest == [Settled(u) EXCEPT !.bond = staker[u].bond - amount]
           info == Stored(rest)
<1>1. /\ Settled(u) \in Staker /\ Settled(u).index = IndexAt(now)
      /\ Settled(u).bond = staker[u].bond
  BY SettledRecord DEF Unbond, UnbondAllowed
<1>2. /\ Settleable(u) /\ bank[StakingToken][FarmAddr] >= amount
      /\ staker[u].bond >= amount
      /\ bank' = [bank EXCEPT ![StakingToken] =
                     Move(bank[StakingToken], FarmAddr, u, amount)]
      /\ staker' = [staker EXCEPT ![u] = info]
      /\ totalBond' = totalBond - amount
      /\ globalIndex' = IndexAt(now) /\ lastDistributed' = now
      /\ schedule' = schedule /\ now' = now
  BY <1>1 DEF Unbond, UnbondAllowed, HasBonded
<1>3. /\ bank[RewardToken][u] \in Nat /\ Genesis[RewardToken][u] \in Nat
      /\ staker[u].bond \in Nat /\ totalBond \in Nat
  BY PaidType DEF Sound, TypeOK
<1>4. /\ rest \in Staker /\ rest.index = IndexAt(now)
      /\ rest.bond = staker[u].bond - amount /\ rest.pending = Settled(u).pending
  BY <1>1, <1>2, <1>3 DEF Staker
<1> HIDE DEF rest
<1>5. /\ info \in Staker /\ (info.index = IndexAt(now) \/ info = NoStaker)
      /\ info.bond = rest.bond /\ info.pending = rest.pending
  BY <1>4 DEF Stored, NoStaker, Staker
<1> HIDE DEF info
<1>6. /\ u \in Accounts /\ FarmAddr \in Accounts /\ u # FarmAddr
      /\ StakingToken \in Tokens /\ RewardToken \in Tokens
  BY FarmAccountFacts
<1>7. \A w \in Users \ {u} : Paid(w)' = Paid(w)
  BY <1>2, <1>6, OthersPaidTheSame
<1>8. staker'[u] = info
  BY <1>2 DEF Sound, TypeOK
<1>9. Paid(u)' = Paid(u)
  <2>1. CASE StakingToken = RewardToken
    <3>1. bank'[RewardToken] = Move(bank[RewardToken], FarmAddr, u, amount)
      BY <1>2, <1>6, <2>1, TransferFacts
    <3>2. bank[RewardToken] \in [Accounts -> Nat]
      BY <1>6 DEF Sound, TypeOK
    <3>3. bank'[RewardToken][u] = bank[RewardToken][u] + amount
      BY <1>2, <1>6, <2>1, <3>1, <3>2, MoveFacts
    <3> QED  BY <1>3, <1>4, <1>5, <1>8, <2>1, <3>3 DEF Paid, Bonded
  <2>2. CASE StakingToken # RewardToken
    <3>1. bank'[RewardToken] = bank[RewardToken]
      BY <1>2, <1>6, <2>2, TransferFacts
    <3> QED  BY <2>2, <3>1 DEF Paid, Bonded
  <2> QED  BY <2>1, <2>2
<1>10. info \in Staker
  BY <1>4, StoredRecord DEF info
<1> QED  BY <1>2, <1>3, <1>4, <1>5, <1>7, <1>9, <1>10, PaidType DEF Settles, info, rest

LEMMA WithdrawSettles ==
  ASSUME Sound, NEW u \in Users, Withdraw(u)
  PROVE  Settles(u, Cleared(Settled(u)))
<1> DEFINE amount == Settled(u).pending
           rest   == [Settled(u) EXCEPT !.pending = 0]
           info   == Cleared(Settled(u))
<1>1. /\ Settled(u) \in Staker /\ Settled(u).index = IndexAt(now)
      /\ Settled(u).bond = staker[u].bond
  BY SettledRecord DEF Withdraw
<1>2. /\ Settleable(u) /\ bank[RewardToken][FarmAddr] >= amount
      /\ bank' = [bank EXCEPT ![RewardToken] =
                     Move(bank[RewardToken], FarmAddr, u, amount)]
      /\ staker' = [staker EXCEPT ![u] = info]
      /\ globalIndex' = IndexAt(now) /\ lastDistributed' = now
      /\ schedule' = schedule /\ totalBond' = totalBond /\ now' = now
  BY DEF Withdraw, RewardPaid
<1>3. /\ rest \in Staker /\ rest.index = IndexAt(now) /\ amount \in Nat
      /\ rest.bond = staker[u].bond /\ rest.pending = 0
      /\ info = Stored(rest)
  BY <1>1 DEF Staker, Cleared
<1> HIDE DEF rest, amount, info
<1>4. /\ info.index = IndexAt(now) \/ info = NoStaker
      /\ info.bond = staker[u].bond /\ info.pending = 0
      /\ info \in Staker
  BY <1>3, StoredRecord DEF Stored, NoStaker
<1>5. /\ u \in Accounts /\ FarmAddr \in Accounts /\ u # FarmAddr
      /\ RewardToken \in Tokens
  BY FarmAccountFacts
<1>6. /\ bank[RewardToken][u] \in Nat /\ Genesis[RewardToken][u] \in Nat
      /\ staker[u].bond \in Nat /\ totalBond \in Nat
  BY PaidType DEF Sound, TypeOK
<1>7. \A w \in Users \ {u} : Paid(w)' = Paid(w)
  BY <1>2, <1>3, <1>5, OthersPaidTheSame
<1>8. staker'[u] = info
  BY <1>2 DEF Sound, TypeOK
<1>9. bank'[RewardToken][u] = bank[RewardToken][u] + amount
  <2>1. bank'[RewardToken] = Move(bank[RewardToken], FarmAddr, u, amount)
    BY <1>2, <1>3, <1>5, TransferFacts
  <2>2. bank[RewardToken] \in [Accounts -> Nat]
    BY <1>5 DEF Sound, TypeOK
  <2> QED  BY <1>2, <1>3, <1>5, <2>1, <2>2, MoveFacts
<1>10. Paid(u)' = Paid(u) + amount
  BY <1>3, <1>4, <1>6, <1>8, <1>9 DEF Paid, Bonded
<1>11. Paid(u) \in Int
  BY PaidType
<1>12. totalBond' = totalBond + info.bond - staker[u].bond
  BY <1>2, <1>4, <1>6
<1>13. Paid(u)' + info.pending = Paid(u) + Settled(u).pending /\ Paid(u)' \in Int
  BY <1>3, <1>4, <1>10, <1>11 DEF amount
<1> QED  BY <1>2, <1>4, <1>7, <1>12, <1>13 DEF Settles, info

(* Every step is a settlement or leaves stakers, bonds and payments alone. *)
Aside ==
  /\ staker' = staker /\ totalBond' = totalBond
  /\ \A u \in Users : Paid(u)' = Paid(u)

LEMMA MigrateAside ==
  ASSUME Sound, NEW a, MigrateStaking(a, NewFarm)
  PROVE  Aside
<1> DEFINE begun     == {k \in DOMAIN schedule : schedule[k].begin < now}
           closed    == [k \in begun |-> CutOff(schedule[k])]
           remaining == Total(schedule) - Total(closed)
<1>1. /\ FitsUint128(remaining) /\ bank[RewardToken][FarmAddr] >= remaining
      /\ bank' = [bank EXCEPT ![RewardToken] =
                     Move(bank[RewardToken], FarmAddr, NewFarm, remaining)]
      /\ totalBond' = totalBond /\ staker' = staker
  BY DEF MigrateStaking, RewardPaid
<1> HIDE DEF begun, closed, remaining
<1>2. remaining \in Nat
  BY <1>1, FittingIsNatural
<1>3. /\ FarmAddr \in Accounts /\ NewFarm \in Accounts /\ FarmAddr # NewFarm
      /\ RewardToken \in Tokens /\ Users \subseteq Accounts \ {FarmAddr, NewFarm}
  BY FarmAccountFacts, FarmAccountsAssumption
<1>4. bank'[RewardToken] = Move(bank[RewardToken], FarmAddr, NewFarm, remaining)
  BY <1>1, <1>2, <1>3, TransferFacts
<1>5. bank[RewardToken] \in [Accounts -> Nat]
  BY <1>3 DEF Sound, TypeOK
<1>6. \A u \in Users : bank'[RewardToken][u] = bank[RewardToken][u]
  BY <1>1, <1>2, <1>3, <1>4, <1>5, MoveFacts
<1> QED  BY <1>1, <1>6 DEF Aside, Paid, Bonded

LEMMA FundAside ==
  ASSUME Sound, NEW n \in Nat, Fund(Owner, n)
  PROVE  Aside
<1>1. /\ bank[RewardToken][Owner] >= n
      /\ bank' = [bank EXCEPT ![RewardToken] =
                     Move(bank[RewardToken], Owner, FarmAddr, n)]
      /\ UNCHANGED <<schedule, state, staker, now>>
  BY DEF Fund
<1>2. /\ FarmAddr \in Accounts /\ Owner \in Accounts /\ FarmAddr # Owner
      /\ RewardToken \in Tokens /\ Users \subseteq Accounts \ {FarmAddr, Owner}
  BY FarmAccountFacts, FarmAccountsAssumption
<1>3. bank'[RewardToken] = Move(bank[RewardToken], Owner, FarmAddr, n)
  BY <1>1, <1>2, TransferFacts
<1>4. bank[RewardToken] \in [Accounts -> Nat]
  BY <1>2 DEF Sound, TypeOK
<1>5. \A u \in Users : bank'[RewardToken][u] = bank[RewardToken][u]
  BY <1>1, <1>2, <1>3, <1>4, MoveFacts
<1> QED  BY <1>1, <1>5 DEF Aside, Paid, Bonded, state

(* The steps, in the form in which the properties below look at them.      *)
LEMMA Steps ==
  ASSUME Sound, [Next]_vars
  PROVE  \/ UNCHANGED vars
         \/ \E u \in Users, info \in Staker : Settles(u, info)
         \/ \E a \in Users \union {Owner}, new \in Schedules : UpdateConfig(a, new) /\ Aside
         \/ MigrateStaking(Owner, NewFarm) /\ Aside
         \/ \E n \in Amounts : Fund(Owner, n) /\ Aside
         \/ Tick /\ Aside
<1>1. ASSUME NEW u \in Users, NEW amount \in Amounts,
             Bond(u, amount) \/ Unbond(u, amount)
      PROVE  \E info \in Staker : Settles(u, info)
  <2>1. amount \in Nat
    BY FarmInputsAssumption
  <2>2. \E info : Settles(u, info)
    BY <1>1, <2>1, BondSettles, UnbondSettles
  <2> QED  BY <2>2 DEF Settles
<1>2. ASSUME NEW u \in Users, Withdraw(u)
      PROVE  \E info \in Staker : Settles(u, info)
  BY <1>2, WithdrawSettles DEF Settles
<1>3. ASSUME NEW a \in Users \union {Owner}, NEW new \in Schedules, UpdateConfig(a, new)
      PROVE  Aside
  BY <1>3 DEF UpdateConfig, Aside, Paid, Bonded, state
<1>4. ASSUME NEW a \in Users \union {Owner}, MigrateStaking(a, NewFarm)
      PROVE  MigrateStaking(Owner, NewFarm) /\ Aside
  <2>1. a = Owner
    BY <1>4 DEF MigrateStaking
  <2> QED  BY <1>4, <2>1, MigrateAside
<1>5. ASSUME NEW n \in Amounts, Fund(Owner, n)
      PROVE  Aside
  BY <1>5, FarmInputsAssumption, FundAside
<1>6. ASSUME Tick
      PROVE  Aside
  BY <1>6 DEF Tick, Aside, Paid, Bonded, state
<1> QED  BY <1>1, <1>2, <1>3, <1>4, <1>5, <1>6 DEF Next

-----------------------------------------------------------------------------
(* The bonds. *)

Bonds == [u \in Users |-> staker[u].bond]

LEMMA BondsType ==
  ASSUME Sound
  PROVE  IsFiniteSet(Users) /\ Bonds \in [Users -> Nat] /\ Bonds \in [Users -> Int]
BY PaidType, FarmAccountsAssumption DEF Bonds

LEMMA InitiallyAddsUp == Init => BondsAddUp
<1> SUFFICES ASSUME Init
             PROVE  BondsAddUp
  OBVIOUS
<1>1. Bonds \in [Users -> Int] /\ \A u \in Users : Bonds[u] = 0
  BY DEF Init, NoStaker, Bonds
<1>2. SumFunction(Bonds) = 0
  BY <1>1, FarmAccountsAssumption, SumZero
<1> QED  BY <1>2 DEF BondsAddUp, Bonds, Init

LEMMA SettlementAddsUp ==
  ASSUME Sound, BondsAddUp, NEW u \in Users, NEW info \in Staker, Settles(u, info)
  PROVE  BondsAddUp'
<1> DEFINE after == [w \in Users |-> staker'[w].bond]
<1>1. /\ staker' = [staker EXCEPT ![u] = info]
      /\ totalBond' = totalBond + info.bond - staker[u].bond
      /\ staker \in [Users -> Staker] /\ info.bond \in Nat
      /\ totalBond \in Nat /\ SumFunction(Bonds) = totalBond
  BY DEF Settles, Sound, TypeOK, Staker, BondsAddUp, Bonds
<1>2. after \in [Users -> Int]
  <2>1. staker' \in [Users -> Staker]
    BY <1>1
  <2> QED  BY <2>1 DEF Staker
<1>3. after[u] = info.bond /\ Bonds[u] = staker[u].bond
  BY <1>1 DEF Bonds
<1>4. \A w \in Users \ {u} : after[w] = Bonds[w]
  BY <1>1 DEF Bonds
<1> HIDE DEF after
<1>5. SumFunction(after) = SumFunction(Bonds) + after[u] - Bonds[u]
  BY <1>2, <1>4, BondsType, SumChange
<1> QED  BY <1>1, <1>3, <1>5 DEF BondsAddUp, after

LEMMA EveryStepAddsUp ==
  ASSUME Sound, BondsAddUp, [Next]_vars
  PROVE  BondsAddUp'
<1>1. ASSUME staker' = staker, totalBond' = totalBond
      PROVE  BondsAddUp'
  BY <1>1 DEF BondsAddUp
<1> QED  BY <1>1, Steps, SettlementAddsUp DEF Aside, vars, state

(* BondsAddUp: total_bond_amount is the sum of the bonds, also after a     *)
(* StakerInfo was removed from storage.                                    *)
THEOREM BondsAlwaysAddUp == Spec => []BondsAddUp
<1>1. Sound /\ BondsAddUp /\ [Next]_vars => BondsAddUp'
  BY EveryStepAddsUp
<1> QED  BY <1>1, InitiallyAddsUp, AlwaysSound, PTL DEF Spec

-----------------------------------------------------------------------------
(* What is distributed.                                                    *)

LEMMA MulFloorBounds ==
  ASSUME NEW n \in Nat, NEW d \in Nat
  PROVE  /\ MulFloor(n, d) \in Nat
         /\ One * MulFloor(n, d) <= n * d
         /\ n * d < One * MulFloor(n, d) + One
<1> DEFINE p == n * d
<1>1. p \in Nat /\ One \in Nat \ {0}
  BY TimesNat, OneAssumption
<1> HIDE DEF p
<1>2. /\ p \div One \in Nat
      /\ (p \div One) * One <= p
      /\ p < (p \div One) * One + One
  BY <1>1, DivBounds
<1>3. MulFloor(n, d) = p \div One
  BY DEF MulFloor, p
<1>4. (p \div One) * One = One * (p \div One)
  BY <1>1, <1>2
<1> QED  BY <1>1, <1>2, <1>3, <1>4 DEF p

LEMMA MulFloorMonotone ==
  ASSUME NEW n \in Nat, NEW d \in Nat, NEW m \in Nat, NEW e \in Nat, n <= m, d <= e
  PROVE  MulFloor(n, d) <= MulFloor(m, e)
<1>1. n * d \in Nat /\ m * e \in Nat /\ n * d <= m * e
  BY TimesNat, TimesMonotone
<1> QED  BY <1>1, DivMonotone, OneAssumption DEF MulFloor

(* The slots that are active are well-formed. *)
Regular(slots, last, t) ==
  \A k \in Active(slots, last, t) : slots[k].begin < slots[k].end

LEMMA SlotType ==
  ASSUME NEW slots, IsSchedule(slots), NEW k \in DOMAIN slots
  PROVE  slots[k].begin \in Nat /\ slots[k].end \in Nat /\ slots[k].amount \in Nat
BY DEF IsSchedule, Slot

LEMMA SlotRateType ==
  ASSUME NEW slot \in Slot, slot.begin < slot.end
  PROVE  SlotRate(slot) \in Nat
<1>1. slot.amount \in Nat /\ slot.end - slot.begin \in Nat \ {0}
  BY DEF Slot
<1>2. slot.amount * One \in Nat
  BY <1>1, TimesNat, OneAssumption
<1> QED  BY <1>1, <1>2, DivBounds DEF SlotRate, FromRatio

LEMMA EmissionType ==
  ASSUME NEW slots, IsSchedule(slots), NEW last \in Nat, NEW t \in Nat, last <= t,
         NEW k \in Active(slots, last, t), Regular(slots, last, t)
  PROVE  /\ SlotRate(slots[k]) \in Nat
         /\ PassedTime(slots[k], last, t) \in Nat
         /\ Emission(slots[k], last, t) \in Nat
         /\ last = t => Emission(slots[k], last, t) = 0
<1>1. /\ slots[k].begin \in Nat /\ slots[k].end \in Nat /\ slots[k] \in Slot
      /\ slots[k].begin <= t /\ slots[k].end >= last
      /\ slots[k].begin < slots[k].end
  BY DEF Active, Regular, IsSchedule, Slot
<1>2. SlotRate(slots[k]) \in Nat
  BY <1>1, SlotRateType
<1>3. /\ PassedTime(slots[k], last, t) \in Nat
      /\ last = t => PassedTime(slots[k], last, t) = 0
  BY <1>1 DEF PassedTime, Earlier, Later
<1>4. MulFloor(0, SlotRate(slots[k])) = 0
  BY <1>2, OneAssumption DEF MulFloor
<1> QED  BY <1>2, <1>3, <1>4, MulFloorType DEF Emission

LEMMA DistributedType ==
  ASSUME NEW slots, IsSchedule(slots), NEW last \in Nat, NEW t \in Nat, last <= t,
         Regular(slots, last, t)
  PROVE  /\ IsFiniteSet(Active(slots, last, t))
         /\ Distributed(slots, last, t) \in Nat
         /\ last = t => Distributed(slots, last, t) = 0
<1> DEFINE active == Active(slots, last, t)
           emits  == [k \in active |-> Emission(slots[k], last, t)]
<1>1. IsFiniteSet(active)
  BY FS_Subset DEF IsSchedule, Active
<1>2. emits \in [active -> Nat] /\ emits \in [active -> Int]
  BY EmissionType
<1>3. last = t => \A k \in active : emits[k] = 0
  BY EmissionType
<1>4. Distributed(slots, last, t) = SumFunction(emits)
  BY DEF Distributed
<1> HIDE DEF active, emits
<1> QED  BY <1>1, <1>2, <1>3, <1>4, SumNat, SumZero DEF active

(* What a settlement issues now. *)
Gain == IF totalBond > 0 THEN Distributed(schedule, lastDistributed, now) ELSE 0

(* The index rises by as much as was issued for the bonds, or a little less. *)
LEMMA IndexGain ==
  ASSUME Sound, RewardDefined(now)
  PROVE  /\ Gain \in Nat
         /\ lastDistributed = now => Gain = 0 /\ IndexAt(now) = globalIndex
         /\ IndexAt(now) \in Nat /\ globalIndex \in Nat
         /\ IndexAt(now) - globalIndex \in Nat
         /\ (IndexAt(now) - globalIndex) * totalBond <= One * Gain
<1>1. /\ totalBond \in Nat /\ globalIndex \in Nat /\ lastDistributed \in Nat
      /\ now \in Nat /\ lastDistributed <= now /\ IsSchedule(schedule)
      /\ One \in Nat \ {0}
  BY OneAssumption DEF Sound, TypeOK, IndexNotAhead
<1>2. CASE totalBond = 0
  BY <1>1, <1>2 DEF Gain, IndexAt
<1>3. CASE totalBond > 0
  <2> DEFINE emitted == Distributed(schedule, lastDistributed, now)
             rise    == FromRatio(emitted, totalBond)
  <2>1. Regular(schedule, lastDistributed, now)
    BY <1>3 DEF RewardDefined, Regular
  <2>2. emitted \in Nat /\ (lastDistributed = now => emitted = 0)
    BY <1>1, <2>1, DistributedType
  <2>3. Gain = emitted /\ IndexAt(now) = globalIndex + rise
    BY <1>3 DEF Gain, IndexAt
  <2> HIDE DEF emitted
  <2>4. emitted * One \in Nat /\ totalBond \in Nat \ {0}
    BY <1>1, <1>3, <2>2, TimesNat
  <2>5. rise \in Nat /\ rise * totalBond <= emitted * One
    BY <2>4, DivBounds DEF FromRatio
  <2>6. emitted = 0 => rise = 0
    BY <1>1, <2>4 DEF FromRatio
  <2>7. emitted * One = One * emitted
    BY <1>1, <2>2
  <2> HIDE DEF rise
  <2>8. IndexAt(now) - globalIndex = rise
    BY <1>1, <2>3, <2>5
  <2> QED  BY <1>1, <2>2, <2>3, <2>5, <2>6, <2>7, <2>8
<1> QED  BY <1>1, <1>2, <1>3

-----------------------------------------------------------------------------
(* The books.  The credit of a staker, in atomics, is what he has been     *)
(* paid and would be paid were his reward not rounded down: a settlement   *)
(* does not change it, and a change of his bond by less than a unit.       *)

Credit(u) ==
  One * (Paid(u) + staker[u].pending - MulFloor(staker[u].bond, staker[u].index))
    + staker[u].bond * globalIndex

Credits == [u \in Users |-> Credit(u)]

CreditsBooked == SumFunction(Credits) <= One * (issued + changes)

BooksTypeOK == issued \in Nat /\ changes \in Nat /\ recuts \in Nat /\ now <= MaxTime

LEMMA CreditType ==
  ASSUME Sound
  PROVE  IsFiniteSet(Users) /\ Credits \in [Users -> Int]
<1>1. ASSUME NEW u \in Users
      PROVE  Credit(u) \in Int
  <2>1. /\ Paid(u) \in Int /\ staker[u].pending \in Nat
        /\ staker[u].bond \in Nat /\ staker[u].index \in Nat
    BY PaidType
  <2>2. MulFloor(staker[u].bond, staker[u].index) \in Nat
    BY <2>1, MulFloorType
  <2>3. globalIndex \in Nat /\ One \in Nat
    BY OneAssumption DEF Sound, TypeOK
  <2>4. staker[u].bond * globalIndex \in Int
    BY <2>1, <2>3
  <2>5. One * (Paid(u) + staker[u].pending - MulFloor(staker[u].bond, staker[u].index)) \in Int
    BY <2>1, <2>2, <2>3
  <2> QED  BY <2>4, <2>5 DEF Credit
<1> QED  BY <1>1, FarmAccountsAssumption DEF Credits

(* The arithmetic of one settlement: floor is MulFloor of the bond at the  *)
(* new index, before and after the bond changes.                           *)
LEMMA CreditArithmetic ==
  ASSUME NEW paid \in Int, NEW old \in Nat, NEW b \in Nat, NEW c \in Nat,
         NEW i \in Nat, NEW j \in Nat, i <= j,
         NEW floor \in Nat, NEW after \in Nat, NEW unit \in Nat,
         unit * floor <= b * j, c * j < unit * after + unit
  PROVE  /\ unit * (paid + floor - old - after) + c * j
              <= unit * (paid - old) + b * i + (j - i) * b + unit
         /\ b = c /\ floor = after =>
              unit * (paid + floor - old - after) + c * j
                = unit * (paid - old) + b * i + (j - i) * b
<1>1. unit * (paid + floor - old - after)
        = unit * (paid - old) + unit * floor - unit * after
  OBVIOUS
<1>2. b * i + (j - i) * b = b * j
  OBVIOUS
<1>3. unit * (paid - old) \in Int /\ unit * floor \in Nat /\ unit * after \in Nat
      /\ b * j \in Nat /\ c * j \in Nat /\ b * i \in Nat /\ (j - i) * b \in Int
  OBVIOUS
<1> QED  BY <1>1, <1>2, <1>3

LEMMA SettlementCredits ==
  ASSUME Sound, NEW u \in Users, NEW info \in Staker, Settles(u, info)
  PROVE  LET rise == IndexAt(now) - globalIndex
         IN  /\ \A w \in Users \ {u} : Credit(w)' = Credit(w) + rise * staker[w].bond
             /\ Credit(u)' \in Int
             /\ Credit(u)' <= Credit(u) + rise * staker[u].bond
                                + (IF totalBond' = totalBond THEN 0 ELSE One)
<1> DEFINE I    == IndexAt(now)
           rise == I - globalIndex
<1>1. /\ I \in Nat /\ globalIndex \in Nat /\ globalIndex <= I /\ One \in Nat
      /\ totalBond \in Nat
  BY IndexRises, OneAssumption DEF Settles, Settleable, Sound, TypeOK
<1>2. /\ staker' = [staker EXCEPT ![u] = info] /\ staker \in [Users -> Staker]
      /\ globalIndex' = I
  BY DEF Settles, Sound, TypeOK
<1>3. ASSUME NEW w \in Users \ {u}
      PROVE  Credit(w)' = Credit(w) + rise * staker[w].bond
  <2> DEFINE b == staker[w].bond
             standing == One * (Paid(w) + staker[w].pending
                                  - MulFloor(staker[w].bond, staker[w].index))
  <2>1. staker'[w] = staker[w] /\ Paid(w)' = Paid(w)
    BY <1>2 DEF Settles
  <2>2. Credit(w) = standing + b * globalIndex /\ Credit(w)' = standing + b * I
    BY <1>2, <2>1 DEF Credit
  <2>3. b \in Nat /\ standing \in Int
    <3>1. /\ Paid(w) \in Int /\ staker[w].pending \in Nat
          /\ staker[w].bond \in Nat /\ staker[w].index \in Nat
      BY PaidType
    <3>2. MulFloor(staker[w].bond, staker[w].index) \in Nat
      BY <3>1, MulFloorType
    <3> QED  BY <1>1, <3>1, <3>2
  <2> HIDE DEF b, standing, I
  <2>4. b * I = b * globalIndex + rise * b
    BY <1>1, <2>3
  <2> QED  BY <1>1, <2>2, <2>3, <2>4 DEF b
<1>4. /\ Credit(u)' \in Int
      /\ Credit(u)' <= Credit(u) + rise * staker[u].bond
                         + (IF totalBond' = totalBond THEN 0 ELSE One)
  <2> DEFINE b == staker[u].bond
             c == info.bond
             p == Paid(u) + staker[u].pending
             old   == MulFloor(b, staker[u].index)
             floor == MulFloor(b, I)
             after == MulFloor(c, I)
  <2>1. /\ Paid(u) \in Int /\ staker[u].pending \in Nat
        /\ b \in Nat /\ staker[u].index \in Nat /\ c \in Nat /\ info.index \in Nat
        /\ info.pending \in Nat
    BY PaidType DEF Staker
  <2>2. /\ old \in Nat /\ floor \in Nat /\ after \in Nat
        /\ One * floor <= b * I /\ c * I < One * after + One
    BY <1>1, <2>1, MulFloorBounds
  <2>3. staker'[u] = info
    BY <1>2
  <2>4. MulFloor(info.bond, info.index) = after
    <3>1. CASE info.index = I
      BY <3>1
    <3>2. CASE info = NoStaker
      <4>1. c = 0 /\ info.bond = 0 /\ info.index = 0
        BY <3>2 DEF NoStaker
      <4>2. 0 * I = 0 * 0
        BY <1>1
      <4> QED  BY <4>1, <4>2 DEF MulFloor
    <3> QED  BY <3>1, <3>2 DEF Settles
  <2>5. Settled(u).pending = staker[u].pending + (floor - old)
    BY DEF Settled, Earned
  <2>6. Paid(u)' + info.pending = Paid(u) + Settled(u).pending /\ Paid(u)' \in Int
    BY DEF Settles
  <2>7. Credit(u) = One * (p - old) + b * globalIndex
    <3>1. Paid(u) + staker[u].pending - old = p - old
      BY <2>1, <2>2
    <3> QED  BY <3>1 DEF Credit
  <2>8. Credit(u)' = One * (Paid(u)' + info.pending - after) + c * I
    BY <1>2, <2>3, <2>4 DEF Credit
  <2>9. totalBond' = totalBond => b = c
    BY <1>1, <2>1 DEF Settles
  <2>10. p \in Int
    BY <2>1
  <2>11. Paid(u)' + info.pending - after = p + floor - old - after
    BY <2>1, <2>2, <2>5, <2>6
  <2> HIDE DEF b, c, p, old, floor, after, I
  <2>12. /\ One * (p + floor - old - after) + c * I
              <= One * (p - old) + b * globalIndex + rise * b + One
         /\ b = c /\ floor = after =>
              One * (p + floor - old - after) + c * I
                = One * (p - old) + b * globalIndex + rise * b
    BY <1>1, <2>1, <2>2, <2>10, CreditArithmetic
  <2>13. b = c => floor = after
    BY DEF floor, after
  <2>14. One * (p - old) + b * globalIndex + rise * b \in Int
    BY <1>1, <2>1, <2>2, <2>10
  <2>15. Credit(u)' \in Int
    BY <1>1, <2>1, <2>2, <2>8, <2>10, <2>11
  <2> QED  BY <1>1, <2>7, <2>8, <2>9, <2>11, <2>12, <2>13, <2>14, <2>15 DEF b
<1> QED  BY <1>3, <1>4

-----------------------------------------------------------------------------
(* What a step books. *)

LEMMA RecutsBooked ==
  ASSUME Sound, BooksTypeOK, Booked
  PROVE  recuts' \in Nat /\ recuts' >= recuts
<1>1. IsFiniteSet(Recut)
  BY FS_Subset DEF Sound, TypeOK, IsSchedule, Recut
<1>2. Cardinality(Recut) \in Nat
  BY <1>1, FS_CardinalityType
<1> QED  BY <1>2 DEF Booked, BooksTypeOK

LEMMA SettlementBooked ==
  ASSUME Sound, BooksTypeOK, RewardDefined(now), lastDistributed' = now, Booked
  PROVE  /\ issued' = issued + Gain /\ issued' \in Nat
         /\ changes' = changes + (IF totalBond' # totalBond THEN 1 ELSE 0)
         /\ changes' \in Nat
<1>1. /\ Gain \in Nat /\ lastDistributed = now => Gain = 0
  BY IndexGain
<1>2. issued' = issued + Gain
  <2>1. CASE lastDistributed' # lastDistributed
    BY <2>1 DEF Booked, Gain, BooksTypeOK
  <2>2. CASE lastDistributed' = lastDistributed
    <3>1. lastDistributed = now
      BY <2>2
    <3>2. Gain = 0
      BY <3>1, IndexGain
    <3> QED  BY <2>2, <3>2 DEF Booked, BooksTypeOK
  <2> QED  BY <2>1, <2>2
<1>3. Gain \in Nat
  BY IndexGain
<1> QED  BY <1>2, <1>3 DEF Booked, BooksTypeOK

LEMMA NothingBooked ==
  ASSUME BooksTypeOK, lastDistributed' = lastDistributed, totalBond' = totalBond,
         Booked
  PROVE  issued' = issued /\ changes' = changes
BY DEF Booked, BooksTypeOK

LEMMA TimeBounded ==
  ASSUME Sound, BooksTypeOK, [Next]_vars
  PROVE  now' <= MaxTime
<1>1. now \in Nat /\ MaxTime \in Nat /\ now <= MaxTime
  BY FarmInputsAssumption DEF Sound, TypeOK, BooksTypeOK
<1>2. ASSUME Tick
      PROVE  now' <= MaxTime
  BY <1>1, <1>2 DEF Tick
<1>3. ASSUME now' = now
      PROVE  now' <= MaxTime
  BY <1>1, <1>3
<1> QED  BY <1>2, <1>3, Steps
         DEF Settles, UpdateConfig, MigrateStaking, Fund, vars

-----------------------------------------------------------------------------
(* Credits. *)

(* A step that leaves the stakers alone lets their credits rise with the index. *)
LEMMA AsideCredits ==
  ASSUME Sound, Aside, globalIndex' \in Nat, globalIndex' >= globalIndex
  PROVE  \A w \in Users : /\ Credit(w)' = Credit(w)
                                + (globalIndex' - globalIndex) * staker[w].bond
                          /\ Credit(w)' \in Int
<1> SUFFICES ASSUME NEW w \in Users
             PROVE  /\ Credit(w)' = Credit(w)
                                + (globalIndex' - globalIndex) * staker[w].bond
                    /\ Credit(w)' \in Int
  OBVIOUS
<1> DEFINE b == staker[w].bond
           standing == One * (Paid(w) + staker[w].pending
                                - MulFloor(staker[w].bond, staker[w].index))
<1>1. staker'[w] = staker[w] /\ Paid(w)' = Paid(w)
  BY DEF Aside
<1>2. Credit(w) = standing + b * globalIndex /\ Credit(w)' = standing + b * globalIndex'
  BY <1>1 DEF Credit
<1>3. b \in Nat /\ standing \in Int /\ globalIndex \in Nat
  <2>1. /\ Paid(w) \in Int /\ staker[w].pending \in Nat
        /\ staker[w].bond \in Nat /\ staker[w].index \in Nat
    BY PaidType
  <2>2. MulFloor(staker[w].bond, staker[w].index) \in Nat
    BY <2>1, MulFloorType
  <2> QED  BY <2>1, <2>2, OneAssumption DEF Sound, TypeOK
<1> HIDE DEF b, standing
<1>4. b * globalIndex' = b * globalIndex + (globalIndex' - globalIndex) * b
  BY <1>3
<1>5. b * globalIndex \in Int /\ b * globalIndex' \in Int
  BY <1>3
<1> QED  BY <1>2, <1>3, <1>4, <1>5 DEF b

LEMMA EveryStepBooked ==
  ASSUME Sound, BondsAddUp, BooksTypeOK, CreditsBooked, Next, Booked
  PROVE  BooksTypeOK' /\ CreditsBooked'
<1> DEFINE total == SumFunction(Credits)
<1>1. /\ IsFiniteSet(Users) /\ Credits \in [Users -> Int] /\ total \in Int
      /\ Bonds \in [Users -> Nat] /\ SumFunction(Bonds) = totalBond
      /\ total <= One * (issued + changes)
  BY CreditType, BondsType, SumType DEF CreditsBooked, BondsAddUp, Bonds
<1>2. /\ One \in Nat \ {0} /\ issued \in Nat /\ changes \in Nat /\ recuts' \in Nat
      /\ now' <= MaxTime /\ globalIndex \in Nat /\ totalBond \in Nat
  BY OneAssumption, RecutsBooked, TimeBounded DEF BooksTypeOK, Sound, TypeOK
<1>3. Credits' = [w \in Users |-> Credit(w)']
  BY DEF Credits
<1>4. \A w \in Users : Credits[w] = Credit(w) /\ Bonds[w] = staker[w].bond
  BY DEF Credits, Bonds
<1>5. ASSUME NEW u \in Users, NEW info \in Staker, Settles(u, info)
      PROVE  BooksTypeOK' /\ CreditsBooked'
  <2> DEFINE rise == IndexAt(now) - globalIndex
             more == IF totalBond' = totalBond THEN 0 ELSE One
             g    == [w \in Users |-> Credit(w)']
  <2>1. RewardDefined(now) /\ lastDistributed' = now
    BY <1>5 DEF Settles, Settleable
  <2>2. /\ issued' = issued + Gain /\ issued' \in Nat /\ changes' \in Nat
        /\ changes' = changes + (IF totalBond' # totalBond THEN 1 ELSE 0)
    BY <2>1, SettlementBooked
  <2>3. rise \in Nat /\ rise * totalBond <= One * Gain /\ Gain \in Nat
    BY <2>1, IndexGain
  <2>4. /\ \A w \in Users \ {u} : Credit(w)' = Credit(w) + rise * staker[w].bond
        /\ Credit(u)' <= Credit(u) + rise * staker[u].bond + more
        /\ Credit(u)' \in Int
    BY <1>5, SettlementCredits
  <2> HIDE DEF rise
  <2>5. \A w \in Users : Credit(w) \in Int /\ rise * staker[w].bond \in Int
    BY <1>1, <1>4, <2>3
  <2>6. g \in [Users -> Int] /\ \A w \in Users : g[w] = Credit(w)'
    BY <2>4, <2>5
  <2> HIDE DEF g
  <2>7. /\ \A w \in Users \ {u} : g[w] = Credits[w] + rise * Bonds[w]
        /\ g[u] <= Credits[u] + rise * Bonds[u] + more
        /\ more \in Nat
    BY <1>2, <1>4, <2>4, <2>6
  <2> HIDE DEF more
  <2>8. SumFunction(g) <= total + rise * totalBond + more
    <3> HIDE DEF total
    <3>1. SumFunction(g) <= SumFunction(Credits) + rise * SumFunction(Bonds) + more
      BY <1>1, <2>3, <2>6, <2>7, SumGrows
    <3> QED  BY <1>1, <3>1 DEF total
  <2>9. more = One * (IF totalBond' # totalBond THEN 1 ELSE 0)
    BY <1>2 DEF more
  <2>10. One * (issued + changes) + One * Gain + more = One * (issued' + changes')
    BY <1>2, <2>2, <2>3, <2>9
  <2>11. SumFunction(g) \in Int
    BY <1>1, <2>6, SumType
  <2> HIDE DEF total
  <2>12. SumFunction(g) <= One * (issued' + changes')
    <3>1. /\ One * (issued + changes) \in Int /\ One * Gain \in Int
          /\ rise * totalBond \in Int
      BY <1>2, <2>3
    <3> QED  BY <1>1, <2>3, <2>7, <2>8, <2>10, <2>11, <3>1
  <2> QED  BY <1>2, <1>3, <2>2, <2>12 DEF BooksTypeOK, CreditsBooked, g
<1>6. ASSUME Aside, MigrateStaking(Owner, NewFarm)
      PROVE  BooksTypeOK' /\ CreditsBooked'
  <2> DEFINE rise == IndexAt(now) - globalIndex
             g    == [w \in Users |-> Credit(w)']
  <2>1. RewardDefined(now) /\ lastDistributed' = now /\ globalIndex' = IndexAt(now)
    BY <1>6 DEF MigrateStaking
  <2>2. /\ issued' = issued + Gain /\ issued' \in Nat /\ changes' \in Nat
        /\ changes' = changes + (IF totalBond' # totalBond THEN 1 ELSE 0)
    BY <2>1, SettlementBooked
  <2>3. changes' = changes
    BY <1>2, <1>6, <2>2 DEF Aside
  <2>4. /\ rise \in Nat /\ rise * totalBond <= One * Gain /\ Gain \in Nat
        /\ globalIndex' \in Nat /\ globalIndex' >= globalIndex
    BY <1>2, <2>1, IndexGain
  <2>5. \A w \in Users : /\ Credit(w)' = Credit(w) + rise * staker[w].bond
                         /\ Credit(w)' \in Int
    BY <1>6, <2>1, <2>4, AsideCredits
  <2> HIDE DEF rise
  <2>6. g \in [Users -> Int] /\ \A w \in Users : g[w] = Credit(w)'
    BY <2>5
  <2> HIDE DEF g
  <2>7. \A w \in Users : g[w] = Credits[w] + rise * Bonds[w]
    BY <1>4, <2>5, <2>6
  <2>8. SumFunction(g) = total + rise * totalBond
    <3> HIDE DEF total
    <3>1. SumFunction(g) = SumFunction(Credits) + rise * SumFunction(Bonds)
      BY <1>1, <2>4, <2>6, <2>7, SumRises
    <3> QED  BY <1>1, <3>1 DEF total
  <2>9. One * (issued + changes) + One * Gain = One * (issued' + changes')
    BY <1>2, <2>2, <2>3, <2>4
  <2> HIDE DEF total
  <2>10. SumFunction(g) <= One * (issued' + changes')
    <3>1. /\ One * (issued + changes) \in Int /\ One * Gain \in Int
          /\ rise * totalBond \in Int
      BY <1>2, <2>4
    <3> QED  BY <1>1, <2>4, <2>8, <2>9, <3>1
  <2> QED  BY <1>2, <1>3, <2>2, <2>10 DEF BooksTypeOK, CreditsBooked, g
<1>7. ASSUME Aside, lastDistributed' = lastDistributed, globalIndex' = globalIndex
      PROVE  BooksTypeOK' /\ CreditsBooked'
  <2>1. issued' = issued /\ changes' = changes
    BY <1>7, NothingBooked DEF Aside
  <2>2. \A w \in Users : Credit(w)' = Credit(w)
    BY <1>7 DEF Aside, Credit
  <2>3. Credits' = Credits
    BY <1>3, <2>2 DEF Credits
  <2> QED  BY <1>1, <1>2, <2>1, <2>3 DEF BooksTypeOK, CreditsBooked
<1>8. ASSUME UNCHANGED vars
      PROVE  Aside /\ lastDistributed' = lastDistributed /\ globalIndex' = globalIndex
  BY <1>8 DEF vars, state, Aside, Paid, Bonded
<1> QED  BY <1>5, <1>6, <1>7, <1>8, Steps DEF UpdateConfig, Fund, Tick, state

LEMMA InitiallyBooked ==
  ASSUME AuditedInit
  PROVE  BooksTypeOK /\ CreditsBooked
<1>1. Sound /\ One \in Nat
  BY InitiallySound, OneAssumption DEF AuditedInit
<1>2. ASSUME NEW u \in Users
      PROVE  Credits[u] = 0
  <2>1. /\ staker[u] = NoStaker /\ globalIndex = 0
        /\ bank[RewardToken][u] = Genesis[RewardToken][u]
    BY DEF AuditedInit, Init
  <2>2. bank[RewardToken][u] \in Nat
    BY <1>1, PaidType
  <2>3. Paid(u) = 0
    BY <2>1, <2>2 DEF Paid, Bonded, NoStaker
  <2>4. MulFloor(0, 0) = 0
    BY OneAssumption DEF MulFloor
  <2>5. Credit(u) = One * (0 + 0 - 0) + 0 * 0
    BY <2>1, <2>3, <2>4 DEF Credit, NoStaker
  <2> QED  BY <1>1, <2>5 DEF Credits
<1>3. SumFunction(Credits) = 0
  BY <1>1, <1>2, CreditType, SumZero
<1> QED  BY <1>1, <1>3, FarmInputsAssumption DEF AuditedInit, Init, BooksTypeOK, CreditsBooked

LEMMA AuditedIsSpec == AuditedSpec => Spec
<1>1. AuditedInit => Init
  BY DEF AuditedInit
<1>2. [AuditedNext]_<<vars, books>> => [Next]_vars
  BY DEF AuditedNext
<1> QED  BY <1>1, <1>2, PTL DEF AuditedSpec, Spec

LEMMA AlwaysBooked == AuditedSpec => [](Sound /\ BondsAddUp /\ BooksTypeOK /\ CreditsBooked)
<1>1. AuditedInit => BooksTypeOK /\ CreditsBooked
  BY InitiallyBooked
<1>2. ASSUME Sound, BondsAddUp, BooksTypeOK, CreditsBooked, [AuditedNext]_<<vars, books>>
      PROVE  BooksTypeOK' /\ CreditsBooked'
  <2>1. CASE AuditedNext
    BY <1>2, <2>1, EveryStepBooked DEF AuditedNext
  <2>2. CASE UNCHANGED <<vars, books>>
    BY <1>2, <2>2 DEF vars, state, books, BooksTypeOK, CreditsBooked, Credits, Credit, Paid, Bonded
  <2> QED  BY <1>2, <2>1, <2>2
<1> QED  BY <1>1, <1>2, AuditedIsSpec, AlwaysSound, BondsAlwaysAddUp, PTL DEF AuditedSpec

(* What the stakers can claim is their credit, rounded down. *)
LEMMA ClaimsWithinCredits ==
  ASSUME Sound, BooksTypeOK, CreditsBooked
  PROVE  /\ PaidOut \in Int /\ Claims \in Int
         /\ PaidOut + Claims <= issued + changes
<1> DEFINE paid  == [u \in Users |-> Paid(u)]
           claim == [u \in Users |-> Claim(u)]
           both  == [u \in Users |-> Paid(u) + Claim(u)]
           whole == [u \in Users |-> One * both[u]]
<1>1. One \in Nat \ {0} /\ globalIndex \in Nat
  BY OneAssumption DEF Sound, TypeOK
<1>2. ASSUME NEW u \in Users
      PROVE  /\ Paid(u) \in Int /\ Claim(u) \in Int
             /\ One * (Paid(u) + Claim(u)) <= Credit(u)
  <2> DEFINE b == staker[u].bond
             old == MulFloor(b, staker[u].index)
             new == MulFloor(b, globalIndex)
             p == Paid(u) + staker[u].pending
  <2>1. /\ Paid(u) \in Int /\ staker[u].pending \in Nat
        /\ b \in Nat /\ staker[u].index \in Nat
    BY PaidType
  <2>2. old \in Nat /\ new \in Nat /\ One * new <= b * globalIndex
    BY <1>1, <2>1, MulFloorBounds
  <2>3. Claim(u) = staker[u].pending + (new - old)
    BY DEF Claim, Earned
  <2>4. Credit(u) = One * (p - old) + b * globalIndex
    <3>1. Paid(u) + staker[u].pending - old = p - old
      BY <2>1, <2>2
    <3> QED  BY <3>1 DEF Credit
  <2>5. Paid(u) + Claim(u) = (p - old) + new /\ p - old \in Int
    BY <2>1, <2>2, <2>3
  <2>6. b * globalIndex \in Int
    BY <1>1, <2>1
  <2> HIDE DEF b, old, new, p
  <2>7. One * ((p - old) + new) = One * (p - old) + One * new
    BY <1>1, <2>2, <2>5
  <2>8. One * (p - old) \in Int /\ One * new \in Int
    BY <1>1, <2>2, <2>5
  <2> QED  BY <2>1, <2>2, <2>3, <2>4, <2>5, <2>6, <2>7, <2>8
<1>3. /\ IsFiniteSet(Users) /\ Credits \in [Users -> Int]
      /\ paid \in [Users -> Int] /\ claim \in [Users -> Int]
      /\ both \in [Users -> Int] /\ whole \in [Users -> Int]
  BY <1>1, <1>2, CreditType
<1>4. \A u \in Users : both[u] = paid[u] + claim[u]
  OBVIOUS
<1>5. \A u \in Users : whole[u] <= Credits[u]
  BY <1>2 DEF Credits
<1>6. SumFunction(whole) = One * SumFunction(both)
  <2>1. One \in Int
    BY <1>1
  <2> HIDE DEF both
  <2> QED  BY <1>3, <2>1, SumTimes
<1> HIDE DEF paid, claim, both, whole
<1>7. SumFunction(both) = SumFunction(paid) + SumFunction(claim)
  BY <1>3, <1>4, SumPlus
<1>8. SumFunction(whole) <= SumFunction(Credits)
  BY <1>3, <1>5, SumMonotone
<1>9. PaidOut = SumFunction(paid) /\ Claims = SumFunction(claim)
  BY DEF PaidOut, Claims, paid, claim
<1>10. /\ SumFunction(paid) \in Int /\ SumFunction(claim) \in Int
       /\ SumFunction(whole) \in Int /\ SumFunction(Credits) \in Int
  BY <1>3, SumType
<1> DEFINE got == PaidOut + Claims
           due == issued + changes
<1>11. One * got <= One * due
  BY <1>6, <1>7, <1>8, <1>9, <1>10, <1>1 DEF CreditsBooked, BooksTypeOK
<1>12. got \in Int /\ due \in Nat
  BY <1>9, <1>10 DEF BooksTypeOK
<1> HIDE DEF got, due
<1>13. got <= due
  BY <1>1, <1>11, <1>12
<1> QED  BY <1>9, <1>10, <1>13 DEF got, due

(* RewardsWithinRounding: the stakers together are never paid or owed more *)
(* than compute_reward has distributed, but for a unit at each change of a *)
(* bond.                                                                   *)
THEOREM RewardsStayWithinRounding == AuditedSpec => []RewardsWithinRounding
<1>1. Sound /\ BooksTypeOK /\ CreditsBooked => RewardsWithinRounding
  BY ClaimsWithinCredits DEF RewardsWithinRounding
<1> QED  BY <1>1, AlwaysBooked, PTL

-----------------------------------------------------------------------------
(* The schedule.  What a slot has emitted by a time ...                    *)

ElapsedBy(slot, last) ==
  IF slot.begin >= last THEN 0
  ELSE IF slot.end <= last THEN slot.amount
  ELSE MulFloor(last - slot.begin, SlotRate(slot))

SpentBy(slots, last) ==
  SumFunction([k \in DOMAIN slots |-> ElapsedBy(slots[k], last)])

LEMMA MulFloorParts ==
  ASSUME NEW n \in Nat, NEW m \in Nat, NEW d \in Nat
  PROVE  MulFloor(n, d) + MulFloor(m, d) <= MulFloor(n + m, d)
<1>1. n * d \in Nat /\ m * d \in Nat /\ (n + m) * d = n * d + m * d
  BY TimesNat
<1> QED  BY <1>1, DivParts, OneAssumption DEF MulFloor

(* ... is at most its amount, and less than a unit below it at its end. *)
LEMMA SlotSpent ==
  ASSUME NEW slot \in Slot, slot.begin < slot.end,
         NEW n \in Nat, n <= slot.end - slot.begin
  PROVE  /\ MulFloor(n, SlotRate(slot)) \in Nat
         /\ MulFloor(n, SlotRate(slot)) <= slot.amount
         /\ n = slot.end - slot.begin /\ n <= One =>
              slot.amount <= MulFloor(n, SlotRate(slot)) + 1
<1> DEFINE a == slot.amount
           d == slot.end - slot.begin
           r == SlotRate(slot)
           m == MulFloor(n, r)
<1>1. a \in Nat /\ d \in Nat \ {0} /\ One \in Nat \ {0} /\ n <= d
  BY OneAssumption DEF Slot
<1>2. a * One \in Nat
  BY <1>1, TimesNat
<1>3. r = (a * One) \div d
  BY DEF SlotRate, FromRatio
<1>4. r \in Nat /\ r * d <= a * One /\ a * One < r * d + d
  BY <1>1, <1>2, <1>3, DivBounds
<1>5. m \in Nat /\ One * m <= n * r /\ n * r < One * m + One
  BY <1>4, MulFloorBounds
<1> HIDE DEF a, d, r, m
<1>6. n * r <= d * r /\ d * r = r * d /\ n * r \in Nat
  BY <1>1, <1>4, TimesMonotone
<1>7. m * One <= a * One
  BY <1>1, <1>2, <1>4, <1>5, <1>6
<1>8. m <= a
  BY <1>1, <1>5, <1>7, TimesCancel
<1>9. ASSUME n = d, n <= One
      PROVE  a <= m + 1
  <2>1. a * One < n * r + One
    BY <1>1, <1>2, <1>4, <1>6, <1>9
  <2>2. a * One < (m + 2) * One
    BY <1>1, <1>2, <1>5, <1>6, <2>1
  <2>3. a < m + 2
    <3>1. SUFFICES ASSUME m + 2 <= a
                   PROVE  FALSE
      BY <1>1, <1>5
    <3>2. (m + 2) * One <= a * One
      BY <1>1, <1>5, <3>1, TimesMonotone
    <3> QED  BY <1>1, <1>2, <1>5, <2>2, <3>2
  <2> QED  BY <1>1, <1>5, <2>3
<1> QED  BY <1>5, <1>8, <1>9 DEF a, d, r, m

LEMMA ElapsedType ==
  ASSUME NEW slot \in Slot, NEW last \in Nat
  PROVE  /\ ElapsedBy(slot, last) \in Nat
         /\ ElapsedBy(slot, last) <= slot.amount
<1>1. slot.begin \in Nat /\ slot.end \in Nat /\ slot.amount \in Nat
  BY DEF Slot
<1>2. CASE slot.begin < last /\ last < slot.end
  <2>1. /\ slot.begin < slot.end /\ last - slot.begin \in Nat
        /\ last - slot.begin <= slot.end - slot.begin
    BY <1>1, <1>2
  <2> QED  BY <1>1, <1>2, <2>1, SlotSpent DEF ElapsedBy
<1>3. CASE ~ (slot.begin < last /\ last < slot.end)
  BY <1>1, <1>3 DEF ElapsedBy
<1> QED  BY <1>2, <1>3

LEMMA ElapsedRises ==
  ASSUME NEW slot \in Slot, NEW last \in Nat, NEW t \in Nat, last <= t
  PROVE  ElapsedBy(slot, last) <= ElapsedBy(slot, t)
<1>1. slot.begin \in Nat /\ slot.end \in Nat /\ slot.amount \in Nat
  BY DEF Slot
<1>2. /\ ElapsedBy(slot, last) \in Nat /\ ElapsedBy(slot, last) <= slot.amount
      /\ ElapsedBy(slot, t) \in Nat
  BY ElapsedType
<1>3. CASE slot.begin >= last
  BY <1>1, <1>2, <1>3 DEF ElapsedBy
<1>4. CASE slot.begin < last /\ slot.end <= t
  BY <1>1, <1>2, <1>4 DEF ElapsedBy
<1>5. CASE slot.begin < last /\ t < slot.end
  <2>1. /\ slot.begin < slot.end
        /\ last - slot.begin \in Nat /\ t - slot.begin \in Nat
        /\ last - slot.begin <= t - slot.begin
    BY <1>1, <1>5
  <2>2. SlotRate(slot) \in Nat /\ SlotRate(slot) <= SlotRate(slot)
    BY <2>1, SlotRateType
  <2>3. MulFloor(last - slot.begin, SlotRate(slot)) <= MulFloor(t - slot.begin, SlotRate(slot))
    BY <2>1, <2>2, MulFloorMonotone
  <2> QED  BY <1>1, <1>5, <2>3 DEF ElapsedBy
<1> QED  BY <1>1, <1>3, <1>4, <1>5

(* A slot emits between two times no more than it has elapsed, even as if  *)
(* it were cut off at the second, unless it had ended by the first.        *)
LEMMA SlotEmits ==
  ASSUME NEW slot \in Slot, NEW last \in Nat, NEW t \in Nat, last <= t,
         slot.begin < slot.end, slot.begin <= t, slot.end >= last
  PROVE  LET emitted == Emission(slot, last, t)
         IN  /\ emitted \in Nat
             /\ ElapsedBy(slot, last) + emitted <= ElapsedBy(slot, t)
             /\ slot.begin >= t => emitted = 0
             /\ slot.end <= last => emitted = 0
             /\ slot.end > last /\ slot.end >= t /\ slot.begin < t =>
                  ElapsedBy(slot, last) + emitted
                    <= MulFloor(t - slot.begin, SlotRate(slot))
<1> DEFINE r == SlotRate(slot)
           p == PassedTime(slot, last, t)
           b == slot.begin
           e == slot.end
<1>1. b \in Nat /\ e \in Nat /\ slot.amount \in Nat /\ r \in Nat /\ b < e
  BY SlotRateType DEF Slot
<1>2. /\ ElapsedBy(slot, last) \in Nat /\ ElapsedBy(slot, t) \in Nat
  BY ElapsedType
<1>3. p = Earlier(e, t) - Later(b, last) /\ p \in Nat
  BY <1>1 DEF PassedTime, Earlier, Later
<1>4. Emission(slot, last, t) = MulFloor(p, r) /\ MulFloor(p, r) \in Nat
  BY <1>1, <1>3, MulFloorType DEF Emission
<1>5. MulFloor(0, r) = 0
  BY <1>1, OneAssumption DEF MulFloor
<1>6. CASE b >= t
  <2>1. p = 0
    BY <1>1, <1>3, <1>6 DEF Earlier, Later
  <2>2. ElapsedBy(slot, last) = 0
    BY <1>1, <1>6 DEF ElapsedBy
  <2> QED  BY <1>1, <1>2, <1>4, <1>5, <1>6, <2>1, <2>2
<1>7. CASE b < t /\ e <= last
  <2>1. p = 0
    BY <1>1, <1>3, <1>7 DEF Earlier, Later
  <2>2. ElapsedBy(slot, last) <= ElapsedBy(slot, t)
    BY ElapsedRises
  <2> QED  BY <1>1, <1>2, <1>4, <1>5, <1>7, <2>1, <2>2
<1>8. CASE b < t /\ e > last
  <2> DEFINE q == Earlier(e, t) - b
  <2>1. /\ q \in Nat /\ q <= e - b /\ p <= q
        /\ t <= e => q = t - b
    BY <1>1, <1>3, <1>8 DEF Earlier, Later
  <2>2. ElapsedBy(slot, last) + MulFloor(p, r) <= MulFloor(q, r)
    <3>1. CASE b >= last
      <4>1. ElapsedBy(slot, last) = 0 /\ p = q
        BY <1>1, <1>3, <3>1 DEF ElapsedBy, Later
      <4> QED  BY <1>4, <4>1
    <3>2. CASE b < last
      <4>1. ElapsedBy(slot, last) = MulFloor(last - b, r)
        BY <1>1, <1>8, <3>2 DEF ElapsedBy
      <4>2. last - b \in Nat /\ (last - b) + p = q
        BY <1>1, <1>3, <1>8, <3>2 DEF Earlier, Later
      <4> HIDE DEF p, q, r
      <4> QED  BY <1>1, <1>3, <4>1, <4>2, MulFloorParts
    <3> QED  BY <1>1, <3>1, <3>2
  <2>3. MulFloor(q, r) <= ElapsedBy(slot, t)
    <3>1. CASE e <= t
      BY <1>1, <1>8, <2>1, <3>1, SlotSpent DEF ElapsedBy
    <3>2. CASE t < e
      BY <1>1, <1>2, <1>8, <2>1, <3>2 DEF ElapsedBy
    <3> QED  BY <1>1, <3>1, <3>2
  <2>4. MulFloor(q, r) \in Nat
    BY <1>1, <2>1, MulFloorType
  <2> QED  BY <1>1, <1>2, <1>4, <1>8, <2>1, <2>2, <2>3, <2>4
<1> QED  BY <1>1, <1>6, <1>7, <1>8

LEMMA SpentType ==
  ASSUME NEW slots, IsSchedule(slots), NEW last \in Nat
  PROVE  /\ IsFiniteSet(DOMAIN slots)
         /\ [k \in DOMAIN slots |-> ElapsedBy(slots[k], last)] \in [DOMAIN slots -> Nat]
         /\ [k \in DOMAIN slots |-> ElapsedBy(slots[k], last)] \in [DOMAIN slots -> Int]
         /\ SpentBy(slots, last) \in Nat
<1> DEFINE e == [k \in DOMAIN slots |-> ElapsedBy(slots[k], last)]
<1>1. IsFiniteSet(DOMAIN slots) /\ e \in [DOMAIN slots -> Nat]
  BY ElapsedType DEF IsSchedule
<1>2. e \in [DOMAIN slots -> Int]
  BY <1>1
<1>3. SpentBy(slots, last) = SumFunction(e)
  BY DEF SpentBy
<1> HIDE DEF e
<1>4. SumFunction(e) \in Nat
  BY <1>1, SumNat
<1> QED  BY <1>1, <1>2, <1>3, <1>4 DEF e

LEMMA SpentRises ==
  ASSUME NEW slots, IsSchedule(slots), NEW last \in Nat, NEW t \in Nat, last <= t
  PROVE  SpentBy(slots, last) <= SpentBy(slots, t)
<1> DEFINE e == [k \in DOMAIN slots |-> ElapsedBy(slots[k], last)]
           f == [k \in DOMAIN slots |-> ElapsedBy(slots[k], t)]
<1>1. /\ IsFiniteSet(DOMAIN slots)
      /\ e \in [DOMAIN slots -> Int] /\ f \in [DOMAIN slots -> Int]
  BY SpentType
<1>2. \A k \in DOMAIN slots : e[k] <= f[k]
  BY ElapsedRises DEF IsSchedule
<1>3. SpentBy(slots, last) = SumFunction(e) /\ SpentBy(slots, t) = SumFunction(f)
  BY DEF SpentBy
<1> HIDE DEF e, f
<1> QED  BY <1>1, <1>2, <1>3, SumMonotone

(* The emissions as a function on all slots. *)
LEMMA DistributedOver ==
  ASSUME NEW slots, IsSchedule(slots), NEW last \in Nat, NEW t \in Nat, last <= t,
         Regular(slots, last, t), NEW g,
         g = [k \in DOMAIN slots |->
                IF k \in Active(slots, last, t) THEN Emission(slots[k], last, t) ELSE 0]
  PROVE  /\ g \in [DOMAIN slots -> Int]
         /\ SumFunction(g) = Distributed(slots, last, t)
<1> DEFINE D      == DOMAIN slots
           active == Active(slots, last, t)
           emits  == [k \in active |-> Emission(slots[k], last, t)]
<1>1. IsFiniteSet(D) /\ active \subseteq D
  BY DEF IsSchedule, Active
<1>2. emits \in [active -> Nat]
  BY EmissionType
<1>3. g \in [D -> Int]
  BY <1>1, <1>2
<1>4. \A k \in D \ active : g[k] = 0
  OBVIOUS
<1>5. Over(g, active) = emits
  BY <1>1 DEF Over
<1>6. Distributed(slots, last, t) = SumFunction(emits)
  BY DEF Distributed
<1> HIDE DEF active, emits, D
<1>7. SumFunction(g) = SumFunction(Over(g, active))
  BY <1>1, <1>3, <1>4, SumOfPart
<1> QED  BY <1>3, <1>5, <1>6, <1>7 DEF D

(* No second is distributed twice: what is distributed between two times,  *)
(* if no slot changes, is at most what has elapsed between them.            *)
LEMMA SpentEmits ==
  ASSUME NEW slots, IsSchedule(slots), NEW last \in Nat, NEW t \in Nat, last <= t,
         Regular(slots, last, t)
  PROVE  SpentBy(slots, last) + Distributed(slots, last, t) <= SpentBy(slots, t)
<1> DEFINE D == DOMAIN slots
           e == [k \in D |-> ElapsedBy(slots[k], last)]
           f == [k \in D |-> ElapsedBy(slots[k], t)]
           g == [k \in D |-> IF k \in Active(slots, last, t)
                             THEN Emission(slots[k], last, t) ELSE 0]
           h == [k \in D |-> e[k] + g[k]]
<1>1. IsFiniteSet(D) /\ e \in [D -> Int] /\ f \in [D -> Int]
  BY SpentType
<1>2. g \in [D -> Int] /\ SumFunction(g) = Distributed(slots, last, t)
  BY DistributedOver
<1>3. ASSUME NEW k \in D
      PROVE  e[k] + g[k] <= f[k]
  <2>1. slots[k] \in Slot
    BY DEF IsSchedule
  <2>2. CASE k \in Active(slots, last, t)
    <3>1. /\ slots[k].begin < slots[k].end /\ slots[k].begin <= t
          /\ slots[k].end >= last
      BY <2>2 DEF Active, Regular
    <3> QED  BY <2>1, <2>2, <3>1, SlotEmits
  <2>3. CASE k \notin Active(slots, last, t)
    <3>1. ElapsedBy(slots[k], last) <= ElapsedBy(slots[k], t)
      BY <2>1, ElapsedRises
    <3>2. ElapsedBy(slots[k], last) \in Nat
      BY <2>1, ElapsedType
    <3> QED  BY <2>3, <3>1, <3>2
  <2> QED  BY <2>2, <2>3
<1>4. SpentBy(slots, last) = SumFunction(e) /\ SpentBy(slots, t) = SumFunction(f)
  BY DEF SpentBy
<1> HIDE DEF e, f, g
<1>5. h \in [D -> Int] /\ \A k \in D : h[k] = e[k] + g[k]
  BY <1>1, <1>2
<1>6. \A k \in D : h[k] <= f[k]
  BY <1>3, <1>5
<1> HIDE DEF h, D
<1>7. SumFunction(h) = SumFunction(e) + SumFunction(g)
  BY <1>1, <1>2, <1>5, SumPlus
<1>8. SumFunction(h) <= SumFunction(f)
  BY <1>1, <1>5, <1>6, SumMonotone
<1> QED  BY <1>2, <1>4, <1>7, <1>8

(* The slots that a new schedule has to keep are all that have emitted. *)
LEMMA SpentAccepted ==
  ASSUME NEW old, IsSchedule(old), NEW new, IsSchedule(new), NEW last \in Nat,
         NewSchedulesAccepted(old, new, last)
  PROVE  SpentBy(old, last) <= SpentBy(new, last)
<1> DEFINE A == DOMAIN old
           B == DOMAIN new
           value == [slot \in Slot |-> ElapsedBy(slot, last)]
<1>1. value \in [Slot -> Nat]
  BY ElapsedType
<1>2. /\ IsFiniteSet(A) /\ old \in [A -> Slot]
      /\ IsFiniteSet(B) /\ new \in [B -> Slot]
  BY DEF IsSchedule
<1>3. Covers(new, B, old, A, value)
  <2> SUFFICES ASSUME NEW slot \in Slot, value[slot] > 0
               PROVE  Cardinality(Places(slot, old, A)) <= Cardinality(Places(slot, new, B))
    BY <1>1 DEF Covers
  <2>1. slot.begin <= last
    <3>1. ElapsedBy(slot, last) > 0 /\ slot.begin \in Nat
      BY DEF Slot
    <3> QED  BY <3>1 DEF ElapsedBy
  <2>2. CASE slot \in SlotsOf(old)
    <3>1. Count(slot, old) <= Count(slot, new)
      BY <2>1, <2>2 DEF NewSchedulesAccepted
    <3> QED  BY <3>1 DEF Count, Places
  <2>3. CASE slot \notin SlotsOf(old)
    <3>1. Places(slot, old, A) = {}
      BY <2>3 DEF Places, SlotsOf
    <3>2. Cardinality(Places(slot, new, B)) \in Nat
      BY <1>2, PlacesFinite
    <3> QED  BY <3>1, <3>2, FS_EmptySet
  <2> QED  BY <2>2, <2>3
<1>4. SumFunction([k \in A |-> value[old[k]]]) <= SumFunction([k \in B |-> value[new[k]]])
  <2> HIDE DEF value, A, B
  <2> QED  BY <1>1, <1>2, <1>3, CoveringSum
<1>5. [k \in A |-> value[old[k]]] = [k \in A |-> ElapsedBy(old[k], last)]
  BY <1>2
<1>6. [k \in B |-> value[new[k]]] = [k \in B |-> ElapsedBy(new[k], last)]
  BY <1>2
<1> QED  BY <1>4, <1>5, <1>6 DEF SpentBy

(* What a slot has emitted stays with it when a migration cuts it off, or  *)
(* all but one unit when it was over and distributed already.              *)
LEMMA SlotCutOff ==
  ASSUME Sound, now <= One, NEW slot \in Slot, slot.begin < now,
         slot.end >= now => FitsUint128(SlotRate(slot)),
         NEW emitted \in Nat,
         \/ emitted = 0
         \/ /\ slot.begin < slot.end /\ slot.end >= lastDistributed
            /\ emitted = Emission(slot, lastDistributed, now)
  PROVE  /\ CutOff(slot) \in Slot
         /\ ElapsedBy(slot, lastDistributed) + emitted
              <= ElapsedBy(CutOff(slot), now)
                   + IF /\ slot.end = now /\ lastDistributed = now
                        /\ CutOff(slot).amount < slot.amount
                     THEN 1 ELSE 0
<1> DEFINE last == lastDistributed
           cut  == MulFloor(now - slot.begin, SlotRate(slot))
<1>1. /\ last \in Nat /\ now \in Nat /\ last <= now /\ One \in Nat
      /\ slot.begin \in Nat /\ slot.end \in Nat /\ slot.amount \in Nat
  BY OneAssumption DEF Sound, TypeOK, IndexNotAhead, Slot
<1>2. /\ ElapsedBy(slot, last) \in Nat /\ ElapsedBy(slot, last) <= slot.amount
      /\ ElapsedBy(slot, last) <= ElapsedBy(slot, now)
  BY <1>1, ElapsedType, ElapsedRises
<1>3. CASE slot.end < now
  <2>1. CutOff(slot) = slot
    BY <1>3 DEF CutOff
  <2>2. ElapsedBy(slot, last) + emitted <= ElapsedBy(slot, now)
    <3>1. CASE emitted = 0
      BY <1>2, <3>1
    <3>2. CASE emitted # 0
      BY <1>1, <3>2, SlotEmits
    <3> QED  BY <3>1, <3>2
  <2>3. ElapsedBy(slot, now) \in Nat
    BY <1>1, ElapsedType
  <2> QED  BY <1>1, <1>2, <2>1, <2>2, <2>3
<1>4. CASE slot.end >= now
  <2>1. slot.begin < slot.end /\ now - slot.begin \in Nat
        /\ now - slot.begin <= slot.end - slot.begin
    BY <1>1, <1>4
  <2>2. /\ cut \in Nat
        /\ slot.end = now => slot.amount <= cut + 1
    <3>1. now - slot.begin <= One
      BY <1>1
    <3> QED  BY <2>1, <3>1, SlotSpent
  <2>3. CutOff(slot) = [begin |-> slot.begin, end |-> now, amount |-> cut]
    BY <1>1, <1>4 DEF CutOff
  <2>4. CutOff(slot) \in Slot
    BY <1>1, <2>2, <2>3 DEF Slot
  <2>5. ElapsedBy(CutOff(slot), now) = cut /\ CutOff(slot).amount = cut
    BY <1>1, <2>3 DEF ElapsedBy
  <2>6. CASE slot.end > last
    <3>1. ElapsedBy(slot, last) + emitted <= cut
      <4>1. CASE emitted = 0
        <5>1. ElapsedBy(slot, last) <= cut
          <6>1. /\ Emission(slot, last, now) \in Nat
                /\ ElapsedBy(slot, last) + Emission(slot, last, now) <= cut
            BY <1>1, <1>4, <2>1, <2>6, SlotEmits
          <6> QED  BY <1>2, <2>2, <6>1
        <5> QED  BY <1>2, <4>1, <5>1
      <4>2. CASE emitted # 0
        BY <1>1, <1>4, <2>1, <2>6, <4>2, SlotEmits
      <4> QED  BY <4>1, <4>2
    <3> QED  BY <1>1, <1>2, <2>2, <2>4, <2>5, <3>1
  <2>7. CASE slot.end <= last
    <3>1. slot.end = now /\ last = now
      BY <1>1, <1>4, <2>7
    <3>2. emitted = 0
      BY <1>1, <2>7, SlotEmits
    <3>3. CASE cut < slot.amount
      BY <1>1, <1>2, <2>2, <2>4, <2>5, <3>1, <3>2, <3>3
    <3>4. CASE ~ (cut < slot.amount)
      BY <1>1, <1>2, <2>2, <2>4, <2>5, <3>1, <3>2, <3>4
    <3> QED  BY <3>3, <3>4
  <2> QED  BY <1>1, <2>6, <2>7
<1> QED  BY <1>1, <1>3, <1>4

(* So does the schedule as a whole. *)
LEMMA MigrationSpent ==
  ASSUME Sound, now <= One, MigrateStaking(Owner, NewFarm)
  PROVE  /\ Cardinality(Recut) \in Nat
         /\ SpentBy(schedule, lastDistributed) + Gain
              <= SpentBy(schedule', now) + Cardinality(Recut)
<1> DEFINE D      == DOMAIN schedule
           begun  == {k \in D : schedule[k].begin < now}
           closed == [k \in begun |-> CutOff(schedule[k])]
           active == Active(schedule, lastDistributed, now)
           e == [k \in D |-> ElapsedBy(schedule[k], lastDistributed)]
           g == [k \in D |-> IF k \in active
                             THEN Emission(schedule[k], lastDistributed, now) ELSE 0]
           z == [k \in D |-> 0]
           c == [k \in D |-> IF k \in begun
                             THEN ElapsedBy(CutOff(schedule[k]), now) ELSE 0]
           r == [k \in D |-> IF k \in Recut THEN 1 ELSE 0]
           kept == [k \in begun |-> ElapsedBy(closed[k], now)]
<1>1. /\ schedule' = closed /\ RewardDefined(now)
      /\ \A k \in begun : schedule[k].end >= now => FitsUint128(SlotRate(schedule[k]))
  BY DEF MigrateStaking
<1>2. /\ IsSchedule(schedule) /\ IsFiniteSet(D) /\ \A k \in D : schedule[k] \in Slot
      /\ lastDistributed \in Nat /\ now \in Nat /\ lastDistributed <= now
      /\ totalBond \in Nat
  BY DEF Sound, TypeOK, IndexNotAhead, IsSchedule
<1>3. Recut \subseteq D /\ begun \subseteq D /\ Recut \subseteq begun
  BY DEF Recut
<1>4. Cardinality(Recut) \in Nat
  BY <1>2, <1>3, FS_Subset, FS_CardinalityType
<1>5. /\ e \in [D -> Int] /\ SpentBy(schedule, lastDistributed) = SumFunction(e)
      /\ \A k \in D : e[k] \in Nat
  BY <1>2, SpentType, ZenonT(40) DEF SpentBy
(* What is issued, as a function on the slots. *)
<1>6. PICK issues \in [D -> Nat] :
        /\ SumFunction(issues) = Gain
        /\ \A k \in D : \/ issues[k] = 0
                        \/ /\ schedule[k].begin < schedule[k].end
                           /\ schedule[k].begin <= now
                           /\ schedule[k].end >= lastDistributed
                           /\ issues[k] = Emission(schedule[k], lastDistributed, now)
  <2>1. CASE totalBond > 0
    <3>1. Regular(schedule, lastDistributed, now)
      BY <1>1, <2>1 DEF RewardDefined, Regular
    <3>2. SumFunction(g) = Distributed(schedule, lastDistributed, now)
      BY <1>2, <3>1, DistributedOver
    <3>3. \A k \in D : \/ g[k] = 0
                       \/ /\ schedule[k].begin < schedule[k].end
                          /\ schedule[k].begin <= now
                          /\ schedule[k].end >= lastDistributed
                          /\ g[k] = Emission(schedule[k], lastDistributed, now)
      BY <3>1 DEF Regular, Active
    <3>4. g \in [D -> Nat]
      BY <1>2, <3>1, EmissionType
    <3> HIDE DEF g
    <3> QED  BY <2>1, <3>2, <3>3, <3>4 DEF Gain
  <2>2. CASE totalBond = 0
    <3>1. z \in [D -> Int] /\ z \in [D -> Nat] /\ \A k \in D : z[k] = 0
      OBVIOUS
    <3> HIDE DEF z
    <3>2. SumFunction(z) = 0
      BY <1>2, <3>1, SumZero
    <3> QED  BY <2>2, <3>1, <3>2 DEF Gain
  <2> QED  BY <1>2, <2>1, <2>2
<1> DEFINE s == [k \in D |-> e[k] + issues[k]]
           t == [k \in D |-> c[k] + r[k]]
<1>7. ASSUME NEW k \in D
      PROVE  /\ c[k] \in Nat /\ r[k] \in Nat
             /\ e[k] + issues[k] <= c[k] + r[k]
  <2>1. schedule[k] \in Slot /\ schedule[k].begin \in Nat /\ issues[k] \in Nat
    BY <1>2 DEF Slot
  <2>2. CASE k \in begun
    <3>1. /\ CutOff(schedule[k]) \in Slot
          /\ ElapsedBy(schedule[k], lastDistributed) + issues[k]
               <= ElapsedBy(CutOff(schedule[k]), now)
                    + IF /\ schedule[k].end = now /\ lastDistributed = now
                         /\ CutOff(schedule[k]).amount < schedule[k].amount
                      THEN 1 ELSE 0
      BY <1>1, <1>6, <2>1, <2>2, SlotCutOff
    <3>2. ElapsedBy(CutOff(schedule[k]), now) \in Nat
      BY <1>2, <3>1, ElapsedType
    <3>3. k \in Recut <=> /\ schedule[k].end = now /\ lastDistributed = now
                          /\ CutOff(schedule[k]).amount < schedule[k].amount
      BY <2>2 DEF Recut
    <3> QED  BY <2>2, <3>1, <3>2, <3>3
  <2>3. CASE k \notin begun
    <3>1. schedule[k].begin >= now
      BY <1>2, <2>1, <2>3
    <3>2. e[k] = 0
      BY <1>2, <2>1, <3>1 DEF ElapsedBy
    <3>3. issues[k] = 0
      BY <1>2, <1>6, <2>1, <3>1, SlotEmits
    <3> QED  BY <1>3, <2>3, <3>2, <3>3
  <2> QED  BY <2>2, <2>3
<1>8. /\ c \in [D -> Int] /\ r \in [D -> Int] /\ issues \in [D -> Int]
  BY <1>7
<1>9. SumFunction(r) = Cardinality(Recut)
  BY <1>2, <1>3, SumOfOnes
<1>10. SumFunction(c) = SpentBy(schedule', now)
  <2>1. \A k \in D \ begun : c[k] = 0
    OBVIOUS
  <2>2. Over(c, begun) = kept
    BY <1>3 DEF Over
  <2>3. SpentBy(closed, now) = SumFunction(kept)
    BY DEF SpentBy
  <2> HIDE DEF c, kept, begun, D
  <2>4. SumFunction(c) = SumFunction(Over(c, begun))
    BY <1>2, <1>3, <1>8, <2>1, SumOfPart
  <2> QED  BY <1>1, <2>2, <2>3, <2>4
<1> HIDE DEF e, c, r
<1>11. /\ s \in [D -> Int] /\ \A k \in D : s[k] = e[k] + issues[k]
       /\ t \in [D -> Int] /\ \A k \in D : t[k] = c[k] + r[k]
  BY <1>5, <1>8
<1>12. \A k \in D : s[k] <= t[k]
  BY <1>7, <1>11
<1> HIDE DEF s, t, D
<1>13. SumFunction(s) = SumFunction(e) + SumFunction(issues)
  BY <1>2, <1>5, <1>8, <1>11, SumPlus
<1>14. SumFunction(t) = SumFunction(c) + SumFunction(r)
  BY <1>2, <1>8, <1>11, SumPlus
<1>15. SumFunction(s) <= SumFunction(t)
  BY <1>2, <1>11, <1>12, SumMonotone
<1> QED  BY <1>4, <1>5, <1>6, <1>9, <1>10, <1>13, <1>14, <1>15

LEMMA SpentSoFar ==
  /\ SumFunction([k \in DOMAIN schedule |-> Elapsed(schedule[k])])
       = SpentBy(schedule, lastDistributed)
  /\ SumFunction([k \in DOMAIN schedule |-> Elapsed(schedule[k])])'
       = SpentBy(schedule', lastDistributed')
BY DEF Elapsed, ElapsedBy, SpentBy

LEMMA EveryStepOnSchedule ==
  ASSUME Sound, BooksTypeOK, IssuedOnSchedule, Next, Booked
  PROVE  IssuedOnSchedule'
<1>1. /\ issued <= SpentBy(schedule, lastDistributed) + recuts
      /\ issued \in Nat /\ recuts \in Nat /\ recuts' \in Nat /\ recuts' >= recuts
      /\ lastDistributed \in Nat /\ now \in Nat /\ lastDistributed <= now
      /\ IsSchedule(schedule) /\ totalBond \in Nat
      /\ now <= One
  <2>1. now <= MaxTime /\ MaxTime \in Nat /\ MaxTime <= One /\ One \in Nat /\ now \in Nat
    BY FarmTimeAssumption, FarmInputsAssumption, OneAssumption DEF BooksTypeOK, Sound, TypeOK
  <2> QED  BY <2>1, SpentSoFar, RecutsBooked
           DEF IssuedOnSchedule, BooksTypeOK, Sound, TypeOK, IndexNotAhead
<1>2. SUFFICES issued' <= SpentBy(schedule', lastDistributed') + recuts'
  BY SpentSoFar DEF IssuedOnSchedule
<1>3. SpentBy(schedule, lastDistributed) \in Nat
  BY <1>1, SpentType
<1>4. ASSUME NEW u \in Users, NEW info \in Staker, Settles(u, info)
      PROVE  issued' <= SpentBy(schedule', lastDistributed') + recuts'
  <2>1. RewardDefined(now) /\ lastDistributed' = now /\ schedule' = schedule
    BY <1>4 DEF Settles, Settleable
  <2>2. issued' = issued + Gain /\ Gain \in Nat
    BY <2>1, SettlementBooked, IndexGain
  <2>3. SpentBy(schedule, lastDistributed) + Gain <= SpentBy(schedule, now)
    <3>1. CASE totalBond > 0
      <4>1. Regular(schedule, lastDistributed, now)
        BY <2>1, <3>1 DEF RewardDefined, Regular
      <4> QED  BY <1>1, <3>1, <4>1, SpentEmits DEF Gain
    <3>2. CASE totalBond = 0
      BY <1>1, <1>3, <3>2, SpentRises DEF Gain
    <3> QED  BY <1>1, <3>1, <3>2
  <2>4. SpentBy(schedule, now) \in Nat
    BY <1>1, SpentType
  <2> QED  BY <1>1, <1>3, <2>1, <2>2, <2>3, <2>4
<1>5. ASSUME NEW a \in Users \union {Owner}, NEW new \in Schedules, UpdateConfig(a, new), Aside
      PROVE  issued' <= SpentBy(schedule', lastDistributed') + recuts'
  <2>1. /\ schedule' = new /\ lastDistributed' = lastDistributed
        /\ NewSchedulesAccepted(schedule, new, lastDistributed) /\ IsSchedule(new)
    BY <1>5, FarmInputsAssumption DEF UpdateConfig, state
  <2>2. issued' = issued
    BY <1>5, <2>1, NothingBooked DEF Aside
  <2>3. SpentBy(schedule, lastDistributed) <= SpentBy(new, lastDistributed)
    BY <1>1, <2>1, SpentAccepted
  <2>4. SpentBy(new, lastDistributed) \in Nat
    BY <1>1, <2>1, SpentType
  <2> QED  BY <1>1, <1>3, <2>1, <2>2, <2>3, <2>4
<1>6. ASSUME MigrateStaking(Owner, NewFarm), Aside
      PROVE  issued' <= SpentBy(schedule', lastDistributed') + recuts'
  <2>1. RewardDefined(now) /\ lastDistributed' = now
    BY <1>6 DEF MigrateStaking
  <2>2. issued' = issued + Gain /\ Gain \in Nat
    BY <2>1, SettlementBooked, IndexGain
  <2>3. recuts' = recuts + Cardinality(Recut)
    BY <1>6 DEF Booked
  <2>4. /\ Cardinality(Recut) \in Nat
        /\ SpentBy(schedule, lastDistributed) + Gain
             <= SpentBy(schedule', now) + Cardinality(Recut)
    BY <1>1, <1>6, MigrationSpent
  <2>5. SpentBy(schedule', now) \in Nat
    <3>1. IsSchedule(schedule')
      BY <1>6, MigrateStakingSound DEF Sound, TypeOK, IsSchedule
    <3> QED  BY <1>1, <3>1, SpentType
  <2> QED  BY <1>1, <1>3, <2>1, <2>2, <2>3, <2>4, <2>5
<1>7. ASSUME schedule' = schedule, lastDistributed' = lastDistributed, Aside
      PROVE  issued' <= SpentBy(schedule', lastDistributed') + recuts'
  BY <1>1, <1>3, <1>7, NothingBooked DEF Aside
<1>8. UNCHANGED vars => Aside
  BY DEF vars, state, Aside, Paid, Bonded
<1> QED  BY <1>4, <1>5, <1>6, <1>7, <1>8, Steps DEF Fund, Tick, state, vars

(* IssuedOnSchedule: no second of a slot is ever distributed twice; only a *)
(* slot cut off again in the second of its migration may fall one unit     *)
(* behind what it has issued.                                              *)
THEOREM NeverIssuedTwice == AuditedSpec => []IssuedOnSchedule
<1>1. AuditedInit => IssuedOnSchedule
  <2> SUFFICES ASSUME AuditedInit
               PROVE  IssuedOnSchedule
    OBVIOUS
  <2>1. IsSchedule(schedule) /\ lastDistributed = 0 /\ issued = 0 /\ recuts = 0
    BY FarmInputsAssumption DEF AuditedInit, Init
  <2>2. SpentBy(schedule, lastDistributed) \in Nat
    BY <2>1, SpentType
  <2> QED  BY <2>1, <2>2, SpentSoFar DEF IssuedOnSchedule
<1>2. ASSUME Sound, BooksTypeOK, IssuedOnSchedule, [AuditedNext]_<<vars, books>>
      PROVE  IssuedOnSchedule'
  <2>1. CASE AuditedNext
    BY <1>2, <2>1, EveryStepOnSchedule DEF AuditedNext
  <2>2. CASE UNCHANGED <<vars, books>>
    BY <1>2, <2>2 DEF vars, state, books, IssuedOnSchedule, Elapsed
  <2> QED  BY <1>2, <2>1, <2>2
<1> QED  BY <1>1, <1>2, AlwaysBooked, PTL DEF AuditedSpec

(* No slot emits more than its amount. *)
LEMMA SpentWithinTotal ==
  ASSUME NEW slots, IsSchedule(slots), NEW last \in Nat
  PROVE  /\ SpentBy(slots, last) \in Nat /\ Total(slots) \in Int
         /\ SpentBy(slots, last) <= Total(slots)
<1> DEFINE e == [k \in DOMAIN slots |-> ElapsedBy(slots[k], last)]
           a == [k \in DOMAIN slots |-> slots[k].amount]
<1>1. /\ IsFiniteSet(DOMAIN slots) /\ e \in [DOMAIN slots -> Int]
      /\ a \in [DOMAIN slots -> Int] /\ SpentBy(slots, last) \in Nat
  BY SpentType, SlotType
<1>2. \A k \in DOMAIN slots : e[k] <= a[k]
  BY ElapsedType DEF IsSchedule
<1>3. SpentBy(slots, last) = SumFunction(e) /\ Total(slots) = SumFunction(a)
  BY DEF SpentBy, Total
<1> HIDE DEF e, a
<1> QED  BY <1>1, <1>2, <1>3, SumMonotone, SumType

(* Solvent: reward tokens for the whole schedule are enough for all claims, *)
(* but for what rounding gave away.                                         *)
THEOREM FarmStaysSolvent == AuditedSpec => []Solvent
<1>1. ASSUME Sound, BooksTypeOK, CreditsBooked, IssuedOnSchedule
      PROVE  Solvent
  <2> DEFINE locked  == [u \in Users |-> Bonded(u)]
             balance == bank[RewardToken][FarmAddr]
  <2>1. PaidOut \in Int /\ Claims \in Int /\ PaidOut + Claims <= issued + changes
    BY <1>1, ClaimsWithinCredits
  <2>2. /\ SpentBy(schedule, lastDistributed) \in Nat /\ Total(schedule) \in Int
        /\ SpentBy(schedule, lastDistributed) <= Total(schedule)
    BY <1>1, SpentWithinTotal DEF Sound, TypeOK
  <2>3. issued <= SpentBy(schedule, lastDistributed) + recuts
    BY <1>1, SpentSoFar DEF IssuedOnSchedule
  <2>4. issued \in Nat /\ changes \in Nat /\ recuts \in Nat
    BY <1>1 DEF BooksTypeOK
  <2>5. RewardBalance \in Int
    <3>1. locked \in [Users -> Int] /\ IsFiniteSet(Users)
      BY <1>1, PaidType, FarmAccountsAssumption DEF Bonded
    <3>2. balance \in Nat
      BY <1>1, FarmAccountFacts DEF Sound, TypeOK
    <3>3. RewardBalance = balance - SumFunction(locked)
      BY DEF RewardBalance
    <3> HIDE DEF locked, balance
    <3> QED  BY <3>1, <3>2, <3>3, SumType
  <2> QED  BY <2>1, <2>2, <2>3, <2>4, <2>5 DEF Solvent
<1> QED  BY <1>1, AlwaysBooked, NeverIssuedTwice, PTL

-----------------------------------------------------------------------------
(* What a staker has earned.                                               *)

(* Nothing is distributed twice in the second of a settlement ... *)
LEMMA IndexStands ==
  ASSUME Sound', RewardDefined(now)', lastDistributed' = now'
  PROVE  IndexAt(now)' = globalIndex'
<1>1. /\ IsSchedule(schedule') /\ now' \in Nat /\ globalIndex' \in Nat /\ totalBond' \in Nat
  BY DEF Sound, TypeOK, IsSchedule
<1>2. CASE totalBond' = 0
  BY <1>2 DEF IndexAt
<1>3. CASE totalBond' > 0
  <2>1. Regular(schedule', now', now')
    BY <1>3 DEF RewardDefined, Regular
  <2>2. Distributed(schedule', now', now') = 0
    BY <1>1, <2>1, DistributedType
  <2>3. FromRatio(0, totalBond') = 0
    <3>1. totalBond' \in Nat \ {0} /\ 0 * One = 0
      BY <1>1, <1>3, OneAssumption
    <3> QED  BY <3>1, DivZero DEF FromRatio
  <2> QED  BY <1>1, <1>3, <2>2, <2>3 DEF IndexAt
<1> QED  BY <1>1, <1>2, <1>3

(* ... and more is distributed by a later time. *)
LEMMA DistributedRises ==
  ASSUME NEW slots, IsSchedule(slots), NEW last \in Nat, NEW t \in Nat, last <= t,
         Regular(slots, last, t + 1)
  PROVE  /\ Distributed(slots, last, t) \in Nat
         /\ Distributed(slots, last, t + 1) \in Nat
         /\ Distributed(slots, last, t) <= Distributed(slots, last, t + 1)
<1> DEFINE D == DOMAIN slots
           g == [k \in D |-> IF k \in Active(slots, last, t)
                             THEN Emission(slots[k], last, t) ELSE 0]
           h == [k \in D |-> IF k \in Active(slots, last, t + 1)
                             THEN Emission(slots[k], last, t + 1) ELSE 0]
<1>1. Active(slots, last, t) \subseteq Active(slots, last, t + 1)
  BY SlotType DEF Active
<1>2. Regular(slots, last, t) /\ t + 1 \in Nat /\ last <= t + 1
  BY <1>1 DEF Regular
<1>3. /\ g \in [D -> Int] /\ SumFunction(g) = Distributed(slots, last, t)
      /\ h \in [D -> Int] /\ SumFunction(h) = Distributed(slots, last, t + 1)
  BY <1>2, DistributedOver
<1>4. ASSUME NEW k \in D
      PROVE  g[k] <= h[k]
  <2>1. CASE k \in Active(slots, last, t)
    <3> DEFINE p == PassedTime(slots[k], last, t)
               q == PassedTime(slots[k], last, t + 1)
    <3>1. k \in Active(slots, last, t + 1)
      BY <1>1, <2>1
    <3>2. p \in Nat /\ q \in Nat /\ SlotRate(slots[k]) \in Nat
      BY <1>2, <2>1, <3>1, EmissionType
    <3>3. p <= q
      BY SlotType DEF PassedTime, Earlier, Later
    <3>4. g[k] = MulFloor(p, SlotRate(slots[k])) /\ h[k] = MulFloor(q, SlotRate(slots[k]))
      BY <2>1, <3>1 DEF Emission
    <3> HIDE DEF p, q, g, h
    <3> QED  BY <3>2, <3>3, <3>4, MulFloorMonotone
  <2>2. CASE k \notin Active(slots, last, t)
    <3>1. CASE k \in Active(slots, last, t + 1)
      <4>1. Emission(slots[k], last, t + 1) \in Nat
        BY <1>2, <3>1, EmissionType
      <4> QED  BY <2>2, <3>1, <4>1
    <3>2. CASE k \notin Active(slots, last, t + 1)
      BY <2>2, <3>2
    <3> QED  BY <3>1, <3>2
  <2> QED  BY <2>1, <2>2
<1>5. IsFiniteSet(D)
  BY DEF IsSchedule
<1>6. /\ Distributed(slots, last, t) \in Nat
      /\ Distributed(slots, last, t + 1) \in Nat
  BY <1>2, DistributedType
<1> HIDE DEF g, h, D
<1> QED  BY <1>3, <1>4, <1>5, <1>6, SumMonotone

LEMMA IndexTicks ==
  ASSUME Sound, Tick, RewardDefined(now), RewardDefined(now)'
  PROVE  IndexAt(now) \in Nat /\ IndexAt(now)' \in Nat /\ IndexAt(now) <= IndexAt(now)'
<1>1. /\ IsSchedule(schedule) /\ now \in Nat /\ globalIndex \in Nat /\ totalBond \in Nat
      /\ lastDistributed \in Nat /\ lastDistributed <= now /\ One \in Nat
  BY OneAssumption DEF Sound, TypeOK, IndexNotAhead
<1>2. /\ now' = now + 1 /\ schedule' = schedule /\ lastDistributed' = lastDistributed
      /\ totalBond' = totalBond /\ globalIndex' = globalIndex
  BY DEF Tick, state
<1>3. CASE totalBond = 0
  BY <1>1, <1>2, <1>3 DEF IndexAt
<1>4. CASE totalBond > 0
  <2> DEFINE early == Distributed(schedule, lastDistributed, now)
             late  == Distributed(schedule, lastDistributed, now + 1)
  <2>1. Regular(schedule, lastDistributed, now + 1)
    BY <1>2, <1>4 DEF RewardDefined, Regular
  <2>2. early \in Nat /\ late \in Nat /\ early <= late
    BY <1>1, <2>1, DistributedRises
  <2>3. IndexAt(now) = globalIndex + FromRatio(early, totalBond)
    BY <1>4 DEF IndexAt
  <2>4. IndexAt(now)' = globalIndex + FromRatio(late, totalBond)
    BY <1>2, <1>4 DEF IndexAt
  <2> HIDE DEF early, late
  <2>5. early * One \in Nat /\ late * One \in Nat /\ early * One <= late * One
    BY <1>1, <2>2, TimesNat, TimesMonotone
  <2>6. totalBond \in Nat \ {0}
    BY <1>1, <1>4
  <2>7. /\ FromRatio(early, totalBond) \in Nat /\ FromRatio(late, totalBond) \in Nat
        /\ FromRatio(early, totalBond) <= FromRatio(late, totalBond)
    BY <2>5, <2>6, DivBounds, DivMonotone DEF FromRatio
  <2> QED  BY <1>1, <2>3, <2>4, <2>7
<1> QED  BY <1>1, <1>3, <1>4

(* What a staker would have, settled now. *)
Worth(u) == Paid(u) + Settled(u).pending

(* A step that leaves a staker alone only moves his worth with the index. *)
LEMMA WorthRises ==
  ASSUME Sound, NEW u \in Users, staker'[u] = staker[u], Paid(u)' = Paid(u),
         IndexAt(now) \in Nat, IndexAt(now)' \in Nat, IndexAt(now) <= IndexAt(now)'
  PROVE  Worth(u) <= Worth(u)'
<1> DEFINE b   == staker[u].bond
           old == MulFloor(b, staker[u].index)
           mid == MulFloor(b, IndexAt(now))
           new == MulFloor(b, IndexAt(now)')
<1>1. /\ Paid(u) \in Int /\ b \in Nat /\ staker[u].index \in Nat
      /\ staker[u].pending \in Nat
  BY PaidType
<1>2. old \in Nat /\ mid \in Nat /\ new \in Nat
  BY <1>1, MulFloorType
<1>3. mid <= new
  BY <1>1, MulFloorMonotone
<1>4. Worth(u) = Paid(u) + (staker[u].pending + (mid - old))
  BY DEF Worth, Settled, Earned
<1>5. Worth(u)' = Paid(u) + (staker[u].pending + (new - old))
  BY DEF Worth, Settled, Earned
<1> HIDE DEF old, mid, new
<1> QED  BY <1>1, <1>2, <1>3, <1>4, <1>5

LEMMA EveryStepPays ==
  ASSUME Sound, [Next]_vars, RewardDefined(now), RewardDefined(now)',
         schedule' = schedule \/ lastDistributed' = now, NEW w \in Users
  PROVE  Worth(w) <= Worth(w)'
<1>1. Sound'
  BY EveryStepSound
<1>2. /\ IndexAt(now) \in Nat /\ globalIndex \in Nat
      /\ lastDistributed = now => IndexAt(now) = globalIndex
  BY IndexGain
<1>3. ASSUME NEW u \in Users, NEW info \in Staker, Settles(u, info)
      PROVE  Worth(w) <= Worth(w)'
  <2> DEFINE J == IndexAt(now)
  <2>1. /\ staker' = [staker EXCEPT ![u] = info] /\ staker \in [Users -> Staker]
        /\ globalIndex' = J /\ lastDistributed' = now /\ now' = now
    BY <1>3 DEF Settles, Sound, TypeOK
  <2>2. IndexAt(now)' = J
    BY <1>1, <2>1, IndexStands
  <2>3. CASE w # u
    <3>1. staker'[w] = staker[w] /\ Paid(w)' = Paid(w)
      BY <1>3, <2>1, <2>3 DEF Settles
    <3> QED  BY <1>2, <2>2, <3>1, WorthRises
  <2>4. CASE w = u
    <3>1. staker'[w] = info /\ info.bond \in Nat /\ info.pending \in Nat
      BY <2>1, <2>4 DEF Staker
    <3>2. MulFloor(info.bond, J) = MulFloor(info.bond, info.index)
      <4>1. CASE info.index = J
        BY <4>1
      <4>2. CASE info = NoStaker
        <5>1. info.bond = 0 /\ info.index = 0 /\ 0 * J = 0 * 0
          BY <1>2, <4>2 DEF NoStaker
        <5> QED  BY <5>1 DEF MulFloor
      <4> QED  BY <1>3, <4>1, <4>2 DEF Settles
    <3>3. MulFloor(info.bond, J) \in Nat
      BY <1>2, <3>1, MulFloorType
    <3>4. Settled(w)'.pending = info.pending + (MulFloor(info.bond, J)
                                                  - MulFloor(info.bond, info.index))
      BY <2>2, <3>1 DEF Settled, Earned
    <3>5. Settled(w)'.pending = info.pending
      BY <3>1, <3>2, <3>3, <3>4
    <3>6. Paid(u)' + info.pending = Paid(u) + Settled(u).pending /\ Paid(u)' \in Int
      BY <1>3 DEF Settles
    <3> QED  BY <2>4, <3>1, <3>5, <3>6 DEF Worth
  <2> QED  BY <2>3, <2>4
<1>4. ASSUME Aside, IndexAt(now)' \in Nat, IndexAt(now) <= IndexAt(now)'
      PROVE  Worth(w) <= Worth(w)'
  BY <1>2, <1>4, WorthRises DEF Aside
<1>5. ASSUME Aside, IndexAt(now)' = IndexAt(now)
      PROVE  Worth(w) <= Worth(w)'
  BY <1>2, <1>4, <1>5
<1>6. ASSUME Aside, UNCHANGED <<schedule, state, now>>
      PROVE  IndexAt(now)' = IndexAt(now)
  BY <1>6 DEF state, IndexAt
<1>7. ASSUME NEW a \in Users \union {Owner}, NEW new \in Schedules, UpdateConfig(a, new), Aside
      PROVE  IndexAt(now)' = IndexAt(now)
  <2>1. UNCHANGED <<state, now>>
    BY <1>7 DEF UpdateConfig
  <2>2. CASE schedule' = schedule
    BY <1>6, <1>7, <2>1, <2>2
  <2>3. CASE lastDistributed' = now
    BY <1>1, <1>2, <2>1, <2>3, IndexStands DEF state
  <2> QED  BY <2>2, <2>3
<1>8. ASSUME MigrateStaking(Owner, NewFarm)
      PROVE  IndexAt(now)' = IndexAt(now)
  <2>1. globalIndex' = IndexAt(now) /\ lastDistributed' = now /\ now' = now
    BY <1>8 DEF MigrateStaking
  <2> QED  BY <1>1, <2>1, IndexStands
<1>9. ASSUME Tick
      PROVE  IndexAt(now)' \in Nat /\ IndexAt(now) <= IndexAt(now)'
  BY <1>9, IndexTicks
<1>10. UNCHANGED vars => Aside
  BY DEF vars, state, Aside, Paid, Bonded
<1> QED  BY <1>3, <1>4, <1>5, <1>6, <1>7, <1>8, <1>9, <1>10, Steps DEF Fund, vars

(* EarnedNeverFalls: nobody's transaction takes back what the contract     *)
(* already shows a staker as his.                                          *)
THEOREM EarnedIsKept == Spec => EarnedNeverFalls
<1>1. ASSUME Sound, [Next]_vars
      PROVE  [ /\ schedule' = schedule \/ lastDistributed' = now
               /\ RewardDefined(now) /\ RewardDefined(now)'
               => \A u \in Users :
                    Paid(u)' + Settled(u)'.pending >= Paid(u) + Settled(u).pending ]_vars
  <2>1. ASSUME schedule' = schedule \/ lastDistributed' = now,
               RewardDefined(now), RewardDefined(now)', NEW u \in Users
        PROVE  Worth(u)' >= Worth(u)
    <3>1. Worth(u) <= Worth(u)'
      BY <1>1, <2>1, EveryStepPays
    <3> QED  BY <3>1
  <2> QED  BY <2>1 DEF Worth
<1> QED  BY <1>1, AlwaysSound, PTL DEF Spec, EarnedNeverFalls

-----------------------------------------------------------------------------
(* Malformed slots.                                                        *)

LoneStaker ==
  \E u \in Users : staker[u].bond = totalBond /\ staker[u].index = globalIndex

(* Only a staker who bonds into an empty farm can find himself there. *)
StuckAlone ==
  totalBond > 0 /\ (\E k \in DOMAIN schedule : Stuck(schedule[k])) => LoneStaker

LEMMA BondWithinTotal ==
  ASSUME Sound, BondsAddUp, NEW u \in Users
  PROVE  staker[u].bond \in Nat /\ staker[u].bond <= totalBond
<1> DEFINE others == Users \ {u}
           rest   == Over(Bonds, others)
<1>1. IsFiniteSet(Users) /\ Bonds \in [Users -> Int] /\ Bonds[u] = staker[u].bond
      /\ staker[u].bond \in Nat /\ SumFunction(Bonds) = totalBond /\ totalBond \in Nat
  BY BondsType, PaidType DEF Bonds, BondsAddUp, Sound, TypeOK
<1>2. SumFunction(Bonds) = Bonds[u] + SumFunction(rest)
  BY <1>1, SumSplit
<1>3. rest \in [others -> Nat] /\ IsFiniteSet(others)
  BY <1>1, BondsType, FS_Subset DEF Over
<1> HIDE DEF rest, others
<1>4. SumFunction(rest) \in Nat
  BY <1>3, SumNat
<1> QED  BY <1>1, <1>2, <1>4

LEMMA SettlementUnstuck ==
  ASSUME Sound, BondsAddUp, NEW u \in Users, NEW info \in Staker, Settles(u, info)
  PROVE  StuckAlone'
<1>1. /\ RewardDefined(now) /\ schedule' = schedule /\ lastDistributed' = now
      /\ staker' = [staker EXCEPT ![u] = info] /\ staker \in [Users -> Staker]
      /\ totalBond' = totalBond + info.bond - staker[u].bond
      /\ globalIndex' = IndexAt(now) /\ totalBond \in Nat
      /\ lastDistributed \in Nat /\ now \in Nat /\ lastDistributed <= now
  BY DEF Settles, Settleable, Sound, TypeOK, IndexNotAhead
<1>2. CASE totalBond > 0
  <2>1. ASSUME NEW k \in DOMAIN schedule, schedule[k].begin = now, schedule[k].end = now
        PROVE  FALSE
    <3>1. k \in Active(schedule, lastDistributed, now)
      BY <1>1, <2>1 DEF Active
    <3>2. schedule[k].begin < schedule[k].end
      BY <1>1, <1>2, <3>1 DEF RewardDefined
    <3> QED  BY <1>1, <2>1, <3>2
  <2> QED  BY <1>1, <2>1 DEF StuckAlone, Stuck
<1>3. CASE totalBond = 0
  <2>1. staker[u].bond = 0 /\ info.bond \in Nat
    BY <1>1, <1>3, BondWithinTotal DEF Staker
  <2>2. staker'[u] = info /\ totalBond' = info.bond
    BY <1>1, <1>3, <2>1
  <2>3. info = NoStaker => totalBond' = 0
    BY <2>2 DEF NoStaker
  <2>4. totalBond' > 0 => staker'[u].bond = totalBond' /\ staker'[u].index = globalIndex'
    BY <1>1, <2>2, <2>3 DEF Settles
  <2> QED  BY <2>4 DEF StuckAlone, LoneStaker
<1> QED  BY <1>1, <1>2, <1>3

LEMMA EveryStepUnstuck ==
  ASSUME Sound, BondsAddUp, StuckAlone, [Next]_vars
  PROVE  StuckAlone'
<1>1. ASSUME UNCHANGED <<schedule, state, staker>>
      PROVE  StuckAlone'
  BY <1>1 DEF StuckAlone, Stuck, LoneStaker, state
<1>2. ASSUME NEW a \in Users \union {Owner}, NEW new \in Schedules, UpdateConfig(a, new)
      PROVE  StuckAlone'
  <2>1. /\ schedule' = new /\ UNCHANGED <<state, staker>>
        /\ NewSchedulesAccepted(schedule, new, lastDistributed)
        /\ IsSchedule(new) /\ IsSchedule(schedule) /\ lastDistributed \in Nat
    BY <1>2, FarmInputsAssumption DEF UpdateConfig, Sound, TypeOK
  <2>2. ASSUME NEW k \in DOMAIN new, Stuck(new[k])
        PROVE  \E j \in DOMAIN schedule : schedule[j] = new[k]
    <3> DEFINE was == {j \in DOMAIN schedule : schedule[j] = new[k]}
               is  == {j \in DOMAIN new : new[j] = new[k]}
    <3>1. Cardinality(is) <= Cardinality(was)
      BY <2>1, <2>2 DEF NewSchedulesAccepted, SlotsOf, Count, Stuck
    <3>2. IsFiniteSet(is) /\ k \in is
      BY <2>1, FS_Subset DEF IsSchedule
    <3>3. Cardinality(is) \in Nat \ {0}
      BY <3>2, FS_EmptySet, FS_CardinalityType
    <3>4. was # {}
      BY <3>1, <3>3, FS_EmptySet
    <3> QED  BY <3>4
  <2> QED  BY <2>1, <2>2 DEF StuckAlone, Stuck, LoneStaker, state
<1>3. ASSUME MigrateStaking(Owner, NewFarm)
      PROVE  StuckAlone'
  <2>1. /\ lastDistributed' = now /\ now \in Nat
        /\ schedule' = [k \in {j \in DOMAIN schedule : schedule[j].begin < now} |->
                          CutOff(schedule[k])]
    BY <1>3 DEF MigrateStaking, Sound, TypeOK
  <2>2. \A k \in DOMAIN schedule : CutOff(schedule[k]).begin = schedule[k].begin
    BY DEF CutOff
  <2> QED  BY <2>1, <2>2 DEF StuckAlone, Stuck
<1> QED  BY <1>1, <1>2, <1>3, Steps, SettlementUnstuck DEF Fund, Tick, vars

(* A schedule without such a slot is mended by the owner. *)
LEMMA MendedAccepted ==
  ASSUME Sound, \A k \in DOMAIN schedule : ~ Stuck(schedule[k])
  PROVE  NewSchedulesAccepted(schedule, Mended, lastDistributed)
<1>1. /\ IsSchedule(schedule) /\ lastDistributed \in Nat /\ now \in Nat
      /\ lastDistributed <= now /\ IsFiniteSet(DOMAIN schedule)
  BY DEF Sound, TypeOK, IndexNotAhead, IsSchedule
<1>2. /\ DOMAIN Mended = DOMAIN schedule
      /\ Cardinality(DOMAIN schedule) \in Nat
  BY <1>1, FS_CardinalityType DEF Mended
<1>3. ASSUME NEW k \in Blocking
      PROVE  /\ schedule[k].begin \in Nat /\ schedule[k].begin > lastDistributed
             /\ Mended[k].begin \in Nat /\ Mended[k].begin > lastDistributed
  <2>1. /\ k \in DOMAIN schedule /\ schedule[k].end >= lastDistributed
        /\ schedule[k].begin >= schedule[k].end
    BY DEF Blocking, Active, Malformed
  <2>2. schedule[k].begin \in Nat /\ schedule[k].end \in Nat
    BY <1>1, <2>1, SlotType
  <2>3. schedule[k].begin > lastDistributed
    BY <1>1, <2>1, <2>2 DEF Stuck
  <2>4. Mended[k] = [schedule[k] EXCEPT !.begin = now + 1, !.end = now + 2]
    BY <2>1 DEF Mended
  <2>5. schedule[k] \in Slot
    BY <1>1, <2>1 DEF IsSchedule
  <2>6. Mended[k].begin = now + 1
    BY <2>4, <2>5 DEF Slot
  <2> QED  BY <1>1, <2>2, <2>3, <2>6
<1>4. ASSUME NEW slot, slot.begin <= lastDistributed
      PROVE  Count(slot, schedule) = Count(slot, Mended)
             /\ Count(slot, schedule) \in Nat
  <2> DEFINE was == {k \in DOMAIN schedule : schedule[k] = slot}
             is  == {k \in DOMAIN Mended : Mended[k] = slot}
  <2>1. \A k \in Blocking : schedule[k] # slot /\ Mended[k] # slot
    <3> SUFFICES ASSUME NEW k \in Blocking
                 PROVE  schedule[k] # slot /\ Mended[k] # slot
      OBVIOUS
    <3>1. /\ schedule[k].begin \in Nat /\ schedule[k].begin > lastDistributed
          /\ Mended[k].begin \in Nat /\ Mended[k].begin > lastDistributed
      BY <1>3
    <3> QED  BY <1>1, <1>4, <3>1
  <2>2. was = is
    BY <1>2, <2>1 DEF Mended
  <2>3. IsFiniteSet(was)
    BY <1>1, FS_Subset
  <2> QED  BY <2>2, <2>3, FS_CardinalityType DEF Count
<1> QED  BY <1>2, <1>4 DEF NewSchedulesAccepted

(* MalformedSlotMendable: the owner can always replace the slots on which  *)
(* every settlement panics, or they lock the bond of one staker alone, who *)
(* has not earned anything.                                                *)
THEOREM MalformedSlotsAreMendable == Spec => []MalformedSlotMendable
<1>1. Init => StuckAlone
  BY DEF Init, StuckAlone
<1>2. Sound /\ BondsAddUp /\ StuckAlone /\ [Next]_vars => StuckAlone'
  BY EveryStepUnstuck
<1>3. Sound /\ StuckAlone => MalformedSlotMendable
  BY MendedAccepted DEF StuckAlone, LoneStaker, MalformedSlotMendable
<1> QED  BY <1>1, <1>2, <1>3, AlwaysSound, BondsAlwaysAddUp, PTL DEF Spec

-----------------------------------------------------------------------------
(* Leaving the farm.                                                       *)

(* Nothing a settlement computes exceeds its type: the rates of the slots  *)
(* that are active, what they emit, the index, and what each staker is     *)
(* owed at that index.                                                     *)
NumbersFit ==
  /\ \A k \in Active(schedule, lastDistributed, now) :
       SlotRate(schedule[k]) <= Uint128Max
  /\ Distributed(schedule, lastDistributed, now) <= Uint128Max
  /\ IndexAt(now) <= Uint128Max
  /\ \A u \in Users : /\ MulFloor(staker[u].bond, IndexAt(now)) <= Uint128Max
                      /\ Settled(u).pending <= Uint128Max

LEMMA FittingIsWithin ==
  ASSUME NEW n \in Nat, n <= Uint128Max
  PROVE  FitsUint128(n)
BY Uint128Assumption DEF FitsUint128

(* Without malformed slots nothing but an overflow stops the distribution. *)
LEMMA DistributionSucceeds ==
  ASSUME Sound, Blocking = {}, NumbersFit, totalBond > 0
  PROVE  RewardDefined(now) /\ IndexAt(now) \in Nat
<1> DEFINE emitted == Distributed(schedule, lastDistributed, now)
           rise    == FromRatio(emitted, totalBond)
<1>1. /\ IsSchedule(schedule) /\ lastDistributed \in Nat /\ now \in Nat
      /\ lastDistributed <= now /\ totalBond \in Nat \ {0} /\ globalIndex \in Nat
  BY DEF Sound, TypeOK, IndexNotAhead
<1>2. Regular(schedule, lastDistributed, now)
  <2>1. ASSUME NEW k \in Active(schedule, lastDistributed, now)
        PROVE  schedule[k].begin < schedule[k].end
    <3>1. k \in DOMAIN schedule
      BY DEF Active
    <3>2. ~Malformed(schedule[k])
      BY DEF Blocking
    <3> QED  BY <1>1, <3>1, <3>2, SlotType DEF Malformed
  <2> QED  BY <2>1 DEF Regular
<1>3. emitted \in Nat
  BY <1>1, <1>2, DistributedType
<1>4. rise \in Nat
  <2>1. emitted * One \in Nat
    BY <1>3, TimesNat, OneAssumption
  <2> QED  BY <1>1, <2>1, DivBounds DEF FromRatio
<1>5. IndexAt(now) = globalIndex + rise
  BY <1>1 DEF IndexAt
<1>6. ASSUME NEW k \in Active(schedule, lastDistributed, now)
      PROVE  schedule[k].begin < schedule[k].end /\ FitsUint128(SlotRate(schedule[k]))
  <2>1. SlotRate(schedule[k]) \in Nat
    BY <1>1, <1>2, EmissionType
  <2> QED  BY <1>2, <2>1, FittingIsWithin DEF NumbersFit, Regular
<1>7. FitsUint128(emitted)
  BY <1>3, FittingIsWithin DEF NumbersFit
<1>8. IndexAt(now) \in Nat /\ IndexAt(now) <= Uint128Max /\ rise <= IndexAt(now)
  <2> HIDE DEF rise, emitted
  <2> QED  BY <1>1, <1>4, <1>5 DEF NumbersFit
<1>9. FitsUint128(rise) /\ FitsUint128(IndexAt(now))
  <2> HIDE DEF rise, emitted
  <2> QED  BY <1>4, <1>8, Uint128Assumption DEF FitsUint128
<1> QED  BY <1>1, <1>6, <1>7, <1>8, <1>9 DEF RewardDefined

LEMMA LeavingIsAllowed ==
  ASSUME Sound, BondsAddUp, Blocking = {}, NumbersFit, StakingToken # RewardToken,
         NEW u \in Users, staker[u].bond > 0
  PROVE  UnbondAllowed(u, staker[u].bond)
<1> DEFINE bond  == staker[u].bond
           index == IndexAt(now)
<1>1. /\ bond \in Nat /\ staker[u].index \in Nat /\ staker[u].pending \in Nat
      /\ staker[u].index <= globalIndex
      /\ totalBond \in Nat /\ globalIndex \in Nat
  BY DEF Sound, TypeOK, IndexNotAhead, Staker
<1>2. bond <= totalBond /\ totalBond > 0
  BY <1>1, BondWithinTotal
<1>3. RewardDefined(now) /\ index \in Nat
  BY <1>2, DistributionSucceeds
<1>4. index >= globalIndex
  BY <1>3, IndexRises
<1>5. /\ MulFloor(bond, index) \in Nat /\ MulFloor(bond, staker[u].index) \in Nat
      /\ MulFloor(bond, staker[u].index) <= MulFloor(bond, index)
  <2> HIDE DEF index, bond
  <2>1. bond <= bond /\ staker[u].index <= index
    BY <1>1, <1>3, <1>4
  <2> QED  BY <1>1, <1>3, <2>1, MulFloorType, MulFloorMonotone
<1>6. /\ Earned(staker[u], index) \in Nat
      /\ Settled(u).pending = staker[u].pending + Earned(staker[u], index)
  BY <1>5 DEF Earned, Settled
<1>7. Settled(u).pending \in Nat
  <2> HIDE DEF index, bond
  <2> QED  BY <1>1, <1>6
<1>8. Settleable(u)
  <2>1. FitsUint128(MulFloor(bond, index)) /\ FitsUint128(Settled(u).pending)
    BY <1>5, <1>7, FittingIsWithin DEF NumbersFit
  <2>2. Earned(staker[u], index) >= 0
    BY <1>6
  <2> QED  BY <1>3, <2>1, <2>2 DEF Settleable
<1>9. bank[StakingToken][FarmAddr] \in Nat /\ bank[StakingToken][FarmAddr] >= totalBond
  BY FarmAccountFacts DEF Sound, TypeOK, PrincipalCovered
<1>10. bank[StakingToken][FarmAddr] >= bond /\ totalBond >= bond /\ bond >= bond
  <2> HIDE DEF bond
  <2> QED  BY <1>1, <1>2, <1>9
<1> QED  BY <1>8, <1>10 DEF UnbondAllowed, HasBonded, Sendable

(* UnbondAlwaysPossible, where reward and stake are two tokens and nothing *)
(* overflows: the runs farm_principal and farm_overflow show that neither  *)
(* is for free.  Every other check and panic of unbond is one that a       *)
(* staker who asks for his own bond never meets.                           *)
THEOREM StakersCanLeave ==
  ASSUME StakingToken # RewardToken
  PROVE  Spec => [](NumbersFit => UnbondAlwaysPossible)
<1>1. Sound /\ BondsAddUp => (NumbersFit => UnbondAlwaysPossible)
  BY LeavingIsAllowed DEF UnbondAlwaysPossible
<1> QED  BY <1>1, AlwaysSound, BondsAlwaysAddUp, PTL
=============================================================================
