-------------------------------- MODULE Farm --------------------------------
(***************************************************************************)
(* The choice_farm contract: users bond a staking token and earn a reward  *)
(* token that is emitted over the slots of a schedule.  A global index     *)
(* accumulates the reward of one bonded unit; a staker earns the rise of   *)
(* the index since his own was recorded.  One action is one transaction;   *)
(* a handler that fails or panics, or whose transfer fails, is not enabled.*)
(* An operator called faulty is a variant that no action uses.             *)
(***************************************************************************)
EXTENDS FixedPoint, Transfers, FiniteSets, Functions

CONSTANTS
  Users,            (* The accounts that stake.                            *)
  Owner,            (* config.owner, the account that instantiated.        *)
  FarmAddr,         (* The account of the contract.                        *)
  NewFarm,          (* new_staking_contract, where a migration sends.      *)
  StakingToken,     (* config.staking_token.                               *)
  RewardToken,      (* config.reward_token, possibly the same.             *)
  NativeTokens,     (* The tokens that are bank denoms; others are CW20.   *)
  Genesis,          (* Genesis[token][a]: what account a owns at first.    *)
  InitialSchedule,  (* distribution_schedule of the InstantiateMsg.        *)
  Schedules,        (* The schedules the owner may propose later.          *)
  Amounts,          (* The amounts users write in their messages.          *)
  MaxTime           (* Bounds the clock.                                   *)

VARIABLES
  bank,             (* bank[token][a]: the balance of account a.           *)
  schedule,         (* config.distribution_schedule: a family of slots.    *)
  lastDistributed,  (* state.last_distributed.                             *)
  totalBond,        (* state.total_bond_amount.                            *)
  globalIndex,      (* state.global_reward_index, in atomics.              *)
  staker,           (* staker[u]: the StakerInfo of u.                     *)
  now               (* env.block.time in seconds.                          *)

state == <<lastDistributed, totalBond, globalIndex>>
vars  == <<bank, schedule, state, staker, now>>

Tokens   == {StakingToken, RewardToken}
Accounts == Users \union {Owner, FarmAddr, NewFarm}
Slot     == [begin : Nat, end : Nat, amount : Nat]
Staker   == [index : Nat, bond : Nat, pending : Nat]

(* Every use of the schedule is a sum or a count: its order means nothing, *)
(* the positions of the vector only tell equal slots apart.                *)
IsSchedule(slots) ==
  IsFiniteSet(DOMAIN slots) /\ slots \in [DOMAIN slots -> Slot]

ASSUME FarmAccountsAssumption ==
  /\ IsFiniteSet(Users)
  /\ Users \intersect {Owner, FarmAddr, NewFarm} = {}
  /\ FarmAddr # Owner /\ FarmAddr # NewFarm /\ Owner # NewFarm
ASSUME FarmInputsAssumption ==
  /\ Genesis \in [Tokens -> [Accounts -> Nat]]
  /\ IsSchedule(InitialSchedule)
  /\ \A new \in Schedules : IsSchedule(new)
  /\ Amounts \subseteq Nat
  /\ MaxTime \in Nat
(* A Timestamp counts nanoseconds in 64 bits, less than 2 * 10^10 seconds. *)
ASSUME FarmTimeAssumption == MaxTime <= One

(* What read_staker_info answers for an account that is not stored. *)
NoStaker == [index |-> 0, bond |-> 0, pending |-> 0]

Init ==
  /\ bank = Genesis
  /\ schedule = InitialSchedule
  /\ lastDistributed = 0 /\ totalBond = 0 /\ globalIndex = 0
  /\ staker = [u \in Users |-> NoStaker]
  /\ now = 0

-----------------------------------------------------------------------------
(* compute_reward: what the slots emit between two times.                  *)

Earlier(a, b) == IF a <= b THEN a ELSE b
Later(a, b)   == IF a <= b THEN b ELSE a

SlotRate(slot) == FromRatio(slot.amount, slot.end - slot.begin)

(* The time of a slot that has passed since the last distribution. *)
(* Faulty: as if nothing had been distributed before.                      *)
PassedSinceBegin(slot, last, t) == Earlier(slot.end, t) - slot.begin
PassedTime(slot, last, t) == Earlier(slot.end, t) - Later(slot.begin, last)

Emission(slot, last, t) == MulFloor(PassedTime(slot, last, t), SlotRate(slot))

Active(slots, last, t) ==
  {k \in DOMAIN slots : slots[k].begin <= t /\ slots[k].end >= last}

Distributed(slots, last, t) ==
  SumFunction([k \in Active(slots, last, t) |-> Emission(slots[k], last, t)])

(* Nothing is computed while nothing is bonded. *)
IndexAt(t) ==
  IF totalBond = 0
  THEN globalIndex
  ELSE globalIndex
         + FromRatio(Distributed(schedule, lastDistributed, t), totalBond)

(* An active slot without duration divides by zero, one that ends before   *)
(* it begins underflows; every sum and ratio has to fit.                   *)
RewardDefined(t) ==
  totalBond > 0 =>
    /\ lastDistributed <= t
    /\ \A k \in Active(schedule, lastDistributed, t) :
         /\ schedule[k].begin < schedule[k].end
         /\ FitsUint128(SlotRate(schedule[k]))
    /\ FitsUint128(Distributed(schedule, lastDistributed, t))
    /\ FitsUint128(FromRatio(Distributed(schedule, lastDistributed, t), totalBond))
    /\ FitsUint128(IndexAt(t))

-----------------------------------------------------------------------------
(* compute_staker_reward: what a staker earned since his index. *)

Earned(info, index) ==
  MulFloor(info.bond, index) - MulFloor(info.bond, info.index)

(* The StakerInfo of u after compute_reward and compute_staker_reward. *)
(* Faulty: the staker's index stays behind.                                *)
SettledKeepingIndex(u) ==
  [staker[u] EXCEPT !.pending = @ + Earned(staker[u], IndexAt(now))]
Settled(u) ==
  [index   |-> IndexAt(now),
   bond    |-> staker[u].bond,
   pending |-> staker[u].pending + Earned(staker[u], IndexAt(now))]

Settleable(u) ==
  /\ RewardDefined(now)
  /\ FitsUint128(MulFloor(staker[u].bond, IndexAt(now)))
  /\ Earned(staker[u], IndexAt(now)) >= 0
  /\ FitsUint128(Settled(u).pending)

(* query_staker_info, asked for a time: what a settlement would leave.     *)
StakerInfoAt(u, t) ==
  [index   |-> IndexAt(t),
   bond    |-> staker[u].bond,
   pending |-> staker[u].pending + Earned(staker[u], IndexAt(t))]

(* query_state, asked for a time. *)
StateAt(t) == [last |-> t, total |-> totalBond, index |-> IndexAt(t)]

(* A StakerInfo without bond and reward is removed from storage. *)
(* Faulty: it is removed as soon as its reward is paid.                    *)
StoredWhilePending(info) == IF info.pending = 0 THEN NoStaker ELSE info
Stored(info) == IF info.bond = 0 /\ info.pending = 0 THEN NoStaker ELSE info

-----------------------------------------------------------------------------
(* The transactions of the stakers. *)

(* bond, by ExecuteMsg::Bond with native funds or the CW20 Receive hook:   *)
(* the tokens are the contract's before its handler runs.                  *)
Bond(u, amount) ==
  /\ Settleable(u)
  /\ Sendable(StakingToken \in NativeTokens, amount)
  /\ bank[StakingToken][u] >= amount
  /\ FitsUint128(totalBond + amount)
  /\ bank' = [bank EXCEPT ![StakingToken] = Move(@, u, FarmAddr, amount)]
  /\ staker' = [staker EXCEPT ![u] = [Settled(u) EXCEPT !.bond = @ + amount]]
  /\ totalBond' = totalBond + amount
  /\ globalIndex' = IndexAt(now) /\ lastDistributed' = now
  /\ UNCHANGED <<schedule, now>>

(* Cannot unbond more than bond amount. *)
(* Faulty: only the total is compared.                                     *)
BondedByAll(u, amount) == totalBond >= amount
HasBonded(u, amount) == staker[u].bond >= amount

(* Whether unbond succeeds: the other conjuncts of Unbond are assignments.  *)
UnbondAllowed(u, amount) ==
  /\ HasBonded(u, amount)
  /\ Settleable(u)
  /\ totalBond >= amount
  /\ Sendable(StakingToken \in NativeTokens, amount)
  /\ bank[StakingToken][FarmAddr] >= amount

Unbond(u, amount) ==
  /\ UnbondAllowed(u, amount)
  /\ bank' = [bank EXCEPT ![StakingToken] = Move(@, FarmAddr, u, amount)]
  /\ staker' = [staker EXCEPT
                  ![u] = Stored([Settled(u) EXCEPT !.bond = @ - amount])]
  /\ totalBond' = totalBond - amount
  /\ globalIndex' = IndexAt(now) /\ lastDistributed' = now
  /\ UNCHANGED <<schedule, now>>

(* The StakerInfo that withdraw leaves behind. *)
(* Faulty: what was paid stays pending.                                    *)
NotCleared(info) == info
Cleared(info) == Stored([info EXCEPT !.pending = 0])

(* Rewards leave the contract in reward tokens. *)
(* Faulty: they leave in staking tokens.                                   *)
StakePaid(to, n) ==
  [bank EXCEPT ![StakingToken] = Move(@, FarmAddr, to, n)]
RewardPaid(to, n) ==
  [bank EXCEPT ![RewardToken] = Move(@, FarmAddr, to, n)]

Withdraw(u) ==
  LET amount == Settled(u).pending
  IN  /\ Settleable(u)
      /\ Sendable(RewardToken \in NativeTokens, amount)
      /\ bank[RewardToken][FarmAddr] >= amount
      /\ bank' = RewardPaid(u, amount)
      /\ staker' = [staker EXCEPT ![u] = Cleared(Settled(u))]
      /\ globalIndex' = IndexAt(now) /\ lastDistributed' = now
      /\ UNCHANGED <<schedule, totalBond, now>>

-----------------------------------------------------------------------------
(* The transactions of the owner. *)

Count(slot, slots) == Cardinality({k \in DOMAIN slots : slots[k] = slot})
SlotsOf(slots) == {slots[k] : k \in DOMAIN slots}

(* assert_new_schedules: as many slots, of which those that began by the   *)
(* last distribution are the same ones.                                    *)
(* Faulty: slots that have begun may be added.                             *)
BegunSlotsRemain(old, new, last) ==
  /\ Cardinality(DOMAIN new) >= Cardinality(DOMAIN old)
  /\ \A slot \in SlotsOf(old) :
       slot.begin <= last => Count(slot, old) <= Count(slot, new)
NewSchedulesAccepted(old, new, last) ==
  /\ Cardinality(DOMAIN new) >= Cardinality(DOMAIN old)
  /\ \A slot \in SlotsOf(old) :
       slot.begin <= last => Count(slot, old) <= Count(slot, new)
  /\ \A slot \in SlotsOf(new) :
       slot.begin <= last => Count(slot, new) <= Count(slot, old)

UpdateConfig(a, new) ==
  /\ a = Owner
  /\ NewSchedulesAccepted(schedule, new, lastDistributed)
  /\ schedule' = new
  /\ UNCHANGED <<bank, state, staker, now>>

(* A slot that has begun, cut off at the time of a migration. *)
CutOff(slot) ==
  IF slot.end < now
  THEN slot
  ELSE [begin |-> slot.begin, end |-> now,
        amount |-> MulFloor(now - slot.begin, SlotRate(slot))]

Total(slots) == SumFunction([k \in DOMAIN slots |-> slots[k].amount])

MigrateStaking(a, to) ==
  LET begun     == {k \in DOMAIN schedule : schedule[k].begin < now}
      closed    == [k \in begun |-> CutOff(schedule[k])]
      remaining == Total(schedule) - Total(closed)
  IN  /\ a = Owner
      /\ RewardDefined(now)
      /\ \A k \in begun :
           schedule[k].end >= now => FitsUint128(SlotRate(schedule[k]))
      /\ FitsUint128(Total(schedule))
      /\ FitsUint128(remaining)
      /\ Sendable(RewardToken \in NativeTokens, remaining)
      /\ bank[RewardToken][FarmAddr] >= remaining
      /\ bank' = RewardPaid(to, remaining)
      /\ schedule' = closed
      /\ globalIndex' = IndexAt(now) /\ lastDistributed' = now
      /\ UNCHANGED <<totalBond, staker, now>>

-----------------------------------------------------------------------------
(* The environment. *)

(* The reward tokens reach the contract by plain transfers. *)
Fund(a, n) ==
  /\ n > 0 /\ bank[RewardToken][a] >= n
  /\ bank' = [bank EXCEPT ![RewardToken] = Move(@, a, FarmAddr, n)]
  /\ UNCHANGED <<schedule, state, staker, now>>

(* A block passes. *)
Tick ==
  /\ now < MaxTime
  /\ now' = now + 1
  /\ UNCHANGED <<bank, schedule, state, staker>>

-----------------------------------------------------------------------------
Next ==
  \/ \E u \in Users, amount \in Amounts : Bond(u, amount) \/ Unbond(u, amount)
  \/ \E u \in Users : Withdraw(u)
  \/ \E a \in Users \union {Owner}, new \in Schedules : UpdateConfig(a, new)
  \/ \E a \in Users \union {Owner} : MigrateStaking(a, NewFarm)
  \/ \E n \in Amounts : Fund(Owner, n)
  \/ Tick

Spec == Init /\ [][Next]_vars
=============================================================================
