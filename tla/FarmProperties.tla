--------------------------- MODULE FarmProperties ---------------------------
(***************************************************************************)
(* What makes a choice_farm correct.  Three history variables, which no    *)
(* action of the contract reads, keep the books the contract does not:     *)
(* what the schedule has issued to the stakers, how often a bond was       *)
(* changed, since every change may round in favour of its staker once, and *)
(* how often a slot was cut off twice, which may round against the stakers.*)
(***************************************************************************)
EXTENDS Farm

CONSTANT MaxChanges   (* Bounds how often bonds change. *)

VARIABLES
  issued,   (* The sum of what compute_reward has distributed.             *)
  changes,  (* How many times the bond of a staker has changed.            *)
  recuts    (* How many times a slot has lost by being cut off again.      *)

books == <<issued, changes, recuts>>

AuditedInit == Init /\ issued = 0 /\ changes = 0 /\ recuts = 0

(* The slots that are over, and were already distributed in this second,   *)
(* but a migration would cut off once more, and round down once more.      *)
Recut ==
  {k \in DOMAIN schedule :
     /\ schedule[k].begin < now /\ schedule[k].end = now /\ lastDistributed = now
     /\ CutOff(schedule[k]).amount < schedule[k].amount}

Booked ==
  /\ issued' = issued + (IF lastDistributed' # lastDistributed /\ totalBond > 0
                         THEN Distributed(schedule, lastDistributed, now)
                         ELSE 0)
  /\ changes' = changes + (IF totalBond' # totalBond THEN 1 ELSE 0)
  /\ recuts' = recuts + (IF MigrateStaking(Owner, NewFarm)
                         THEN Cardinality(Recut) ELSE 0)

AuditedNext == Next /\ Booked /\ changes' <= MaxChanges

AuditedSpec == AuditedInit /\ [][AuditedNext]_<<vars, books>>

-----------------------------------------------------------------------------
TypeOK ==
  /\ bank \in [Tokens -> [Accounts -> Nat]]
  /\ IsSchedule(schedule)
  /\ lastDistributed \in Nat /\ totalBond \in Nat /\ globalIndex \in Nat
  /\ staker \in [Users -> Staker]
  /\ now \in Nat

(* total_bond_amount is the sum of the bonds, through removals of records  *)
(* from storage: otherwise the last staker could not unbond.               *)
BondsAddUp == SumFunction([u \in Users |-> staker[u].bond]) = totalBond

(* The bonded tokens are there, when rewards are paid in another token.    *)
PrincipalCovered ==
  StakingToken # RewardToken => bank[StakingToken][FarmAddr] >= totalBond

(* No staker's index is ahead of the global one, so that the subtraction   *)
(* of compute_staker_reward never fails; nor is the clock of the farm.     *)
IndexNotAhead ==
  /\ lastDistributed <= now
  /\ \A u \in Users : staker[u].index <= globalIndex

(* The index and the clock of the farm never go back, through migrations,  *)
(* changes of the schedule and times when nothing is bonded.               *)
IndexNeverFalls ==
  [][globalIndex' >= globalIndex /\ lastDistributed' >= lastDistributed]_vars

-----------------------------------------------------------------------------
(* The books. *)

Bonded(u) == IF StakingToken = RewardToken THEN staker[u].bond ELSE 0

(* What u has been paid, and what he can claim at the stored index. *)
Paid(u)  == bank[RewardToken][u] + Bonded(u) - Genesis[RewardToken][u]
Claim(u) == staker[u].pending + Earned(staker[u], globalIndex)

PaidOut == SumFunction([u \in Users |-> Paid(u)])
Claims  == SumFunction([u \in Users |-> Claim(u)])

(* The reward tokens of the contract that are not principal. *)
RewardBalance ==
  bank[RewardToken][FarmAddr] - SumFunction([u \in Users |-> Bonded(u)])

(* What a slot has emitted by the last distribution. *)
Elapsed(slot) ==
  IF slot.begin >= lastDistributed THEN 0
  ELSE IF slot.end <= lastDistributed THEN slot.amount
  ELSE MulFloor(lastDistributed - slot.begin, SlotRate(slot))

(* The stakers together never get more than was issued, but for less than  *)
(* one unit that rounding may give away each time a bond changes.          *)
RewardsWithinRounding == PaidOut + Claims <= issued + changes

(* No second of a slot is distributed twice: not by two settlements, nor   *)
(* after the owner changed the schedule or migrated.  But a migration that *)
(* follows another in the same second cuts the slots off once more, and a  *)
(* slot so cut may lose one unit that was issued, and send it away.        *)
IssuedOnSchedule ==
  issued <= SumFunction([k \in DOMAIN schedule |-> Elapsed(schedule[k])]) + recuts

(* A farm that has been given what its schedule totals can pay all claims, *)
(* but for the units that rounding gave away and second migrations took.   *)
Solvent ==
  RewardBalance + PaidOut >= Total(schedule) =>
    RewardBalance + changes + recuts >= Claims

(* What query_staker_info answers a staker now, with what he has already   *)
(* been paid, never falls: not by his own or another's bonding, unbonding, *)
(* withdrawing, or a migration.  Only an update_config that comes later    *)
(* than the last distribution may take back what has accrued since.        *)
EarnedNeverFalls ==
  [][ /\ schedule' = schedule \/ lastDistributed' = now
      /\ RewardDefined(now) /\ RewardDefined(now)'
      => \A u \in Users :
           Paid(u)' + Settled(u)'.pending >= Paid(u) + Settled(u).pending ]_vars

-----------------------------------------------------------------------------
(* The slots that make compute_reward panic now: none of the checks of     *)
(* instantiate and update_config keeps them out of the schedule.           *)
Malformed(slot) == slot.begin >= slot.end
Blocking ==
  {k \in Active(schedule, lastDistributed, now) : Malformed(schedule[k])}

(* The schedule with seconds to come in their place. *)
Mended ==
  [k \in DOMAIN schedule |->
     IF k \in Blocking THEN [schedule[k] EXCEPT !.begin = now + 1, !.end = now + 2]
                       ELSE schedule[k]]

(* A staker can always unbond all he bonded (README.md: "Users can bond    *)
(* tokens to participate in staking and unbond when desired"), unless a    *)
(* malformed slot of the schedule makes every settlement panic.            *)
UnbondAlwaysPossible ==
  Blocking = {} =>
    \A u \in Users : staker[u].bond > 0 => UnbondAllowed(u, staker[u].bond)

(* A slot of no duration in the very second of the last distribution. *)
Stuck(slot) == slot.begin = lastDistributed /\ slot.end = lastDistributed

(* The owner can then put another slot in its place, but for one case: a   *)
(* slot that begins and ends in the very second of the last distribution   *)
(* counts as begun.  It locks one bond only, which has earned nothing:     *)
(* nothing was bonded when its staker came in that second, and nobody      *)
(* could after.                                                            *)
MalformedSlotMendable ==
  totalBond > 0 =>
    \/ NewSchedulesAccepted(schedule, Mended, lastDistributed)
    \/ /\ \E k \in DOMAIN schedule : Stuck(schedule[k])
       /\ \E u \in Users :
            /\ staker[u].bond = totalBond
            /\ staker[u].index = globalIndex

(* update_config keeps every slot that has begun to be earned by the bonds *)
(* ("if began ensure its in the new schedule").                            *)
BegunSlotsKept ==
  [][\A new \in Schedules :
       UpdateConfig(Owner, new) /\ totalBond > 0 =>
         \A slot \in SlotsOf(schedule) :
           slot.begin <= now => Count(slot, schedule) <= Count(slot, new)]_vars
=============================================================================
