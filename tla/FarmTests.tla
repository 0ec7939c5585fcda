------------------------------ MODULE FarmTests ------------------------------
(***************************************************************************)
(* The tests of contracts/choice_farm/src/testing.rs as behaviours of the  *)
(* model: each is the list of calls that the test makes and of the answers *)
(* that it asserts.  Next to the free behaviours of MCFarm one begins for  *)
(* every test, with any user in the role of "addr0000"; it makes the calls *)
(* one by one.                                                             *)
(*                                                                         *)
(* Times count from mock_env().block.time, when the tests instantiate the  *)
(* contract; slots that were over by then are left out.  Amounts are those *)
(* of the tests.  The tokens are a coin and a CW20 token in all of them.   *)
(***************************************************************************)
EXTENDS MCFarm, Sequences

CONSTANT Nobody

VARIABLES
  script,   (* The steps of the test that are still to come.               *)
  tester    (* Who is "addr0000" in it; Nobody in a free behaviour.        *)

-----------------------------------------------------------------------------
(* The steps: calls that succeed, calls that are refused, and queries with *)
(* the answer that is asserted.                                            *)
Call(does, arg)        == [does |-> does, arg |-> arg, ok |-> TRUE]
Refused(does, arg)     == [does |-> does, arg |-> arg, ok |-> FALSE]
Asserts(query, answer) == Call(query, answer)

Info(index, bond, pending) ==
  [index |-> index * One, bond |-> bond, pending |-> pending]
State(last, total, index) ==
  [last |-> last, total |-> total, index |-> index * One]

(* Slots of 100 seconds in a row, of so many million units. *)
Millions(n) == 1000000 * n
Slots(amounts) ==
  [k \in DOMAIN amounts |-> At(100 * (k - 1), 100 * k, Millions(amounts[k]))]

(* The transfers that withdraw and migrate_staking send are asserted.      *)
Does(step) ==
  \/ step.does = "bond"     /\ Bond(tester, step.arg)
  \/ step.does = "unbond"   /\ Unbond(tester, step.arg)
  \/ step.does = "withdraw" /\ Withdraw(tester)
                            /\ bank' = RewardPaid(tester, step.arg)
  \/ step.does = "update"   /\ UpdateConfig(Owner, step.arg)
  \/ step.does = "update by another" /\ UpdateConfig(tester, step.arg)
  \/ step.does = "migrate"  /\ MigrateStaking(Owner, NewFarm)
                            /\ bank' = RewardPaid(NewFarm, step.arg)
  \/ step.does = "migrate by another" /\ MigrateStaking(tester, NewFarm)
  \/ step.does = "wait"     /\ now' = now + step.arg
                            /\ UNCHANGED <<bank, schedule, state, staker>>

AsTested(step) ==
  CASE step.does = "staker info" -> staker[tester] = step.arg
    [] step.does = "staker info at" ->
         StakerInfoAt(tester, step.arg.time) = step.arg.info
    [] step.does = "state" ->
         [last |-> lastDistributed, total |-> totalBond, index |-> globalIndex]
           = step.arg
    [] step.does = "config" -> schedule = step.arg
    [] OTHER -> step.ok <=> ENABLED Does(step)

-----------------------------------------------------------------------------
ProperInitialization ==
  [schedule |-> <<At(100, 200, Millions(1))>>,
   steps |-> << Asserts("config", <<At(100, 200, Millions(1))>>),
                Asserts("state", State(0, 0, 0)) >>]

TestBondTokens ==
  [schedule |-> Slots(<<1, 10>>),
   steps |-> << Call("bond", 100),
                Asserts("staker info", Info(0, 100, 0)),
                Asserts("state", State(0, 100, 0)),
                Call("wait", 10), Call("bond", 100),
                Asserts("staker info", Info(1000, 200, 100000)),
                Asserts("state", State(10, 200, 1000)) >>]

TestUnbond ==
  [schedule |-> <<>>,
   steps |-> << Call("bond", 100), Refused("unbond", 150), Call("unbond", 100) >>]

TestComputeReward ==
  [schedule |-> Slots(<<1, 10>>),
   steps |-> << Call("bond", 100), Call("wait", 100), Call("bond", 100),
                Asserts("staker info", Info(10000, 200, 1000000)),
                Call("wait", 10), Call("unbond", 100),
                Asserts("staker info", Info(15000, 100, 2000000)),
                Asserts("staker info at",
                        [time |-> 120, info |-> Info(25000, 100, 3000000)]) >>]

TestWithdraw ==
  [schedule |-> Slots(<<1, 10>>),
   steps |-> << Call("bond", 100), Call("wait", 100),
                Call("withdraw", Millions(1)) >>]

TestMigrateStaking ==
  [schedule |-> Slots(<<1, 10>>),
   steps |-> << Call("bond", 100), Call("wait", 100),
                Call("withdraw", Millions(1)), Call("wait", 50),
                Refused("migrate by another", 0),
                Call("migrate", Millions(5)),
                Asserts("config", << At(0, 100, Millions(1)),
                                     At(100, 150, Millions(5)) >>) >>]

(* The slots that began by the last distribution cannot be changed ... *)
UpdateConfigRefused ==
  << Refused("update by another", <<At(300, 400, Millions(10))>>),
     Call("bond", 100), Call("wait", 100), Call("withdraw", Millions(1)),
     Refused("update", Slots(<<5, 10, 10, 10, 10>>)),
     Call("bond", 100), Call("wait", 100), Call("withdraw", Millions(10)),
     Refused("update", Slots(<<5, 10, 10, 10, 10>>)) >>

(* ... the later ones can, and others be added. *)
Updated(amounts) ==
  << Call("update", Slots(amounts)), Asserts("config", Slots(amounts)) >>

UpdateConfigAccepted ==
  Updated(<<1, 10, 10, 20, 10>>) \o Updated(<<1, 10, 10, 20, 50>>)
    \o Updated(<<1, 10, 10, 90, 80>>) \o Updated(<<1, 10, 10, 90, 80, 60>>)

TestUpdateConfig ==
  [schedule |-> Slots(<<1, 10, 10, 10, 10>>),
   steps |-> UpdateConfigRefused \o UpdateConfigAccepted]

TestBondNative ==
  [schedule |-> Slots(<<1, 10>>),
   steps |-> << Call("bond", 100), Asserts("staker info", Info(0, 100, 0)),
                Asserts("state", State(0, 100, 0)) >>]

(* TestUnbond with a native staking token.                                 *)
TestUnbondNative == TestUnbond

Tests == << ProperInitialization, TestBondTokens, TestUnbond, TestComputeReward,
            TestWithdraw, TestMigrateStaking, TestUpdateConfig, TestBondNative,
            TestUnbondNative >>

-----------------------------------------------------------------------------
Prepared(test, u) ==
  /\ bank = [Genesis EXCEPT ![StakingToken][u] = 200,
                            ![RewardToken][FarmAddr] = Millions(11)]
  /\ schedule = test.schedule
  /\ lastDistributed = 0 /\ totalBond = 0 /\ globalIndex = 0
  /\ staker = [v \in Users |-> NoStaker]
  /\ now = 0 /\ issued = 0 /\ changes = 0 /\ recuts = 0
  /\ script = test.steps /\ tester = u

Free == script = <<>> /\ tester = Nobody

TestInit ==
  \/ AuditedInit /\ Free
  \/ \E n \in DOMAIN Tests, u \in Users : Prepared(Tests[n], u)

Rehearse ==
  /\ script # <<>>
  /\ script' = Tail(script)
  /\ \/ Does(Head(script)) /\ Booked
     \/ ~ENABLED Does(Head(script)) /\ UNCHANGED <<vars, books>>
  /\ UNCHANGED tester

TestNext ==
  \/ Free /\ AuditedNext /\ UNCHANGED <<script, tester>>
  \/ Rehearse

TestSpec == TestInit /\ [][TestNext]_<<vars, books, script, tester>>

(* Every call of the tests succeeds or is refused as they say, transfers   *)
(* what they say, and every query answers what they assert.                *)
TestsAgree == script # <<>> => AsTested(Head(script))
=============================================================================
