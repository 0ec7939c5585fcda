------------------------------- MODULE MCFarm -------------------------------
(***************************************************************************)
(* Small instances of the farm for TLC.                                    *)
(***************************************************************************)
EXTENDS FarmProperties, TLC

CONSTANTS Alice, Bob, Stake, Reward

Permutable == Permutations(Users)

At(begin, end, amount) == [begin |-> begin, end |-> end, amount |-> amount]

(* Two units of stake for each user, and a funded farm. *)
TwoEach == [token \in Tokens |-> [a \in Accounts |->
              IF token = StakingToken /\ a \in Users THEN 2
              ELSE IF token = RewardToken /\ a = FarmAddr THEN 5
              ELSE IF token = RewardToken /\ a = Owner THEN 1
              ELSE 0]]

(* Five units over three seconds: a rate that is rounded, and loses a unit *)
(* more when it is made of what is left of the first.                      *)
OneSlot == <<At(0, 3, 5)>>

(* The owner adds a later slot, and may replace it; or one without any     *)
(* duration, or one that ends before it begins.                            *)
Later2 == {<<At(0, 3, 5), At(2, 3, 1)>>, <<At(0, 3, 5), At(1, 3, 1)>>,
           <<At(0, 3, 5), At(1, 1, 1)>>, <<At(0, 3, 5), At(3, 1, 1)>>}

(* A farm of one token, its reward not yet funded. *)
Unfunded == [token \in Tokens |-> [a \in Accounts |->
               IF a \in Users THEN 2 ELSE IF a = Owner THEN 3 ELSE 0]]

(* Three units within a second. *)
ShortSlot == <<At(1, 2, 3)>>

(* A slot that begins later, and its replacement. *)
TwoSlots == <<At(0, 3, 4), At(2, 3, 1)>>
Replaced == {<<At(0, 3, 4), At(3, 4, 1)>>}
=============================================================================
