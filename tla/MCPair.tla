------------------------------- MODULE MCPair -------------------------------
(***************************************************************************)
(* Small instances of the pair for TLC.                                    *)
(***************************************************************************)
EXTENDS PairProperties, TLC

CONSTANTS Alice, Bob

Permutable == Permutations(Users)

(* The second asset has fewer decimals: its units count twice. *)
DoubleScale == [i \in Assets |-> IF i = 0 THEN 1 ELSE 2]

Five == [i \in Assets |-> [u \in Users |-> 5]]
=============================================================================
