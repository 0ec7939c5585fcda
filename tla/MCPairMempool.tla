--------------------------- MODULE MCPairMempool ----------------------------
(***************************************************************************)
(* Small instances of the pair and its mempool for TLC.                    *)
(***************************************************************************)
EXTENDS PairMempool

CONSTANTS Alice, Bob

EvenScale == [i \in Assets |-> 1]

Sixty == [i \in Assets |-> [u \in Users |-> 60]]
=============================================================================
