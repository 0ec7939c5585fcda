--------------------------- MODULE MCFactoryNames ---------------------------
(***************************************************************************)
(* An instance of the factory in which the names of two tokens run         *)
(* together to the key of two others.                                      *)
(***************************************************************************)
EXTENDS MCFactory

CONSTANTS Short, Long

(* With the bytes 1 for "abc", 3 for "de" and 5 for "fgh", Short is abc,    *)
(* Long abcde, Usd defgh and Inj fgh: names that the bank takes as denoms.  *)
NestedNames == [t \in Tokens |-> IF t = Inj THEN <<5>>
                                 ELSE IF t = Usd THEN <<3, 5>>
                                 ELSE IF t = Short THEN <<1>> ELSE <<1, 3>>]

(* All registered by the owner. *)
NoCreator == [d \in Natives |-> None]
=============================================================================
