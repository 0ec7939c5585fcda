----------------------------- MODULE BurnBasket -----------------------------
(***************************************************************************)
(* What choice_send_to_auction promises: a basket that only fills.  What   *)
(* it is given goes to the auction at once, or (other coins attached, or   *)
(* tokens sent without a message) stays with it for good.                  *)
(***************************************************************************)
EXTENDS Integers

CONSTANTS Denoms, Tokens, AuctionSubaccounts

VARIABLES
  held,      (* held[t]: what the contract owns of token t.                *)
  proceeds   (* proceeds[d][s]: what is at auction s of coin d.            *)

basket == <<held, proceeds>>

Init ==
  /\ held \in [Tokens -> Nat]
  /\ proceeds = [d \in Denoms |-> [s \in AuctionSubaccounts |-> 0]]

Kept == \A t \in Tokens : held'[t] >= held[t]

(* Some of a coin arrives at one auction. *)
Forward(d, s) ==
  /\ Kept
  /\ proceeds'[d][s] > proceeds[d][s]
  /\ proceeds' = [proceeds EXCEPT ![d][s] = proceeds'[d][s]]

(* Something stays with the contract. *)
Keep == Kept /\ UNCHANGED proceeds

Next == Keep \/ \E d \in Denoms, s \in AuctionSubaccounts : Forward(d, s)

Spec == Init /\ [][Next]_basket
=============================================================================
