--------------------------- MODULE FeeForwarding ---------------------------
(***************************************************************************)
(* choice_pair and choice_send_to_auction at work together.  The part of   *)
(* the commission that a swap gives to the auction leaves the pair in a    *)
(* message of its own, which runs the other contract after the handler of  *)
(* the pair and within the same transaction: what the other contract       *)
(* answers decides about the swap.  The pair is the module Pair, unchanged *)
(* and with this contract as its BurnAddr; all else is SendToAuction.      *)
(***************************************************************************)
EXTENDS SendToAuction, FiniteSets, Functions

CONSTANTS
  One, Uint128Max, CommissionRate, FeeDivisor, MinimumLiquidity,
  Uint256Max, Uint64Max, Scale,
  Traders,        (* The users of the pair, holders for the auction.       *)
  PairAddr, FeeWallet,
  AssetToken,     (* AssetToken[i]: the token that is asset i of the pair. *)
  TradeAmounts    (* The amounts traders write in their messages.          *)

VARIABLES
  pool,     (* pool[i][a]: the balances in asset i as the handler of the   *)
            (* pair settles them; bank has them with the message executed. *)
  lp, supply, now,
  hook      (* The message to the auction that a swap still has to run:    *)
            (* its asset and amount, and the balances before the swap.     *)

PoolIds      == DOMAIN AssetToken
PoolAccounts == Traders \union {PairAddr, FeeWallet, AuctionAddr}
PoolBalances == [PoolIds -> [PoolAccounts -> Nat]]

(* Whom they name as receiver: anybody but the auction contract, whose     *)
(* balance would not tell a return from a fee.                             *)
Payees       == Traders \union {PairAddr, FeeWallet}
Hooks        == [asset : PoolIds, cut : Nat, before : PoolBalances]

(* What an asset of the pair is at an auction: its own coin, or that of    *)
(* any adapter the contract has had.                                       *)
CoinsOf(i) ==
  IF AssetToken[i] \in Coins THEN {AssetToken[i]}
                             ELSE Adapters \X {AssetToken[i]}

ASSUME FeeAccountsAssumption ==
  /\ Traders \union {PairAddr, FeeWallet} \subseteq Holders
  /\ Traders \intersect {PairAddr, FeeWallet} = {} /\ PairAddr # FeeWallet
  /\ Holders \intersect Users = {}
  /\ IsFiniteSet(Traders) /\ IsFiniteSet(Adapters) /\ IsFiniteSet(AuctionSubaccounts)
ASSUME FeeTokensAssumption ==
  /\ PoolIds = {0, 1} /\ AssetToken[0] # AssetToken[1]
  /\ \A i \in PoolIds : AssetToken[i] \in Coins \union Cw20s
ASSUME FeePairAssumption ==
  /\ One \in Nat \ {0} /\ CommissionRate \in 1 .. One - 1
  /\ FeeDivisor \in Nat /\ FeeDivisor >= 2 /\ MinimumLiquidity \in Nat \ {0}
  /\ Uint128Max \in Nat /\ Uint256Max \in Nat /\ Uint64Max \in Nat
  /\ Scale \in [PoolIds -> Nat \ {0}] /\ \E i \in PoolIds : Scale[i] = 1
  /\ None \notin Nat /\ None \notin [PoolIds -> Nat] /\ None \notin Hooks
  /\ TradeAmounts \subseteq Nat

(* The traders have the assets of the pair, and nobody else has: others    *)
(* could send them to the auction too, and the pair knows only its fees.   *)
ASSUME FeeGenesisAssumption ==
  \A i \in PoolIds :
    \A t \in {AssetToken[i]} \union CoinsOf(i), a \in Accounts \ Traders :
      Genesis[t][a] = 0

Pool == INSTANCE Pair WITH
  bank <- pool, Users <- Traders, Receivers <- Payees, BurnAddr <- AuctionAddr,
  NativeAssets <- {i \in PoolIds : AssetToken[i] \in Coins},
  Genesis <- [i \in PoolIds |-> [u \in Traders |-> Genesis[AssetToken[i]][u]]],
  Amounts <- TradeAmounts, Prices <- {None}, Limits <- {None},
  Minimums <- {None}, Deadlines <- {None}, MaxTime <- 0

feeVars == <<vars, pool, lp, supply, now, hook>>

(* The pair's part of a ledger, and a ledger with that part replaced. *)
Rows(ledger) ==
  [i \in PoolIds |-> [a \in PoolAccounts |-> ledger[AssetToken[i]][a]]]
WithRows(rows) ==
  [t \in Tokens |-> [a \in Accounts |->
     IF \E i \in PoolIds : AssetToken[i] = t /\ a \in PoolAccounts
     THEN rows[CHOOSE i \in PoolIds : AssetToken[i] = t][a]
     ELSE bank[t][a]]]

FeesInit ==
  /\ Init
  /\ Pool!Init
  /\ hook = None

-----------------------------------------------------------------------------
(* What a step of the pair pays to the auction. *)
Cut(i) == pool'[i][AuctionAddr] - pool[i][AuctionAddr]

(* A swap whose fee rounds to nothing sends the auction no message. *)
(* Faulty: every swap sends one.                                    *)
EvenForNothing(i) == lp' = lp /\ pool'[i][PairAddr] < pool[i][PairAddr]
Forwards(i) == Cut(i) > 0

(* The balances when the message has not run: the pair owns the fee yet. *)
Unpaid(rows, i, n) ==
  [rows EXCEPT ![i] = Move(@, AuctionAddr, PairAddr, n)]

(* The handler of the pair, with all its messages but the fee's. *)
PairStep ==
  /\ hook = None
  /\ Pool!Next
  /\ \/ /\ \A i \in PoolIds : ~Forwards(i)
        /\ bank' = WithRows(pool')
        /\ UNCHANGED hook
     \/ \E i \in PoolIds :
          /\ Forwards(i)
          /\ bank' = WithRows(Unpaid(pool', i, Cut(i)))
          /\ hook' = [asset |-> i, cut |-> Cut(i), before |-> pool]
  /\ UNCHANGED <<ownership, config, deposits>>

(* The funds of the SendNative message: one coin. *)
OneCoin(token, n) == [d \in Denoms |-> IF d = token THEN n ELSE 0]

(* The auction contract runs, called by the pair or by a CW20 token to     *)
(* which the pair has said Send.                                           *)
Forward ==
  /\ hook # None
  /\ LET token == AssetToken[hook.asset] IN
       \/ token \in Coins /\ SendNative(PairAddr, token, hook.cut,
                                        OneCoin(token, hook.cut))
       \/ token \in Cw20s /\ ReceiveCw20(PairAddr, token, hook.cut)
  /\ pool' = Rows(bank')
  /\ hook' = None
  /\ UNCHANGED <<lp, supply, now>>

FeeAccepted ==
  LET token == AssetToken[hook.asset] IN
    \/ token \in Coins /\ NativeAccepted(PairAddr, token, hook.cut,
                                         OneCoin(token, hook.cut))
    \/ token \in Cw20s /\ Cw20Accepted(PairAddr, token, hook.cut)

(* It returned an error: the whole swap has not happened.                  *)
(* Faulty: the swap stands, and the pair keeps the fee.                    *)
SwapStands == Unpaid(pool, hook.asset, hook.cut)
SwapUndone == hook.before

Revert ==
  /\ hook # None
  /\ ~FeeAccepted
  /\ pool' = SwapUndone
  /\ bank' = WithRows(pool')
  /\ hook' = None
  /\ UNCHANGED <<ownership, config, deposits, lp, supply, now>>

(* The other transactions of the auction contract. *)
AuctionStep ==
  /\ hook = None
  /\ Next
  /\ pool' = Rows(bank')
  /\ UNCHANGED <<lp, supply, now, hook>>

FeesNext == PairStep \/ Forward \/ Revert \/ AuctionStep

(* The chain runs a transaction it has begun to its end. *)
FeesSpec == FeesInit /\ [][FeesNext]_feeVars /\ WF_feeVars(Forward \/ Revert)

-----------------------------------------------------------------------------
(* The adapter of the configuration takes the token, if it needs one. *)
Convertible(token) ==
  token \in Coins \/ <<adapterContract, token>> \in Registered

(* Whatever other coins have been sent to the auction contract before, and *)
(* however it is configured, the message of a swap succeeds: only an       *)
(* adapter that does not know the token can make it refuse a fee.          *)
FeeIsTaken ==
  hook # None /\ Convertible(AssetToken[hook.asset]) => FeeAccepted

(* What has arrived at the auctions of an asset of the pair. *)
AtAuctions(i) ==
  SumFunction([p \in CoinsOf(i) \X AuctionSubaccounts |-> deposits[p[1]][p[2]]])

(* The balances of the pair's module, a begun transaction not counted: to  *)
(* the pair, what is at the auctions is what its burn_address owns.        *)
Committed == IF hook = None THEN pool ELSE hook.before
PairView  == [i \in PoolIds |->
                [Committed[i] EXCEPT ![AuctionAddr] = @ + AtAuctions(i)]]

Atomic == INSTANCE Pair WITH
  bank <- PairView, Users <- Traders, Receivers <- Payees, BurnAddr <- AuctionAddr,
  NativeAssets <- {i \in PoolIds : AssetToken[i] \in Coins},
  Genesis <- [i \in PoolIds |-> [u \in Traders |-> Genesis[AssetToken[i]][u]]],
  Amounts <- TradeAmounts, Prices <- {None}, Limits <- {None},
  Minimums <- {None}, Deadlines <- {None}, MaxTime <- 0

(* With the auction contract in between, the pair still does what the      *)
(* module Pair says, where a swap is one step: it pays the auction its     *)
(* part in full or has no effect at all.                                   *)
ImplementsPair == Atomic!Spec

(* A fee the auction contract can take does arrive at an auction, and what *)
(* the auctions had of the asset before is there still.                    *)
FeeArrives ==
  \A i \in PoolIds, n \in 0 .. Uint128Max :
    hook # None /\ hook.asset = i /\ Convertible(AssetToken[i]) /\ AtAuctions(i) = n
      ~> hook = None /\ AtAuctions(i) > n
=============================================================================
