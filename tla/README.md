# Choice Exchange: a TLA+ verification project

Choice Exchange is a constant-product exchange on Injective written as five
CosmWasm contracts and one shared package. This project models the contracts'
state and handlers in TLA+, checks them with TLC on small instances and proves
the properties that matter most with TLAPS for every value of the constants.

## 1. Inventory

A contract handler runs to completion inside one transaction; an error, a Rust
panic (the release profile keeps overflow checks) or a failed message reverts
the whole transaction. There is no concurrency inside a transaction: what is
hard here is the *order* of transactions of different users, the *stale* values
a transaction was signed with, the *order of messages* inside a transaction
(native funds arrive before the handler, CW20 pulls after it), and integer
rounding iterated over many transactions.

| Component | State it keeps | Operations that change it |
|---|---|---|
| `choice_pair` | `PAIR_INFO` (constant after instantiation); the pool itself is the contract's balances, the shares are the supply of a token-factory denom | `provide_liquidity`, `withdraw_liquidity`, `swap` (message or CW20 hook) |
| `choice_farm` | config with the reward schedule, `State` (last distribution, total bond, index), `StakerInfo` per staker | `bond`, `unbond`, `withdraw`, `update_config`, `migrate_staking` |
| `choice_factory` | config with owner and proposed owner, `PAIRS`, `TMP_PAIR_INFO`, decimals of native tokens | `create_pair` and its `reply`, `add_native_token_decimals`, `update_config`, ownership, `migrate_pair`, `withdraw_native` |
| `choice_router` | config; between the messages of one transaction its own balances | `execute_swap_operations`, `execute_swap_operation`, `assert_minimum_receive` |
| `choice_send_to_auction` | config with owner and proposed owner | `send_native`, `receive_cw20`, `update_config`, ownership |
| `packages/choice` | none | asset transfers, queries, version check |
| the chain (external) | bank, CW20 and token-factory balances, block time, mempool | transfers, mint, burn, the passing of blocks |

Interactions: the router and the users call pairs; the router and integrators
ask the factory which pair trades two tokens; the factory instantiates pairs
and pays their first deposit; a pair pays half of its commission, cut in two
equal parts, to the fee wallet and to `choice_send_to_auction`; all of them act
on balances that the chain keeps.

What makes each component correct, and where it is hard:

- **choice_pair.** An LP token is always backed by the geometric mean of the
  reserves, and no transaction lowers what the remaining tokens are worth, for
  every order of deposits, redemptions, swaps and donations, each of which
  rounds in several places. No round trip gains. A quote is what the swap pays.
  The limits a user signs hold when the pool has moved before execution.
- **choice_farm.** Bonds add up, rewards never exceed what the schedule has
  issued but for bounded rounding, what was earned is never lost, nobody's
  principal is locked or spent. Settlements, changes of the schedule and
  migrations happen at arbitrary times.
- **choice_router.** The receiver gets the minimum, nothing stays behind, the
  simulation is exact. The route is a queue of messages, each acting on whatever
  the one before has left.
- **choice_factory.** Two tokens have one pair; the directory answers for the
  pair that was asked, lists all and pages through all; ownership moves only by
  an offer that stands. A creation is a chain of messages (handler, submessage,
  reply, transfers, first deposit) that hands its data on through
  `TMP_PAIR_INFO`, and may fail after any of them. The factory holds coins of
  its own besides what a message brings.
- **choice_send_to_auction.** What arrives goes to the auction at once, through a
  subaccount of the contract's own in which nothing may stay; what others left
  with the contract never pays for a message that brings less than it names. A
  swap of a pair ends in a message to this contract, whose owner can change
  adapter and auction between any two of them: the fee arrives in full, or the
  swap has not happened.

The hazards, each with its line and the properties that watch it, are in
`PROJECT.json`.

## 2. Modules

| Module | Models | State and actions |
|---|---|---|
| `FixedPoint` | `Decimal`, `Uint128` and `Uint256` arithmetic as cosmwasm-std rounds it | operators only; `One` is the 10^18 of a `Decimal` |
| `Transfers` | transfers between accounts, the bank's refusal of empty sends | `Move`, `Sendable` |
| `PairMath` | `compute_swap`, `compute_offer_amount`, shares, refunds, the checks of limits | operators only. Every partial function has a `...Defined` companion that says when the Rust code does not abort |
| `LiquidityPool` | the abstract specification: two reserves and the LP tokens in existence | `Open`, `Deposit`, `Redeem`, `Trade` |
| `Pair` | `choice_pair` with the balances and the LP denom of the chain | `bank`, `lp`, `supply`, `now`; `ProvideFirst`, `ProvideMore`, `WithdrawLiquidity`, `SwapNative`, `ReceiveCw20`; `Donate`, `TransferLp` and `Tick` are the environment |
| `PairProperties` | its properties, its two quote queries and the refinement to `LiquidityPool` | |
| `PairMempool` | transactions that are signed with limits from a quote and executed later, out of order, or never | extends `Pair` with a `mempool`; `Sign...`, `Deliver`, `Drop` |
| `Farm`, `FarmProperties` | `choice_farm`, with three history variables for the books it does not keep: what was issued, how often bonds changed, how often a slot was cut off twice | `Bond`, `Unbond`, `Withdraw`, `UpdateConfig`, `MigrateStaking`; `Fund`, `Tick` |
| `FarmTests` | the contract's unit tests as behaviours of the model: each is a list of calls and of the answers it asserts | `script`, `tester`; runs beside the free behaviours |
| `Router`, `RouterProperties` | `choice_router` over any number of instances of `Pair` that share the chain's balances | `tx` is the transaction in progress; `ExecuteSwapOperations` queues, `ExecuteSwapOperation` runs the next message, `Commit` asserts the minimum, `Revert` undoes; `Trade`, `Send`, `Tick` are the environment |
| `Exchange` | the abstract specification of the router: a route, whatever it is, is one exchange in which only the payer pays and every pair keeps to its curve | `bank`; `Pay` |
| `Ownership` | the two-step hand-over that factory and auction contract share | `owner`, `proposedOwner`; the history variable `consent` has the offers that stand |
| `Factory` | `choice_factory` with each message, also a whole `create_pair`, as one step | `config`, `decimals`, `pairs`, `tmpPairInfo`, `contracts`, `bank`; `CreatePair` with the reply and the first deposit, and the messages of `Administration` |
| `FactoryMessages` | `create_pair` as the chain executes it | extends `Factory` with `tx`, the queue of messages; `HandleCreatePair`, `InstantiatePair`, `Reply`, `TransferFrom`, `ProvideLiquidity`, `Commit`, `Revert` |
| `SendToAuction` | `choice_send_to_auction`, with the exchange module's subaccounts and the CW20 adapter as external parts | `adapterContract`, `burnAuctionSubaccount`, `bank`, `deposits`; `SendNative`, `ReceiveCw20`, `UpdateConfig`, and transfers from outside |
| `BurnBasket` | the abstract specification of `SendToAuction`: a basket that only fills | `held`, `proceeds`; `Forward`, `Keep` |
| `FeeForwarding` | `Pair` and `SendToAuction` composed: the second half of a swap runs the other contract | `pool` and `hook`, the message under way; `PairStep`, `Forward`, `Revert`, `AuctionStep` |
| `MC...` | small instances for TLC | |
| `...Proofs` | theorems | |

An action is a whole transaction, except in `Router`, `FactoryMessages` and
`FeeForwarding`, where the messages of a transaction are steps because the
properties are about what happens between them; no other transaction is executed
while `tx` (`hook` in `FeeForwarding`) is set, as on the chain. A guard is a
check of the code, or an operation that would abort (overflow, division by
zero, a balance too small): such a transaction has no effect, hence is not
enabled. Amounts of native coins are in the balance before a handler runs and
CW20 pulls after it, as in the code, which is why `Pair` subtracts one kind and
not the other.

Operators whose comment calls them *faulty* are not part of the model. Each is a
mistake one could make in the definition that follows it, kept beside it so that
the strength of a property can be tried: put in place of the definition, it makes
TLC report the property (the list is `mutants` in `PROJECT.json`).

## 3. What the runs check

Numbers are scaled: `One` is 1000 (10 in the farm) instead of 10^18,
`MinimumLiquidity` 1 instead of 1000, and the pair's commission is 30% (10% in
the mempool, 50% in `fees_forwarded`) instead of 0.3% where amounts are small,
since at 0.3% every commission would round to 1. `MCPairMath` uses the real 0.3%.
What the scaling could hide is what the proofs cover: they hold for every value
of the constants.

| Run | Bounds | What it shows |
|---|---|---|
| `pair_shared` | two users with five units of each asset, one native and one CW20, whose decimals differ by a factor of two; amounts 1 and 4, `Uint128Max` 20, a deadline that passes with the only block; a swap paid to either user or to the pair itself; all orders to exhaustion | the pool never issues an unbacked LP token, no action makes the others' shares worth less, the minimum stays locked, every holder can leave, each step is a step of `LiquidityPool`; no round trip gains, quotes agree with swaps, the reverse quote is enough but for a unit, and one more for each `One` asked |
| `pair_math` | every pool of up to 33 units and larger ones, around digits and powers, of up to 999; offers of up to 200 | the arithmetic against reference definitions (exact ceilings, the curve, monotonicity) |
| `pair_limits` | one signed transaction, two of another trader before it, one block; a swap may also be paid to the fee wallet | belief price with spread, minimum assets and slippage tolerance hold at execution, whatever came in between |
| `pair_slippage` (violation) | the same | see findings |
| `farm_separate` | two stakers with two units, three changes of bonds, three seconds, a schedule whose rate rounds, and replacements, malformed ones among them; beside these free behaviours the unit tests of the contract, with their amounts of millions over hundreds of seconds | books, schedule, solvency; that all can unbond as long as no `Decimal` overflows (`Uint128Max` is 10^9 here, 20 in `farm_overflow`) and no slot is malformed; what a malformed slot blocks, the owner can mend; every test ends as it asserts |
| `farm_overflow`, `farm_principal`, `farm_schedule` (violations) | two stakers; `farm_principal` with one native token for stake and reward | see findings |
| `router_routes` | three tokens, two pairs, in each of which the second token has twice the resolution of the first, all routes of up to three swaps (also circular, disconnected, and through an unlisted pair), two transactions, a deadline, tokens that reach the router outside a route | minimum received, nothing left behind, the simulation exact forwards and safe backwards; every route implements `Exchange` |
| `factory_directory` | two users, two coins and a CW20 token, at most three pairs, pages of up to two, creations that fail after any message | the message-by-message creation implements `Factory`; directory complete and unique, pagination for every limit and set of pairs, coins leave only to the owner or into a new pair, ownership |
| `factory_collision` (violation) | two pairs, names that run together | see findings |
| `fees_forwarded` | one trader, who has swaps paid to himself, the pair or the fee wallet, an administrator, a native and a CW20 asset and a coin that strays in, two adapters of which one does not know the token, two auctions | nothing stays in the contract's own subaccount; a fee is refused only for an adapter that does not know the token; the pair with the auction contract behind it still implements `Pair`, and the auction contract `BurnBasket`; a fee that can be taken arrives |

`MalformedSlotMendable` has one exception, found with the model: a slot that
begins and ends in the very second of the last distribution counts as begun, so
`update_config` insists on keeping it. The bond it locks is the only one there
is, and has earned nothing. The property excuses that case only where such a slot
is in the schedule.

`CoinsLeaveToOwnerOrPair` is weaker than what `audit/audit_fixes_v0.1.md:14` says,
"Only the owner can withdraw native tokens". If that means that nobody else makes
coins leave the factory, the code does not keep it, and neither does `CreatePair`:
the handler compares only the creation fee with the funds that were sent
(`contract.rs:176`), and the reply pays the native part of the first deposit from
the factory's balance, whether or not the sender has sent it (`contract.rs:438`).
The property says what is left of the sentence: coins that leave the factory and
do not go to its owner become, all of them, reserves of a pair that is created.
The shares of that deposit are the sender's; the model of the factory does not
keep them, and the property says nothing about what he does with them.

A swap may name any account as `to`. `Pair` leaves the accounts to the constant
`Receivers`, any set of accounts, of which the theorems assume nothing more; the
runs have the users and, as far as the instance stays small, the pair
(`pair_shared`), the fee wallet (`pair_limits`) or both (`fees_forwarded`). In
`fees_forwarded` `to` is not the auction contract: of what had arrived there,
nobody could tell the return of a swap from its fee.

A denom that begins with `factory/` and has no account in its name cannot be
registered by anyone (`Malformed`). The instances have none; the theorems allow for
any.

A route is paid in one token, since its handler never looks at `info.funds`. Other
coins attached to its message are, for all that a route sees, coins the router
has from outside, and `Send` gives it these.

Why the bounds are enough: the interesting cases are roundings, empty pools, last
holders, zero payments, ends of slots, failures between two messages, and the
interleavings of two actors; each occurs within them, and every mutant, a bug of
that kind, is found. `Uint128Max` is small enough to be met in `pair_shared` and
`farm_overflow`, so that the overflow paths are taken. In `pair_shared` and in
`farm_separate` the users are interchangeable and a symmetry set; no liveness is
checked in these two, so that is sound. Bounds that the program does not have
are `MaxTime`, `MaxChanges`, `MaxSigned`, `MaxOthers`, `MaxCommitted`, `MaxHops`,
`MaxPairs`, the amounts and the purses: each limits how much is explored and is a
constant that the theorems do not bound, but for `MaxTime <= One` in the farm
(section 5).

Runs set `CHECK_DEADLOCK FALSE`, for nobody has to send a transaction, and within
the bounds there may be none left to send.

**Fairness.** The contracts have no loop, timer or callback of their own;
everything that happens is a transaction that someone sends, and nobody has to.
The one thing that must happen is that the chain ends a transaction it has begun.
`FeesSpec` says so, with weak fairness of `Forward \/ Revert`, the two ways in
which the message of a fee can end, and `FeeArrives` is the liveness that
follows. It is no fairness towards any user. What a user wants to be sure of
elsewhere is that his transaction is *possible*: `UnbondAlwaysPossible` says so
with `UnbondAllowed`, `ExitPossible` with `WithdrawAllowed` and `FeeIsTaken` with
`FeeAccepted`, the whole guards of `Unbond`, `WithdrawLiquidity` and `Forward`,
whose other conjuncts are assignments. So each says what `ENABLED` would, in a
form that can be proved.

## 4. Findings

- `pair_slippage`: the slippage tolerance compares what remains of a deposit,
  which the code has set to zero for a CW20 asset; only a native excess counts.
  The surplus is not lost: only what is desired is pulled.
- `farm_overflow`: the index is a `Decimal` and overflows when a tiny bond meets
  a large emission; the stakers are then locked out of all three messages.
- `farm_principal`: when stake and reward are one token, rewards and migrations
  are paid from bonds while the schedule is not funded.
- `farm_schedule`: `update_config` decides what has begun by the last
  distribution, not by the time.
- `factory_collision`: the key of a pair has no separator between the two names:
  the pairs of `abc` and `defgh` and of `abcde` and `fgh` share one. These are
  valid denoms for the bank; which denoms exist is up to the chain, and nothing
  in the contract relies on their form.

## 5. What is proved

| Module | Theorem | For every value of the constants |
|---|---|---|
| `LiquidityPoolProofs` | `TypeCorrect`, `AlwaysBacked`, `PriceNeverFalls` | the abstract pool |
| `PairProofs` | `TypeCorrect`, `MinimumStaysLocked`, `SupplyStaysUint128` | invariants of the pair |
| `PairProofs` | `PairImplementsPool` | the pair implements the abstract pool; hence `LpAlwaysBacked` and `PriceOfShareNeverFalls` |
| `PairProofs` | `HoldersCanExit` | no holder of LP tokens is ever stuck |
| `PairProofs` | `DepositRoundTripNeverGains`, `SwapRoundTripNeverGains` | no round trip gains in a reachable state |
| `PairProofs` | `SimulationAlwaysMatches`, `ReverseQuoteBuys` | the two quotes of a pair against the swaps that follow |
| `PairProofs` | `QuotesAreHonoured`, `LimitsAreHonoured` | the limits a transaction was signed with, whatever is executed before it |
| `PairMathProofs` | `SharesAlwaysFair`, `SwapIsAlwaysFair`, `SwapIsAlwaysMonotone` | the formulas of the pair against their references, for every pool and amount |
| `FarmProofs` | `FarmTypeCorrect`, `IndexNeverAhead`, `PrincipalStaysCovered`, `IndexOnlyRises` | the farm |
| `FarmProofs` | `BondsAlwaysAddUp`, `RewardsStayWithinRounding`, `NeverIssuedTwice`, `FarmStaysSolvent` | its books |
| `FarmProofs` | `StakersCanLeave` | unbonding is always possible, if stake and reward are two tokens and no number overflows |
| `FarmProofs` | `EarnedIsKept`, `MalformedSlotsAreMendable` | what a staker can rely on, and the owner's way out |
| `RouterProofs` | `MinimumIsReceived`, `RouterIsCleared`, `OnlyTheTargetIsLeft` | the promises of a route, of any length |
| `RouterProofs` | `SimulationIsExact` | what a user's route pays is what the simulation answers; the reverse query asks for no more, if no swap rounds to fewer decimals |
| `RouterProofs` | `RoutesAreExchanges` | the router, message by message, implements `Exchange` |
| `FeeForwardingProofs` | `AuctionTypeCorrect`, `NothingStaysDeposited` | invariants of the auction contract |
| `FeeForwardingProofs` | `AuctionImplementsBasket` | it implements `BurnBasket` |
| `FeeForwardingProofs` | `FeeAlwaysTaken` | a fee that can be taken is taken |
| `FeeForwardingProofs` | `FeesImplementPair` | pair and auction contract, message by message, implement `Pair` |
| `FactoryProofs` | `DirectoryAlwaysRight` | the directory, message by message, if no two pairs of tokens share a key |
| `FactoryProofs` | `PagesAlwaysComplete` | reading page after page, for any limit and any set of pairs, if no key goes on from another with a byte 0 or 1 |
| `FactoryProofs` | `MessagesAreOneAction` | `create_pair`, message by message, implements the one action of `Factory` |
| `FactoryProofs` | `CoinsAreWellSpent`, `FactoryHandedOver` | where the factory's coins go, and who owns it |

`ArithmeticProofs` and `PairMathProofs` hold the lemmas on the operators that
these rest on: division and rounding, square roots, sums of functions over finite
sets, transfers, and each formula of the pair.

*Assumptions.* Those the modules declare, which TLC evaluates: `One` positive, the
commission rate between 1 and `One` - 1, a fee divisor of at least two, a positive
minimum liquidity, scales of which one is 1 (an asset's amounts are scaled up to
the decimals of the other), distinct accounts, finitely many users (and pairs, in
the router), inputs of the types that the messages have, and a `None` that is no
value of the type it completes. Of the bounds one is assumed: `MaxTime <= One`,
that the farm's clock does not pass 10^18 seconds, which the 64 bits of a
`Timestamp` see to. The rate of a slot is rounded down to one part in `One`, so
over more seconds than that what is issued would fall behind by more than a unit.
Some theorems of the factory and the router have an assumption of their own:
that `None` is not one of the records of transactions (`FeeForwarding` declares
this of its `Hooks`), `DirectoryAlwaysRight`
the `KeysUnambiguous` that the run `factory_collision` shows not to be for free, and
`PagesAlwaysComplete` the `KeysApart` that `calc_range_start` relies on: a page starts
after the last key with a byte 1 appended, so a key between the two would be
skipped. Denoms are printable and addresses are equally long, which makes such a
key unlikely, but nothing in the contract enforces it. The names of
`factory_directory` satisfy both.

*The pair.* `Healthy` is the inductive invariant: `TypeOK`, `MinimumLocked` and
`LpSupplyFits`. A positive supply has to imply the locked
minimum, so that a redemption cannot empty the pool and send the next deposit
through the first-deposit formula with reserves left over. The refinement maps
the reserves to the pair's own balances and the LP tokens to the supply, and the
step lemmas, one for each action, rest on the arithmetic of `PairMathProofs`: the
desired amount covers the minted share and is within the deposit
(`DesiredCoversShare`, `DesiredWithinDeposit`), a refund is within the burned part
(`RefundWithinPart`), and a swap leaves the product of the reserves no smaller,
also through the scaling of decimals (`SwapKeepsProduct`). The price argument
itself is made once, in the abstract pool: `x * y * t'^2 <= x' * y' * t^2` for
each of its steps, whence `t^2 <= x * y`. A redemption of *all* tokens is covered
since the locked minimum keeps `t` positive.

The reverse quote adds the commission back (`BeforeCommissionCovers`) and asks for
what buys that (`OfferCoversGross`), so the swap returns before its commission at
least what was asked with commission, and the commission takes at most its own
rounding (`ReverseQuotePays`).

That a holder can leave (`HoldersCanExit`) needs that what he holds is within the
supply. This is no invariant alone: `LpAddsUp`, that the LP balances of all accounts
sum to the supply, is one, since a redemption first sends the tokens to the pair
and then burns them there.

The formulas are proved against the reference definitions of `MCPairMath` (as
`Reference`). That a larger offer is never worth less rests on `CommissionSlope`,
that the rounded commission grows by at most a unit with each unit of the return;
that the spread does not underflow (`IdealCoversGross`), on the price of the pool
being rounded by less than what the curve takes from the offer, which ends where
the offer pool exceeds `One`.

*The mempool.* `MempoolSound` adds to `Healthy` that each transaction that waits is
what its signer's quote made it (`Signed`). A limit is checked on the pools of the
moment of execution, so its theorem needs no history of what came in between but
only the arithmetic of the check: a belief price is the quotient of offer and
quote, rounded once, and the spread it admits is rounded again (`BeliefHonoured`,
`QuoteHonoured`).

*The farm.* `Sound` is `TypeOK`, `IndexNotAhead` and `PrincipalCovered`. The
first two depend on each other: a record is a natural only if the index of its
staker is not ahead, and the index rises only if the farm's clock is not ahead of
the chain's. The books are sums over stakers and slots, and their invariants are
about credits before rounding: `CreditsBooked` says that `One` times all that was
paid or is pending, with each bond times the rise of the index since its last
settlement, is within `One` times `issued + changes`. A settlement moves an
amount from one summand of a credit to another and only rounds down; the index
moves all credits at once by no more than what is issued, since `bond` sums to
`totalBond`. Only a bond that changes between settlements gives a unit away.
`IssuedOnSchedule` follows from `SpentBy`, what each slot has emitted by a second,
which is additive in time up to rounding down (`MulFloorParts`), and which a
migration that cuts the slots off at now preserves, unless it cuts a slot that
was cut in the same second: `recuts` counts those. `FarmStaysSolvent` joins the
two. For `MalformedSlotsAreMendable`, `StuckAlone` says that a slot of no length
in the second of the last distribution meets at most one staker with a bond.

That stakers can leave (`StakersCanLeave`) is what the invariants say together:
the bond is in the total (`BondsAddUp`), the tokens are there (`PrincipalCovered`),
no subtraction underflows (`IndexNotAhead`). Left are the overflows, which
`NumbersFit` lists, as bounds on what a settlement computes; that each of its
numbers is a natural one, no divisor is zero and no time runs backwards is part
of the proof.

*The router.* `Sound` types the balances and, while a transaction is under way,
says what it has done so far, from the balances before it and the number of
messages executed (`InFlight`): the queue is the rest of the route (`Running`);
nobody but the payer has lost anything, no token was made or lost and each pair is
on its curve (`Exchanged`); on a connected route the router owns, but for the
token offered next, nothing of what was offered (`Cleared`); on any route, of what
was returned and offered again, nothing (`Spent`). The loop over the operations
in `assert_operations` is a set of outputs here, `OneOutput`; that it is the set of
what is returned and not offered later (`OutputsAreUnspent`) is an induction over
the length of the route. `Commit` and `Revert` are the steps that `Exchange` sees.

`SimulationIsExact` needs a second invariant. `Supplied` says that the pools of a
pair stay positive, at rest and along a route: a swap keeps the product of the
reserves, so a pool is never emptied. `Traced` says where a route is: the
pairs it has yet to visit have the balances of before (`Untouched`), the router
carries exactly the answer of the simulation for the part that is done (`Carries`,
of which `Answers` is the recursion over the route), and a user who has been paid
has got it all (`Arrived`). The reverse half goes through the route from its end:
a swap's offer buys what it returned, so the query, which starts from the
return, asks at each pair for no more than went in (`OfferWithin`, `AnswerWithin`).

*The auction contract.* `TypeOK` and `OwnSubaccountEmpty` are inductive together:
the handler deposits into its subaccount and moves the same amount on. From them
each message keeps, of every token, at least what the contract held before it
arrived, which is the step of `BurnBasket`.

*Pair and auction contract.* `FeeForwarding` runs `Pair` on the balances `pool`
while the ledger `bank` has those of the messages executed so far. `FeesSound`,
the inductive invariant, has that of each contract (`AuctionSound`, and `Healthy`
of `PairProofs`, which is instantiated with `pool`) and ties the two: the pair's
part of the ledger is `pool`, but that a fee under way is still the pair's
(`Ledgered`); the auction contract's own users have none of the pair's assets, so
that what arrives at the auctions of these is only fees (`UsersOwnNone`); and a fee
under way is that of a swap from the balances that an error would restore
(`Begun`). The refinement shows `Pair` the balances of before while the message is
under way, and counts what is at the auctions as the burn address's, whichever
adapter minted it. So the handler's step is a stutter, `Forward` the swap, `Revert`
a stutter, and the other actions of the pair are what they are in `Pair`: none of
them reads the burn address's balance, which is what `UpMoves` and `UpPays` say.
That other users have none of the pair's assets is an assumption on `Genesis`
(`FeeGenesisAssumption`): they could burn theirs too, which is no fee.

*The factory.* `DirectoryKept` says that the directory describes the contracts
made so far, and, while a `create_pair` is under way, at which stage it is:
`Instantiating` (what is saved is what the message will instantiate, its key is
free), `Replying` (the last contract is the one that is saved, and not listed
yet) or `Depositing` (all is listed). The directory from before the transaction
is part of each, because any message may fail and put it back. `ProposalIsOwners`
is the invariant of the ownership: an open proposal is the last one made by the
owner of now. `Followed`, the invariant of the refinement, adds to the stage which
call is under way, with which assets, amounts and funds, and where each coin is by
then (`Shifted`): the abstract action happens at `Commit`, with the arguments that
the invariant has kept.

The pages are about the order of the keys. `BelowTotal` and `BelowTransitive`
make `IsBelow` a strict order of names, by the first place where two differ
(`LeastNatural`), and `BelowNext` says that nothing lies between a key and its
start of a page. What has been read is then always all that is below its last key
(`IsRead`), the range of the next page is all the rest (`NextPageFacts`), and of a rest
that is not empty a page reads something (`FirstFacts`); so after as many
pages as there are pairs, all are read. The recursion over the pages and the
induction along it are made from least counterexamples (`RecursionExists`,
`UptoInduction`).

*Statements that the proofs corrected.* TLC had found no counterexample to these
within its bounds, and the attempt to prove them showed one. A migration that
follows another in the same second rounds each slot down once more, so what was
issued can exceed the schedule by a unit for each: `IssuedOnSchedule` and `Solvent`
count `recuts`. What a belief price loses to rounding grows by a unit for each
`One` of offer and of quote, and what the reverse quote falls short by for each
`One` asked: `SwapHonoursQuote` and `ReverseQuoteSuffices` say so.
`SimulationExact` held in the run for two reasons that the theorem has to name.
Its receiver is a user: a pair of the route, or the wallet that receives a pair's
fees, gets more than the route pays. And the reverse query leaves the decimals
aside: where the asked token has fewer than the offered one, a swap rounds down
to them and the query asks for what the unrounded return costs, so it can ask
for more than the swap took (of pools of 1000 units each at a tenfold scale,
an offer of 2 returns 1, for which the query asks 3). `DecimalsKept` excludes
these swaps from the reverse half only.

*Only model-checked.* The liveness of `FeeArrives` and the replay of the unit tests
(`TestsAgree`, which uses `ENABLED` for the calls a test expects to fail and
compares the finitely many amounts of the tests). Of `MCPairMath` the theorems
state the same facts over all pools and amounts instead of the bounded sets.

## 6. What is not modelled, and why

- Attributes and texts of responses and JSON schemas: no property is about them.
- Addresses are accounts of the model: validation and canonical forms are left
  out. So are CW20 allowances, which a user can always give.
- Tokens that charge for transfers or otherwise misbehave: a CW20 token moves
  what it is told to move.
- The `migrate` entry points: those of pair, router and factory compare the stored
  `cw2` version with the target and rewrite only that record, the farm's is
  empty, and the auction contract has none; no state a property is about changes.
- Direct calls of the router's two internal messages, of which one is refused to
  others and the other changes nothing.
- `mock_querier.rs`, a test double for the chain; its answers are those of the
  `bank`s and the `contracts` here. The unit tests of pair and factory are read
  as evidence but not replayed. Those of the farm are, except for the two of a
  native reward token, which make the calls of others, and the one call in
  which a foreign token sends the `Receive` hook, a token the model does not have.
- Deployment scripts, schemas and audits, which are no behaviour of the contracts.

## 7. Plan

What is left, in the order of importance:

1. An abstract specification of the farm (every staker earns his share of each
   second) refined by `Farm`.
2. The unit tests of the pair and of the factory as behaviours, as `FarmTests`
   has those of the farm.
