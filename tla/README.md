# A verification of Denglian-Web3-Practice

The repository is a collection of blockchain projects: Solidity contracts
(governance, staking, launchpads, options, markets, banks), the exchange
UniswapV2 adapted to Solidity 0.8 with its SDK and interface, the scanners and
front ends that read and call contracts, and two small proof-of-work chains.
This directory models the parts with behaviour of their own in TLA+, checks them
with TLC and proves the central results with TLAPS.

Paths are relative to the repository; `F` is `myfirst-foundry/src`, `U` is
`UniswapV2`, `I` is `UniswapV2/interface/src`.

## 1. Inventory

| Part | State it keeps | Operations | What must hold | Modelled |
|---|---|---|---|---|
| DAO: `F/VoteToken.sol` | balances, supply, checkpoint arrays | mint, transfer, past-vote lookup by binary search | votes are balances; past weights add up to past supply and never change; the search is right | yes |
| DAO: `F/Gov.sol` | proposals, tallies, ballots, parameters | propose, castVote, execute, setVotingParameters | no token votes twice; a decision stands; one payment per proposal | yes |
| DAO: `F/BankDAO.sol` | ether, roles | deposit, withdraw, role changes | only executed proposals or admins spend | yes |
| `F/StakingPool.sol` | stakes, accumulated reward per share, lending position | stake, unstake, claim, updateLendingPool, emergencyWithdraw | rewards never exceed what the blocks minted; principal can be returned | yes |
| `LaunchPad/contracts/src/LaunchPadV2.sol` | sales, contributions, token and payment custody | createSale, createTokenAndSale, buy, claim, finalize, cancelSale | each sale can pay its buyers; sales do not spend each other's money | yes |
| `F/CallOptionToken.sol` | option balances, collateral, trading pair | issueOptions, createTradingPair, buyOptions, exerciseOptions, expireOptions, transfer | every option is covered by the underlying until expiry | yes |
| `U/contracts`: pair, factory, router | reserves, shares, price accumulators, lock; pools by tokens; nothing | mint, burn, swap with callback, skim, sync; createPair, setFeeTo; add, remove, swap along a path | no call takes from the providers; the library's quotes are what the pair accepts | partly |
| `F/FlashSwap.sol`, `F/OracleSimple.sol` | what it earned; accumulators and averages | check, execute and its callback, withdraw; update, consult | the profit announced is earned; an average is of its window | yes |
| `hello_solana/backend`: scanners | cursor, processed signatures | poll, process, mark | every event once and in order | yes |
| `I/state/multicall`, `I/state/application` | listeners, results by call, block number, requests in flight | list, unlist, fetch in chunks, answer, fail, cancel | every call shows its own answer, never an older one after a newer, and catches up | yes |
| `I/state/lists` and its popups | lists in use, pending, loading; saved with the page | fetch, add, remove, accept, update, reload | what waits is newer; nothing loads for ever | partly |
| `U/sdk` | - | quotes, trades and their order, search of the best, slippage | the best route is found | partly |
| `I/pages/Swap` and hooks | form, modal, approval, transactions | type, approve, confirm, accept changes, estimate, send, read | what is sent is what was accepted | partly |
| `I/pages/RemoveLiquidity` | currencies, form, slider, signature, modal | type, change a currency, sign or approve, confirm, estimate, send | what is removed is what was shown | yes |
| `TokenBank` | deposits, permits, delegated batches; five pages with hooks and effects | approve, deposit, with callback, by permit, by Permit2, in a batch; withdraw | a permit is used as signed; the page shows the chain | partly |
| `F/MultiSigWallet.sol` | proposals, confirmations | submit, confirm, execute | executed once, with enough confirmations | no |
| `F/IDO.sol` | contributions, totals | presale, finalize, claim, refund, withdrawals | claims and refunds are funded | no |
| `F/Rebase_Token.sol`, `F/Vesting.sol` | gons; deposited and released | transfer, rebase; deposit, release | proportions stay; released never exceeds vested | no |
| `F/SimpleLeverageDEX.sol`, `F/MiniSwapPool.sol` | reserves, positions | open, close, liquidate; add, remove, swap | margin accounts; product of reserves | no |
| `F/Bank.sol`, `F/AutoCollectupKeep.sol`, `BigBankSmartContract/BigBank.sol` | balances, top depositors | deposit, withdraw, collect, upkeep | the ranking is the ranking | no |
| `F/NFTMarket*.sol`, `NFTMarket/*` | listings without escrow; a page with three kinds of signatures | list, buy, permitBuy, cancel, multicall | pay and transfer together; a listing is fresh | no |
| `F/Meme_Factory*.sol` | inscriptions, fees | deploy, mint, buy | caps; fee split | no |
| `MiniBlockChain/main.go`, `PracticePOW…` | chain of blocks | mine, add, validate | a mined block is valid | no |
| other front ends, scripts, ABIs, lock files | - | - | no core logic | no |

What is hard here comes from two machines.

- *Ethereum.* A transaction is atomic, so the unit of interleaving is the call;
  but a call that sends ether or tokens runs foreign code in its middle, several
  contracts share one token balance, amounts are unsigned integers divided with
  truncation and reverting on underflow, block numbers order what may happen, and
  values read from another contract may be different at the next call.
- *The browser and the node process.* One callback runs at a time, but between
  two of them the chain, the wallet, the user and every other request move on. A
  promise goes on with the values its closure caught; an effect compares only
  what it lists; answers come back in any order, late, or as errors; a page is
  reloaded with the state that was saved. Few tests of the repository interleave
  any of this.

## 2. Modules

| Module | Models | State and actions |
|---|---|---|
| `Sums` | - | totals of a mapping (`SumOf`), as the number of unit coins it stands for |
| `Checkpoints` | `VoteToken.sol`: checkpoint arrays | `WriteCheckpoint` is `_writeCheckpoint`; `VotesAt` is what a lookup means |
| `CheckpointSearch` | `_checkpointsLookup` | the loop of the binary search, one step per iteration |
| `VoteToken` | mint, transfer | a transaction is an action, a block may hold several (`AdvanceBlock`) |
| `BankDAO` | the treasury and its two roles | deposit, withdraw, the role calls of the access-control library |
| `Gov` | proposals, votes, execution; composes the three | `propose`, `castVote`, `executeDefeated`, `executePassed`, `setVotingParameters`, and every step of the token and the bank between them |
| `Assembly` | abstract | what a DAO promises its members: holdings, motions, ballots and funds, with no block or checkpoint; `Gov` with its token and bank implements it |
| `StakingPool` | `StakingPool.sol` | `updateReward` is part of each call that runs it; the lending pool is `supplied` |
| `LaunchPad` | `LaunchPadV2.sol` and the factory it calls | sales in slots, balances shared per token |
| `CallOption` | `CallOptionToken.sol` | issue, purchase, exercise, expiry, transfers |
| `Pair` | `UniswapV2Pair.sol` with its token, `UniswapV2Library.sol` | a pool is a record; each call an operator from the pool before to the pool after, with a predicate that says when it does not revert |
| `Router` | the library over paths, `UniswapV2Router02.sol` | operators on a world of pools |
| `FlashSwap`, `Oracle` | the two contracts of `F` | operators on pools and their own state |
| `Amm` | composes the four with the factories | every transaction an action; a swap with a callback is open from `FlashOpen` to `FlashClose` or `FlashRevert`, and the callee makes any calls meanwhile |
| `Scanner` | four scanning loops of `hello_solana/backend` | from the answer of one request to that of the next; the chain and SIGINT in between |
| `Feed` | abstract | what a follower of a chain promises; `Scanner` implements it |
| `Multicall` | the updaters and reducers of multicall and application | callbacks, renders and effects; requests in flight as a set |
| `View` | abstract | what a reader of contracts is promised; `Multicall` implements it |
| `Lists` | token lists: reducer, updater, fetch callback, popup, manager, storage | one callback with its render and effects is a step; sites publish releases; `Reload` starts a page whose default lists may be others (`updateVersion`) |
| `Sdk` | `entities/pair.ts`, `entities/trade.ts`, `router.ts` | quotes, the order of trades; the search as a recursive function of the parameters of the code's recursion, and the insertion of what it finds; for comparison the amounts along a route and all the routes there are |
| `SwapPage` | the swap page, its hooks and the store of transactions | handlers, promises, the wallet, receipts and reads |
| `RemovePage` | the page that removes liquidity | the same, with permits, the slider's timer and estimates; the two currencies select one of several pairs, each with its pool, allowance and nonce |
| `BankPage` | the five pages of `TokenBank/frontend` and the contracts at the addresses they name | buttons, hooks with their one call, effects, mempool, receipts, reads |

`MC*` modules hold the values a configuration cannot write. `Site` opens one of the
two pages of the interface; `MCPages` gives it pools and amounts. The theorems are
in `DaoProofs`, `StakingProofs`, `LaunchPadProofs`, `CallOptionProofs`, `AmmProofs`
(the chain), `ClientProofs` (scanners, multicall, lists, bank pages) and `PageProofs`
(`Site`); `LedgerLemmas` holds what several of them need about sums, least elements,
checkpoints and division. Where one module of proofs extends several components,
their variables and specifications have names of their own (`ScanSpec`, `ListsSpec`,
`BankSpec`, `SearchSpec`).

How code becomes actions:

- *A transaction is one action.* A failing `require` is a guard, and a call that
  reverts is not a step. What a call computes on the way (`updateReward`, the
  checkpoint writes of `_update`) is part of its action.
- *Re-entry.* `execute` and `BankDAO.withdraw` run the payee's code. Both make
  their writes before the call, or none after one that succeeds, and a failing
  call is reverted whole; what the payee does is then a step after. A pair's swap
  is different: it checks the product *after* its callback, so in `Amm` the
  callback is a state of its own in which anyone calls anything, only the open
  pool being locked, and a revert restores what was before. Tokens are plain
  ERC20s; tokens that charge a fee or call back are not modelled.
- *Division truncates* (`\div`), unsigned subtraction is guarded where the code
  would revert, and the runs take small divisors so that the rounding shows. The
  256-bit width is never reached by these amounts; `uint112` reserves and 32-bit
  timestamps keep a width (`MaxReserve`, `TimeMod`).
- *A handler runs on what is rendered.* State the page holds (`seen`, `form`,
  `page`) is apart from the chain, and `Read` brings it up to date at any time.
  What follows an `await` is an action of its own that uses the values the
  closure caught, kept in the record of the task.
- *A callback, the render it causes and the effects of that render are one step*,
  except in `Multicall`, where an answer may come between a render and its effect
  and both are actions.
- *Message formats, events, views* that decide nothing are left out.
- *Histories.* `direct`, `deposited`, `rewarded`, `changes`, `paid`, `buys`,
  `given`, `taken`, `from`, `prices`, `accepted`, `shown` and the like are written and never read by the
  actions; properties speak of the past with them.
- *Mutants.* Each property comes with a plausible mistake in one definition of the
  model, written just above that definition under a name of the same stem and used
  by no specification; with it in place TLC finds the property violated.

## 3. What is checked

| Run | Asks | Bounds, and why they are enough |
|---|---|---|
| `CheckpointSearch` | does the search return the weight in force? | all arrays over 5 blocks and weights 0..2, every block asked about: up to five checkpoints, so every shape of the loop's last iterations |
| `GovVoting` | do past weights add up and never change, is no token counted twice, does a decision stand, and do the three contracts implement the assembly? | two holders, supply 2 then 3, four blocks, one proposal: enough to vote, transfer, and vote again, before, in and after the voting period |
| `GovTreasury` | is each passed proposal paid once, and by whom can money leave? | two proposals of 1 and 2 over a treasury of at most 2, an officer with every role call, parameters changed between calls |
| `Staking` | rewards, custody, reversion | two stakers, four blocks, five changes of stake, a scale of 3 so that nearly every division truncates, a pool switched on and off |
| `LaunchPad` | counts, claims, custody of shared tokens | two sales that share tokens in each way (same token sold, same payment, one paid in what another sells), decimals of base 2, prices that round |
| `CallOption` | is every option backed, is the asset released only against the strike? | two accounts, deposits that are no multiple of the amount per option, times before, at and after expiry |
| `Scanner` | order, completeness, end | chains of up to four slots of each kind of transaction, pages of 2 and 3, one failing request, an interrupt anywhere. Pages overflow, and a page that just does not |
| `Amm` | worth of shares, reserves, quotes, averages, profit | three pools over three tokens in two factories, from reserves around 20 (balanced and not, with the protocol's fee on and off) where every rounding shows; two calls, or one swap and two calls inside its callback, which is what it takes to re-enter, to move a pool before another call or to enter the oracle within a swap; all paths of two and three tokens, one of them back to its start |
| `Multicall` | the store implements the view; it catches up | two calls, both asked for at every block by one hook and one of them read once by another, one call to a chunk, three blocks: requests of two blocks in flight together, answered in each order, failing, cancelled or not |
| `Lists` | what waits is newer; loading ends | two sites, three releases (one that drops a token, one with a new major number), two requests in flight, one list bundled, one reload, perhaps with a list become a default or one no longer, lists added, removed and added again |
| `Pages` | best trade, accepted trade, removal as shown, permits | swaps: eight pairs of two tokens and the bases `A`, `B` and `E`, in which the direct route, one of two hops and one of three are each the best for some amount, one of four is a hop too long and one pair is not common; one world in which a pair is empty; one move of the pools while two transactions are sent. Removals: two pools of ten shares that have a token in common, ether first or last, one change of a currency, one trade of others, two open tasks: the least for a signature to meet another amount or another pair |
| `BankPage` | permits as signed, balances settle | each of the five pages, two tokens, three calls: the least for one to be asked while another waits for its receipt and a third is signed |

What the properties say is written above each in its module. The ones to know:

- `PastVotesConserved`, `PastVotesFixed`: in every past block the weights add up
  to the supply, and no later call changes them. `VotesBackedBySupply`: all that
  was cast on a proposal is covered by the supply of its start block.
- `TreasuryBalances`, `StaysExecutable`, `OnlyProposalsSpend`: one payment per
  proposal; a passed proposal does not go stale; only executed proposals and
  admins move money.
- `ImplementsAssembly`: the three contracts together are an assembly in which a
  member's vote weighs what it held at the moment the vote opened (in the code: when
  `startBlock` was over), counts once and only while the vote is open; a motion is
  refused or paid once, after its vote, by the weights of the ballots; what is not
  paid for a motion was taken by another hand and is counted; and once Gov is alone
  with the bank, it stays so. The mapping forgets `forVotes` and `againstVotes`, so
  the abstract decision is by the ballots and not by the tallies the code keeps.
- `SettlementNeverReverts`: the checked subtraction in `pending` never underflows.
  A staker it failed for could not take the stake out. `RewardsBounded`: what is
  minted and owed exceeds what the blocks gave by less than one unit per change of
  stake. `OnlyOwnerUncovers`: only the owner's two calls can leave the stakes
  uncovered where the next unstake looks.
- `HoldingsAccounted`: each balance of the launchpad equals what its sales owe and
  keep, up to `Overpaid`, the rounding `finalize` pays out beyond what came in;
  `RoundingBounded` bounds it. `ClaimsCovered` follows where no sale is paid in
  the token another sells.
- `OptionsBacked`: before expiry all holders could exercise together.
- `SharesKeepTheirWorth`: no call lowers the product of the reserves per squared
  share, also none made inside a callback; only the protocol's mint of its fee may,
  down to what it was at the last deposit or withdrawal. `QuotesAreTight`: what the
  library quotes the pair accepts, and one unit more out, or two less in, it does
  not. `RouterQuotesHold`: a path is quoted before its
  first hop and pays what was quoted, unless it comes back to a pool it used: of such a path nothing is said but
  that the pairs' own checks held.
- `ImplementsFeed`: each scanner reports only wanted transactions that are on
  chain, once, in order. `EverythingReported`: none is missed *as long as* no
  request fails, nobody stops the scanner, and no more than a page arrives between
  two fetches. Each of the three is needed: a failed request is passed over
  for good, and so is what a page leaves out.
- `ImplementsView`: however calls are cut into chunks and in whatever order these
  are answered, a key shows the answer to its own call, and never an older one
  after a newer. `EventuallySynced`: a call asked for at every block is in the end
  neither loading nor syncing, whatever was cancelled or failed on the way.
- `SwapGivesWhatWasAccepted`: a swap that goes through gives at least what the
  trade that was accepted promised, less the tolerance. `BestTradeIsBest`: the
  trade on offer is what it says (its route turns the one amount into the other), and
  no route of at most three hops that visits no token twice is better; the code takes
  a pair from its list with every step of the recursion and keeps one trade. `WaitsOnlyInFlight`: the modal
  waits for an answer only while one is owed.
- `RemovedAsShown`: a removal burns what was confirmed and gives of each token what
  was shown less the tolerance, on whichever side ether is. `PermitFits`: no removal is
  sent with a permit for another amount or another pair, though the page keeps a
  signature when a currency is changed.
- `PermitAsSigned`: a permit reaches the bank with the amount and deadline that
  were signed, once. `BalancesSettle`: what the page shows ends up what the chain
  holds.

### Fairness

Contracts act when called, so nothing is assumed of them and they have no
liveness; neither have the two pages of `Pages`, whose properties are safety.

- `Scanner` is fair in the steps of the process: the event loop resumes it when a
  request is answered or fails and when the timer fires. The chain and SIGINT are
  not fair.
- `Multicall`: effects and timers run, the node reports its newest block in the
  end, and a request is answered or fails in the end: it is retried until one of
  the two. Which of the two is not assumed.
- `Lists`: the interval of the updater ticks and requests are answered or fail.
  This is strong fairness, as new requests come between.
- `BankPage`: the chain executes what was sent, receipts and answers arrive. The
  user and the wallet may rest for ever.

Deadlock is not checked where the system may stop: bounds on blocks, time and
calls are reached, a search returns, a scanner ends, a user does nothing more.

### Observed on the way

The models do what the code does, and say so where that surprises. None of these
is excluded by an assumption unless a bound above names it.

Contracts:
- `BankDAO.transferSuperAdmin` to oneself grants, revokes and grants in an order
  that leaves no super admin.
- `Gov`: a stored `Defeated` is shown as `Succeeded` once the quorum falls, and
  cannot be executed; in its start block a proposal is shown `Active` and a vote
  reverts, as the token has no past weight of a block that is not over.
- `LaunchPadV2`: `buy` rounds each payment down and `finalize` rounds the sum once;
  the sum can exceed the payments, and `finalize` reverts or spends another sale's
  money.
- `CallOptionToken`: after `expireOptions` the supply is zero and holders still
  hold, and transfer, what is worth nothing.
- `UniswapV2Pair.sol:70` means timestamps to wrap; under Solidity 0.8 the checked
  subtraction reverts instead, and with it every call of the pair.
- `UniswapV2Router02.sol:425` declares a name that line 430 does not read; the
  model reads both as one.

Scanners: `scan_bank.ts` and `scan_favorites.ts` report up to nine transactions
from before their start; the block scanner never finds nested calls, as it hands
base58 text to a decoder that reads hexadecimal.

Interface:
- *Multicall.* A call that is to be read once only (`NEVER_RELOAD`) and whose request
  a new block cancelled stays marked as being fetched and is never read, against the
  comment at `updater.tsx:105`; `EventuallySynced` is therefore about calls asked for
  at every block. An effect that ran on an older render may fetch again what
  was answered meanwhile, and its failure blanks the newer answer.
- *Lists.* A refresh that fails blanks a list that was loaded, and an add that
  fails removes a list that was there before; a list that was removed comes back
  when its answer arrives; the test `loadingRequestId === null ||` lets an older
  answer replace a newer one that waits, which the version comparison then hides;
  accepting in the manager and then in the popup makes the reducer throw
  (`lists/reducer.ts:123`). A list that a new version makes a default is blanked
  on the first load, also where the user had it loaded (`lists/reducer.ts:145`).
- *Swap.* `approvalSubmitted` keeps the button down after an approval that failed
  or was too small; only the last estimate of two decides which error is shown;
  dismissing the modal while the wallet asks lets the answer open it again over
  another trade.
- *Remove.* The confirm button stays enabled until the estimates return, so two
  clicks send two removals; a signature that arrives after the amount was changed
  is kept, and only the estimate keeps it from being sent. So is one when the pair is
  changed: the page then offers a removal that no estimate lets through, and its
  button for a new approval stays down until an amount is typed or the modal closed.

Token bank:
- the effect of a deposit's success clears the permit that is just being signed,
  and nothing is sent when it is (`tokenbank-eip712/page.tsx:109`,
  `tokenbank-permit2/page.tsx:117`);
- the nonce is read once: a second deposit by permit reverts until the page is
  loaded again (`tokenbank-eip712/page.tsx:49`), where `TokenBank/README.md:126`
  says that the signature completes the authorization and the deposit at once;
- on the Permit2 page both approvals share one hook, so one can hide the other and
  the allowance of Permit2 is never read again;
- the page of batches names the first bank's address, which has no `depositFor`, so a
  batch always reverts (`tokenbank-7702/page.tsx:129`, `Delegate.sol:115`).

## 4. What is proved

All theorems hold for every value of the constants, from the assumptions named in
the modules that declare them: accounts and keys are finite sets, amounts
and bounds natural numbers, the scale, the units and the chunk size positive. Two say
more:

- `AmmAssumption`: at first a pool is empty or has had its first mint (`AtFirst`),
  of reserves its width can hold; all else the calls of the model bring about.
- `PairsAssumption`, `SwapAssumption`: a pair has two different tokens (the SDK's
  constructor sorts them and refuses equal ones), reserves are natural numbers, and the
  amounts asked for are positive: `tryParseAmount` makes no amount of a zero.
- `TimeAssumption`: the time modelled ends before the 32-bit timestamps wrap, which is
  in 2106. There `UniswapV2Pair.sol:70` reverts every call of the pair, so past that second
  there is nothing to prove of it.

| Theorem | States | Argument |
|---|---|---|
| `SearchIsCorrect`, `LoopAlwaysHalves` | the search returns the weight in force; each iteration halves the range | the loop keeps the answer's index between its bounds (`LoopInvariant`) |
| `TokenIsConserved` | votes are balances, past weights add up to past supply | `TokenInv`. The sums of past blocks alone are not inductive: the block now ending becomes a past one, so each array must also be known to hold the balance from now on (`Newest`) |
| `PastVotesNeverChange` | no step rewrites a past block | from `TokenInv`: a write touches the current block only |
| `VotesAreBacked` | no token votes twice | a tally is the sum of snapshot weights of disjoint ballots, which `PastVotesNeverChange` fixes, and a part of their total |
| `TreasuryIsSafe` | what was paid in is there, or an admin took it, or an executed proposal paid it, once | `DaoInv`: a proposal pays in the step that marks it executed and in no other; it is out of reach of later votes, as its end is over (`Settled`) |
| `DecisionsStand`, `ProposalsSpend`, `PassedStaysExecutable` | what a step may never do to a decision, to the treasury, to a passed proposal | step by step from `DaoInv`: after the end of a vote the tallies are fixed, so only the parameters move the verdict |
| `GovImplementsAssembly` | the three contracts implement the abstract assembly | action by action from `DaoInv`. A block's end is the abstract step that opens votes, and `Newest` says that the snapshot taken there is the holdings of now; `PastSame`, that no later step moves it; `SoundTally`, that the tallies the code compares are the weights of the ballots (`CarriedIsPassed`); `Settled`, that what is executed was voted on. Mints and transfers map to trades, the bank's calls to gifts, withdrawals and changes of hands |
| `StakersAreNeverLockedOut` | the settlement never reverts | the accumulated rate only grows and `Share` is monotone in it |
| `RewardsAreBounded` | rewards stay within what the blocks gave | in units of 1/`Precision` nothing is rounded: a new rate adds at most the blocks' reward, a settlement less than one token |
| `OnlyTheOwnerUncovers` | only the owner's calls uncover the stakes | step by step, with the sum of the stakes |
| `EtherIsConserved` | every wei is in the contract, in a lending pool or with the owner | what a call moves from one of four places to another (`CustodyMoves`) |
| `PromisesAreKept` | `earned()` only grows until it is paid | the rate never falls, also in the view of a later block (`LaterRate`) |
| `SalesAddUp`, `RoundingIsBounded`, `HoldingsAreAccounted`, `ClaimsAreCovered` | the books of the launchpad | `SaleInv` for each sale alone, with the payments in units where nothing is rounded (`RoundInv`) and the phases of a sale (`TimesInv`); a call touches one slot, so sums over slots move by what it moves there |
| `OptionsAreBacked`, `ReleasesArePaid` | the option series | until settlement the supply is the sum of the balances, and it is backed (`Backed`) |
| `WorldStaysSound`, `NoShareLoses`, `ReservesAreHeld` | the books of every pool add up; no call, none in a callback either, makes a share worth less; reserves are held and the router keeps nothing | `AmmInv`: books (`PoolOK`), what an open swap sent ahead (`Covers`), and that the world a revert restores was in order too (`Rested`), without which a revert could restore anything. Every call is a sequence of moves of single pools (`CallShape`, `Moves`), and each kind of move keeps books and worth. The products are bounded by lemmas on squares, roots and truncated quotients, as the provers do no non-linear arithmetic by themselves |
| `QuotesMatchTheCheck` | the library's quotes are what the pair's check accepts, and tight | both are put over the same product; two lemmas on division |
| `RouterKeepsItsWord` | along a path that meets no pool twice each pool accepts the hop quoted before the first | hop by hop: the earlier hops left this pool as it was quoted |
| `CheckIsHonest` | the profit announced is earned | the check and the execution quote the same reserves, and the contract's own holdings cancel |
| `TimeRunsOn`, `OracleRecords`, `AveragesAreWithin` | timestamps subtract; accumulators are sums of past prices; an average lies between two prices of its window | `Timely` and `OracleInv` on top of `AmmInv`: *one* sequence of sums explains the pool, the oracle's snapshot and what a revert would restore of both; an average is the sum of a window over its length |
| `ReportsAreInOrder`, `ScannerImplementsFeed` | the scanners | `OrderInv`: what is left to do is newer than what was reported, and what the window of ten would return unseen is newer still; the window only moves forward (`PageSlides`) |
| `StoreImplementsView` | the multicall store implements the view | that each key shows its own answer is not inductive. `FetchInv` says why it holds: a request carries, with its calls, the keys its answers go under, and they are the same in the same places however the list was cut (`ChunksMatch`); `ResultsInv` ties an answer to its block, so that comparing blocks compares answers |
| `WaitingIsNewer` | the list that waits is newer than the one in use | `ListsInv`: an answer is compared when it arrives, and nothing changes the release in use while another waits but what takes the one that waits |
| `SignedIsSent` | a permit goes out as it was signed, no signature twice | `BankInv`: a permit being signed has a deadline past those of all permits sent, and what the page keeps of it is gone or is what the wallet shows, though a late receipt may clear it in between |
| `SwapsAreAsAccepted`, `WaitingEnds` | a swap keeps within what was accepted; the modal waits only for what is in flight | `SwapInv`: a call that waits has the limits of the accepted trade, and the modal shows a trade whenever it is open, also after a late answer has set the page back to what its closure caught |
| `FoundAreWalks`, `WalksAreFound`, `BestTradesAreBest` | the search for a trade is sound and complete, and the trade offered is the best | see below |
| `RemovalsAreAsShown`, `PermitsFit` | a removal burns and gives what was confirmed; its permit is for the amount and the pair it burns | `RemoveInv`: a removal has the minimums of what was shown, each at the place where the router takes it (`LeastOfEach`); a permit of another amount or pair ends at the estimate |

Proved and checked by no run: `SalesAddUp`, `WorldStaysSound`, `TimeRunsOn` and
`OracleRecords`, which are what the books, pools and averages rest on,
`FoundAreWalks` and `WalksAreFound`, on which the best trade rests, and
`LoopAlwaysHalves`, which any correct loop would satisfy.


*The search.* The search is a function defined by recursion over all the calls there can be, an
infinite set, and the library's induction takes an operator. What it finds is
proved by least counterexamples instead:

1. A call has a *rank*, a natural number, and every call it makes (the rest of its
   loop, the recursion with a pair less) is of lower rank: `NextIsCall`,
   `DeeperIsCall`. For every rank there is a function with the recursion's values up
   to it; two of them agree where both are defined, so their union is the search
   (`PartialExists`, `PartialsAgree`, `SearchValue`).
2. *Sound:* of all calls that find something that is no walk with its amount take one
   of least rank; what it finds comes from a call of lower rank (`SearchSound`).
3. *Complete:* a walk that visits no token twice goes through no pair twice, so the
   pairs it needs are still in the list when the search gets there, and a call of least
   rank that misses one leads to a contradiction (`SearchComplete`). The condition is
   needed: a walk that returned through a pair is not found.
4. A list of one keeps what is not worse than anything inserted (`BestOfOne`). For
   an exact output the code walks from the far end, so a route is compared with its
   reverse (`RouteBack`).
5. That is so for all states of the pools; `FormOK`, that the page has read one of
   them and trades one of the two currencies, makes it an invariant.

Every invariant and action property the runs check is stated by a theorem.
Model-checked only: liveness, which needs fairness (`EverythingReported`,
`InterruptEnds`, `EventuallySynced`, `ListsSettle`, `BalancesSettle`).

## 5. Not modelled

- *Pairs and router:* permits of the shares, the two permit wrappers, the minimum
  amounts (which only forbid more), tokens that take a fee on transfer. `RemovePage`
  does have the permits and minimums of a removal, and leaves out the fee that the
  pair may mint the protocol first.
- *Interface:* a change of network or account; version 1 of the exchange and the
  migration from it; wrapping ether, recipients by name, tokens a user adds; which
  token list is selected; balances; transactions pending for more than a day; the
  impact of a price and its rounding for display; the pages that add liquidity
  (the removal page without a signature), find a pool or show settings. Components
  that only display: these are most of the interface's lines.
- *Token bank pages:* leaving or hiding the page (which reads everything again),
  expired permits, transfers from elsewhere, a node that fails for good.
- *Other pages* (`NFTMarket/web`, `LaunchPad/web3-dapp`, `viem-front`,
  `TheGraphDemo`): forms that send one call and read again. The market's page with
  its three signatures is the one with races of its own; see the plan.
- *Scripts* (`viem_demo`, `hello_solana/backend` but the scanners, `CliWallet`): run
  once from top to bottom; ABIs and generated types are data.
- *Signatures, proxies, Merkle proofs:* a signature is a record of what was signed.
- *The restart of a scanner:* it keeps nothing, so a new run is a new behaviour, and
  what happened in between is before its start.

By lines the larger part of the repository's TypeScript is display, data and
demonstrations, which is why the modules cover a small share of them.

## 6. Plan

Done: the DAO with `Assembly`, the staking pool, the launchpad, the options, the scanners with
`Feed`, the exchange with its router, oracle and flash swaps, the interface's
multicall with `View`, token lists, SDK and two pages, the token bank's pages, and
the proofs above. In order, what follows:

1. An abstract pool (a share is never worth less) that `Amm` implements, as `Gov`
   implements `Assembly`.
2. `NftMarket`: listings without escrow with the nonces of both permits, and its
   page, whose two switches (`allowAutoList`, `allowAutoPermitBuy`) outlive a refused
   signature.
3. Small stand-alone contracts, one module each: `MultiSigWallet` (with re-entry),
   `IDO`, `Vesting`, `RebaseToken`, `TopDepositors` (Bank, BigBank). They share
   nothing, so one composing module lets TLC check them together.
4. An abstract escrow (each party is paid at most what it put in) implemented by
   `IDO`, `Vesting` and `CallOption`; `MultiSigWallet` as another treasury.
5. `LeverageDex`, `MiniSwap`, `MemeFactory`, `MiniBlockChain`.
