# Cross-Chain Rebase Token: specification and verification

This directory specifies, in TLA+, the contracts of this repository and the parts
of the CCIP code in `lib/chainlink` that a bridged token passes through. The
specifications are model-checked with TLC on small instances, and their safety
properties, those of steps and the refinements of abstract specifications are
proved for every instance with TLAPS; liveness is only model-checked. Paths below are
relative to the repository; `ccip/` stands for
`lib/chainlink/contracts/src/v0.8/ccip/`, `core/` for `lib/chainlink/core/`.

## 1. The system

| Part | Code | State | Operations |
|---|---|---|---|
| RebaseToken | `src/RebaseToken.sol` | global rate, per-user minted amount, rate and clock; the inherited balances, supply, allowances, roles and owner | `mint`, `burn` (minters), `transfer`, `transferFrom`, `approve`, `setInterestRete`, `grantRole` (owner), `balanceOf`, inherited role and ownership calls |
| Vault | `src/Vault.sol` | deposit per user, its ether | `deposit`, `redeem` (calls back into its caller), `receive` |
| RebaseTokenPool | `src/RebaseTokenPool.sol` | that of the inherited `TokenPool` | `lockOrBurn`, `releaseOrMint` |
| Message path | `ccip/{Router,onRamp/OnRamp,NonceManager,offRamp/OffRamp}.sol` | nonces per sender and lane, an execution state per message | `ccipSend`, `forwardFromRouter`, execution by the DON, manual execution |
| Pool administration | `ccip/pools/TokenPool.sol`, `ccip/libraries/RateLimiter.sol` | remote chains and their pools, two token buckets per chain, the router | `applyChainUpdates`, add and remove a remote pool, `setChainRateLimiterConfig`, `setRouter`; consume and refill |
| Registration | `ccip/tokenAdminRegistry/` | the administrator, pending administrator and pool of each token, the registry's modules | register, propose, accept, `transferAdminRole`, `setPool`, add and remove a module |
| Scripts | `script/*.s.sol` | none | deploy and register, configure, bridge |
| Home chain | `ccip/capability/CCIPHome.sol`, `.../keystone/CapabilitiesRegistry.sol` | the DONs; an active and a candidate configuration per DON and plugin | add, update and remove a DON; set and revoke a candidate, promote |
| Launcher and syncer | `core/capabilities/ccip/launcher/`, `core/services/registrysyncer/` | the oracles a node runs, the versions it has processed, a copy of the registry in the database | sync, tick, start and close oracles |
| Commit and exec plugins | `core/services/ocr2/plugins/ccip/{ccipcommit,ccipexec}/` | the round under way, the reports in flight at each node | observation, report, acceptance, transmission |
| Token data worker | `core/services/ocr2/plugins/ccip/tokendata/` | a job queue, a cache | fetch attestations in the background |
| Tests | `test/*.t.sol` | none | set-ups and assertions the findings quote |

How they interact. A deposit is a call of the vault that calls `mint`; a
redemption calls `burn` and then sends ether to its caller, who may run code. A
bridge transfer is two transactions of the user (approve, `ccipSend`); the second
finds the pool in the registry, moves the tokens to it, and the pool consumes its
outbound limit, burns the tokens from its own address and puts the sender's rate
into the message. The nodes of a DON, each of which runs the oracles that the home
chain configures and its launcher starts, agree on an interval of messages and
commit its root; then they agree which committed messages to execute. On the
other chain the off-ramp calls the pool the registry names there, which checks
that the message comes from a pool it knows, consumes its inbound limit and mints
to the receiver at the message's rate. What is hard is

* the order of transactions of several users, administrators and two chains;
* the call out of `redeem`, in the middle of a transaction;
* messages that are delayed, attempted in an order, fail and are retried, while
  the pools, limits and routers they need are replaced;
* three ledgers that must stay in step although different calls write them:
  the vault's deposits, the token's minted amounts and the ERC20 balances;
* balances that grow with time, in words of 256 bits, and
  `type(uint256).max`, which some calls read as "everything" and others as a
  number;
* nodes that read two chains behind time, some of which lie, and transmissions
  that are lost;
* a node that restarts from an old copy of the registry, or reads the home
  chain twice while it moves on.

`PROJECT.json` lists these hazards one by one with the line each bites at.

### What makes each part correct

* **RebaseToken**: every word stays in range; both ledgers add up to the supply;
  "everything" is everything or nothing; an unreadable account is unreachable;
  minters cannot be removed.
* **Vault**: it implements custody, hence solvency and that no transaction makes
  anybody richer; the ledgers agree at every instant, inside the callback too; a
  user who has both principal and deposit can redeem; a rate once given is kept.
* **Bridge**: no token appears or vanishes over both chains and all messages;
  nobody receives more than was burnt; rates come from the home owner only; an
  arriving message does not lower a balance; messages of a sender are
  attempted in order and every one is attempted.
* **Pools**: a lane admits no more than its limits, in any window of time and
  across changes of them; no history bricks a bucket; what a list shows is what is
  accepted; a message that stays admissible arrives.
* **Registration**: only the registry's owner and the modules it lets in can stop
  the deployment; what it deployed stands; roles move only to who was named last.
* **Home chain and launcher**: digests identify configurations for ever; each
  plugin's configuration moves as the contract's drawing says; the oracles come to
  match the chain, one each, without interruption, also after failures.
* **Plugins**: the roots follow each other without gap, overlap or a message that
  is not there; no faulty node's token data is ever signed; every message is
  committed and executed.

## 2. The modules

| Module | What it models | Uses |
|---|---|---|
| `RebaseTokenOps` | the token's storage as a record, each call as `CanF` (it does not revert) and `AfterF` (the storage it leaves) | |
| `RebaseToken` | one token, every account may call everything | `RebaseTokenOps` |
| `VaultOps` | the vault's calls, composed from the token's | `RebaseTokenOps` |
| `Custody` | abstract: wallets, credits and a pot; a settled transaction creates no ether and makes nobody richer | |
| `Vault` | token, vault, ether and the open call of a redemption; implements `Custody` | `VaultOps`, `Custody` |
| `CrossChain` | two tokens, two pools, one vault, both lanes | `VaultOps` |
| `RateLimiter` | a token bucket, as `CanF` and `AfterF` | |
| `LaneLimits` | the two buckets of a lane, messages that arrive in batches, changing limits, and an observer with a window | `RateLimiter` |
| `TokenPool` | a pool's storage for one remote chain and its calls, as `CanF` and `AfterF` | `RateLimiter` |
| `PoolLane` | pools of both ends over their life, with messages in flight | `TokenPool` |
| `TokenRegistry` | the registry's entry of a token, and the deployment script among everybody else's transactions | |
| `CCIPHome` | the home chain's DONs and configurations; implements `ConfigStates` | `ConfigStates` |
| `ConfigStates` | abstract: the drawing of configuration states in the contract's comment | |
| `CCIPLauncher` | one node's launcher and syncer over a home chain that moves on | `CCIPHome` |
| `CCIPDon` | what the two plugins share: messages sent, roots committed; `StoreSpec`, what the first promises the second | |
| `CCIPCommit` | the commit plugin; implements `StoreSpec` | `CCIPDon` |
| `CCIPExec` | the exec plugin, over any store that `StoreSpec` allows | `CCIPDon` |
| `MC*` | TLC instances | |
| `*Proofs` | the theorems, see section 5 | |

A transaction is one step: it happens whole or, when any call of it reverts,
not at all. This is why contract calls are written as pairs of operators: the
`CanF` of a transaction is the conjunction of what its calls require, each on the
storage the earlier calls left. For instance `ccipSend` is `AfterTransferFrom` by
the router followed by `AfterBurn` by the pool. The one transaction that is not a
single step is a redemption by an account with code: `EnterRedeem` runs up to the
transfer of ether, contract accounts may then act, and `RedeemReturns` or
`RedeemReverts` (which restores the storage of before) ends it. What a caller
does to itself with `nonReentrant` in the way is the guard `~call.open`.

A sum - over accounts in the token, over messages in `CrossChain` and
`LaneLimits`, over users in `Custody` - is the cardinality of a set of units
(`Total`, `TotalOf`, `Sum`): this gives the provers finite sets where a recursive
sum would need induction.

Definitions whose comment begins with "Mutant" are not part of the model: each
is a way the code could have been wrong, kept beside the definition it would
replace. `PROJECT.json` says which property it breaks.

### Correspondence: token, vault, bridge

* `sInterestRate`, `sUserToAmountMinted`, `sUserToInterestRate` and
  `sUserToLastUpdatedTimeStamp` keep their names; `balances`, `totalSupply`
  and `allowances` are ERC20's, `minters` and `admins` are the holders of
  `BURN_MINTER_ROLE` and `DEFAULT_ADMIN_ROLE`, `owner` is Ownable's.
* `_mintAccuredInterest` is a view that mints nothing. What is left of it is
  that it reverts when the balance with interest overflows, and so it is a
  guard, `CanMintAccuredInterest`. The interest that `balanceOf` shows therefore
  exceeds the supply and can be neither moved nor burnt; the ledgers' properties
  are stated of the principal.
* `sUserToLastUpdatedTimeStamp` is never written by the code: no action of the
  model changes it.
* The OpenZeppelin library the token inherits from is a submodule and not in the
  tree; `map` names the same code in the copy vendored by `lib/chainlink` (v5.0.2),
  and marks Ownable, of which there is no copy, as external.
* The CCIP contracts of `lib/chainlink-ccip`, which the pool compiles against, are
  a submodule as well. The message path is modelled from the CCIP 1.6 contracts
  in `lib/chainlink`. The pool overrides the newer hooks (three-argument
  `lockOrBurn` that returns the amount for the destination,
  `sourceDenominatedAmount`): the model takes the message's amount from the
  pool's return value, `amount - fee`, where 1.6 would take the amount itself.
  With `Fees = {0}` the two agree. What `_getFee` returns is not in the tree
  either: any member of `Fees`.

### Correspondence: pools and registration

* A bucket keeps its `age`, the seconds since `lastUpdated`, where the code keeps
  the time itself: only differences are ever used. It stops at `MaxAge`, by which
  every bucket is full, since a rate is at least 1 and no capacity exceeds
  `MaxAge`.
* The messages on their way in `LaneLimits` are a function of ids, which are free
  again on arrival; neither order nor number of messages means anything else there.
* A chain's `remotePools` is an `EnumerableSet`: an array of values and a mapping of
  their positions. `TokenPool` keeps both, because deleting the struct of a chain
  clears the array alone, and the mapping only if each member is removed first
  (`TokenPool.sol:406`).
* `PoolLane` has the registry on both ends: `activeSource` and `activeDest` are the
  pools listed there, which may change while a message is in flight.
* `ConfigurePoolScript`'s argument of `applyChainUpdates` is `ScriptUpdate`: the
  script never stores the address it computes. `CanAddChain` always refuses it,
  as it does an update without the address of a token.
* In `TokenRegistry` the script's transactions are `ScriptRegisters`,
  `ScriptAccepts` and `ScriptSetsPool`; between them anybody may act, except the
  deployer, who sends the script. `named` and `intervened` are observers. A module
  of the registry may propose anybody (`TokenAdminRegistry.sol:171`). Of
  `RegistryModuleOwnerCustom` (`Module`) the code is known, and it proposes only
  who calls it; of the other modules it is not, and they do what they like.

### Correspondence: home chain, nodes, plugins

* A digest is a number: the `currentVersion` it was made with. The contract hashes
  that number with the rest, and hashes are taken not to collide.
* `s_configs` has two places for each plugin of a DON, and `activeIndex`
  (`s_activeConfigIndexes`) says which of them is active. `instances` of the
  launcher is its map of oracles per DON, with a flag for each that says whether it
  runs; an oracle that runs and is in no instance is counted in `orphans`.
* A tick of the launcher is several steps: the difference is computed once
  (`Tick`), then DON by DON the commit configurations are read, then the exec
  ones, and the oracles are started and closed; the home chain may change between
  any two of them.
* A node in `CCIPCommit` sees any earlier state of each chain whenever it reads it.
  A round is `CommitObserve` (observations of all who are heard, and consensus on
  an interval), `CommitReport` (who signs must be able to build the root),
  `TransmitRoot` or `GiveUpRoot`.
* An update of a DON without capability configurations is not an action of
  `CCIPHome`: what `getDON` shows of a DON is written once per configuration
  (`CapabilitiesRegistry.sol:943-968`), so nothing is seen of it, but that
  the nodes it was given may be added to, or refused in, the next update, whose
  members the model does not constrain.
* Closing an oracle stops all of its parts also when one gives an error
  (`wrapped_oracle.go:32-42`, `bootstrap.go:93-115`), and all oracles that fail to
  start together are closed. An error of closing after a failed start
  (`launcher.go:269`), which is only logged, therefore leaves no oracle behind.
* In `CCIPExec` a node transmits what it has accepted (`pending`), and accepts no
  report whose first message it holds in flight already (`AlreadyInflight`). The
  room for a batch is what the off-ramp's `bucket` leaves beside the reports in
  flight; executions empty it and time refills it. A root in which a node finds no
  batch is `snoozed` at that node until it wakes up. Before `CatchUp` the model
  need not say which roots are snoozed, since a node may observe nothing or any
  batch; at `CatchUp` all are, at every node.
* `CCIPExec` runs against `StoreSpec` and not against the commit plugin: what it
  shows rests on what `ImplementsStore` shows of the other (assume and guarantee).
* The commit store and the off-ramp 1.5, OCR and the cache of roots are not in the
  repository; they are modelled by what the plugins ask of them, as external.

### Abstractions

* Words are small. `MaxUint` stands for 2^256-1, `PRECISION_FACTOR` for 1e18,
  `INITIAL_RATE` for 5e10. Checked arithmetic is a guard, unchecked arithmetic
  wraps (`Wrap`); that it never does wrap is part of what is proved.
* Time is a counter; on two chains it is the same counter. Blocks may hold any
  number of transactions.
* Ether of users is counted in `Vault`; `CrossChain` bounds all deposits by
  `Funds` instead, and leaves out the callback, which `Vault` covers. It is
  also without `transferFrom` between users and direct grants, and its lanes have
  no limits, which `LaneLimits` and `PoolLane` cover. Transfers go to anybody, the
  pool and the vault included.
* Messages are ordered: the scripts and tests send `EVMExtraArgsV1`, which cannot
  ask for anything else. The branches for messages without a nonce
  (`OnRamp.sol:233`, `OffRamp.sol:483`) are left out.
* An approve and the `ccipSend` it is for are one step. Another transaction
  between them could as well have come before both: the approve only overwrites
  the allowance of the router.
* In `CrossChain` a commit report only delays the first attempt, and any delay is
  allowed; reports are the business of `CCIPCommit` and `CCIPExec`.
* A message's attempt may fail for reasons outside the model (gas), so
  `FAILURE` is always a possible outcome. Whether it *may* succeed is exactly
  what the code says: the pool's `mint` and the balance check.
* One token per message, no data, no payment of fees in LINK.
* Token data is `"fetched"`, what the attestation service gave, or `"forged"`.

## 3. The checks

| Run | Instance | Shows |
|---|---|---|
| `rebase_token` | 2 accounts, words up to 5, precision 2, times 0..1 | `TypeOK`, `LedgersAddUp`, `MintersIrrevocable`, `SentinelMovesAll`, `FrozenForever` |
| `vault` | a user without code, one with code, times 0..2, rates 0..2 | `TypeOK`, `LedgersAgree`, `RedeemNeverStuck`, `RateLocked`, refinement of `Custody` |
| `vault_first_deposit` | the same | violation, see Findings |
| `cross_chain` | 2 users, 1 sender, 1 wei deposited, 2 issued by the owner, two messages out, one back, sentinel amounts | `TypeOK`, `SupplyConserved`, `ArrivesAtMostBurnt`, `PoolLedger`, `RateProvenance`, `RedeemNeverStuck` |
| `cross_chain_live` | 2 senders, 3 messages out, fees 0 and 1, initial rate twice the precision, fair execution | `SupplyConserved`, `FirstAttemptsInOrder`, `BalanceFallsOnlyWithPrincipal`, `EveryMessageAttempted` |
| `cross_chain_deposit` | as `cross_chain`, with fees | violation, see Findings |
| `lane_limits` | 2 messages on their way, delays up to 2, 2 changes, windows up to 3, four limits and two invalid ones | `FirstAttemptsFit`, `AdmitsWithinLimits`, `NeverBricked`, `WaitIsExact` |
| `pool_lane` | 2 source pools, 1 destination pool, 3 messages, 3 changes, fair retries | `ShownIsAccepted`, `InflightArrives` |
| `token_registry` | deployer, registry owner and a stranger, 2 pools of the token and one of another, 2 modules of which one may propose anybody | `OnlyRegistryStopsScript`, `ListedAsDeployed`, `SucceededOnlyByNamed` |
| `launcher` | three bounds of troubles, see below; fair tickers | `OneOracleEach`, `KeepsConfigured`, `MatchesHome`, `ServedDespiteFaults`, `DigestsNeverReturn`, refinement of `ConfigStates` (`FollowsDiagram`) |
| `launcher_matches` | 1 DON, 1 configuration, nothing fails | violation, see Findings |
| `plugins` | 4 nodes of which 1 is faulty, 3 messages for the commit plugin and 2 for exec, a bucket that holds one | `NothingForged`, refinement of `StoreSpec` (`ImplementsStore`), `AllCommitted`, `AllExecuted` |

Why the bounds are enough for what each run asks.

* `rebase_token`: with words up to 5 and precision 2 a balance of 3 overflows at
  once and one of 2 overflows with interest at time 1: as with 1e18, a product
  that exceeds a word is reachable, and so `Frozen` accounts exist. Two accounts
  are enough for a transfer to another and to oneself, with minters, owner and
  spender in every combination.
* `vault`: `MaxUint = 24` exceeds every balance times its growth factor, as
  2^256-1 does for all ether there is, so overflow (which `rebase_token`
  covers) does not hide a refused redemption. The ether allows two deposits by
  either user and a partial redemption; three rates allow two cuts, down to 0,
  which is also "no rate yet". The callee may deposit, transfer and send
  ether, and may revert afterwards. That `Custody` is implemented implies that
  the vault is solvent: its pot is never below the credits.
* `cross_chain`: `MaxUint = 12` is the sentinel, and large enough that no balance
  of what was deposited or issued overflows with its interest. A message that carries
  the sentinel as a number is sent in this run, and only the balance check
  stops its excess from reaching a user. Two messages out and one back
  are what a round trip and an overtaking message need.
* `cross_chain_live`: of three messages, two have the same sender. For an
  overwritten rate to lower a balance by more than the amount that arrives,
  the rate must exceed the precision within the horizon; `INITIAL_RATE = 4`
  does at time 1. `MaxUint = 30` is the least word that all deposits and issues
  fit into with their growth (`SupplyAssumption`).
* `lane_limits`: requests of 1 and 3 against limits of 3 to 7 are refused, wait and
  fill a bucket up; two changes allow a lower and a higher limit, or off and on
  again, in one window. Three lanes: one with inbound limits that exceed the
  outbound ones by what the rate adds in the longest delay, of which
  `FirstAttemptsFit` speaks; one with equal limits, as `ConfigurePoolScript` gives
  them, whose first attempts are refused; and one without limits.
* `pool_lane`: each of the three messages needs the whole bucket of the destination,
  so that two others may be let in ahead of it. Three changes are enough to
  replace the pool listed at the source, to have it send, and to move the
  destination to another set of remote pools or other limits and back; either
  source pool may be the only one the destination knows in the end, or both. One
  destination pool is enough, because the remote pools are listed in it. The
  source's own limits are off here; `LaneLimits` has them.
* `token_registry`: everything but the steps of the script is unbounded.
* `launcher`: each behaviour has one of three bounds. `Promotions`: 1 DON and three
  configurations, so that a candidate is promoted over an active one. `Restarts`:
  a DON whose members change, two configurations, and one restart from a
  database that may hold any earlier state. `Faults`: 2 DONs, two
  configurations, one failed read or creation and one failed start or close.
  `CHECK_DEADLOCK FALSE`: when all troubles are used up and the launcher has
  nothing to do, nothing more happens.
* `plugins`: in each behaviour one of the two plugins runs. Three messages and
  trees of two make the interval of the commit plugin be cut. For exec two messages
  are enough for what one can do to another: each takes the whole bucket
  (`FullValue`, `TokenLimit = 1`), so that the second finds no room while the first
  is in flight, or before the bucket has been refilled, and its root is snoozed; in
  one root the first message holds up the second, in two roots the second may go
  first. One faulty node of four is the most that `F = 1` admits.

Constants that bound a counter: `MaxTime`, `MaxIssued`, `MaxMessages`, `Funds`,
`MaxAge`, `MaxDelay`, `MaxInflight`, `MaxChanges`, `MaxWindow`, `MaxDONs`,
`MaxConfigs`, `MaxOrphans` and the fields of `Bounds`, `MaxSent`, `ExecSent`.

**Fairness.**

* `CrossChain`: weak fairness of `Execute` for each message. The DON executes what
  is committed, and when the commit report is older than
  `permissionLessExecutionThresholdSeconds` anybody may (`OffRamp.sol:456-460`), so
  a message that stays next in its sender's order is attempted in the end. None
  is assumed of a manual retry, of users or of the owner, and none of success.
* `PoolLane`: weak fairness of each message's successful execution and of time.
  Retrying is open to everybody, so whoever waits for a message does it; an
  attempt that fails changes nothing. The wait that `_consume` reports is no
  promise when others consume as well (`RateLimiter.sol:71-72`): `InflightArrives`
  holds because the messages on the lane are finitely many (`MaxMessages`), and
  says nothing of traffic that never ceases.
* `CCIPLauncher`: weak fairness of `Sync` and of the launcher: both run on tickers
  (`syncer.go`, `launcher.go`). None of the home chain, of failures or restarts.
* `CCIPCommit`: strong fairness of a round in which all honest nodes are heard with
  what is there, and of a transmission; weak fairness of reports. This is the
  assumption that the network and the chains are good often enough, which any
  protocol of this kind needs. What faulty nodes say is never constrained.
* `CCIPExec`: eventual synchrony (`CatchUp`), and weak fairness of the rounds and
  reports after it; weak fairness of the bucket's refill, of each node's expiry of
  its reports and of the end of each snooze, which are all by the clock; strong
  fairness of transmission, but only of reports that an honest node has accepted
  and that are not stale. A round may end in a report that every node refuses, as
  already in flight: nothing forces that one through. None of manual execution.
  Without `CatchUp`, the refill, the expiry or the end of the snoozes, or with
  transmission only weakly fair, TLC finds `AllExecuted` violated.
  They are stated in `MCCCIPPlugins` (`CommitFairness`, `ExecFairness`), where each
  is of one plugin's part of the whole state.

## 4. Findings

1. **A first deposit shows more than the amount** (`vault_first_deposit`).
   `_calculateAccumulateInterest` measures from `sUserToLastUpdatedTimeStamp`,
   which nothing writes; interest therefore counts from the epoch, and a deposit
   made at any later time shows interest at once. `test/RebaseToken.t.sol:39`
   asserts `assertEq(balanceOfUserAfterDeposit, amount);`. The test passes
   only because line 36 moves its clock back to 0.
2. **A deposit cannot be bridged** (`cross_chain_deposit`). `lockOrBurn` burns from
   `address(this)` and `burn` subtracts from `sUserToAmountMinted` of that
   address, which is 0 unless something was minted straight to the pool, so
   `ccipSend` reverts. `test/CrossChain.t.sol:206-218` deposits and bridges the
   whole deposit. So that the runs reach the rest of the bridge at all, they let
   the owner mint to the pool (`OwnerMintsToPool`), the only way the code leaves.
3. **Oracles of a revoked configuration run on** (`launcher_matches`).
   `core/capabilities/ccip/launcher/README.md:49` says that the launcher starts
   oracles and shuts them down to match what was posted on-chain. When the last
   configuration of a DON is revoked, `updateDON` returns an empty registry
   (`launcher.go:222`), which `processUpdate` reads as "not a member of this DON"
   and skips. Two more paths leave oracles running or not started that the run's
   bound excludes: a node that leaves a DON it serves (line 316), and a bootstrap
   node, which `createDON` serves whether it is a member or not and `updateDON`
   only if it is (lines 316 and 352). `MatchesHome` is the property without these.

Disagreements met on the way that no run states:

* `ConfigurePoolScript` declares `remotePoolAddress` and never uses it: it registers
  an empty address, which `TokenPool.sol:462` refuses, so the script always
  reverts and the pool stays unconfigured.
* The same script gives inbound and outbound limits the same values, against the
  advice of `TokenPool.sol:481`: `FirstAttemptsFit` speaks of limits that follow it,
  and first attempts are refused where they do not.
* When one oracle of a transition fails, those it has started are in no instance
  and run on beside those the next tick starts (`launcher.go:227`), although line
  79 speaks of a maximum of 4 instances.
* `getConsensusThreshold` says "Default consensus threshold is F+1"
  (`ccipexec/ocr2.go:476`), and `Report` refuses only fewer than that (line 498,
  though its warning speaks of more), but `calculateObservedMessagesConsensus`
  requires more (line 561): F+2 equal observations of a message, of 3F+1 nodes.

## 5. The proofs

The theorems hold for all values of the constants that satisfy the named
assumptions of the modules (`ASSUME`), which TLC evaluates on the runs.

| Module | Theorems on |
|---|---|
| `RebaseTokenOpsProofs` | lemmas: sums as numbers of units; each call keeps the storage well formed, what it does to each account, and that balances grow with principal, rate and time |
| `RebaseTokenProofs` | `RebaseToken`: `TypeCorrect`, `LedgersAlwaysAddUp`, `MintersStay`, `SentinelMovesAllOrNothing`, `FrozenStaysFrozen` |
| `VaultProofs` | `Vault`: `VaultTypeCorrect`, `LedgersAlwaysAgree`, `RatesAreLocked`, `RedeemsNeverStuck`, `VaultImplementsCustody` |
| `CrossChainProofs` | `CrossChain`: `BridgeTypeCorrect`, `BridgedLedgersAddUp`, `RatesComeFromHome`, `AttemptsFollowNonces`, `ArrivalsWereBurnt`, `TokensAreConserved`, `PoolsBurnTheirOwn`, `BridgeNeverBlocksRedeem`, `OnlyPrincipalLowersBalance` |
| `LaneLimitsProofs` | `LaneLimits`: `WindowsAreLimited`, `BucketsRefill`, `WaitsAreExact`, `FirstAttemptsAdmitted` |
| `PoolLaneProofs` | `PoolLane`: `ShownPoolsAreAccepted` |
| `TokenRegistryProofs` | `TokenRegistry`: `ScriptOnlyStoppedByRegistry`, `ScriptLists`, `AdministratorNamesSuccessor` |
| `CCIPNodeProofs` | `CCIPHome`: `OneDigestOnePlace`, `NoDigestReturns`, `HomeFollowsDiagram`; `CCIPLauncher`: `NoTwoOracles`, `StandingConfigsKeepOracles`; `CCIPCommit` and `CCIPExec`: `CommitImplementsStore`, `ExecNothingForged` |

**The token** (`IInv`). `TypeOK` alone is not inductive: `mint` adds to a balance
without a check, and `burn` subtracts from the supply without one. That neither
wraps follows from the sums, so the invariant is `WellFormed` (types and both
ledgers adding up to `totalSupply`), together with the facts that no clock was
ever written and that there are no admins. `TotalExcept` says how `Total` moves
when one entry changes; an entry is at most the total, so a balance after a
checked addition to the supply is a word (`WrapInRange`). `RebaseTokenOpsProofs`
has one lemma per call, and `NextIInv` one case per action.
`SentinelMovesAllOrNothing` rests on `BalanceAtLeastPrincipal`: interest is never
negative. `FrozenStaysFrozen`: a frozen account fails the guard of every call that
names it and, because its clock stands at 0 and time only grows, remains frozen.

**The vault** (`VaultInv`). Besides `WellFormed`: what is minted to a user is what it
deposited; the ether of users and vault together never changes; the deposits are
covered by the vault's ether; rates do not exceed `INITIAL_RATE`. While a
redemption is open the same holds of the snapshot it would go back to.
`EtherAssumption` says what is true of 2^256-1: all ether is less than `MaxUint`,
and all ether times the largest growth factor fits into a word. From it no
deposit can be `MaxUint`, so the sentinel never means a number, and no user's
balance with interest overflows (`ProductMonotone`); with the covered deposits
this gives `RedeemsNeverStuck`.

`VaultImplementsCustody` maps a state to what would be settled if the open
redemption were reverted, so that a redemption with all its callee does shows as
one step, when it returns. Until then `OpenCallInv` says of what it has moved
that it makes nobody richer, compared to its snapshot, and each action adds a
step that makes nobody richer either (`NextNoGain`); `RedeemReverts` goes back to
the snapshot and is a stutter. That no ether is created is the invariant's sum.

**The bridge** (`CrossChainInv`, `ArrivalsInv`). Both tokens are well formed; of each
lane the nonces of a sender grow with the order of sending, the inbound nonce is
behind the outbound one, and a message was attempted exactly when its nonce is not
above the inbound one. Rates of accounts and messages are 0 or between the home
token's present and first rate. For `ArrivalsWereBurnt`: a message asks for
more than was burnt for it only when it carries the sentinel as a number, and then
its amount alone overflows the balance that the off-ramp reads after the mint
(`TooMuchIsRefused`), so the message fails. This is where `FeeAssumption` is used:
a fee taken from the sentinel leaves it too large.

Conservation (`LedgerInv`): sums over messages are numbers of units like those
over accounts, so that a message that is appended or changes its state moves one
of them by its own amount (`Burnt`, `Arrived`). `SupplyConserved` and `PoolLedger`
are inductive together. They do not bound the supplies, though: a message of
the sentinel to the pool itself mints more than was burnt, and such a balance
is lost for good, since neither a transfer to the pool nor a burn by it succeeds
any more (`TooMuch`). `WorthInv` therefore bounds what is left: the supplies
without such a balance, and what is under way, never exceed deposits and
issues. With `SupplyAssumption` - all that is ever deposited or issued fits into a
word with its growth, which is far less than 2^256 for wei and the years a chain
may live - no user's balance overflows. Together with what the vault's ledgers
need (`HomeInv`) this gives `BridgeNeverBlocksRedeem`.
`OnlyPrincipalLowersBalance`: of all steps only an arriving message may lower a
holder's rate, and if the new balance were lower the off-ramp's check,
which asks for exactly the amount more, would have refused it.

**The limits** (`LaneInv`). The tokens that are available count as if they had been
admitted: `admitted + Available(inbound) <= allowed`. Each second adds at most the
rate to both sides, a request moves from one summand to the other, and new limits
only take tokens away (`SetConfigSound`). `WaitsAreExact` follows from what is
available after some seconds (`AvailableAfter`) and from rounding up (`RoundedUp`).
`FirstAttemptsAdmitted` (`FitInv`): what was sent in the last `s` seconds, for
each `s` up to the longest delay, is at most the outbound capacity and `s` times
its rate, less what is still available; and all that is due, with what is
available outbound, is at most what is available inbound.

**The pools** (`PoolLaneProofs`, `LaneInv`). Of every pool the list of remote
pools and the mapping of positions agree (`GoodPool`); each call keeps that, the
removal of a chain because it empties the mapping member by member before the
struct is deleted.

**Registration** and **home chain**. The registry's invariant says, for each step of
the script, who administers and who is pending unless the registry's owner, or a
module it let in, intervened. `HomeInv` says that digests do not exceed
`currentVersion` and stand in one place only; with it each of the contract's
calls is one arrow of the diagram for one plugin.

**The launcher** (`LaunchInv`). `DonsInv`: ids of DONs are never given twice, so a
DON that is gone stays gone: the DONs a tick has left to remove are not on the home
chain, because one that runs and still stands is in the state the syncer gave last
(`Listed`), and those it has left to add do not run. `DigestInv`: the
digests at a DON's places, in its instances and in what was read for it are known
to no other DON - a new one is the next `currentVersion`, which nobody knows - and
what was read of the commit plugin has every digest that the instances hold and
that still stands, because a digest that left does not return. `QuietInv`: until an
oracle fails, every oracle in an instance runs and there are no orphans.
`NoTwoOracles` follows from the last two, `StandingConfigsKeepOracles` from the
first two, after failures too.

**The plugins.** `CommitInv`: an interval that is agreed on fits into a tree, and one
that is signed holds only messages that were sent, because one of the signers is
honest and has built its root. With it `TransmitRoot` is `CommitSome` of the store,
and all else a stutter. `ExecInv`: token data that is agreed on was observed by
more than F nodes and so by an honest one; what nodes hold in flight and
transmit is what was agreed on.

**Assumptions.** All are named and evaluated by TLC on the runs. Besides those
that say what kind of value a constant has: `EtherAssumption` and
`SupplyAssumption` (amounts and their growth fit into a word), `FeeAssumption` (a
fee leaves the sentinel too large to be minted to a user), and that at most F
nodes are faulty. That hashes do not collide is in the model, where
digests are numbers.

**Only model-checked.** Liveness, which is out of the prover's reach as it needs
ENABLED: `EveryMessageAttempted`, `InflightArrives`, `MatchesHome`,
`ServedDespiteFaults`, `AllCommitted`, `AllExecuted`. All other properties of the
passing runs are theorems.

## 6. Not modelled

* Fee quoting, prices and gas; data and its limits; message interceptors; allow
  lists (the pool is deployed without one); curses but for `PoolLane`.
* Of the home chain: chain configurations, nodes and node operators, capabilities
  other than CCIP. Of the launcher: the graceful `Close`, RPC nodes that lag
  behind each other, reorganisations.
* Of the plugins: price reports, the gas and data limits and the ZK overflow
  strategy of batching, gaps in the logs, RMN blessing as a separate step.
* The token data worker. Two goroutines may fetch for one message and the cache
  keep the worse of the two answers (`bgworker.go:151`); the data is then asked
  for again, which `CCIPExec` has as data that is late. What its `Close` may wait
  for is listed as a hazard.
* Gas, events, `supportsInterface` and metadata.
* The rest of `lib/chainlink`: the node, tooling and tests of other products,
  generated bindings. It is by far the greatest part of the tree, and no token of
  this repository ever reaches it, so a model of it would say nothing of this
  system. The CCIP 1.6 plugins are a submodule that is not in the tree.

## 7. Plan

Done: the modules and theorems above. Worth doing next, in this order:

1. An abstract specification of the bridge - tokens on two chains and in flight -
   which `CrossChain` implements: what `SupplyConserved` says of states, as steps.
2. Safety facts behind the liveness of the launcher and the plugins (what a
   round or a tick makes progress on), which can be proved where the liveness
   itself cannot.
3. The token data worker: queue, workers, cache and `Close`.
4. `AllExecuted` with gaps in the logs and the ZK overflow strategy.
