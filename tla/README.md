# Formal verification of Purple

TLA+ models of the Purple node, checked with TLC on small instances and, where
marked, proved with TLAPS for all instances. The models are translated from the
Rust code; source paths below are relative to the repository root.

## The system and its parts

| Part | Source | What it does | Here |
|---|---|---|---|
| Chain | `src/chain/src/chain.rs`, `orphan_type.rs` | canonical chain in a key-value store, orphan pool, switching between competing chains, rewind | `Ledger`, `Orphans`, `Chain` |
| Chain start-up | `chain.rs`, `Chain::new` | reads tip and height back from the store | `ChainRestart` |
| ChainRef | `chain.rs`, `ChainRef` | shared handle: lock around the chain, LRU cache of blocks | `ChainRef` |
| Blocks | `src/chain/src/{hard,easy}_chain/` | the two block types behind the `Block` trait | hash, parent, height in `Chain`; bytes of a hard block in `Wire` |
| Transactions, effect | `src/transactions`, `apply` and `validate` | changes of the state trie | `Accounts` |
| Transactions, bytes | `src/transactions`, `to_bytes`, `from_bytes`, `sign`, `hash` ... | encoding, signatures, hashes | `Layouts`, `Wire` |
| Accounts | `src/account` | share maps, shares, multi-signatures, balances | `Accounts`, `Wire` |
| Events | `src/events` | heartbeats, joins, leaves | `Wire`, `Consensus` |
| Virtual machine | `src/purple_vm/src/virtual_machine.rs` | bytecode interpreter | `Bytecode`, `Vm` |
| Bytecode validator | `src/purple_vm/src/code` | push-down automaton over instructions | `Validator` |
| Consensus | `src/consensus` | causal graph, candidates, votes, validator epochs | `Consensus` |
| Causality | `src/causality` | wrapper of interval tree clocks | as `Consensus` uses it |
| Network | `src/network` | peer table, connection tasks, bootstrap | `Connections` |
| Connect handshake | `src/network/src/{packets,mock.rs}` | session keys of two peers | `Handshake` |
| Miner | `src/miner/src/miner.rs` | solver threads, job hand-over, pause, resume, stop | `Miner` |
| Persistence | `src/persistence` | RocksDB column or in-memory map behind `emplace`, `get`, `remove` | as separate committed writes |
| Plugins and proof of work, crypto, jump, util, node binary | | see *Not modelled* | |

How they interact: the node opens one RocksDB and hands columns of it to the
ledger and to the network; blocks reach `Chain::append_block` under the write lock
of `ChainRef`, queries read through `ChainRef::query`; blocks carry the heartbeats
and transactions that consensus orders and `apply` executes on the trie; contracts
run on the virtual machine; the miner solves a job built from a header. In this
version of the repository most of the wiring between these parts is not written
yet: the binary starts the network only, and each crate is used by its own tests.
So the modules that compose are those whose code does: `Chain` on `Orphans` and `Ledger`,
`ChainRestart` on `Chain`, `ChainRef` on `Ledger`, `Vm` on `Validator` on
`Bytecode`, `Wire` on `Layouts`.

Modules named `MC...` hold the instances for TLC, modules named `...Proofs` the
theorems. `OrphanChains` and `ChainInvariants` define the predicates and inductive
invariants that the proofs about the chain are stated in. Definitions that begin with the comment "Mutant" are broken variants of
the definition that follows; they are used by no specification and serve to show
that a property notices the fault.

## The chain

### State

`Chain` keeps the variables of the struct under their own names: `height`,
`canonical_tip`, and the in-memory maps as one record `mem` (`orphan_pool`,
`max_orphan_height`, `validations_mapping`, the three `disconnected_*` maps,
`valid_tips`). `Orphans` has the blocks and the helpers that compute one such record
from another, without variables; `Chain` has the state and the actions. Two representations differ:

* `heights_mapping` is a map of maps. A block is only ever filed under its own
  height, so `mem.heights` (the outer keys, which are never removed) and
  `mem.inverse` (all inner maps together) carry the same information.
* `disconnected_heads_heights` stores a tip with its height; the height is the
  tip's own and is left out.

`db` is the set of stored blocks and `dbHeight` the value under
`CANONICAL_HEIGHT_KEY`. The key `<hash>.height`, which nothing reads, and
`TIP_KEY`, which nothing writes, are no variables. The remaining variables say
where a running call stands between two writes (`pc`) and hold its locals.

A block is its identity (the hash); `Parent` and `Height` are constants, since
both are fields of an immutable block. `Height` may be wrong. The assumptions are:
`Parent` has no cycle (it is a hash of contents that include the parent's hash);
no block has the height of its parent (with an equal height, the order in which
`process_orphans` visits a single height would matter); everything is finite.

### Actions

`append_block` runs under the write lock, so two calls never overlap, but each
`db.emplace` and `db.remove` is committed on its own. The grain is therefore one
step per committed write, with the in-memory work up to the next write in the
same step.

| Code | Definitions |
|---|---|
| `append_block`, early returns | `AppendResult`, `RejectBlock` |
| parent is the tip | `AppendCanonical` |
| parent is canonical | `AppendFork` |
| parent is an orphan, by status | `AppendOnValidTip`, `AppendOnValidBranch`, `AppendOnDisconnectedTip`, `AppendOnDisconnectedBranch` |
| parent unknown | `AppendDisconnectedHead` |
| `write_block` | `WriteBlockStore`, `WriteBlockHeight`, `MemoryAfterWrite` |
| `process_orphans`, one step per turn of the loop | `ProcessStart` ... `ProcessRest` |
| `attempt_switch` | `AttemptSwitch` |
| `rewind` | `Rewind`, `RewindBlock`, `RewindDone` |
| `write_orphan`, `attempt_attach`, `attempt_attach_valid`, `make_valid_tips`, `recurse_inverse`, `update_max_orphan_height` | operators of the same names in `Orphans`, on the record of maps |

`recurse_inverse` and the other walks along parents are written with `Ancestor`,
the tabulated iteration of `Parent`, instead of recursion; the raised values are
maxima, so the order of the walk is irrelevant. Iteration over a `HashMap` or a
`HashSet`, and ties in `sort_unstable_by`, are choices with `\E`.

Every `unwrap`, `assert!`, `unreachable!` and `unimplemented!` is a condition
(`...Ok`); when it fails the call ends in `pc = "panic"`. A subtraction of
heights that would go below zero counts as a panic (it is one in a debug build).
What a caller finds after a panic is not modelled: `parking_lot` locks do not
poison, so the half-updated maps would be reachable. `NoPanic` says this never
happens with well-formed heights.

The loop over `valid_tips` at the end of `AppendDisconnectedHead` looks for a tip
that is the block's parent; in that branch the parent is not in the pool and tips
are, so it can only fail on its unwrap, which is kept.

### Ledger: what the store promises

`Ledger` is the abstract specification: a stack of blocks on top of genesis, with
`Push` of a child of the top and `Pop` of the top. `Chain` implements it with
`blocks <- db` and `top <- Top`, where `Top` is the canonical tip, or the block
the running rewind has reached. Checked (`StackOfBlocks`) and proved
(`ImplementsLedger`).

### ChainRestart and ChainRef

`ChainRestart` adds one action, `Restart`: at any point the process stops and
`Chain::new` runs on what the db holds. `ChainRef` models `query` with its three
lock sections (cache, chain, cache) as separate steps of several readers, against
a writer that changes a `Ledger` under the write lock. The LRU cache is external:
a sequence of blocks, the last used first. `committed` and `steady` are history
variables for the properties.

## Accounts and transactions

`Accounts` is the state trie with one action for each transaction that has an
`apply`: Genesis, Send, Mint, Burn, CreateCurrency, CreateMintable, OpenShares,
OpenMultiSig, OpenContract, IssueShares, Pay. Where there is a `validate`, the
action first asks what it asks. A trie key is in the domain of a partial function
or it is absent, so "read a key that is not there" is the `unwrap` it is in the
code; a panic is recorded and ends the behaviour. The writes of an `apply` happen
in the order of the code, and a key written twice keeps the last value. Balances
are whole units; a balance that has gone negative cannot be read again, as
`Balance::from_bytes` refuses it. A dividend is rounded up or down, and one with too
many digits panics between the writes of two holders. Stock entries, share maps and
issued shares are `u32`: a sum that does not fit panics (a build with overflow checks)
or wraps at `U32` (a build without), and `wrapped` says that this build is one of the
latter. `OpenShares` stores the shares and the share map the transaction carries,
which nobody compares; the stock hash leaves the creator out, so that companies of two
creators may share one.

`Layouts` is a table: for each of 18 message types (13 transactions, heartbeat,
join, leave, the Connect packet, hard blocks) the order, width and offsets of what
`to_bytes` writes, the tests and drains of `from_bytes`, and the fields that
`sign` and `hash` cover. `Wire` gives the table its meaning: a message is built,
signed by one or several signers, hashed, written, cut short or padded, read and
verified. Bytes are places: the reader recovers a field exactly when it drains
the interval the writer filled. Lengths are truncated to the width of their
header item. A hash is the set of changes made since it was taken, a signature the
same for each batch of signers. A change assigns a field, or moves bytes from a field
to a neighbour: the signed and hashed bytes are fields one after another without
borders, so that such a move leaves them as they are (`moved`). `MultiSig::verify` and
`verify_shares` look at signatures in order until enough are good.

## Virtual machine

`Bytecode` has the opcodes and `find_block_len`, `Validator` the automaton
`push_op` with its two pseudo stacks, `Vm` the interpreter, one step per
instruction. A block is either written instruction by instruction under the
validator and executed if it is accepted, or a module of several functions is
loaded as it is, as `load` allows. Integers have values, floats and arrays their
type only; a comparison of floats has both outcomes.

The properties name the code they speak of. `Tracked` leaves out the instructions
whose arguments `push_op` does not follow, `TidyIfs` the nested `If`s whose copies
the validator removes with the length of another block, and `stray` marks an
execution from the moment an `If` without `Else` has failed its comparison: the machine
then runs into the `If`'s own body, without a frame for it, and its `End` closes the
block around it (`virtual_machine.rs:985-1003`). That is a fault of the code;
`CallStackAgrees` and `NoStructuralPanic` claim nothing of what follows.
`BlockLengths` leaves out code (`~Plain`) in which an argument byte that
`find_block_len` does not skip looks like an instruction, which its TODO admits.

## Consensus

`Consensus` models `CausalGraph::push`: a turn of its loop over the ends is one
step, every edge it adds another, and hash orders are choices. Candidates, votes,
proposals and advancing follow the code; `inject` runs before the first event.
The stamps' library is external: an identity is an interval that `fork` halves,
the count of events a version vector, and whether an event carries the stamp that
`is_valid` computes is a constant of the event.

## Network

`Connections` is one node: bootstrap from the cache and the boot nodes, the
listener, and for each socket a reader and a writer task that share the peer
table and the flag `accept_connections`. A step is what a task does under the
network's lock. `unimplemented!` calls panic and end the task they happen in. The
writer's stream is always ready, so a started writer holds a worker thread.

`Handshake` is several nodes with mailboxes, as the mock network has them: a
dial, the packet, the answer, the session keys each end derives. Packets of a
mailbox stay in order and are not lost, which is what the mock and TCP give.

## Miner

`Miner` has the owner's calls, the control thread and the solver thread of each
plugin, the two channels between them and the shared job. The solver reads
header, height, id and difficulty under four locks, compares the height under a
fifth and stores under a sixth: six steps. A plugin's attempt ends by itself or
when told to, with or without a solution or an error.

## Runs

| Run | Instance | Distinct states | Checks |
|---|---|---|---|
| `chain_stress` | 10 blocks, a cut-down tree of `append_stress_test`, all arrival orders | 45,069 | `NoPanic`, `MapsAgree`, `HighestWins`, `Converged`, `AppendReturns` |
| `chain_rewind` | 10 blocks, some with wrong heights or no parent, public `rewind` to any block at any time | 73,208 | `NeverForgotten`, `StackOfBlocks` |
| `chain_restart` | 9 blocks, two roots, a stop between any two writes, 3 orphans, window 1 below and 2 above | 10,184 | `UsableStore`, `PoolBounded` |
| `chain_ref` | 3 blocks, 2 readers, cache of 2 | 46,372 | `AnswersCommitted`, `QueryReturns` |
| `accounts` | 7 addresses, 3 currencies, 2 stocks, 5 transactions | 403,343 | `GroupsPartition`, `Conserved`, `BooksKept`, `NoncesCount`, `ValidatedApplies` |
| `wire` | 18 message types, 2 signing steps, 1 late change | 308,540 | `RoundTrip`, `DamageRefused`, `ReceiverVerifies`, `ChangesNoticed` |
| `vm` | blocks of up to 6 instructions, 11 loaded modules, 2 executions | 346,757 | `BlockLengths`, `CallStackAgrees`, `NoStructuralPanic`, `Repeatable` |
| `consensus` | 8 events of 3 nodes, 3 validator sets | 101,446 | `OrderForgotten`, `VotesAreSingle`, `ProposalsFallShort`, `IdentitiesDisjoint`, `FollowerIsHighest`, `PushReturns` |
| `network` | 1 cached peer that is the boot node, 2 incoming, table of 2, 3 workers | 119,598 | `ClosedOnlyWhenFull`, `EntryFollowsReader`, `WriterFollowsReader` |
| `handshake` | 3 nodes, 3 dials | 14,233 | `SessionKeysAgree`, `ServersHaveClients`, `HandshakeEnds` |
| `miner` | 1 solver, 2 heights, 3 jobs, 1 other call | 335,193 | `IdNotBeforeHeader`, `OneLateSolution`, `NewHeightStarts`, `ShutdownCompletes` |
| `late_branch` | 8 blocks, two chains waiting for one block | violated | `Converged` |

What they show:

* **Chain.** Whatever the order of arrival, the maps of the orphan pool stay
  consistent with each other (`MapsAgree` joins six invariants), none of the many
  unwraps fails, every append returns, no accepted block is lost, the store is one
  chain at every write, and on the stress test's kind of tree the highest branch
  ends up canonical (`late_branch` is a tree where it does not). After a stop
  between any two writes the stored blocks still have their parents. Readers never
  see a block that was only half-way through a switch.
* **Accounts.** Money, share books, nonces and currency groups add up, dividends but
  for their rounding. The transactions for which they do not are named in
  `Overlapping` and in the comments of the properties: a send to oneself, a mint that
  creates its receiver, a currency or dividend given to someone who already holds it,
  money sent to an entry that has a balance and no nonce, and the fee of a stock sale,
  which is computed and not written. The share books are kept as `OpenShares` found
  them: shares in step with the share map, entries equal to it, unless two companies
  share a stock hash. What `validate` accepts, `apply` can do, except for a mint that
  creates its receiver, whose fee the two look for in different entries, and an issue
  of shares whose sums overflow: `ShareMap::issue_shares` adds the holder's old shares
  to the sum as well, which `validate` does not.
* **Wire.** Whole messages whose lengths fit are read back; cut or padded ones are
  refused without a panic; wrapped lengths are noticed. An unchanged message
  verifies at the receiver, unless the receiver's hash table iterates a map in
  another order (`reordered`) or a shared account asks for one key, on which
  `MultiSig::verify` panics (`multi_sig.rs:38`). A changed one does not verify, with
  two exceptions by name: the fields in `Uncovered`, which the signed and hashed bytes
  of a contract opening and of a hard block leave out, and bytes moved over a border
  in `Unframed`, such as the one between amount and fee.
* **Virtual machine.** The machine keeps the blocks and locals the validator
  predicted, jumps to where blocks end, and a successful execution leaves nothing
  behind but the heap.
* **Consensus.** The graph does not depend on the order of arrival, and votes are
  counted once. `ProposalsFallShort` records that with `required_proposals` as it
  is no candidate is ordered; the code that would run then is modelled and not
  reached. What `compute_highest_following` returns is as high as any follower of
  another node, and belongs to another node but in the two cases of `EndsAtOwn`.
* **Network.** A full table closes the listener only while it is full, an entry is
  there while its reader runs and gone when it has ended, a writer stops after its
  reader, and two ends agree on keys unless they dialled each other (`Crossed`); two
  connections to one address share an entry, which `Sole` sets apart. A started writer
  spins on a worker, so a writer that was only spawned may find none free and wait
  for ever (`Starved`); a reader that panicked leaves its entry and its writer.
* **Miner.** A solution may carry the id of a later job than its header, never of
  an earlier one; after a change of height a solver stores at most one solution for
  an earlier one; no new height leaves a solver asleep; shutdown ends, also after an error.

Bounds. Ten blocks are enough for three branches with two branching points,
disconnected chains of several heads and tips that merge, switches that take three
blocks off and write four, and `process_orphans` meeting none, one and several
orphans at a height. The real limits (100 orphans, 10 heights either way) never
bind with ten blocks, so `chain_restart` scales them down until each rejection
occurs. Five transactions open a company, trade and issue its shares and pay a
dividend, or create two currencies (`GroupCapacity` 2, so that a group holds several
and the next one is opened). With `U32` 16 the sends of 6 and the second charter of
`MCAccounts`, whose issued shares are at the limit and not the sum of its share map,
make sums overflow. The lengths in `MCWire` lie on
both sides of every 8- and 16-bit limit. Blocks of six instructions nest
blocks in blocks; `MCVm` adds pieces that use several at once (seven instructions: 3,557,578
states, same result). Eight events give two branches that fork again, an
event with a wrong stamp and one that follows it, and let a search end at an event of
its own node in both ways. In `network` the table is smaller than the number of peers,
and so are the workers, so that writers can take all of them. Named bounds (`MaxTxs`, `MaxOps`, `MaxRuns`,
`MaxLoops`, `MaxSigns`, `MaxEdits`, `MaxEpoch`, `MaxDials`, `MaxJobs`, `MaxCalls`,
`MaxSolutions`) appear in guards only. Deadlock is checked in `chain_stress`,
`chain_restart` and `chain_ref`; the others stop at a bound or after a panic.

Fairness, always weak unless said otherwise:

* `Chain`: the steps of a running call, for a thread that holds the lock is
  scheduled until it returns; blocks need not arrive.
* `ChainRef`: the writer unlocks (justified by `AppendReturns`), a reader goes on,
  and strong fairness of taking the read lock: the RwLock of `parking_lot` is
  task-fair, so writers cannot overtake a waiting reader for ever.
* `Consensus`: the steps of a running `push`.
* `Connections`: a writer that was spawned starts if a worker is free, and one that
  runs goes on. Nothing is assumed of readers, whose end depends on the remote peer.
* `Handshake`: a node handles what is in its mailbox; nobody has to dial.
* `Miner`: each thread goes on (a plugin's attempt ends), and the owner fetches
  solutions.

### Where the code and its comments disagree

`late_branch` checks "The tip of the block must always be `G`, regardless of the
order in which the blocks are received" (`chain.rs:6159`, said of the test's own
tree) on another tree: of several chains waiting for one block only the highest
becomes valid; another keeps its disconnected status, is extended without
`attempt_switch`, and stays uncanonical when it becomes the highest.

The modules also state some sentences of the repository that TLC refutes and that
no run lists. To see a counterexample, put the name in place of the properties of
the run's configuration.

| Definition | In run | Sentence | What happens |
|---|---|---|---|
| `CanonicalHeights` | `chain_rewind` | "The height must be equal to that of the parent plus one" (`chain.rs:971`) | not checked when the parent is unknown on arrival, nor later |
| `MaxOrphanHeightIsMax` | `chain_stress` | "The biggest height of all orphans" (`chain.rs:153`) | lowered while orphans of that height remain, or set to a height without orphans |
| `ValidTipsAreTips` | `chain_stress` | "Set containing tips of valid chains" (`chain.rs:173`) | a block stays in the set after a chain was attached to it |
| `RewindKeepsTarget` | `chain_rewind` | "Rewinds the canonical chain to the block with the given hash." (`chain.rs:224`) | rewinding to the tip removes the whole chain and panics |
| `TipIsLastBlock` | `chain_restart` | "Canonical tip block key" (`chain.rs:70`) | the key is never written; after a restart the tip is genesis |
| `BadPeersRemoved` | `network` | "Invalid packet, remove peer" (`network.rs:163`) | the error leads to `ban_ip`, which is `unimplemented!`; the task panics and the entry stays |
| `HalvesTornDown` | `network` | "we use the `select` combinator to wait for either half to be done to tear down the other" (`connection.rs:207`) | there is no `select`; the writer goes on after its reader has panicked |
| `DividendsAdded` | `accounts` | "Add dividend to each shareholder" (`pay.rs:113`) | the dividend is written over the holder's balance |
| `FollowerOfOthers` | `consensus` | "the highest event that follows the given [...] event in the causal graph that **does not** belong to the node" (`consensus_machine.rs:190-192`) | a direct follower of the node's own is returned, as is one the node followed itself |
| `NoLateSolution` | `miner` | the guard `still_valid` of the store (`miner.rs:278`) | the height may change between the reads of header and height, and between the check and the store |

The stale heights, tips and statuses break neither `Converged` nor `NoPanic` on the
tree of `chain_stress`, whose highest branch is the only one that follows its fork.

## Proofs

| Theorem | Module | States |
|---|---|---|
| `TypeCorrect` | `ChainStoreProofs` | `[]TypeOK` |
| `OneChain` | `ChainStoreProofs` | `[]CanonicalChain` |
| `ImplementsLedger` | `ChainStoreProofs` | `StackOfBlocks`, the refinement of `Ledger` |
| `HeightsAgree` | `ChainStoreProofs` | `[]HeightOfTip`, if height fields follow from the parents' |
| `StoreUsable` | `ChainStoreProofs` | `[]UsableStore`, with restarts |
| `FiledOrphans` | `ChainStoreProofs` | `[]OrphansFiled` |
| `NothingForgotten` | `ChainStoreProofs` | `NeverForgotten` |
| `PoolStaysBounded` | `ChainStoreProofs` | `[]PoolBounded`, with restarts, if height fields follow from the parents' |
| `SwitchesGain` | `ChainStoreProofs` | `[]SwitchGains` (half of `HighestWins`), likewise |
| `NeverPanics` | `ChainLinksProofs` | `[]NoPanic`, if height fields follow from the parents' |
| `MapsAlwaysAgree` | `ChainLinksProofs` | `[]MapsAgree`, likewise |
| `QueriesCommitted` | `ChainRefProofs` | `[]AnswersCommitted` |
| `IdsInOrder` | `MinerProofs` | `[]IdNotBeforeHeader` |
| `LateAtMostOnce` | `MinerProofs` | `[]OneLateSolution` |
| `ServersAreDialled` | `HandshakeProofs` | `[]ServersHaveClients` |
| `KeysAgree` | `HandshakeProofs` | `[]SessionKeysAgree` |
| `ListenerReopens` | `ConnectionsProofs` | `[]ClosedOnlyWhenFull` |
| `EntriesFollowReaders` | `ConnectionsProofs` | `[]EntryFollowsReader` |
| `VotesCountedOnce` | `ConsensusProofs` | `[]VotesAreSingle` |
| `NeverOrders` | `ConsensusProofs` | `[]ProposalsFallShort` |

The theorems about the chain hold for every finite set of blocks, every acyclic
`Parent`, every `Height` and all limits. They use the named assumptions of `Orphans` and `Chain`.
Those marked with height fields also assume `WellFormedHeights`, without which
`height` (incremented) and the tip's field differ, as `CanonicalHeights` above shows.
They are about `SpecWithRewind` (appends and rewinds at any time), except that
`StoreUsable`, `PoolStaysBounded` and `SwitchesGain` are about `RestartSpec` (appends
and restarts) and `NeverPanics` and `MapsAlwaysAgree` about `Spec` (appends): the
public `rewind` to genesis is `unimplemented!`, a panic by design. The theorems about
`ChainRef`, `Miner`, `Handshake` and `Connections` hold for all values of their
constants; assumed is that the cache has room for a block and that `max_peers` is a
natural number. Those about `Consensus` hold for every finite set of events, whatever
their senders, parents and stamps, and for finite validator sets; the root is not sent.

The proofs about the chain are in three layers. `OrphanChainsProofs` is about one record
of maps or two: what each helper of `Orphans` does to the types, the files and the links
of the orphans. `ChainStoreProofs` and `ChainLinksProofs` use these facts for the steps of
`Chain`; the branches of `append_block` that hang a block on a disconnected chain come first
in the former, the branches that grow a valid chain first in the latter. What is needed in one proof only is a step of that proof. `USE Zenon` at the head
of a module makes Zenon the prover of its leaves; those that need arithmetic, sequences
or records name SMT.

The arguments:

* `TypeInv` strengthens `TypeOK` by what the locals are at each `pc`: there is a
  block to write while writing, and a rewind has a target. The type lemmas of the
  helpers, one per helper, come before it; a panic step keeps everything.
* `StoreInv` is `TypeInv`, `CanonicalChain` and `RewindState`: the cursor is set
  exactly while a rewind runs. That makes `Top` follow the removals. Given it,
  each step of `Chain` is a `Push`, a `Pop` or a stutter of `Ledger`, and one
  lemma shows that those keep one chain. `write_block` pushes a new block because
  its assertion says the parent is the tip, and nothing stored follows the tip.
* `HeightInv` adds what holds between the two writes of `write_block`: the tip is
  one above the stored height.
* `PoolInv` says that the filing structures agree and that the pool and the db
  share at most the block being written. Every helper either files nothing or
  files one block (`SameFiles`, `FilesToo`), and these compose.
* `ForestInv` replaces `CanonicalChain` across restarts, where a new run starts at
  genesis over the blocks of earlier ones; `FirstWrite` says that only the first
  block a run writes has genesis as its parent.
* `SwitchInv` counts: the blocks a switch is to write are orphans of one height after
  the other (`Gaining`), and the pool exceeds its limit by at most the blocks rewound
  or still to be written (`Fits`). A switch gains, so it takes more out of the pool
  than the rewind has put in.
* `LinkInv` is what `NoPanic` and `MapsAgree` need. `Links` relates the pool and five maps
  through two more that the code does not have: `home`, the head each orphan hangs
  on, and `inner`, the orphans between a head and its tips. Tips know their head and
  are never `inner`, so no tip is above another; an orphan not marked valid hangs on a
  head; one marked valid follows a stored block or another valid one. `home` and
  `inner` are existentially quantified: every step gives new ones. An appended block
  grows a valid chain (`LinksGrowValid`) or a disconnected one (`LinksHang`), and a
  written block leaves the pool (`LinksLeave`); every helper is shown to be one of
  these. `Processing`, `Rounds`, `Settled`, `InReach` and `OnPath` say what holds in the
  middle of an append: which orphans `process_orphans` has buffered, that no orphan
  follows the tip when an append ends, that no orphan above the tip is higher than
  `max_orphan_height`, and that the blocks of a switch form a path from its horizon.
  TLC checked the five on that tree of nine blocks (see below) and on three random
  trees of 9 to 12 blocks before they were proved.
* `RefInv` says section by section what a query between two locks still knows: what it
  has read was committed, and a block stored all along is stored now.
* `JobInv` says at each place of the solver loop which of the four values have been
  read and that they are in order, and that a solver that has stored a late solution
  and is working again holds a header of the current height (`Late`): it has read the
  job since, and a new height forgets what was late.
* `HandshakeInv` adds to `ServersHaveClients` that whoever has a packet in a
  mailbox has an entry for its owner: only then does the first packet from an
  address, which makes a server, find a client at the other end. `MayPut` says what
  entries may replace: a client never turns into a server.
* `KeysInv` says for a client and a server which key pairs the packets on their way
  carry: the last packet the server has not read has the client's current key pair,
  and all its answers carry one key pair of the server. So whoever has read
  everything has the keys of the pairs in use.
* `EntryInv` adds to `EntryFollowsReader` that a socket is connected at most once and
  that every entry was made for some connection.
* `TableInv` adds that the table is finite and within its limit; a table above it
  would not be opened again by one entry that is removed.
* `CountInv` is about the graph and its candidates. `GraphInv` says that an event is
  pending, waits for its edge or has it, and that only validators' events get one: so an
  event that votes is in no candidate's voters yet. `Counted` says of a candidate that its
  votes are its voters, that nobody endorses who voted, that endorsing starts with votes
  of half the validators (`proposal_requirement`), and that its proposals are the voters
  endorsed that often. Those that did not vote are never more than it takes to endorse a
  voter (`LastEndorsement`), so an endorsement that completes a proposal is the voter's
  last, and no proposal is counted twice. Hence proposals are at most votes, votes at most
  validators, and `required_proposals` is one more: `push` never has a candidate to
  advance, which keeps the loop over `to_advance` out of the induction.

Only model-checked: all liveness properties (`AppendReturns`, `QueryReturns`,
`PushReturns`, `WriterFollowsReader`, `HandshakeEnds`, `NewHeightStarts`,
`ShutdownCompletes`), which need fairness; everything about `Accounts`, `Wire` and the
virtual machine, whose definitions fold over sequences or recurse over data; of
`Consensus` `OrderForgotten` and `FollowerIsHighest`, which speak of lineages and depths,
recursive functions of the tree of events, and `IdentitiesDisjoint`, which needs an
induction along the fold of `inject`; and of the chain `Converged` and the other half of
`HighestWins`.

Neither of the last two is true of every tree, so there is nothing to prove. `late_branch`
shows it of `Converged`. `NoHigherValidTip` fails on a tree of nine blocks: A on
genesis; B, then C, and B1 on A; C1, then D1, and C2, then D2, then E2, on B1. If A comes
after B, C, B1, C1 and C2, `process_orphans` makes one heir of B1 valid, C1, and leaves C2
a disconnected tip, on which D2 and E2 are filed. D1 causes a switch; its `write_block`
of B1 makes E2 a valid tip, higher than D1, and the append ends without trying a switch
to E2. On the same tree `NoPanic`, `MapsAgree` and `SwitchGains` hold.

## Not modelled

* Chain: the `after_write` callback, which only hands the block to user code; I/O
  errors of RocksDB (`emplace` unwraps them); what happens to the maps after a
  panic; `query_by_height` and `block_height`, which are `unimplemented!`. The
  encoding of easy blocks is `unimplemented!` as well.
* Transactions: the decimal arithmetic of `Balance`; `Call`, `CreateUnique` and
  `ChangeMinter` have no `apply` in the code, only bytes.
* Virtual machine: `unload`, several modules and imports between them, and with them
  the errors `NotLoaded`, `NotDefined` and `AlreadyLoaded`; values of floats and arrays;
  the header of imports and offsets
  that `Code::validate` reads before the block; gas, which `execute` does not charge.
* Consensus: the test mode of the graph, `add_validator`, injections after events
  have arrived, and queries that only read.
* Network: the calls that are `unimplemented!` (`send_to_peer`, `ban_ip` ...) are
  panics; the encryption of packets.
* Miner plugins and proof of work: FFI to native solvers, SipHash on 64-bit words and
  cycles in graphs of 2^19 edges and more, which no small instance represents.
* Crypto, jump hash, the trie's node codec: bindings and encodings without state.
* Node binary: argument parsing and wiring; `fetch_credentials` writes two keys one
  after the other and makes a new identity unless both are there.
* Utilities: encoding macros, a trampoline, test helpers.
