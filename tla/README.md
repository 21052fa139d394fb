# A verification of hypercore-rs

TLA+ models of the crates under `src/crates/`, model-checked with TLC and, for the stores, the
writer's core, its replicas, logs with several signers, the sync of a feed and the homeserver,
proved with TLAPS. `PROJECT.json` lists every component, run, mutant, finding, hazard and theorem, and
maps each definition to the lines it models.

## The system and its parts

| crate | what it is | modelled by |
|---|---|---|
| `storage` | the `Store` contract, `LogStore` (append-only file with compaction), `TeeStore` (write-through pair), `Bitfield` (paged presence map), OPFS file | `KVStore`, `LogStore`, `TeeStore`, `Bitfield`, together in `Storage` |
| `merkle` | flat-tree arithmetic, the Merkle tree, block, range, upgrade, seek and node proofs | `FlatTree`, `Merkle` |
| `hypercore` | `Hypercore` (the signed log of one writer), `Replica` (its verify-only copy), `ManifestCore` (a log with several signers), snapshots, streams | `SignedLog`, `Hypercore`, `Replica`, `ManifestCore` |
| `identity` | keys; `Manifest`, the signers of a log and the quorum it takes | `Manifest` |
| `autobase` | `Linearizer`: a DAG of entries of many writers, ordered and finalized by indexers | `Consensus`, `Linearizer` |
| `hyperbee` | copy-on-write B-tree in a core | `Hyperbee` |
| `roomnet` | `Room` (local core, replicas, linearizer, projections), `RoomServer`, `Driver`, transports | `Committee`, `RoomFold`, together in `Rooms`; `RoomSync`, `WsServer`, `Homeserver` |
| `codec` | payload encoding | opaque |

A `Room` appends to its own `Hypercore`, which lives in a `Store` from a factory; other rooms
fetch its blocks with proofs into a `Replica`; every entry, own or remote, goes into the
`Linearizer`, whose finalized order the room folds into a projection and hands out as deltas.
A `RoomServer` holds many rooms, and its `Driver` pumps messages, checkpoints and announcements
once per tick over a transport.

## How the modules fit together

* `KVStore` is the contract a store keeps: a failed or interrupted operation leaves its own
  key at the old or the new value. `LogStore` implements it (checked and proved); `TeeStore` is
  made of two of them; `Hypercore` and `Replica` assume it of their store. `Storage` puts
  `LogStore`, `TeeStore` and `Bitfield` side by side for one run and the proofs about them.
* `SignedLog` is what a log promises its readers: extended, or cut back under the next fork.
  `Hypercore` implements it (checked and proved); `Replica` reads it.
* `Manifest` holds the pure quorum rules; `ManifestCore` has cores that sign under a manifest
  and a replica that trusts none of them.
* `Consensus` holds the pure algorithms of the linearizer. `Linearizer` delivers a DAG to it
  node by node; `RoomFold` extends `Linearizer` with the room's projection, deltas and
  restarts; `Committee` has one DAG per member and the checkpoints that drive finality. `Rooms`
  puts the two side by side for one run.
* `RoomSync` is the transfer of one writer's feed between rooms, with relays and restarts.
* `WsServer` has the reader tasks and tables of the WebSocket server; `Homeserver` extends it
  with the rooms of a `RoomServer` and the tick of a `Driver`.

Data are abstract throughout. A tree is the sequence of its blocks, so two trees have one root
when they are of one log, and signatures are the set `signed` of heads the writer signed; only
`Merkle` looks inside, and there a hash is the term that was hashed. A manifest stands for its
own hash, and a partial signature is the record of manifest, key and root. A DAG node is its
vector clock. A record of `LogStore` is a header cell and the symbols of its value, so a write
can stop inside it; a hole in the file reads as zeros, which open takes for records of key 0
without a value. A projection is the sequence of entries folded into it.

### State and actions

* `LogStore`: `file`, `synced`, `index`, `end`, `dead` are the fields of the struct and of the
  file under it; put, delete, flush, compaction and open go one file operation at a time. The loops of open
  and compact are recursive functions, one turn per record (`Turns`) and per live key
  (`Rewrites`, in key order: `Ascending` of `Enumeration`).
* `TeeStore`: `Write`, `PrimaryFails`, `CacheFails` are the three ends of put and delete.
* `Bitfield`: `pages`, a map from page number to words; `Set`, `SetRange`, `Reload` (serialize
  and deserialize). Words and pages are two bits and two words long instead of 64 and 512: the
  code is the same arithmetic over these two constants.
* `Merkle`: `nodes` and `length`; `TryAppend`, `Truncate`, `Reorg`, `RemoveNode`,
  `RecoverNode`. Proofs are operators, checked in every state.
* `Hypercore`: `tree`, `presence`, `fork`, `head`, `prologue` in memory, `store`, `dTree`,
  `dPresence`, `dMeta` in the store, an open `batch`; one action per method, and one per way in
  which the store can fail inside it. `Spec` has the operations of a running core; purge,
  crash and open come in with `SpecCrash`.
* `Replica`: `gated` is chosen at the start. A replica that is not gated applies blocks as a
  room does; a gated one asks `verify_upgrade` and `verify_reorg` first, as their documentation
  wants.
* `ManifestCore`: `AppendBlock` and `AppendFails` of every core, `AddBlock` and `AddBlockFails`
  of the replica with any signatures that were ever published.
* `Hyperbee`: `core` is the log of nodes, `batch` the staged one. Every operation of the code
  is an operator from log to log, with the same order of appends; `Tear` keeps any part of what
  an operation appended, as a failing append does.
* `Linearizer`: `Add` of any node whose causal past is there, and `Reconfigure`.
* `Committee`: `AppendOp`, `Deliver`, `Checkpoint` per member.
* `RoomFold`: `Delivered`, `ReconfigureRoom`, `Poll`, `Restart`. A restart reopens every replica
  at its verified head, which may lie anywhere behind its tree (`Survivors`); `seen` has the
  entries that were cut off, and they come back as they were.
* `RoomSync`: `LocalAppend`, `Announce`, one action per arm of `on_inbound`, restarts, and the
  faults of the network chosen at the start. A replica is a tree and a head, in memory (`rep`)
  and under the two keys of its store (`disk`), of which persist may write only the first. A
  restart reopens from `disk`; a failed persist leaves either key old or new. `got` has the blocks
  an owner gathered for its `target`. `net` only grows: a frame may arrive late, again, or
  never. The histories `faults` and `harm` record what went wrong, and where.
* `WsServer`: the steps of a connection's reader task between two locks.
* `Homeserver`: `rooms` is the origin of each room held, `feed` and `stored` the node's own
  feed, `unfed` the rooms whose linearizer lacks its last block because a persist failed; `HostSeen` is the loop of a homeserver over `seen_rooms` (code outside this repository,
  which `ws.rs` describes), `Tick`, `JoinRemote`, `AppendOp` and `Evict` the rest of the driver.

## Runs

| run | bounds | shows |
|---|---|---|
| `storage` | `LogStore`: 2 keys, values of 1 and 2 symbols, file of 8 cells, 2 faults; `TeeStore`: the same keys and values; `Bitfield`: indices 0 to 9 over pages of 4 bits | `Implements`, `ReplayAgrees`: the log implements `KVStore`, index and file agree; a file of 8 cells holds several generations of both keys and crosses the compaction threshold. `TeeKeeps`: what get returns after failures on either side and the loss of the primary. `QueriesAgree`: count and find over three pages, absent ones among them, against a set |
| `hypercore` | 2 values, length 2, fork 1, with and without prologue | all safety properties of a running core and the refinement of `SignedLog`. Length 2 has truncation to every kind of prefix; the theorems lift every bound |
| `hypercore_crash` | length 1, fork 2 | open after any crash, failed purges and recoveries included |
| `merkle` | all logs of up to 7 blocks out of 2, one of them empty; 24 other logs; 2 missing nodes in logs of up to 4 | stored nodes, all kinds of proofs with the data they must refuse, seek, recovery. 7 blocks give three roots, where ranges and upgrades straddle subtrees |
| `replica` | length 2, fork 1, 1 crash | verified heads, bytes and histories, and catching up |
| `manifest` | 7 manifests: majorities of two and three, a key declared twice, a manifest of one of the keys, prologues; 2 cores, length 2, 1 failure | `ReplicaVouched`, `MajoritiesMeet` |
| `hyperbee` | 9 keys that are prefixes of each other, 2 values, at most 2 keys per node; from trees of 0, 5 and 9 keys (three levels), 2 operations | readers, versions and `diff`, shape, `history`. From these trees two operations reach every split, borrow, merge and loss of a level |
| `rooms` | `RoomFold`: 3 writers, 5 nodes, 1 reconfiguration, 1 restart, at most 6 of these events together; `Committee`: 3 members, committees of 3, 1 and 2 indexers, up to 7, 9 and 8 entries | `OrderSound`, `FinalizedByQuorum`, `FoldFaithful`, `NeverUnfolded` over every DAG, every cut of the replicas and every reconfiguration. `MembersAgree`, `StopsWhenFinal` over every order in which members append, checkpoint and receive; the entries are enough for every op to become final and for checkpoints that cross |
| `roomsync` | an owner, a relay and a peer, without faults and with 2 restarts, inside persist among them; an owner and a peer with 2 restarts, failed and torn persists; an owner that loses its store, with 2 entries, and with 3, for which the peer's tree can run ahead of its head | `ReplicasFollow`, `RecoverySound`, `Converges`, `OwnFeedRecovered` |
| `homeserver` | 2 clients with 2 connections in a room; a client in 2 rooms with a failing frame; a client and local commands, 2 evictions, stores that last, with a failing frame or persist, and that do not | `TablesFollow`, `Served` (also again after an eviction), `NodeSignsOnce` |
| `logstore_faults` | a file of 6 cells, 1 fault | violated: see the first entry under Disagreements |
| `four_indexers` | `RoomFold` over one history: 14 entries of 4 indexers | violated: see the entry on the confirmed order under Disagreements |

Several configurations share a run where a variable chosen by `Init` tells them apart (`part`,
`gated`, `setup`, the network, the committee).

`CHECK_DEADLOCK FALSE` stands where a bounded system really ends: no nodes, blocks, operations,
faults or cells are left.

Every property of a passing run has a mutant: a small change of one definition, written just
above it, that breaks the property.

The passing runs stay inside what the disagreements below leave intact, and the properties say
so where they are conditional. `storage` has no writes torn by an error, no failed delete and no
fault inside compaction; `hypercore` has no purge and no failing sweep; `rooms` has at most three
indexers, and what it shows of the order is shown for that many within the bounds, not proved.
The histories `torn`, `reshaped`, `harm` and `forgot` mark what a property exempts. Each
exemption of `roomsync` was tried without: `Converges` then fails for a torn peer without a head,
`OwnFeedRecovered` for a peer whose tree is past its head. Only the one for an owner told of a head
of which no peer has every block (`NobodyHas`) is not reached within the bounds. `StopsWhenFinal` fails without its
exemption for an op of an indexer in a committee of two.

### Fairness

* `Replica`: blocks keep arriving and a stopped reader is restarted (weak fairness of
  `AddAny`, `Open`, `OpenNotPersisted`). Nothing is assumed of persist.
* `RoomSync`: every room announces again and again, as `Driver::tick` does, and some frame that
  changes something is handled; fan-outs may all be lost.
* `Homeserver`: the server's loop polls and ticks on, and so do the reader tasks (weak
  fairness). A client that is in a room frames it again and again, since its own driver
  announces every room every few ticks; a reader takes the frames of several rooms in turn,
  which is strong fairness of each. Evictions are finitely many: a room that is joined and
  evicted between any two ticks is never served.

## Proofs

The theorems hold for every value of the constants; TLC checked the invariants they rest on
before they were proved. `NaturalLemmas` has what the proofs about loops need: induction over
the natural numbers stated for a set (`Induction`), the existence of a function that follows a
start and a step (`Recursion`), and the list of a finite set in increasing order
(`AscendingList`).

### The log-structured store

`LogStoreProofs`, for every set of keys and values and every bound, from `KeysAssumption` (finitely
many numbers, 0 among them), `ValuesAssumption` (values are sequences of symbols) and `CellsAssumption` (no
symbol is a header, `None` is no index entry):

| theorem | statement |
|---|---|
| `IndexIsReplay` | `Spec => []ReplayAgrees` |
| `ReadsAreAcked` | `Spec => []ReadsAcked` |
| `LogStoreImplementsMap` | `Spec => Implements` |

`Spec` has the flush of a put failing and crashes between operations and inside the write of a
record; what `SpecFaults` adds breaks these properties (see Disagreements).

The loops of `open` and `compact` are recursive functions over the number of turns (`Turns`,
`Rewrites`), and the lemmas say what they compute. Replay takes at most one turn per cell, so it
has stopped after as many turns as the file has cells (`ReplayStops`). A whole record behind a
file that replays to its end adds one turn (`ReplayWhole`), a part of one adds nothing
(`ReplayPart`), and the prefix open keeps replays to the same (`ReplayCut`). The records compact
has written after `n` live keys replay to its new index with the old values of those keys
(`CopiesGrow`), so compaction changes no answer (`FreshCopies`, `CompactedKeeps`).

The invariant `LogInv` says two things. While the store is up, memory is the replay of the file
(`Faithful`). And every prefix of the file from the last flush on answers each key with a value
the calls allow (`Survives`). The window of prefixes is needed because a crash may cut the file
anywhere in it. `Survives` also says that a key missing from the index is missing in every such
prefix. Without that, a delete of a missing key, which returns Ok without a tombstone, could be
undone by a crash. A failed flush of a delete does break it, so `DeleteFlushFails` is a step of
`NextFaults` only.

The refinement goes step by step (`LogStep`): put and delete are `Write` of `KVStore`; a put with
a failed flush, and a crash inside a record, are `WriteInDoubt`; a crash between operations is
`Settle`; compact and open leave the map as it is.

### The tee of two stores

`StorageProofs` is about `Storage`, which the run `storage` checks. `TeeKeepsWrites`
(`StorageSpec => []TeeKeeps`) holds for every set of keys and values: `TeeInv` bounds what each
side may hold by what the calls allow, and only the primary may besides be empty.
`StorageRunsLogStore` (`StorageSpec => Spec`) carries the theorems about `LogStore` over to the
composed specification.

### The writer's core

`HypercoreProofs`, for every set of values and every `MaxLen` and `MaxFork`, from
`BoundsAssumption`, `ProloguesAssumption` and the assumptions that `None` is neither a value, a
log, a head nor a stored state:

| theorem | statement |
|---|---|
| `TypeCorrect` | `Spec => []TypeOK` |
| `HeadsStayValid`, `WriterNeverEquivocates` | `Spec => []SignedHeadsHold`, `Spec => []NoEquivocation` |
| `HeadAlwaysAuthentic` | `Spec => []HeadAuthentic` |
| `PresentBlocksReadable` | `Spec => []PresentReadable` |
| `ReorgsAreMarked`, `PrologueStays` | `Spec => ReorgBumpsFork`, `Spec => PrologueKept` |
| `CoreImplementsSignedLog` | `Spec => Implements` |
| `OpenRefusesOnlyTorn` | `NoEmptyPrologue`: `SpecCrash => []RefusesOnlyTorn` |
| `OpenGivesBackSaved` | `NoEmptyPrologue`: `SpecCrash => OpenRestoresSaved` |

`NoEquivocation` is not inductive: from two compatible heads of the current fork and a shorter
log, an append signs a third one that contradicts them. The strengthening `HeadsInv` adds that
every head of the current fork commits to a prefix of the present log, and that no head has a
later fork (`SignedHeadsHold`). All actions are first reduced to three kinds of moves of log,
fork and signed heads (`Moves`, lemma `StepMoves`); a move keeps `HeadsInv`, bumps the fork
unless it extends the log, and is a step of `SignedLog`. `HeadInv` likewise ties the head to the
tree while a prologue is copied.

The last two theorems are about crashes, failed persists, purges and recoveries. `UpInv` is what
a running core keeps of `HeadInv` when it may have been opened from an older store. `SavedInv`
ties the three keys in the store to the last complete persist: `KEY_META` is always that of it,
because persist writes it last, and a saved head commits to the saved tree. So open succeeds
with exactly that state or meets a tree that the head does not vouch for. The hypothesis
`NoEmptyPrologue` (no prologue has length 0) is needed: a core with an empty prologue signs a head
of the empty log. A later core of the key, made with a longer prologue, may recover that head;
when it then stops half way through copying its prologue, persist saves a head and a longer tree
that open refuses.

### Replicas

`ReplicaProofs`, for every set of values and every bound on length, fork and crashes, from
`ReplicaBounds` and the assumptions that `None` is no value, log or head:

| theorem | statement |
|---|---|
| `TreeStaysAuthored` | `Spec => []TreeAuthored` |
| `BytesStayVerified` | `Spec => []BytesVerified` |
| `OpenNeverCorrupt` | `Spec => []NeverCorrupt` |
| `VerifiedBlocksKept` | `Spec => VerifiedKept` |

The properties speak of the running replica; what makes them inductive is what the store holds
for the next open. `ReplicaInv` adds that the target of a gated caller extends the tree
(`RunInv`), and that the persisted tree starts with what the persisted head commits to, unless a
persist of a reorg was torn (`SavedInv`). A torn persist keeps this without reorgs because the
tree only grew since the head was saved, so open cuts it back to the same log. `BytesInv` adds
that the store has the bytes of the log open would resume from: a put goes behind it.

### Manifests

`ManifestProofs`, for every manifest, every number of cores and secrets and every list of partial
signatures, from `ManifestBounds` and `ManifestSetups` (quorum and number of signers are natural
numbers):

| theorem | statement |
|---|---|
| `QuorumsIntersect` | two accepted lists share at least `2 * quorum - n` of the `n` signers |
| `MajoritySignerSignedBoth` | under the default quorum, some signer signed both of two roots that verify |
| `ReplicaStaysVouched` | `Spec => []ReplicaVouched` |
| `MajoritiesAlwaysMeet` | `Spec => []MajoritiesMeet` |

The argument counts: `Quorum` accepts only lists without a repeated signer, so an accepted list
names at least `quorum` of the signers (`QuorumCounts`); two such sets among `1 .. n` overlap,
and `2 * default_quorum(n) > n`. The signers an accepted list names each signed the log with a
core of theirs (`AcceptedAuthorized`), and cores only ever sign more (`SignaturesStay`). For
`MajoritiesMeet` the invariant `MeetInv` adds that a core's head is its signature of its present
log (`HeadInv`), so that a head a core ratifies itself names signers whose secrets it has.

### The sync of a feed

`RoomSyncProofs`, for every network, every number of faults and every length of the feed, from
`NetworksAssumption` (links are between the rooms of the network, the owner is no peer),
`NoHeadAssumption` (no head is the empty log) and `AbsentAssumption` (a key never written is no
log):

| theorem | statement |
|---|---|
| `RecoversOnlySigned` | `Spec => []RecoverySound` |
| `ReplicasAlwaysFollow` | `Spec => []ReplicasFollow` |

`SyncInv` says that everything goes back to heads the owner signed: those that are announced in
frames, those that peers verified, in memory and on disk, and the target of a recovery; the
blocks gathered for a recovery are those of its target, since `verify_block` refuses others. It
has to speak of the two keys of a peer's store one by one: the head in the store is a prefix of
the tree in the store and of the tree in memory, because the next persist may write the tree and
stop. `GoalInv` adds that a recovery is for a feed longer than the local one, and that when it
has all its blocks the local feed contradicts it; so `recover_signed_suffix` refuses a complete
recovery only over an entry the owner signed in the place of an old one. `FollowInv` adds, while
the owner's store was neither lost nor failed, that its memory and its store agree and that all
that was ever signed or replicated is a prefix of them.

### The homeserver

`HomeserverProofs`, for every set of clients, connections, rooms and ops, and every bound, from
`SocketsAssumption` (finitely many connections), `PeersAssumption` (`None` is no client) and
`SetupsAssumption` (a setup uses declared connections and rooms):

| theorem | statement |
|---|---|
| `KeySignsOnce` | `Spec => []NodeSignsOnce` |
| `RoutesFollow` | `Spec => []TablesFollow` |

`NodeSignsOnce` looks at the signatures only; `FeedInv` adds where they come from: the feed of a
held room is what its store has, and every block signed in a room lies in that store at its
position, whether the room is held or evicted, unless the store lost one. So a room that is opened again appends behind all
of them. For `TablesFollow`, `TablesInv` adds that connections register at distinct places of
the order, none past their number (`OrderInv`), so a client has one latest connection
(`LatestUnique`) and a connection that registers is later than all before it; and that a reader
in the middle of a frame has registered, so that noting a room makes a client with an open
connection present. There is one lemma per step of a reader.

### Only model-checked

* Everything with liveness: TLAPS does not reason about fairness.
* `Consensus` and what is built on it (`Linearizer`, `RoomFold`, `Committee`, `Rooms`), `Merkle` and
  `Hyperbee`: their algorithms are recursive operators, over which the prover has no SMT backend.
* `QueriesAgree` of `Bitfield`: its counts are sums over sets of words and pages (folds), about
  which there is no lemma yet.

## Disagreements between the code and its documentation

Met while modelling. Two are kept as runs: the first one (`logstore_faults`, property `ReadsAcked`)
and the one on the confirmed order (`four_indexers`, property `FoldFaithful`). The others are read
off the same models and are why the properties above are conditional where they are. Paths are below `src/crates/`.

Storage
* `storage/src/log.rs:123`: `compact` truncates the only copy of the log before it writes the
  live records, so a crash, or a failed write, in between loses acknowledged values; log.rs:240
  says the logs "survive a process restart".
* `storage/src/log.rs:176`: a delete whose tombstone was not written has already left the index,
  so its retry writes nothing and returns Ok, and the value is back after open.
* `storage/src/log.rs:152`: a put that fails after a partial write leaves bytes behind the end; a
  shorter record over their start makes open read the leftover as records (log.rs:53 says a
  partial trailing record is dropped).
* `storage/src/tee.rs:64`: `len` is the primary's count as soon as that is not 0, while get still
  finds other keys in the cache (`storage/src/lib.rs:48` "Number of stored entries").

Hypercore
* `hypercore/src/core.rs:323`: `commit` compares lengths only; after a truncation and an append a
  batch "built against a head that no longer exists" (core.rs:318) is accepted.
* `hypercore/src/core.rs:192`: `append` on an empty core with a prologue puts any block where the
  prologue should be (core.rs:63 calls `verify_prologue` an invariant).
* `hypercore/src/core.rs:662`: a crash between the keys of `persist` leaves a store that open
  refuses (core.rs:649 "survives a reload").
* `hypercore/src/core.rs:260`: blocks appended after a truncation replace bytes under the tree
  persisted before it; after a crash, `block` returns bytes the tree never committed to
  (core.rs:425).
* `hypercore/src/core.rs:138`: `purge` resets the fork to 0 with the same key, so later heads
  contradict earlier ones of fork 0 (lib.rs:50).
* `hypercore/src/core.rs:169`: a delete in `sweep` that took effect and failed leaves a block
  listed as present without bytes (core.rs:441).
* `hypercore/src/replica.rs:100`: `verify_upgrade` does not look at the fork, so a replica that
  followed a truncation extends to a head of a lower fork (replica.rs:126).
* `hypercore/src/replica.rs:73`: after `reorg`, `add_block` overwrites bytes the persisted tree
  still covers (replica.rs:234).
* `hypercore/src/replica.rs:263`: a crash between tree and head of `persist` during a reorg makes
  open refuse (replica.rs:253).
* `hypercore/src/replica.rs:285`: a torn first persist leaves a tree that no head vouches for, from
  which the replica need not catch up (replica.rs:282).

Autobase and hyperbee
* `roomnet/src/room.rs:841`: `advance` folds what the confirmed order has beyond `finalized_len`,
  since the "Finalized prefix grows monotonically" (room.rs:840) and the confirmed order "cannot
  change" (room.rs:848; `autobase/src/linearizer.rs:737` "Batches only ever append"). With four
  indexers, two entries that were confirmed in one order are confirmed in the other one after a
  later entry of another indexer, and the projection keeps the old one. `src/docs/DECISIONS.md:919`
  concedes this for partitions an adversary makes.
* `autobase/src/linearizer.rs:880`: with a single indexer the author's own vote is counted at every
  level, so degrees have no end (linearizer.rs:818; the model stops at `MaxDegree`).
* `hyperbee/src/btree.rs:334`: `history` promises every change in order; a delete that borrows,
  merges or drops a level also appends nodes it takes for changes (`HistoryTells` is stated
  without such deletes).
* `hyperbee/src/btree.rs:60`: when an append fails in the middle of a put or del, the last node
  that was written, not a root, is the tree from then on; a delete may then find no sibling to
  rebalance with and panic (btree.rs:505).

Roomnet
* `roomnet/src/room.rs:646`: `needs_checkpoint` looks for ops of other writers only, so with two
  indexers the last op of one of them is never confirmed (room.rs:626 "an indexer references
  peers' pending ops so they confirm").
* `roomnet/src/room.rs:637`: checkpoints that cross call for new ones, without end
  (`roomnet/tests/resume.rs:290` "a few checkpoints per new entry").
* `roomnet/src/room.rs:827`: `replay` clears deltas that were finalized but not polled before the
  crash (room.rs:806 says they were persisted).
* `roomnet/src/native/mod.rs:427`: several deltas of one tick are written with one, the newest,
  state (`transport.rs:176`).
* `roomnet/src/room.rs:416`: a relay whose tree runs ahead of its head serves proofs that do not
  verify (room.rs:412). An owner that lost its store gets nothing from it.
* `roomnet/src/room.rs:479`: an owner told of a longer head of its own of which no peer has every
  block waits for it, and appends nothing (`OwnFeedRecovered` exempts it).
* `hypercore/src/replica.rs:263`: a persist that stops after the tree, where the key of the head
  still says there is none, reopens with the new blocks and no head. When these are the whole feed,
  the room asks for nothing more and announces nothing, until the writer appends again (`driver.rs:144`
  "so peers that connected after an edit (or whose sync stalled) converge").
* `roomnet/src/driver.rs:99`: the checkpoints of a tick are said to be made "per Original room"; the
  code asks every room it holds.
* `roomnet/src/room.rs:302`: when `persist` fails, `local_append` returns an error but the new head
  stays and is announced (room.rs:288). After a restart the key signs that position again.
* `roomnet/src/room.rs:761`: when `persist` fails while ingesting, the entry never reaches the
  linearizer before a restart (`driver.rs:144`).
* `roomnet/src/ws.rs:261`: the cleanup of an older connection removes the client from its rooms
  although a newer connection is open (ws.rs:179).
* `roomnet/src/server.rs:95`: `host` says "Never auto-deleted", but a room that was joined before
  stays a replica, which `evict_stale` drops.

## Not modelled, and why

* `user_data`, snapshots and streams of a core, room snapshots (`import` and `export`), the live
  projection: readers and copies over state that is modelled, without a protocol of their own.
* Serialization of trees and nodes, `codec`, `wire`, `entry`: byte layouts. Blocks and messages
  are opaque in every module.
* `ForkProof`, `conflicting_heads`: pure checks over two heads, stated by `NoEquivocation`.
* OPFS and the gossip transport: I/O of libraries; the client side of the WebSocket transport:
  two queues between a socket and the client's own driver.
* Hash collisions and forged signatures: assumed away.
* In `Homeserver`, a persist that fails leaves the old or the new state of the room's store, and in
  `RoomSync` an owner's does; what a half-written one leaves of a core is in `Hypercore`. A store that
  fails inside `recover_signed_suffix` is in `Hypercore` only.
* `pending` of several writers whose entries wait for each other: `Committee` delivers in causal
  order, `RoomSync` has one writer.

## Plan

1. `Consensus` with recursive functions instead of recursive operators, and a proof of the
   order's soundness.
2. Snapshots and user data of `Hypercore`; snapshot import of a room.
3. `Homeserver` composed with `RoomSync`, so that service of a room means its blocks.
