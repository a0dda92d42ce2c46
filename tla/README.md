# TLA+ verification of daccord

`daccord` is a consensus library in Rust: a cluster of nodes agrees on a
sequence of values, slot by slot, with Raft or with Multi-Paxos. This directory
holds TLA+ models of it, the TLC configurations that check them on small
clusters, and TLAPS proofs for clusters of every size.

## The system

| part | code | state | operations |
|---|---|---|---|
| Raft protocol | `daccord/src/protocol/raft.rs`, `message/raft.rs` | term, vote, log, commit index, role, known leader, `next_index`, `match_index`, votes, buffered and lost proposals, persistence intents | `propose`, `handle_message` (five message types), `on_tick`, `flush_persist`, `drain_decisions`, `recover` |
| Multi-Paxos protocol | `protocol/paxos.rs`, `message/paxos.rs` | per slot: promised and accepted proposal, decision, proposer state; leader, election, forwarded proposals | `propose`, `handle_message` (eleven message types), `on_tick` (retries, rebroadcasts, heartbeats, elections, timeouts), `recover` |
| Node event loop | `node.rs` | the protocol, the pending map, the channels, the published status | `handle_submission`, `handle_incoming_bytes`, `handle_retries`, `send_outgoing`, `process_decisions` |
| Proposal tracking | `proposal.rs`, `node.rs` | completions keyed by nonce | `insert`, `remove_for_decision`, cancellation when the loop ends |
| Storage | `storage.rs`, adapters in `proposal.rs` | decisions; for Raft also term, vote, log, commit index | the writes and loads of the two traits, and the in-memory storages |
| Durable storage backends | `redb_storage.rs`, `duckdb_storage.rs` | tables in one file | opening a file, one transaction or statement per write, on the blocking pool |
| Transports | `transport.rs`, `transport/{channel,tcp,uds}.rs` | queues, connections, reader tasks | `send`, `recv`, reconnect, rebind |
| Demo service | `daccord-demo/src/{service,node,cli}.rs` | decision log, watchers | `propose`, `get_decisions`, `watch_decisions` |
| Client library | `daccord-client/src/{client,watch}.rs` | the next slot of a watch, the connection | `propose`, `watch`, reconnect |
| Configuration, errors, wire format | `config.rs`, `error.rs`, `message/mod.rs` | none | validation, encoding |

A client's submission enters a node's loop through a channel. Each event of the
loop (a submission, a message, a 50 ms tick) runs one protocol method, flushes
the persistence intents, sends the messages, then saves and delivers the
decisions. Nodes interact only through messages, which the senders may lose
(their errors are ignored). A storage error ends the loop, which for the rest
of the cluster is a crash.

The demo runs a node, collects its decisions into a log and serves that log to
clients over gRPC, as pages and as a watch; the client reopens a broken watch
where it left off.

What is hard to test: a crash between two storage writes of one event or while a
file is opened for the first time, two candidates and a voter interleaving over
several terms, logs that diverge under several leaders, answers that arrive late
or out of order, a proposal that is forwarded, buffered, given up and proposed
again, decisions that come back without their nonce, full queues, connections that
break inside a frame, and a watch that lags, breaks or meets a restart.
`PROJECT.json` lists these hazards with their lines and the properties that cover
them.

## Modules

- `RaftProtocol`: every method of `RaftProtocol` as a function from the state
  record of one node to its next state and the messages it sends
  (`Result(st, out)`). Names are the code's. The module header explains how
  `Option<u64>` indices become natural numbers. Deadlines are left out: a timer
  may fire at any moment, which includes every timing the code allows. A value
  stands for `Pending<V>`.
- `RaftCluster`: the loop of `node.rs` around it. Variables: `mem` (protocol
  states), `disk` (storages), `net` (links), `reproposing` (lost proposals still
  to be proposed in the current event), `proposed`, `crashes`. One event is one
  step: nothing of it is visible to other nodes before its messages are sent. An
  event can instead stop after any of the five writes of `flush_persist`
  (`CrashInFlush`, nothing sent) or after any of its decision writes
  (`CrashInDrain`, messages sent); the node then restarts from what the storage
  holds. `Crash` stops a node between events, `Lose` drops the oldest message
  of a link, and every send may reach any part of its receivers.
  `Ordered = TRUE` gives links the order of a TCP connection or a channel;
  `Ordered = FALSE` lets a receiver take any message that is on its way.
- `MCRaft`: symmetry, the view, and two later starting points (`AppendedSpec`, a
  leader of term 1 with a first value in its own log only; `LedSpec`, one value decided
  everywhere), both reachable from `Init`.
- `RaftHandlerProofs`, `RaftProofs`: the lemmas about the handlers, and the
  inductive invariant with the theorems.
- `PaxosProtocol`: every method of `PaxosProtocol` in the same style, for both
  builds (`MultiPaxos` is the cargo feature `multi-paxos`, off by default).
  Nodes are numbers because proposal numbers are pairs of a round and a node,
  ordered lexicographically. `Pending` keeps a nonce: 1 is that of the
  submission, 0 that of a value read back from the storage, which drops it; the
  code compares values with their nonces. `on_tick` takes as arguments which
  timers are due, in which order slots are retried, and how many old decisions
  and forwarded proposals have expired. `unwraps_none` says when
  `handle_accepted` unwraps a value its node does not have.
- `PaxosCluster`: the loop around it, with the same variables as `RaftCluster` and the
  history `saves`, which counts the calls of `save_decision` per node and slot.
  Only decisions are stored, so a restart (`recover`) starts from them alone and
  a crash can separate only the writes of `drain_decisions`. `handler_panics` is
  the loop ended by such an unwrap, followed by a restart.
- `MCPaxos`: symmetry of the values, the bounds on retries (`RetriesBetweenTwo`,
  `ReplaysOnly`), and `LedSpec`, a later starting point: one slot decided everywhere, a
  leader of term 1 followed by all.
- `StorageOps`: the writes of the traits as records, and tables as functions from
  keys to rows. `StorageContract`: the traits as an abstract specification; its
  variables are the fields of the in-memory storages, a write is requested and then
  performed as a whole or refused.
- `RedbTables`, `DuckdbTables`: each read and write of a backend as its effect on the
  tables of a file. Redb has one table per Raft variable; DuckDB has one row in
  `raft_meta` that is seeded when the file is opened, and an `UPDATE` without the row
  writes nothing. Loads fail on missing tables and rows as the code does.
- `DurableStorage`: a file and the storages opened on it one after the other.
  Variables: `backend`, `db`, `handle`, `opening` (statements of the opening still to
  be executed), `task` (the closure of `run_blocking`). Opening is one transaction in
  redb and statement by statement in DuckDB. A node may be dropped while its closure
  runs (`abort`); the closure holds the database, so the file is opened again only
  after it. `Crash` may come at any step.
- `StorageTableProofs`, `RedbProofs`, `DuckdbProofs`, `StorageProofs`: the lemmas about
  tables, about each backend, and the invariant, the refinement and the theorems.
- `NodeLoop`: one node seen from its callers. A caller is a call of the client's
  `propose`, whose first attempt goes to this node and whose retry goes elsewhere.
  `queue`, `pending`, `draining`, `decision_channel` are the channels and maps of
  `node.rs`. Each decision of `process_decisions` is a step, because the consumer runs
  beside it. The loop ends by an error, a panic, an abort, a failed receiver or the
  last handle (`Return`, `ReceiverFails`, `Shutdown`), and then its parts are dropped
  in Rust's order (`drop_pending`, `drop_node`); submissions may still arrive in
  between. The protocol is external: proposals become entries of one log or are lost,
  the node learns each entry once or never, and an entry may come back without its
  nonce. One log is what Raft gives on ordered links; Paxos nodes may disagree, so for
  Paxos the properties are about the decisions this node learns. The retry is answered
  by the other node's `PendingMap`, by nonce or by value (`AnswerElsewhere`). In `Spec` the application has dropped
  its `DecisionReceiver`; `DemoService` has one that reads it.
- `DemoService`: extends `NodeLoop` with `collect_decisions`, the decision log, its
  broadcast, the stream of a watch and the client's `watch_stream`. Inserting a
  decision and broadcasting it are two steps, as are subscribing and taking the
  snapshot. `Restart` ends the process with the node; `Disconnect` breaks the
  client's connection. Nobody proposes through this node: the decisions are others'.
- `Transport`: one sender and one receiving node. `kind` chooses TCP, Unix socket or
  bounded channel; `tcp.rs` and `uds.rs` are the same code except for the address. A
  frame is two parts, the length and the payload, written and read separately;
  sockets and the channel into `recv` are bounded.

## Properties and runs

The Raft runs use three nodes, a single crash at most, and the bounds in the
`.cfg` files: `MaxTerm` (no election is started past it), `MaxInFlight`
(messages on all links; further ones are lost), `MaxCrashes`, and `LeaderOnly`
(clients submit to leaders only). The Paxos runs bound the round of retries and
elections (`MaxRound`) and the slots (`MaxSlot`). A single round still has as
many competing proposal numbers as the cluster has nodes, and slots are
independent except for their assignment, which is what `paxos_forwarding` is
about: it has three slots and two nodes. Deadlock is not checked where a run stops
when its bounds are used up, where the node really stops (`proposals`), and in
`transport`, where a sender may wait for ever for a TCP listener that failed.

| run | start, bounds | shows |
|---|---|---|
| `raft_recovery` | one value decided, 2 terms, 2 messages, 1 crash, 2 values, clients submit anywhere | `ElectionSafety`; `NothingForgotten`: no term goes back and no vote changes within a term; `DecidedOnQuorum`, `StorageMirrorsMemory`, `DecidedUpToCommit`, `DecidedAtMostOnce` with a crash between any two writes |
| `raft_terms` | a leader that has just appended, 4 terms, 1 message, 2 values | `LeaderCompleteness` and `StateMachineSafety`. Four terms are what it takes to overwrite an entry of an earlier term that a quorum holds, the case the current-term rule of `try_advance_commit` is for |
| `raft_repair` | empty cluster, 2 terms, 1 message, 3 values, clients submit anywhere | `TypeOK`; `LogMatching`; `HintsRewind`: a rejection always moves the leader to an earlier position; `DecidedAtMostOnce` through two elections, with proposals that a candidate gives up and the loop proposes again |
| `raft_reordering` | one value decided, links reorder, 2 terms, 2 messages, 3 values | `StateMachineSafety` is violated |
| `paxos_slot` | default build, 3 nodes, 1 slot, 2 rounds, 2 values, 2 messages, 1 crash | `TypeOK`; `DecidedOnce`: `save_decision` is called at most once per slot and node, whatever answers, announcements and restarts come late; `OwnValueAccepted`: the unwrap of `handle_accepted` finds a value as long as nobody crashes |
| `paxos_leaders` | multi-paxos, 3 nodes, 1 slot, 1 message | `LeaderHoldsQuorum`: while a node leads, a quorum refuses every lower number |
| `paxos_forwarding` | multi-paxos, 2 nodes, led, 3 slots, 3 values, 2 rounds, 1 message, 1 crash | `SlotsFresh`: neither the fast path, a replay, a forwarded proposal nor one proposed again takes a slot that is decided or in use, also when another leader takes over and replays the slots it recovers |
| `paxos_agreement` | default build, 3 nodes, 1 slot, 2 values, 3 messages | `Agreement` is violated |
| `storage` | both backends, 2 terms, 2 names to vote for, logs of up to 2 entries, 1 slot, 1 value | `LoadsSucceed`: an open storage answers every load, also when an earlier opening was cut short; `LogContiguous`; the refinement `ImplementsTraits`: what is loaded changes only by a whole write that was asked for |
| `transport` | 4 messages, one too long, 2 failures, queue of 1, socket of 2 parts | `TypeOK` with the capacities; `AtMostOnce`: nothing is duplicated or cut, and no length is read with another message's payload; `ReorderedAcrossConnections`: only a reconnect changes the order, because all readers share one queue; liveness `Reconnects`: what is sent again and again arrives |
| `proposals` | 2 calls, 2 payloads, 2 endpoints, queues of 1, 2 slots | `TypeOK` with the capacities; `AnswersTrue` and `SlotsNotShared`: an answer names a slot that holds the payload, and the node completes no other call with it; `NotStranded`: nobody stays in `PendingMap` after their decision; `RefusedNotProposed`; liveness `EndAnswers`: calls are answered when the loop ends |
| `delivery` | 3 slots, start index 0 or 1, queues and ring of 1, 2 failures | `ServiceTypeOK` with the capacity; `WatchInOrder`: each slot once, in order, without a gap; `PagesReachWatch`: pages reach as far as the watch; liveness `WatchDelivers`: what the node has learned is yielded |

Why the bounds are enough. Channels, queues and the broadcast ring have capacity one
and a socket holds one frame, so that each is full as soon as it is used; what the
properties tell apart is full from not full. Two calls are
what it takes to mix up completions, and two payloads cover equal and different
ones. Three slots arrive in every order, with a gap before and after. A message that
is too long, a broken connection and a failed listener meet on both sides of a
reconnect. `raft_recovery` has two terms only; three of its properties
(`ElectionSafety`, `NothingForgotten`, `StorageMirrorsMemory`) and all of those of
`storage` are proved for every bound. In `paxos_slot`, once a retry's number is promised, the messages in flight are between two
nodes and nothing crashes (`RetriesBetweenTwo`): an answer to the old number and one to the
new number are on their way together, in one direction or in both. Without a retry two messages
between any nodes and a crash interleave freely. `paxos_forwarding` has elections and
replays in the second round but no slot retries (`ReplaysOnly`), which `paxos_slot` has.
`raft_repair` starts from an empty cluster and has no crash; a proposal that is forwarded and
accepted by the leader while its node gives it up is left to `raft_recovery`.

`raft_reordering` is a disagreement with the code's own statement that "the
cluster never disagrees about a slot's value" (`node.rs`, documentation of
`Decided`) and with the property test that delivers messages in any order.
`handle_append_entries` drops every entry past the last index a message
verifies. A heartbeat that was sent before an AppendEntries of the same term and
arrives after it therefore drops entries that the follower has acknowledged and
the leader has counted; a node without them can then be elected. With ordered
links no such step exists and every property holds.

`paxos_agreement` contradicts the same statement, without a crash and with
ordered links. A node that has accepted another proposer's value for a slot and has
not heard the decision still has that slot as its `next_slot`. Its own proposal
(`propose_full_paxos`) takes over the instance, replaces its promise and starts
phase 1 with `highest_accepted` empty, so its own acceptance, which the other
proposer counts, is not considered. Node 1 proposes v1, node 2 accepts it and
proposes v2, node 3 accepts v2; node 1 decides v1 and node 2 decides v2.
`retry_proposal` clears `highest_accepted` in the same way.

A submission can also be forgotten, and no property states otherwise. `Node::propose`
says that it "returns when the value has been decided by the cluster or an error
prevents progress", but a proposer that adopts an accepted value and wins the slot with
it removes the instance in `handle_accepted`, and a new leader that replays a slot
replaces the instance in `replay_accept`; the submission in it is gone and its caller
waits until the node ends. Only `handle_decide` keeps the proposer's value to be
proposed again.

`OwnValueAccepted` is stated for clusters of three without a crash. There the
node that made the proposer promise a higher number promised that number itself,
and refuses the lower one, so a quorum of answers includes the proposer. A node
that restarts forgets its promise, and the panic is then reachable
(`handler_panics` is taken in `paxos_slot`). `LeaderHoldsQuorum` is checked
without crashes for the same reason: `leader_promise` is not stored.

### Exceptions the properties state

Some properties hold only with an exception, which names a behaviour of the code that
its documentation does not lead one to expect:

- `NotStranded`: a recovered decision is matched by value, so with two equal payloads
  the wrong call may be completed and the right one waits.
- `SlotsNotShared` is about the calls this node completes. A call that was cancelled
  here and answered elsewhere may be told the slot of another call with the same payload.
- `WatchDelivers` excepts slots from the first dropped delivery on. The decision
  channel drops what does not fit (the design note of 2026-03-14 says the loop waits),
  and after a restart with a data directory the saved decisions are not delivered
  again. `DecisionLog` then never has the slot and every watch stops before it. Without a
  data directory a Raft node learns everything again, but a Paxos node only what its
  peers decided in the last five seconds, so the property is about slots that the node
  has learned together with all before them since the client's start index. It
  also excepts a client whose stream ended with an error that is not transient.
- `Reconnects` excepts a TCP listener that has failed: its address is bound again while
  the old listener still holds it. The Unix listener removes its file first, and comes
  back.

No property says that a payload is decided once: the client tries again after
`Cancelled`, when its first attempt may still be decided. A message longer than
`MAX_MESSAGE_SIZE` closes its connection at the receiver while the sender is told it was
sent; `AtMostOnce` and `Reconnects` cover what happens to it and to the messages after it.

### Fairness

The Raft, Paxos and storage specifications state no fairness, and their properties are
safety properties. The others assume weak fairness of single actions:

- `NodeLoop`: the loop takes what is in its queue, goes on with a decision it has begun,
  and finishes dropping its parts, because tokio polls a task that is ready.
  Nothing makes clients call, the cluster decide, decisions reach the node
  (`handle_incoming_bytes`), or the loop fail.
- `DemoService`: the loop's `process_decisions` as above, and
  each task of the service and the client (collecting, broadcasting, the stream, the
  client's reads and reconnects). `Restart` and `Disconnect` are bounded and not fair.
- `Transport`: the sender, the accept loop with its `rebind`, each reader and `recv` are
  tasks; sending again and again is what heartbeats and retries do. Failures are bounded
  and not fair.

## Proofs

`RaftProofs`, with the lemmas of `RaftHandlerProofs`, proves for every finite set of nodes, every set of values, every
bound and both kinds of links (assumptions `NodeAssumption`, `NilAssumption`,
`BoundsAssumption`):

- `TypeCorrect`: `Spec => []TypeOK`
- `StorageMirrors`: `Spec => []StorageMirrorsMemory`
- `TermsAndVotesKept`: `Spec => NothingForgotten`
- `OneLeaderPerTerm`: `Spec => []ElectionSafety`

Election safety is not inductive by itself. The inductive invariant `IInv` adds:

- `StorageMirrorsMemory` and `AllClean` (no persistence intent is left between
  events), so that a restart continues with the term and vote the node had;
- `VotesBinding`: a vote that is visible, as a granting answer on a link or as a
  member of `votes_received`, binds the voter: it is in a later term, or its
  `voted_for` is that candidate;
- `VotesUnique`: nobody is seen to vote for two candidates of a term;
- `LeadersElected`: a leader holds a quorum of votes, or is alone.

The argument: `HandlerOK` says what a handler may do to a node (types, intents
that cover every change of term, vote and log, votes granted only as the new
`voted_for`), with one lemma per handler in `RaftHandlerProofs` and
`HandleMessageOK` for the dispatch.
`FlushOK` shows that a flush cut after any number of writes leaves a ballot the
node may restart from. `EventKeeps` combines both for one event and `NextIInv`
for every action. Two leaders of one term then share a voter
(`QuorumsIntersect`), and `VotesUnique` makes them equal.

`StorageProofs`, with the lemmas of `StorageTableProofs`, `RedbProofs` and
`DuckdbProofs`, proves for every set of values, names, incarnations, terms and slots
and every length of the log (`StorageAssumption`):

- `LogHasNoGap`: `Spec => []LogContiguous`
- `LoadsAnswer`: `Spec => []LoadsSucceed`
- `BackendsImplementTraits`: `Spec => ImplementsTraits`

The inductive invariant `Inv` says that the tables hold rows of their types and the
log's keys have no gap (`RedbOK`, `DuckdbOK`), that an open storage has its tables and
DuckDB's row (`Created`), and how far an opening has come (`OpeningDuckdb`): the schema's
tables are created in order and the seed is last, which is what makes a file that was
cut short harmless. `Contiguous` is needed because `append_log` computes the next key
from the last one, and `load_log` ignores the keys.

For the refinement, `Represents` says that the loads of a good file return given
contents, and `Effect` what a write does to contents. Each write of each backend takes
a file that represents some contents to one that represents their `Effect`
(`RedbProofs`, `DuckdbProofs`). `NextRefines` then maps every step: `run_blocking` is
`Request`, `commit` performs the write, a failed closure and a crash with a closure
running are `Refuse`, and opening, preparing and dropping change nothing that can be
loaded.

Model-checked only: the other properties of Raft (leader completeness and state
machine safety need an invariant over the history of logs and hold with ordered links
only), everything about Paxos, `NodeLoop`, `DemoService` and `Transport`, and all
liveness. Liveness, `ENABLED` and what recursive definitions compute for every input
are out of the prover's reach.

## Assumptions about code outside this repository

- The databases make a transaction or a statement atomic and durable, and refuse a
  second opening of a file that is still open.
- tokio polls tasks that are ready; its bounded channels keep their order and refuse or
  wait when they are full; a broadcast ring drops the oldest and tells the receiver.
- A socket delivers bytes in order or breaks; a write to a connection the peer has reset
  may succeed once; an address a listener holds cannot be bound.

## Not modelled

- Liveness of the protocols: leader elections that settle, entries of earlier terms that
  wait for a new proposal, Paxos proposals that count as complete and are not retried,
  candidates whose election was cancelled. The state graphs in which these happen are too
  large for TLC's liveness check, which cannot use symmetry.
- That a decision reaches every node, and with it the caller whose proposal it was: a new
  Raft leader sends old entries on, but does not commit them without a new proposal, Paxos
  repeats a decision for five seconds and has no catch-up, and a loop whose receiver has
  failed while the protocol counts as idle goes on without messages. `EndAnswers` says
  only that callers are freed when the node ends.
- Two event loops that wait for each other's full channels in `send_outgoing`: `Transport`
  has one direction and a receiver that always reads.
- `publish_state` and `status`, the service's `health`: copies of state that nothing reads
  back. The unbounded channel, and a transport whose receiver is dropped.
- The wire format and the JSON of stored values: serde, MessagePack and JSON are
  third-party code. A message that does not decode is dropped like a lost one; a stored
  value is kept apart from its text (`to_json`, `from_json`).
- Configuration and the command line: durations and their validation, which the models
  replace by timers that fire at any moment; parsing of peers and addresses.
- Identities that change with the clock at every restart (the constructors without an
  explicit id): the models keep a node's identity, as the demo does.
