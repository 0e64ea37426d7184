# A TLA+ verification project for raftcore

`raftcore` (under `src/raftcore/`) is a C++ library with the beginnings of a Raft
node: about 850 lines of its own code beside a vendored copy of msgpack-c and an
empty spdlog submodule. It has no main program and no documentation. What it has is
the log of a follower, the bookkeeping a leader would do for a peer, and the shell
of a node; no node of this code becomes a candidate or a leader, and nothing sends a
message. The library starts no threads and takes no locks. Concurrency enters through
its callers: the messages of a cluster arrive late, twice or out of order; the writer
to disk acknowledges late; the storage is shared with whoever restores snapshots; and
processes end and start again. The messages (`protocol.h`) are made for msgpack-c, so
the part of that library which packs and parses such messages is modelled too: a stream
is cut anywhere, and the strings of a parsed object stay in a buffer that the parser goes
on using. raftcore itself packs and parses nothing yet. The one caller is
`protocol_test.cpp` (lines 10-18 and 29-36), which packs an `Entry` and a `Snapshot` with
`v2::pack` into a `v2::sbuffer` and reads each back from one whole buffer with
`v1::unpack`. Both v2 names are those of v1 (`using v1::pack`, `using v1::sbuffer`), so
this is v1's code throughout, although the default API of this copy is version 3
(`versioning.hpp:14`). A receiver of a stream is what `v1::unpacker` is there for.

## 1. Inventory

| component | state it keeps | operations | used by |
|---|---|---|---|
| `VolatileState` (volatile_state.cpp) | pending snapshot, deque of unstable entries, `m_offset` | `LastIndex`, `TermOf`, `FirstUnstableIndex`, `Append`, `ClearEntriesBefore`, `ClearSnapshot`, `Load`, `SetOffset` | `RaftLog`; its owner, for the acknowledgements of a disk |
| `MemoryStorage` (memory_storage.cpp) | hard state, snapshot, deque that begins with a placeholder | `ApplySnapshot`, `GetSnapShot`, `FirstIndex`, `LastIndex`, `TermOf`, `GetHardState`, `GetConfState` | `RaftLog` and `Raft` share one object with its owner |
| `RaftLog` (raftlog.cpp) | the two above, `m_commit`, `m_applied` | constructor, `Append`, `FindConflict`, `Match`, `TermOf`, `FirstIndex`, `LastIndex`, `SetCommit`, `SetApplied` | `Raft`, the receiver of `MsgApp` |
| `Progress`, `Inflights` (progress.cpp) | match and next index, state, pause flag, window of messages under way | state changes, `MayUpdate`, `SendStopped`, window operations, `Reset` | `Raft::Reset`; a leader, once there is one |
| `Raft` (raft.cpp) | term, vote, leader, role, timers, peers | constructor, `LoadState`, `Reset`, `BecomeFollower`, `StepMessage` | none in the library |
| `RaftConfig` (raft_config.cpp) | the configuration | `Validate` | `Raft` constructor |
| messages (protocol.h) | entries, snapshots, messages, hard state | the pack and convert of their `MSGPACK_DEFINE` | everything |
| msgpack-c v1: packer, parser, conversion (pack.hpp, unpack.hpp, adaptor/) | the context of a parser between two pieces of input | `pack_*`, `context::execute`, `convert` | messages; `protocol_test.cpp` |
| msgpack-c v1: `unpacker` (unpack.hpp) | a buffer with a reference count in its first bytes, places in it, the zone of the object under way | `reserve_buffer`, `buffer_consumed`, `next`, `skip_nonparsed_buffer`, `remove_nonparsed_buffer`, object handles | nobody in the repository yet: whoever will receive a stream of messages |
| `Logger` (logger.h) | spdlog handles | log lines; `Panic`, which exits | everything |

How they interact. A `RaftLog` answers every read from the volatile state first and
from the storage when that has no answer, so its correctness rests on a seam: the
volatile entries must begin where the durable log ends. `RaftLog::Append` takes a
`MsgApp`: the entry before its first one must match, `FindConflict` finds the first
entry the log lacks, and `AppendToVolatileState` hands the batch over with the number
of entries to skip. `VolatileState::Append` then chooses between adding at the end,
replacing everything, and truncating. The commit index is assigned at the end.

What is hard about each part, and what makes it correct:

* **VolatileState.** All index arithmetic assumes consecutive indexes from `m_offset`
  on, and nothing enforces it. Correct: the deque stays contiguous; an acknowledgement
  removes only what was written; `LastIndex` is the end of the log; no step panics or
  leaves C++'s defined behaviour.
* **MemoryStorage.** Its owner can move it under a live `RaftLog`. Correct: an old
  snapshot never replaces a newer one; term and vote survive a restart (they do not:
  nothing writes the hard state).
* **RaftLog.** Messages repeat, overlap, go backwards and come from several leaders.
  Correct: log matching; what is reported committed is what the cluster chose and is
  never taken away or rewritten; the follower catches up.
* **Progress.** A state machine with eleven methods and a counter beside a queue.
  Correct: counter and queue agree and stay within capacity; the next index is above
  the matched one; acknowledgements free the right messages; a replicating peer is
  sent to (it is not).
* **Raft, RaftConfig.** Late messages of old leaders, integers at their limits, a
  constructor that leaves a field unset. Correct: a node follows the leader of its term
  and no earlier one, votes once per term (it does not), draws its election timeout in
  range, and accepts exactly the valid configurations (it may refuse them). A hard state
  that is loaded after a restart comes without the entries it counts as committed.
* **Messages on the wire.** Pieces end inside a field; fields lie at the limits of the
  formats; the receiver's variables still hold the last message. Correct: what is
  received is what was sent, in order, and at once.
* **unpacker.** Whether a buffer may be rewound, grown in place or only replaced depends
  on a count, on a flag and on two offsets. Correct: no object loses a string, no block
  is freed twice or never, no write leaves a block, no unparsed byte is lost.

`PROJECT.json` lists these hazards at their lines.

## 2. Modules

```
UnstableLog <--refines-- VolatileState        MemoryStorage        Progress
                              ^  \                 ^                   ^
                              |   VolatileState-   |              ProgressProofs
                              |   Proofs,          |              MCProgress
                              |   MCVolatileState  |
                              +----- RaftLog ------+
                                        ^
   FollowerLog <--refines--        Replication  (leaders, network, owner)
                             ^     ^         ^
          ReplicationProofs -+  MCReplication  Recovery <-- MCRecovery
                       ^                          |
                       +---- RecoveryProofs ------+

RaftNode  <-- RaftNodeProofs, MCRaftNode

Msgpack <-- Protocol <-- Wire <-- MCWire         Unpacker <-- UnpackerProofs, MCUnpacker
   ^                       ^
MsgpackProofs <------- WireProofs
```

| module | what it models | correspondence |
|---|---|---|
| `VolatileState` | the class | variables are its members; one action per method (`AppendEntries` is `Append`, whose three branches are `ImportAtEnd`, `ImportFromFront`, `ImportInside`); `LastIndex`, `TermOf`, `FirstUnstableIndex` are operators that return `Absent` where the method returns false |
| `UnstableLog` | what the class promises | the terms from an index on and a snapshot they follow; no deque ends, no offsets |
| `MemoryStorage` | the class | snapshot and deque; `ApplySnapshot` is the only update |
| `RaftLog` | the class | instances of the two modules above, `m_commit`, `m_applied`; `AppendMessage` is the whole of `Append`, its asserts included; `Restart` is the end of the object, by a crash or otherwise, and a new constructor call |
| `Replication` | one follower in a cluster | `Deliver` calls `Append`; the leaders, the owner of the log and the owner of the storage are external |
| `FollowerLog` | what a follower's log promises | a function from indexes to terms, a commit and an applied index; a message replaces an end that is not committed, a snapshot forgets a beginning, a rebuild all but one entry |
| `Recovery` | `Replication` with an owner that keeps a hard state | `Save` writes term and commit index at any time; after a restart `LoadSaved` is the call of `Raft::LoadState` |
| `Progress` | both classes | one action per method, and `Rewind` for what `Raft::Reset` does to a peer |
| `RaftNode` | `Raft` and `RaftConfig` | `Construct`, `LoadState`, `StepMessage` (with `BecomeFollower`, `Reset` and `Random` inside it) are the methods; of the log only the commit index takes part, and of the storage what the constructor reads; the senders of messages are external |
| `Msgpack` | packer, parser and conversion | `Pack` writes bytes; `Execute` is `context::execute`, one `Turn` per turn of its loop, `Header` and `Field` its two halves, `PushItem`, `PushProc`, `PushAggregate` the functions of that name; `Convert` is `object::convert`; `Pack1` to `Pack4` and their like are the instances of the templates for arrays in arrays |
| `Protocol` | the structs of protocol.h | a schema each, the fields of its `MSGPACK_DEFINE` in order |
| `Wire` | a sender and a receiver | `Send` packs, `Arrive` is `buffer_consumed` of a piece, `Receive` is `next()` and the conversion of what it returns |
| `Unpacker` | the memory of `unpacker` | the members are variables; `Reserve` is `reserve_buffer`, whose outcomes are `Rewind`, `Resize`, `Replace` and `FailsToExpand`; `NextObject` is `next()`, whose outcomes are `NotYet`, `HandOver` and `HandOverBare` |
| `*Proofs` | theorems | section 5 |
| `MC*` | values for TLC | |

**What is abstracted.** An entry is its index and term; payload, entry type and the
configuration in a snapshot are never looked at by the modelled code. Logging is left
out. Indexes are `uint64_t`, and **none is above 2^31**: `IndexAssumption` of
`Replication` says `MaxIndex <= IntLimit`, where `IntLimit` is the first number that an
`int` cannot hold. The reason is one difference, `conflict_index - ents[0].m_index` in
`RaftLog::Append`, which is computed in `uint64_t`, narrowed to an `int` parameter and
compared with a size. `AppendOffset` and `SkipsAll` model that as it is, with `AsInt` for
the narrowing (2^64 is a multiple of 2^32, so that the difference wraps first changes
nothing). Without a conflict the difference is `-ents[0].m_index`. Up to 2^31 that is a
negative `int`, which becomes a huge size, and the message is skipped as it should be.
Beyond, the low bits may be any number, and a message that is delivered again is appended
again exactly when one of its indexes is a multiple of 2^32
(`DuplicateSkippedUnlessWrapped`); what the log holds behind it, committed or not, may
then be lost. No property or theorem about `Replication` or `Recovery` speaks of such
indexes, but that one.

Tick counts do meet the limits: `RaftNode` has the widths of `int` and `uint64_t` as the
constants `IntLimit` and `WordLimit`, and wraps where the code does. `Msgpack` has the
full 64 bits: there an integer is the sequence of its base-256 digits. `Unpacker` leaves
the bytes out: a message is the set of places where a turn of the parser may end, so the
two modules split the class between them, what is parsed in one and where it lies in the
other.

**Panic and undefined behaviour.** `status` is `"running"`, `"panicked"` after
`Logger::Panic`, `"aborted"` after a failed assert, or `"undefined"` after a read or
erase outside a deque. One such read is `ents[0]` on `raftlog.cpp:94`: a message that
matches and has no entries aborts on line 93 with asserts, and is undefined without
them. After `"undefined"` nothing is claimed, so the model stops
there; that is the weakest statement about a run whose C++ meaning is open. A
restart is possible from every status.

**Asserts.** The CMakeLists.txt sets no build type, so asserts are on by default; a
release build drops them. `Asserts` is a constant and both builds are checked. Up to
its first abort the build with asserts behaves as the other one does, so what the runs
without asserts show of states that are running holds there too.

**The leaders** come from the contract of `RaftLog::Append`, with the guarantees of
Raft: one leader per term, a log that only grows, a commit index over entries chosen
by a majority that include one of the leader's own term, and later leaders that have
every chosen entry. How a cluster brings that about is not in the repository; a leader
is elected with any prefix of any leader's log that has what was chosen. Messages need
no variable: everything a leader has sent is a slice of its log with a commit index it
has had, so `Deliver` takes any slice of any leader's log at any time. Loss, delay,
duplication and reordering are all in that choice.

**`GuardedSpec`.** Two defects make almost everything false after them: the wrong
truncation (section 4) and a snapshot put into the storage under a live `RaftLog`,
whose volatile entries and `m_offset` stay behind. `GuardedSpec` has every behaviour up
to the first such step: deliveries whose truncation keeps a wrong number of entries
are left out, and so are snapshots under a live log, unless they are of entries it has
applied. Overwrites whose truncation happens to be right, and overwrites of the whole
volatile log, remain, and so do messages without entries, which end the process. `Spec` has everything, and the violation runs use it.

**RaftNode and the log.** `Raft` calls its log to read the commit index and to set it;
`StepMessage` does not hand messages to `RaftLog::Append` (that call is not written
yet), so the two models have no step in common. `Replication` keeps its own
`m_cur_term` for the receiver that will connect them. The storage's hard state is all
zeros forever, so the `LoadState` at the end of the constructor changes nothing;
`LoadCall` is an owner that has a hard state from elsewhere and loads it before the
node has heard from a leader. `Recovery` follows that owner further, with the log: it
saves when it likes, restarts the follower when it likes, restores a snapshot that may
be newer than what it saved, and loads before the next message. `Construct` leaves `m_cur_state` with any value, because
the constructor assigns a local variable of that name, and `ValidateResults` allows
both results where `Validate` ends without a return.

**The contract of VolatileState** (`OnContract`) is the same idea for the component
alone: an append starts above the pending snapshot, leaves no gap, and does not
truncate at a place where the code keeps a wrong number of entries; a pending snapshot
is made durable before the entries after it are acknowledged.

**The unpacker's caller.** `Unpacker` lets its caller do what the comments of the class
allow: reserve, write up to what was reserved or `buffer_capacity()` says (`room`),
call `next()` at any time, keep or drop objects, outlive the unpacker with them, and
skip or remove bytes between two messages. Strings are referenced, as they are by
default. `malloc`, `realloc` and the growth of a zone may fail at any time;
`HandOverBare` is what `next()` does when the zone cannot take another finalizer.
`realloc` may move a block or not. `count` is the count inside each block, 0 when the
block is free; `size`, `room`, `msg` and the `refs` of a zone are ghosts that the
properties speak about.

**Mutants.** A definition whose name ends in `_mutant` is the one after it with a
plausible mistake. Nothing uses it; substituted for the original it breaks the
property that `PROJECT.json` names with it, which shows that the property depends on
that code.

## 3. Runs

| run | question | bounds |
|---|---|---|
| `volatile_free` | What can any sequence of calls do? `CutRule`: a truncation leaves a contiguous log exactly when the batch starts at the midpoint of the entries held. `UndefinedCauses`: undefined behaviour needs an empty deque or one already spoiled. | indexes to 4, batches to 3, terms 1..2 |
| `volatile_contract` | For callers that keep the contract: no failure, `Contiguous`, `LastIndexIsEnd`, and the abstract `UnstableLog` is implemented. | indexes to 5, batches to 3 |
| `replication_release` | Without asserts: `LogMatching`, `CommittedIsChosen`, `AppliedIsChosen`, `CommittedStable`; no message contests a committed entry (`CommittedNeverContested`); the two stores and their seam implement `FollowerLog`. | indexes to 4, two leaders, an `int` below 4 |
| `recovery` | A hard state saved at one time and loaded at another, without asserts: is what is reported committed chosen (`LoadedCommitIsChosen`), when is the term forgotten (`TermKept`), which messages can end the process (`OnlyEmptyMessagesFail`), and do messages with entries bring the follower up to date again and again (`CatchesUp`)? | indexes to 3, two leaders, an `int` below 3 |
| `recovery_assert` | The same with asserts: a commit index loaded beyond the log is stuck (`StuckBeyondLog`), and the commit index falls only to one an older message carried. | indexes to 3, two leaders |
| `progress` | `WindowOK`, `NextAboveMatch`, `AckFreesWindow`, and `ReplicateStalls`. | indexes to 4, window of 2 |
| `raft_node` | Whom does a node follow (`FollowsTermLeader`), what becomes of its vote (`NoVoteUnderLeader`), when is its election due (`TimeoutInRange`)? | three nodes, two terms, snapshots to 2, int of 3 bits, word of 5 |
| `wire` | Is each message received as it was sent (`ReceivedAsSent`), by the first call that can (`Prompt`), wherever the stream was cut (`CutsDoNotMatter`), and each one in the end (`AllReceived`)? | streams of two of six messages, pieces of one byte or all the rest |
| `unpacker` | Exact counts, no lost string, writes inside the block, unparsed bytes kept, and what the flag `referenced` means. | four blocks, two handles, three kinds of messages, amounts 1, 2 and 4, four unparsed bytes |
| `log_asserts`, `truncation_gap`, `valid_config_panics` | Section 4. | small; each finds its counterexample |

**Why the bounds are enough.** With four entries a truncation can start below, at and
above the midpoint of the log, cut one entry or several, and start exactly at
`m_offset`; batches of up to three overlap what is held, extend it or lie inside it,
with every number of entries skipped. Two terms are the least in which one leader
overwrites another's entries, so that stale messages, conflicts and old commit indexes
occur; a third would repeat those. In Progress a window of two can be empty, half full
and full, and four indexes leave room for acknowledgements below, in and above it. In
RaftNode the tick counts (`MCTicks`) include heartbeats whose tenfold wraps, election
ticks whose low bits are negative as an `int`, and one that would wrap if an `int` cut
nothing off; two terms let messages be older than, equal to and newer than the node's.
`IntLimit` is `MaxIndex` in the runs of the log,
the least that `IndexAssumption` allows, so the narrowing of `AppendOffset` is at work at
its limit: the largest index is the one whose negative is the least `int`. In Recovery three
entries are enough for a snapshot, a commit index saved before it or after it, and an
entry beyond both. The messages of `MCWire` hold integers of every width and at both
sides of the fixnum limit, strings of 0, 1, 31, 32 and 256 bytes and lists of 0, 1, 2 and
16 items; pieces of one byte cut between any two bytes, and pieces of all the rest put
the end of one message and the beginning of the next into one call; two messages let the
second be converted over the first, shorter over longer and the other way round. In
`MCUnpacker` a message is an integer, an array of two strings, or an array of a string
and an integer, so that a buffer can be replaced after the first string, before the last
byte, and between two messages; with four blocks the unpacker's buffer, the ones that two
handles keep and one more are in use at once, or `malloc` fails; sizes 1, 2 and 4 need no
growth, one doubling and two.

The bounds are `MaxIndex`, `MaxBatch`, `MaxTerm`, `Size`, `MCTicks`, `MaxSent`, `Pieces`, `Sizes`
and `MaxUnparsed`; what they bound is proved without them where section 5 says so.

**Deadlock** is checked in every run but `volatile_free`, where a panicked or undefined
process really stops.

**Fairness.** `FairRecovery` assumes three things of the environment; the library has no
scheduler. `WF(Revive)`: a process that has ended, as after a message without entries, is
started again. `WF(LoadSaved)`: an owner that restarts the follower does load the hard
state. `SF(Retry)`: the last leader gets a message through, now and then, with all that it
has after the last place where the logs agree, and its commit index. A leader learns that
place from the reject hints that `Message` has for it. The message always has an entry:
where the follower has them all the leader sends its last one again, since an empty
message, which is how Raft usually carries a commit index alone, is undefined in this
code. Strong fairness, because restarts
make `Retry` impossible again and again and a leader does not stop trying for that.
Nothing else is assumed fair: stale messages, restarts, snapshots, new entries and
commits come when they like, so `CatchesUp` says that the follower is brought up to date
over and over, not that it stays so. It excepts two kinds of states, and each exception is
needed. In `WouldMiscut` what the leader has to send truncates the follower's log wrongly
(finding 3), and the follower can be stuck for good. In `NothingToSend` the leader's log
ends where the follower's snapshot does: there is no entry that the follower would look
at, only an empty message could raise the commit index, and a late message may have
lowered it. `Wire!FairSpec` assumes weak fairness of `ArriveSome \/ Receive`: a stream goes on
while there is something to deliver or to read.

## 4. Findings

1. **A repeated message aborts** (`log_asserts`). `raftlog.cpp:93` asserts
   `conflict_index > m_commit`, but `FindConflict` returns 0 when the log already has
   every entry, so a duplicate fails it. `CommittedNeverContested` shows that what the
   assert wants to exclude never happens.
2. **An overlapping message aborts** (`log_asserts`). `raftlog.cpp:81` asserts that
   the first entry of the message is above `m_commit`, although only the entries from
   the conflict on are appended. The run checks that one of the two asserts holds in
   every state, for every message that may be under way; it finds a state in which one
   message fails the first and another one the second.
3. **Truncation keeps the wrong entries** (`truncation_gap`). `volatile_state.cpp:109`
   keeps `local_end_index - import_first_index` entries, where those below the batch
   are `import_first_index - m_offset`. A new leader's overwrite of the end of the log
   then leaves a gap or keeps a replaced entry. `CutRule` says exactly when.
4. **A valid configuration may panic** (`valid_config_panics`). `raft.cpp:10` panics with
   "cfg is not validate", but `RaftConfig::Validate` has no return after its last test,
   so its result is undefined exactly for valid configurations.

Properties that hold but describe defects: `ReplicateStalls` (`Inflights::Reset` sets the
capacity to 0, and each way into the replicate state passes through it, so a replicating
peer is never sent to), `CommitFallsOnlyToOlderCommit` (`m_commit` is assigned, not
raised), `StuckBeyondLog` (`LoadState` sets a commit index whose entries are gone; with
asserts, the first message that brings them back aborts, and so does each later one),
`OnlyEmptyMessagesFail` and `CatchesUp` (a message without entries, which the build with
asserts refuses by its abort, reads outside a deque in the other one, so a commit index
gets through only with an entry), and of the node `NoVoteUnderLeader` (a vote that was
loaded moves between candidates, goes with the first leader, and the node never casts one
of its own). `Validate` computes `10 * m_heartbeat_tick` in `uint64_t`, so a huge
heartbeat passes its test (`TenHeartbeats`); no timer is written yet that this could
disturb, and no property speaks of it.

One more, which no run refutes: the comment on `next(result, referenced)` (unpack.hpp:930)
says that `referenced` is set to false when the object contains no reference of the
buffer. `expand_buffer` resets the flag when it replaces the buffer in the middle of a
message (unpack.hpp:1174), so an object whose strings all lie in the old buffer is called
not referenced. Its zone keeps that buffer, so nothing is lost; `FlagIsOfThisBuffer` says
what the flag does mean.

## 5. Proofs

All statements are for every value of the constants, under the assumptions that the
modules name. `VolatileAssumption`: terms are naturals, the bounds are naturals, a null
snapshot is no snapshot. `ReplicationAssumption`: the same, with the terms `1 .. MaxTerm`
and at least one of them. `BuildAssumption`: an `int` holds some positive numbers.
`IndexAssumption`: no index is above `IntLimit`, which is 2^31 in the code.
`ProgressAssumption`: the bounds are naturals. `NodeAssumption`:
ids are positive, each term has a leader, a word is a whole number of ints. `Unpacker`
assumes that the room for the count is positive and the first size has it, that the
places of a message are positive and its strings end at such places, and that the handles
are finitely many. `Wire`: a sample holds values of its type and no container with 2^32
members or more (`SamplesAssumption`: the packer throws for those), and the sizes of pieces
are naturals (`BoundsAssumption`). Two theorems of `RecoveryProofs` assume `Asserts`, since they say what
the asserts bring about; all others hold for both builds.

* `VolatileStateProofs`. `TypeCorrect`, `CutRuleHolds` and `UndefinedCausesHolds` are
  about `Spec`, any caller. `ContractSafeHolds`, `ContiguousHolds` and
  `LastIndexIsEndHolds` are about `ContractSpec` and follow from `ContractInvariant`.
  `ContractSafe` is not inductive: whether a truncation or an acknowledgement is
  defined depends on where the entries are. `ContractInv` adds `Contiguous`, and that a
  pending snapshot ends right before `m_offset`; the second is what makes
  `LastIndexIsEnd` true when the deque is empty, and is the reason for the order of
  acknowledgements in the contract. The proof has one lemma per call; `Splice` and
  `BatchTail` say what the sequence operations do to runs of consecutive indexes.
  `Implementation`: under the contract each call is one step of `UnstableLog` or a
  stutter. It uses `ContractInv` and `TypeOK`; the facts about the terms of spliced and
  shortened deques are lemmas of their own.
* `ProgressProofs`. `ProgressInv` strengthens `WindowOK` and `NextAboveMatch` by the
  order of the window, without which `Freeto`, which stops at the first message it
  keeps, would not free all it should, and by `ReplicateHasNoWindow`, the reason for
  `ReplicateStalls`. The flags play no part and are kept apart.

* `RaftNodeProofs`. `Inv` joins the type invariant, `FollowsTermLeader`,
  `NoVoteUnderLeader` and `TimeoutInRange`; they are preserved because `BecomeFollower`
  sets term, leader, vote, role and timeout together, and `NoVoteUnderLeader` because a
  message that is followed is of a newer term. `TicksFit` is the arithmetic: the low bits of
  a tick count, when they are positive as an `int`, can be added to it without leaving
  the word, since a word is a whole number of ints.

* `UnpackerProofs`. `CountsAreExact` and `NoStringIsLost` follow from `IInv`. Exact counts
  are not inductive: whether releasing a handle may free the unpacker's buffer depends on
  who else releases it. `RefsHeld` says that the strings of an object lie in blocks that
  its zone releases or, for the object being parsed, in the unpacker's buffer while the
  flag is set; `CleanStart` that a buffer from which nothing was parsed (`m_off` at its
  start) has no string in it, which is why `realloc` may move it. With them a block that
  is freed has count 0, hence no holder, hence no string. `HoldersOne` is the arithmetic:
  one handle's zone changes, and the number of a block's holders changes by at most one.
  From the same invariant, `UnparsedBytesStay` (a buffer that changes keeps the bytes that
  were not parsed: only `Reserve` changes the buffer of an unpacker that lives on) and
  `FlagTellsOfThisBuffer` (a buffer taken up has no holder, so no string of an object that
  is there).

  `WritesFitHolds` and `UnpackerTypeCorrect` rest on `Fits`, which is inductive by itself:
  the offsets are in order, all the bytes taken for one's own are free (`room <= m_free`),
  and used and free bytes fit into the block. A buffer that grows needs `GrownIsEnough`:
  doubling reaches what is needed. `Grown` is a recursive function on a range of numbers,
  so that its value exists (`DoublingExists`) and is large enough follows by going down
  the range (`Downward`), without an induction theorem.

* `ReplicationProofs`, about `GuardedSpec`. None of the safety properties is inductive;
  `IInv` joins what they need of each other, `LeaderInv` about the leaders and
  `FollowerInv` about the follower:
  * `CreatorHas`: whoever has an entry has it, and all before it, as the leader that
    created it. This makes two logs that agree at an index and term agree before it, which
    is what lets `Append` trust its test of one entry. `LeadersComplete`: a leader has
    what it or an earlier one knows to be committed, and what is chosen lies in the last
    leader's log. `ProposeGrows`, `CommitGrows` and `ElectGrows` prove both for the
    external actions.
  * `Seam`: the deque is contiguous, the placeholder of the storage lies in it or right
    before it, and what the storage covers has been applied. This is what makes `term` and
    `lastIndex`, which ask the two stores in turn, a function of the log (`Reads`), and
    with it `FindConflict` (`Conflict`) and the splice of `Append` (`RunSpliced`).
  * `HeldFromLeaders` is `CreatorHas` for the entries that the follower holds.
  * `Justified`: a commit index comes from the snapshot the log was built over or is
    known to a leader of a term that the follower has followed. Without the bound on that
    term an old leader's message could replace a committed entry; with it, a leader that
    still gets through is at least as new and has the entry.
  * `CommitSafe` lets `m_commit` exceed the end of a log without entries, so that the same
    invariant serves `Recovery`, where a commit index is loaded; `IInv` adds that it does
    not in `Replication`.

  From `IInv`: `ReplicationTypeCorrect`, `OnlyEmptyMessagesFailHolds`, `LogMatchingHolds`,
  `CommittedIsChosenHolds`, `AppliedIsChosenHolds`, `CommittedNeverContestedHolds`, the
  action property `CommittedStableHolds`, and `NoGapsWithoutMiscuts`: what `truncation_gap`
  refutes of `Spec` holds of `GuardedSpec`, so the wrong truncation and the snapshot under
  a live log are the only causes of gaps.

  `DuplicateSkippedUnlessWrapped` is about `AppendOffset` alone and any indexes, also those
  that `IndexAssumption` excludes; `Remainders`, `MultiplesApart` and `RemainderIs` are the
  arithmetic. `Offsets` is what it comes to for the indexes of this module. `DeliverCases`
  says what one message can do, `EntriesNeverFail` that only an empty one can fail, also
  when it truncates wrongly.

  `FollowerLogImplemented`: each step of `GuardedSpec` is a step of `FollowerLog` under
  the mapping `View`, or a stutter. `Views` replaces the mapping,
  which reads the log index by index, by the placeholder and the entries held; then there
  is one lemma per action.

* `RecoveryProofs`, about `RecoverySpec`. `RecInv` is the invariant of the log with three
  parts: before the load the log is a new one (`NewUntilLoaded`), what was saved was once
  true of the cluster (`SavedOnce`), and a log that has loaded is behind the saved term
  only if the storage has overtaken the saved commit index (`LostBySnapshot`; `LoadState`
  skips an older hard state). It gives `LoadedCommitIsChosenHolds`, `TermKeptHolds` and `OnlyEmptyMessagesFailAfterLoad`;
  with `Asserts`, `StuckBeyondLogHolds` and `CommitFallsOnlyToOlderHolds` say what a
  single message can do.

* `MsgpackProofs`, about the functions of `Msgpack`; there are no states here but those of
  the parser's loop, so nothing is assumed beyond what each theorem says.
  * *The loop.* `TurnsEnd`: on any bytes the loop ends. Its state stays one that a context
    can be in (`Good`): what is awaited has the size that its header says, so a turn that
    is made takes a byte at least (`RunMoves`). `TurnsResume`: for any bytes, a call that
    stopped for want of some and goes on with more ends where one call on all of them
    would have. A turn reads only what it takes, so the turns before the stop are the same
    in both, and the state at the stop is one of those that the longer call goes through.
  * *The stack.* `PushItem` closes all arrays that wait for one last item.
    `PushAlone`, `PushMore` and `PushLast` take it apart again, by what waits on top of the
    stack: nothing, an array that waits for more, or one that this item completes and that
    is then pushed itself.
  * *What was packed.* `Reads(B, O)` says that wherever the bytes `B` lie in the input, and
    whatever arrays are open, the parser goes from their first byte to pushing the object
    `O` behind their last. `UintReads`, `BoolReads` and `StrReads` are the formats, one
    lemma each for the widths of a field; `ArrayReads` has items of which each `Reads` and
    goes along them (`ItemsTurns`). `Kept` puts them together for a schema, one level of
    arrays at a time: what is packed is read, converts without a type error, and converts
    into the value that was packed, whatever the variable held (`ListResized`). The
    32-bit formats, which no run reaches, are among what is proved.

* `WireProofs`. `WireInv` (`WireStreams`) says three things. `Stream`: the bytes are the
  messages, one behind the other, and each knows where it ends. `InOrder`: what was received
  are the first of them. `Reading`: the context and the offset are what one call leaves that
  begins with a new context behind the last message received and sees the bytes up to some
  that have arrived, to all of them if the receiver has no reason to call. The invariants of
  the run do not mention the context of the middle of a message and so are not inductive;
  `Reading` describes it by the call that makes it, and `TurnsResume` shows that the next
  call continues it. `WholeMessage` and `PartOfMessage` say what a call finds; that nothing
  is found in part of a message follows from what is found in all of it, since the one call
  continues the other and would not move from a result. From `WireInv`:
  `ReceivedAsSentHolds`, `PromptHolds` (`ArrivedAreReceived` counts the messages) and
  `CutsDoNotMatterHolds`.

  An induction over numbers is made in these two modules from the least element of a set of
  numbers (`Upward`), which the library's theorem on the order of naturals gives; the
  recursive functions are shown to exist by extending their solutions one number at a time
  (`RunExists`, `WrapsExists`, `FlatExists`).

TLC checked `IInv` and `RecInv` as invariants of `GuardedSpec` and `RecoverySpec`, with and
without asserts, on three indexes and two leaders, `Fits` with the constants of
`Unpacker.cfg`, and `WireInv` on two messages and fewer samples, before they were proved.

**Only model-checked:** `CatchesUp` and `AllReceived`, because liveness is out of reach of
the proof system used here. Every other property of a passing run is stated by a theorem.
The three violation runs show what is not true, which needs no proof. No module uses a
RECURSIVE operator.

## 6. Not modelled

* The loops of `Raft::Reset` over peers inside `RaftNode`: no constructor fills
  `m_peers`, so they run over nothing today; their body is `Progress!Rewind`.
* Term and vote across a restart inside the library: nothing in the code stores them.
  `Recovery` has an owner that does.
* The candidate and leader roles, sending of messages, timers: not written in the
  code.
* Of msgpack's formats: maps, binaries, extensions, floats, nil, negative integers. No
  message of protocol.h has them; `Msgpack` treats their headers as errors. The formats
  with a 32-bit length (strings and arrays of 65536 and more) are in the proofs, but no run
  has a message of that size. The limits on sizes and depth are far above these messages.
* Of `unpacker`: the older interface (`execute`, `data`, `release_zone`, `reset_zone`,
  `reset` called one by one), moving an unpacker, a reference function of one's own, and
  the overflow tests of the doubling, whose sizes no memory has. `new zone` that fails in
  `release_zone` loses the message with an exception and is left out too. An object that
  `HandOverBare` gives away is not among those of `StringsStay`: its zone is not its own.
* The rest of msgpack-c: the C library, what the v2 and v3 interfaces do not take over from
  v1 (their visitors and parsers; `v2::pack` and `v2::sbuffer`, which `protocol_test.cpp`
  names, are v1's), other buffers, adaptors
  of types that no message has, and the C++03 headers generated from `erb/`, with the
  copies of Boost Predef and Preprocessor. This is third-party or generated code that
  raftcore does not call, and most of the lines of the repository; it is why the map
  covers a small share of them while it covers nearly all of raftcore's own.
* Logging, and spdlog, whose directory is empty.

## 7. Plan

Done: 1. `VolatileState` and `UnstableLog`; 2. `MemoryStorage`, `RaftLog`,
`Replication`; 3. `Progress`; 4. `RaftNode`; 5. `Recovery`, the owner that saves and loads a
hard state; 6. `FollowerLog`, and `Replication` checked to implement it; 7. `Msgpack`,
`Protocol`, `Wire`; 8. `Unpacker`; 9. proofs about `Replication` and the step simulation
of `FollowerLog`; 10. `WritesFit`; 11. proofs about `Recovery`; 12. `Msgpack` with recursive
functions, and the proofs about it and about `Wire`.

Next: 13. `Follower`: `RaftNode` in front of `RaftLog`, once the code connects them.
