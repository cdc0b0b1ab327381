# Queue Fabric: TLA+ verification

A TLA+ development kept beside the Queue Fabric library: modules that model its
governance core, its journal and its wire protocol, TLC configurations that check them on small instances, and
TLAPS proofs of their invariants for every instance. Paths below are relative
to the repository; `PROJECT.json` maps every definition to the lines it models.

## 1. Inventory

Queue Fabric is a C++ library (`include/qf`, `src`) that governs the *control
state* of network queues: it decides which mutations of a queue are admissible
and records what is known about it. It never touches packets. One process owns a
`Fabric`; worker nodes publish occupancy to it through a coordinator.

| Component | State | Operations | Interacts with |
|---|---|---|---|
| Decision rules (`lifecycle`, `authority`, `occupancy`, `drain`, `backend`) | none | transition table, `authorize`, freshness, `assess_drain`, `verify_backend_applied` | called by the fabric |
| Queue governance (`fabric*.cpp`) | per resource: classes, pools, grants, fence token counter; per queue: definition, lifecycle, flags, fence, occupancy, drain, last acknowledgement, overflow count; epoch, clock watermark, backend registry | 14 mutation kinds, topology and grant operations, epoch advance, evidence invalidation, freshness refresh, shutdown, recover | journal, rules, coordinator |
| Idempotency and provenance (`queue.cpp`, `provenance.cpp`, `fabric_apply.cpp`) | bounded attempt memo per queue, last (incarnation, boot, sequence) per publisher | `remember`, `lookup`, `observe` | every mutation |
| Two-phase backend apply (`fabric_plans.cpp`) | reservation per plan, pending list | plan, commit, abort | memo, journal |
| Journal (`journal.cpp`, `file_journal.cpp`) | header, records, valid prefix, synced prefix | open, append, sync, truncate, rewrite, write header | fabric, recovery |
| Recovery and compaction (`fabric_recovery.cpp`) | none of its own | scan, replay, rebuild indexes, snapshot, compact | journal, governance |
| Thresholds and policy | none | ladder evaluation, policy layering | governance |
| Coordinator (`coordinator.cpp`) | vector of connections: decoder, session, published queues, last activity; stopped flag | `run_once` (accept, receive, decode, handle, expire, reap), hello, occupancy, mutation, heartbeat, stats, shutdown, disconnect, epoch advance, stop | fabric, workers, clock |
| Worker (`worker.cpp`) | connection, decoder, admitted, epoch of the coordinator | connect, handshake, publish, heartbeat, mutation, stats, shutdown, close | coordinator |
| Framing (`frame.cpp`) | byte buffer, poisoned flag | encode, push, next, compact, reset | coordinator, worker |
| Transport | socket | accept, readable, receive, send, close | coordinator, worker |
| Encodings, processes, utilities | - | byte layouts, child processes | - |

Every public method of `Fabric` holds one mutex throughout, so it is one atomic
step and two calls never interleave inside. What is hard here is not data races
but *sequences*: long runs of individually legal calls by several principals,
interleaved with epoch advances, re-declared classes, dying backends, the clock,
failed journal syncs and restarts, after which cached evidence is judged against
a state that has moved on. The coordinator is one thread too, but one that serves many sockets:
what was received, decoded, answered and invalidated in one cycle interleaves with processes that
are superseded, hang, die or flood it. `PROJECT.json` lists each such hazard at its line.

What makes each component correct:

- *Governance*: evidence counts as fresh only for the definition it was observed
  under; a queue is quiesced only on current proof; a fence freezes its queue and
  its token is unique; the lifecycle follows its table over any sequence of calls.
- *Idempotency*: an act is applied at most once however it is repeated, reordered
  or evicted from the memo, and the memo never claims an effect that did not happen.
- *Two-phase apply*: plans, pending list and memo never come apart.
- *Journal and recovery*: what was reported committed survives; what was refused
  does not take effect later; an epoch is published once.
- *Coordinator*: a superseded or lost worker's evidence is not current, a loss is noticed in the
  end, and no peer can stop a cycle from ending.
- *Worker*: a call returns, with its own answer.
- *Framing*: the decoder neither loses nor invents a frame, whatever the split, and refuses no
  legal stream.

## 2. Modules and how they correspond to the code

| Module | Models | Kind |
|---|---|---|
| `QueueRules` | the transition table, `authorize`, freshness, `assess_drain`, `verify_backend_applied` | operators |
| `Governance` | the governed state of one resource and its queues; one action per operation of `Fabric` that changes it | state machine |
| `QueueLifecycle` | what an observer of lifecycle, fence and generation alone may rely on | abstract specification |
| `AttemptMemo` | `QueueRecord::remember` and `find_attempt` | operators |
| `Attempts` | memo, provenance tracker, reservations of two-phase applies | state machine |
| `Journal` | `FileJournal`: append, sync, header, truncation, rewrite, `open` with its damage classification | operators on a journal value |
| `Recovery` | commits, backend-apply markers, failed syncs, crashes, compaction, `recover_locked` | state machine over `Journal`, `AttemptMemo` and `QueueRules` |
| `Coordinator` | `CoordinatorServer` with the worker processes, their sockets and the clock | state machine |
| `FrameDecoder` | `encode_frame` and the incremental decoder over a stream that is split and damaged | state machine |
| `WorkerClient` | the client's calls and `await`, with the coordinator as its connection sees it | state machine |
| `MCGovernance` | workloads and value sets of the `Governance` runs | model |
| `MCRecovery` | the names of the `recovery` run and their symmetry | model |
| `GovernanceProofs`, `LifecycleProofs` | theorems about `Governance` | proofs |
| `AttemptsProofs`, `RecoveryProofs`, `CoordinatorProofs`, `WorkerClientProofs`, `FrameDecoderProofs` | theorems about the module each extends | proofs |
| `Induction` | induction, recursion and minima in a form the provers can use | lemmas |

**Governance.** The variables are the members of `Fabric::Impl`, `ResourceRecord` and
`QueueRecord`: `lifecycle`, `flags` (`applicability`), `def`, `fence`, `occ`, `drain`,
`applied` and `overflowed` per queue; `classGen`, `poolGen`, `grants`, `backends`,
`fenceTokens`, `epoch`, `now` (`clock_watermark`), `healthy` and `closed`
(`shutting_down`) for the fabric. An action is a whole call, from the checks of
`apply_existing_locked` through `apply_kind_locked` to publication. Requests carry any
generation, epoch, class binding, evidence and acknowledgement of the bounded sets: stale and
wrong ones are presented too and the guards refuse them. A refused request, and one accepted
as an idempotent no-op, changes nothing here and has no action. Bytes and packets are one level,
a threshold ladder is its maximum, a publisher life is one value. `Restart` is a restart from a
compacted journal, which has no commits behind its snapshot. What replaying commits does, which is
not to give back the same state (a fence is minted again with a new token and epoch,
`fabric_kinds.cpp:361-362`, a quiescence is refused), is left to `Recovery`; the invariants of
`Governance` are about the operations before and after such a restart, not about the replay.

**Attempts.** What a mutation does is reduced to whether it is applied, with or without a new
generation. Kept in full are the order of the stages (memo, authority, provenance, generation
and epoch, kind, journal), which of them have moved the tracker when the request is refused,
what is remembered, and the eviction of the memo and of the pending list. `accepted` and
`effects` are history variables.

**Journal and Recovery.** The file is a sequence of records with a synced prefix; a crash keeps
the synced part, a prefix of the rest and, where `TornWrites` says so (in the `recovery` run it
does), the beginning of one more record. The medium may damage any record, in its length field
(`Unsized`) or elsewhere (`Bad`). `open` looks for the record after a damaged one where the stored
length leads: behind a bad record it finds the next one and refuses the file if that is whole;
behind a torn or an unsized one it may find anything, and both outcomes, refusal and the prefix, are
possible. A queue is its name, class binding, maximum, generation, lifecycle, drain phase, fence and
memo. Drain evidence, which is dynamic, either proves the drain (`proven`) or is not there; what
makes it proof is the subject of `Governance`. `Recover` is `recover_locked`: the last resource
record is in force before any commit is replayed, each replayed commit goes through the same
`Decision`, `Applied` and `journal_commit` as a live one and is appended again, and the torn tail is
cut after the replay, if the replay has not been appended behind it (`Buried`). A commit marker of a planned backend apply (`CommitBackendApply`) is durable
before the acknowledgement is verified; on replay no backend is live, so it leaves a rejection in
the memo. `CrashWhileCommitting` and `CrashWhileRecovering` stop the process at any point of a commit
and of a replay. While the process is down `queues` keeps the acknowledged state, against which the
recovered one is compared; `recoverable` and `disturbed` are history variables.

**Coordinator.** `pc`, `cursor` and `frames` are where `run_once` stands: in `accept`, at a
connection of the vector (`service`) or in its frame loop (`decode`). Every message handler is an
action, and every one that replies ends in `Reply`, since a failed reply is what closes a connection
in the middle of its frames. A peer is a process (node, incarnation, the epoch it was started with)
and a process may linger beside its successor. The steps of the peers are taken when the coordinator
looks at their sockets, which is when they begin to matter: the frames in a socket are chosen by
`Receive`, and a process dies (`Leave`) just before it is served. Of a sample the model keeps what
makes the fabric take it (epoch, incarnation, sequence) and the connection it came over
(`evidence`); what the fabric makes of it beyond that is in `Governance`, and of a repeated one in
`Attempts`. The principal of the coordinator, the owner of the resource, is taken to hold the
administrative capability, which `invalidate_evidence` needs and which passes fences and terminal
states. A mutation frame that is itself an `ingest_occupancy` (`coordinator.cpp:230`,
`fabric_kinds.cpp:179`) is taken as one that sets no evidence: it notes its queue as a batch does,
under the same limit, and what the properties say of a batch goes for it too. `newest` and the flag `escaped` are history.

**FrameDecoder.** The stream is a sequence of cells, one per header field and payload byte; the
checksum is ideal (no two contents share one), so the properties are those of the framing and not of
CRC-32C. `next` leaves `offset_` at 0, so the buffer is what `buffered()` counts. The reader is the
loop both ends have: receive, `push`, then `next` until it has no frame (`NextNotFound`) or the
reader has enough (`decoding` ends after any `NextFrame`), which in the coordinator is
`max_frames_per_cycle` and in the worker the message it waits for. In either case `next` is not
called again before more has been received.

**WorkerClient.** One call at a time, `await` step by step: what is in the decoder is looked at only
after more has been received, a message of the expected type ends the call, an error message ends
any. Calls are numbered so that an answer can be told from that of another call; the code does not
compare them.

## 3. Runs

| Run | Module | Result |
|---|---|---|
| `evidence` | `MCGovernance` | pass: fresh evidence is of the current generation and, under an exact class binding, of the current epoch; no overflow goes unreported |
| `drain` | `MCGovernance` | pass: quiescence only on current proof; acknowledgements, retirement and drain state consistent; implements `QueueLifecycle` |
| `fence` | `MCGovernance` | pass: fence record and flag agree, tokens are distinct over failed commits and restarts, no operation moves a fenced queue |
| `attempts` | `Attempts` | pass: at most one effect per act and life, sound and bounded memo, pending list mirrors the reservations |
| `recovery` | `MCRecovery` | pass: an undisturbed journal replays to exactly the acknowledged queues; epochs strictly increase over restarts from files damaged at most by their last crash |
| `coordinator` | `Coordinator` | pass: what a closed connection published is distrusted; a sample is believed only if it is the newest of its node, over supersession, epochs and restarts |
| `liveness` | `Coordinator` | pass: every cycle ends; evidence that stays trusted for ever is of a connection that is heard from for ever |
| `frames` | `FrameDecoder` | pass: a prefix of what was sent, in order, up to the damage; legal streams are accepted by a reader that drains its decoder, and arrive unless the peer stops behind frames that were left in it |
| `worker` | `WorkerClient` | pass: a call gets its own answer until an error message ended one, always that of its own connection; the epoch never goes back; every call returns |
| `lost_evidence` | `Coordinator` | violation: a sample decoded after its connection was closed is trusted for good |
| `misattributed_response` | `WorkerClient` | violation: a mutation the coordinator refused is reported as applied |
| `lost_quiescence` | `Recovery` | violation: a quiesced or retired queue is draining after a restart |

The violations are disagreements between the code and what its README, comments or tests say;
`PROJECT.json` quotes both sides under `findings`. Each was also reproduced against the library with
a short program.

- `lost_evidence`: a worker sends a request that is answered and an occupancy batch behind it, and
  goes. The reply fails, `handle_disconnect` invalidates and closes, and the frame loop of
  `run_once` goes on to the batch, which the fabric takes as fresh. `closing` is set, so nothing
  invalidates it later. `LossDistrusted` holds because it leaves out the samples that `escaped` in
  this way, or because the connection had `kMaxSubscribeQueues` queues already.
- `misattributed_response`: after an epoch advance the heartbeat of a worker is answered with an
  error message, which ends the mutation call that happens to wait. The response to that mutation is
  still on its way and answers the next one. `AnswersOwnCall` holds up to the first such error on a
  connection (`skewed`).
- `lost_quiescence`: `quiesce_queue` is durable, the evidence it rests on is dynamic and not
  journalled, so the replay of the quiescence is refused and a retirement after it as well. The test
  `retired_queues_stay_retired_across_restart` retires a queue that was never active.

### Other disagreements

`RestoresAlways` is `RestoresCommitted` without its condition on the history of the journal. The
run above fails it through a quiescence; with other constants in its cfg it fails as well through

- a torn tail (`TornWrites = TRUE`, two names and queues, `MaxAttempt` and `MaxEpoch` 3, workload
  `declare_queue`, `fence_queue`): replay appends behind the tail and moves the valid prefix to the
  end of the file (`file_journal.cpp:317-319`), so `truncate_to_valid_prefix` finds nothing to cut
  (`file_journal.cpp:364`). That restart is complete, but what is committed after it lies behind the
  torn bytes, and the next `open` drops it (or refuses the file), although README.md:95 says that "a
  torn tail is dropped";
- a class declared again (`MaxIncidents = 1`, `MaxGeneration = 2`, workload `declare_queue`,
  `declare_class`): the declaration of a queue is replayed against the newer class and refused
  (`fabric_recovery.cpp:173`);
- a failed sync (`SyncFaults = TRUE`, `MaxIncidents = 1`, workload `declare_queue`, `fence_queue`):
  `journal_commit_locked` leaves its records in the file (`fabric_kinds.cpp:485`) and a restart
  applies the refused mutation, although README.md:83-84 says it "leaves no partial effect".

More were found while modelling and are stated here only:

- "Restart always advances the coordinator epoch" (README.md:100): not after such a torn tail. An
  epoch advanced to behind it is lost with the next restart, which publishes the same epoch again
  (commit, torn crash, recover, `advance_epoch`, crash, recover); nor when the record of the epoch has
  decayed. `RestartAdvancesEpoch` says which files it takes (`TornTailOnly`), and fails without;
- "Mid-file corruption is refused outright" (README.md:95-96): a record inside the file whose length
  field is damaged counts as truncated when the length is out of range or leads past the end
  (`file_journal.cpp:248-253`), or makes the look-ahead miss the next record (258-276), and of two
  damaged records in a row the second hides the rest. `open` then accepts the prefix and everything
  behind is dropped;
- frames left in the decoder at `max_frames_per_cycle` (`coordinator.cpp:398`) are not looked at until
  the socket is readable again (380): a peer that sends more than that many frames in one segment and
  then waits for its answers waits for ever, unless its deadline passes. `Arrives` leaves out exactly
  this state (`Stalled`). And when it does send more, what was left counts against the bound of the
  decoder (`frame.cpp:70`), which may disconnect a peer that has kept to every limit (`held`);
- declaring a class again after an epoch advance overwrites the sticky reason `stale_epoch` of the
  bound queues with `stale_generation` (`fabric.cpp:430`), and the next refresh reports the
  superseded observation fresh; the invariant `EvidenceBound` of the proofs shows that this is the
  only way;
- activating a quiesced queue leaves a completed drain behind (`fabric_kinds.cpp:93`), which
  `validate_invariants` reports as INV-DRAIN (`fabric_invariants.cpp:102-107`); `QuiesceProven` shows
  that it is never taken for proof;
- an attempt reused with other content overwrites the memo entry of the applied attempt with the
  rejection (`fabric_apply.cpp:276`), so a repeat of the original is refused, although README.md:65-66
  says that it "returns the original outcome".

`RestoresCommitted` holds under conditions that are part of its statement, and each is needed:

- since the last compaction no sync failed, no class was declared again and no grant revoked
  after a commit, no queue was quiesced on evidence, no record decayed, and no recovery appended its
  replay behind a torn tail (`disturbed`). The torn tail itself is no exception: the restart that
  finds it restores everything;
- the file has room for its own replay (`HasRoom`), since replay appends every commit again;
- a recovery that was itself interrupted found at most as many commits per queue as the memo
  holds (`MemoCovers`). Otherwise part of the history is in the file twice and an attempt the
  memo has evicted is applied again after a newer one: `fence`, `unfence` replayed with the
  first of them appended again leaves the queue fenced.

### Bounds

Every bound is a constant and shows up in a guard.

- `evidence`: one queue, two publisher lives, three epochs, two generations, clock up to 2 with
  `MaxAge` 1 and `MaxSkew` 1, levels 1 and 2 against maxima 0 and 1, so that
  a level is below, at and above a maximum. Enough for evidence to be
  observed, aged, superseded by each of generation, class, epoch, backend loss and restart, and
  refreshed after any of them.
- `drain`: one queue and one backend that can die and whose life ends at a restart, two epochs
  and samples; evidence with absent or present backend and epoch, true or false reports. Enough
  for two drains, so that what a first one leaves behind meets a second.
- `fence`: two queues, because token uniqueness is between queues; two principals, one with the
  right to fence only; syncs may fail.
- `attempts`: a memo of one entry with two sequence numbers, so that eviction happens; two
  incarnations, two reservations, two lives. One publisher, because a tracker entry and an
  attempt never mention another publisher.
- `recovery`: two queues, three mutations, two restarts, a memo of one entry and a file of 37
  units: room for two mutations and their replay in two restarts, which is what it takes for a
  re-journalled history to be replayed, while three mutations fill it up at the second. `MaxIncidents` bounds failed syncs, decays, interrupted
  recoveries, resource changes and epoch advances together at two, so that any two of them meet in
  one history; crashes, torn or not, are bounded by the epochs only. The kinds of the workload are
  one that declares, one that advances the generation and one that only leaves a marker; the names
  are symmetric. 3.9 million distinct states. A kind that moves the lifecycle takes the same path as
  one that advances the generation, and with `retire_queue` in the workload as well the run passes
  too (7.2 million states); the one that replays differently is `quiesce_queue`, in `lost_quiescence`.
- `coordinator`: one node with two processes, two connections, two frames per cycle and per burst,
  two epochs. Two connections of one node are what supersession is about; nodes share nothing but
  the queue, whose evidence the last writer owns.
- `liveness`: one frame per cycle and per burst but every kind of frame, both roles, two queues
  against a subscription limit of one, and sequence numbers to tell a new sample from a repeat.
- `frames`: four frames of up to one payload cell in a decoder for payloads of six, receive buffers
  of up to six cells, so that a chunk can hold a frame and the beginning of the next and the reader
  stop between them, and that frames left behind can both overrun the bound and be decoded later;
  any one cell damaged to any value.
- `worker`: three calls on two connections and two epochs, two messages in flight each way: two
  calls for an answer to go astray, a third after the reconnection.

`Workload` names the operations a run performs; between them the passing runs perform all of
them. Deadlock is not checked because the environment may stop calling, and a fabric that is
shut down, or refused by recovery, has nothing left to do.

### Fairness

The fabric itself has no thread or timer: it acts only when it is called, nothing in the repository
makes a caller come back (`refresh_freshness` is not scheduled by anything), and no liveness is
claimed for `Governance`, `Attempts` and `Recovery`. The others have a loop of their own:

- `Coordinator`: weak fairness of `RunOnce`, because the program calls `run_once(20)` until the
  server is stopped (`tools/qf_coordinator_main.cpp:222-244`) and every step of it but `send`
  returns; and of `Tick`, because time passes. None of the peers, which may stop at any point.
  `LossDetected` needs both: without the clock no deadline expires.
- `FrameDecoder`: weak fairness of `Decode`, the loop of `run_once`, which is called again and again
  and receives whenever the socket is readable. `next` is only called after a `push`, so that nothing
  obliges the reader to return to frames it has left: this is the state `Stalled`, which `Arrives`
  leaves out. The worker reads only while a call waits; for it the property says what happens as long
  as calls are made.
- `WorkerClient`: weak fairness of `Await`, a blocking read in a loop, and of `Handle`, since the
  coordinator serves each connection in each cycle. None of the client's program.

## 4. Proofs

`GovernanceProofs` proves, for every value of the constants that satisfies
`ConstantsAssumption` (sets of positive naturals, natural bounds, well-typed evidence), the
invariants `TypeOK`, `FenceConsistent`, `FenceTokensDistinct`, `FreshEvidence`,
`OverflowReported`, `AckBound`, `RetiredBare`, `DrainInProgress` and the action properties
`QuiesceProven` and `FencedFrozen` (of every operation; the step of a restart itself is not part of
the latter, see Governance above). `LifecycleProofs` proves that `Governance` implements
`QueueLifecycle`.

The argument is one inductive invariant `IInv`, preserved by every action (lemma `Inductive`,
one step per action, one per conjunct the action can disturb). Beside the properties it has:

- `UndeclaredBare`: a queue that is not declared yet has neither evidence nor an
  acknowledgement, so that declaring it starts from nothing;
- `BindingKnown`: a definition names a class of the resource and a generation not above the
  current one, so that declaring the class again makes every binding to it inexact;
- `EvidenceBound`: evidence is never of a later generation than its queue, is of the queue's own
  generation when it is fresh, and when it could become fresh again (its staleness is not
  sticky, its generation is the queue's) is of the current epoch unless the queue's class
  binding is inexact. This is the
  strengthening behind `FreshEvidence`, which alone is not inductive: `refresh_freshness` can
  turn stale evidence fresh. It also shows exactly how far the revival
  of superseded evidence (Other disagreements) reaches: only queues whose class was declared again;
- `TokensBounded`: no queue holds a token above the counter, over the rebuilding of the counter
  at a restart;
- `AckHeld`: `AckBound`, and an acknowledgement never names incarnation 0 (a backend that was
  never registered), so that registering a backend cannot disturb an acknowledgement;
- `OverflowRecorded`: the form of `OverflowReported` that also covers evidence that is stale and
  may become fresh.

`QuiesceProven` rests on `DrainInProgress` (otherwise `assess_drain` would accept a completed
drain without proof), `FencedFrozen` on `FenceConsistent` (the code tests the flag, the property
is about the record).

**Attempts** (`AttemptsProofs`, from `AttemptsAssumption` and `MemoAssumption`: the bounds are
natural numbers). Proved: `TypeOK`, `AtMostOnce`, `MemoSound`, `MemoBounded`, `PendingMirrorsPlans`.
`AtMostOnce` does not follow from the memo, which forgets: the invariant adds `TrackerCovers` (every
identity accepted in this life is at or below what the provenance tracker has of its publisher, so
an evicted attempt that is repeated is refused as stale). `PendingMirrorsPlans` needs
`ReservedOnce`: no two plans share an attempt and none is pending twice, so that removing an attempt
from the list when its plan ends removes exactly that one.

**Recovery** (`RecoveryProofs`, from `RecoveryAssumption`, `JournalAssumption` and
`MemoAssumption`: natural bounds, at least one epoch and one generation). Proved, for every value of
the constants, torn writes included: `TypeOK` and `RestartAdvancesEpoch`. The workload is any, so
that syncs fail, the process dies, recoveries are interrupted and records decay in any order. The
invariant adds to the types

- `AllSynced`: what a dead process has left in the file is all on the medium;
- `EpochKept`: as long as the file is intact (`Intact`: no damage but a torn record at its end), both
  the header and the header on stable storage, or a synced epoch record, are not before the epoch of
  the fabric. `RestartAdvancesEpoch` alone is not inductive: the header is written without a sync and
  only by a recovery, so that after `advance_epoch` only the record tells of the epoch, after
  `compact` only the first record of the snapshot, and after a recovery that died only whichever of
  them the crash left. A torn record is the one being written, never a synced one, so a tear hides no
  epoch that was published (`CrashLeaves`); once a replay lies behind it the file is not intact any
  more, and nothing is claimed of it until a compaction.

`Grows` is what appends and syncs do to a journal; it is reflexive and transitive, keeps a file whole
and keeps an epoch published (`GrowsKeeps`), as a crash does (`CrashLeaves`). That a replay only
makes the journal grow and the queues queues is an induction over the commits (`ReplayedType`), that
the scan finds records of the right type one over the records (`OfTypeType`).

**Coordinator** (`CoordinatorProofs`, from the assumption of the module). Proved: `TypeOK`,
`LossDistrusted`, `NewestWins`, for any number of nodes, connections, frames per cycle and epochs.
The invariant is

- `VectorSound`, `LoopSound`: the vector holds accepted sockets, each once, and `run_once` stands
  where its `pc` says, with a frame to decode when it decodes; that erasing closed connections keeps
  the others, once each, is an induction over the vector (`RemainingKeeps`);
- `ConnectionsSound` and `PeersKnown`: only connections of the vector are open, their decoders keep
  to their bound, and a socket in use leads to a process that was started;
- `Noted`, the strengthening behind `LossDistrusted`: a trusted sample that has not escaped came
  over a connection that is still open and has noted its queue. Every place that closes a connection
  must therefore distrust what it noted, and every place that takes a sample must note it;
- `EpochsOrdered` and `NewestKnown`, behind `NewestWins`: the newest sample of a node is not ahead of
  the provenance tracker, or is of an epoch that is over.

**WorkerClient** (`WorkerClientProofs`). Proved: `TypeOK`, `AnswersOwnCall`,
`AnswersThisConnection`, `EpochFollows`. The invariant is about `Pipe`, what the decoder holds
followed by what is on its way: `EpochsInOrder` (epochs in it never descend and none is below the
one the client reports), `ThisConnection` (it holds nothing of an earlier connection, since connecting
resets the decoder), `OneOutstanding` (as long as no error message has ended a call, either the request
of the call in progress or its answer is under way, once, and no other). The last is what the client
relies on without checking it.

**FrameDecoder** (`FrameDecoderProofs`, from `FrameAssumption`). Proved: `TypeOK`, `DeliversPrefix`,
`LegalAccepted`, for any number of frames, any payload length and any chunk size. The invariant says
where the decoder stands: `Located` (the frames delivered are the first that were sent, the cells in
flight and the damage lie ahead) and `Faithful` (until the decoder fails, the buffer followed by the
wire is the rest of the stream, except for the damaged cell). The main lemmas are

- `StreamNext` and `StreamAppend`: the stream of the first frames is a prefix of the stream, and the
  cells of the next frame follow it (induction over the frames);
- `CrcGrows`, `CrcLarge`: contents that agree up to one cell have different checksums, also when the
  cell is the length and the contents are therefore of different lengths (induction over the cells);
- `DamageDetected`: with a damaged cell anywhere in it, be it magic, version, type, length, checksum
  or payload, a frame fails a check of `next`; `FrameRecognised`: without one it passes them all and
  is the frame that was encoded.

**Induction.** The induction theorems of the library take a predicate, which the provers cannot
instantiate; `SetInduction` takes a set of numbers instead, which they can. It follows from the
well-foundedness of `<`. `RecursionDefines` then shows that a recursively defined function over
`1..n` exists, which is what is needed to compute with `crc32c`, `Stream`, `Remaining`, `OfType` and `Replayed`.

**Only model-checked.** `RestoresCommitted`: it compares the queues before a crash with those the
replay computes, which takes an induction over the history of the journal, with a state for each of
its prefixes and each way it was compacted or replayed before. And liveness under fairness, which is
out of the prover's reach: `CyclesEnd`, `LossDetected`, `Arrives` and `CallReturns`.

## 5. Not modelled

Byte encodings (straight-line code, served by the round-trip tests); child processes, address
resolution and socket options; queries, statistics, events and explanations (read-only); more than
one resource (resources share only the fabric-wide counters and the journal); failure of a sync
during recovery itself, which makes the replayed commit a rejection for that life; the directory
entry of a compacted file, whose durability after `rename` is left to the file system; a torn
header, taken to be written in one piece.

On the wire: a `send` that blocks because a peer does not read, which stops the coordinator for
everyone (`transport.cpp:213` has no timeout); connections that never say hello, which have no
deadline (`coordinator.cpp:430`) and hold one of the `max_connections` places for as long as their
socket stays open; a sample repeated over another connection, which notes its queue there too and so
only adds to what is distrusted.

## 6. Plan

1. `RestoresCommitted` for every value of the constants, first without compaction and interrupted
   recoveries: the durable view of the queues is what the replay of the journal's prefix gives, and
   each commit extends both in the same way.
2. Threshold evaluation and policy layering as operators against a reference definition.
3. The coordinator and the client composed over the decoder, in place of whole frames.
