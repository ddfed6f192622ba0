# synctick in TLA+

synctick runs one deterministic simulation on several machines in lockstep. One
*authority* (a listen host or a dedicated server) orders the players' commands into
numbered ticks; every *replica* applies the same ticks; hashes of the state, sent back
at intervals, reveal a replica whose simulation went another way. This directory
specifies that protocol and what surrounds it — the save a session starts from and the
recording it leaves, the handle and the Bevy slot that own a session, the tick contract
with a game, the codec — in TLA+, checks small instances with TLC and proves with TLAPS,
for every value of the constants, the safety properties of the live phase, the startup
phase, the recording, the session handle, the Bevy slot, the tick contract, the two example
games, the framework's messages and the pacer.

    tlc -config LiveDisconnect.cfg MCLiveSession      # any *.cfg, with its module
    tlapm LiveSessionProofs.tla                       # the proofs

`PROJECT.json` is the index: components, runs, the lines of code behind every
definition, the mutants, the hazards and the theorems. Paths below are relative to
`src/crates/synctick/src/` unless they say otherwise.

## 1. Inventory

| Component | Code | State | Operations | What is hard | Correct when | Status |
|---|---|---|---|---|---|---|
| Authority tick loop | run_server.rs 283–490 | tick, inputs being collected, retained hashes, verified tick per client, recording, renet connections | network events, collect inputs, check reports, append, broadcast, apply, hash, flush, send | several clients and the host interleave with it; connections end at any step; a step can fail after others took effect | nobody receives what is not recorded; only a diverged client is punished, and it is, in time; commands keep their order | LiveSession |
| Live replica | run_client.rs 110–197, simulation.rs | replica, tick, mode | submit, apply a tick, report a hash, leave | lags arbitrarily; may diverge | is a prefix of the authority's log; never has to refuse a tick | LiveSession |
| Startup transfer | startup.rs | per peer: phase, offset, received, outstanding window, replayed, last progress; per client: phase, bytes, replayed | pump, receive, time out; receive_save, step, start | two flow controls at once (transport acknowledgements and consumption), batches of replay, timeout racing a report | the receiver's memory is bounded, honest peers are never refused, no window stays closed | Startup |
| Startup barrier | run_server.rs 209–281, run_client.rs 37–158 | map of peers, connections | connect, disconnect, serve, count, start | peers leave, return under the same id and are replaced between getting ready and being counted | Start is sent to a full roster of ready processes, and only then | Startup |
| Recording and resume | replay.rs, run_server.rs 46–172, api.rs 441–467 | files, reader position, writer's buffer, header in force | create, load, mirror, serve, append, flush, resume, replay | crash between appends and flush, torn tail, cancellation half way, a file that grows between two reads | a file that is read to its end holds the history its session went through | Recording |
| Session worker and handle | session.rs, api.rs 140–439 | cancel flag, status, join handle, result, command queue | spawn, poll, join, cancel, submit, shutdown, drop | worker, owner and submitting threads read and write the same flag, status and queue | accepted commands are kept in order; the reported end is the real one | SessionWorker, Lifecycle |
| Bevy session slot | synctick-bevy/src/session.rs | slot, retained result, generation, resources | attach, detach, observe, guard, cancel_on_exit | resources follow the slot a frame late; a join holds the mutex | the frame shows the slot's session; nothing outlives guard and App | BevySession |
| Game adapter, Bevy adapter | api.rs, simulation.rs, synctick-bevy/src/simulation.rs | world, effects, tick, published snapshot | create, advance, publish, finish_tick | a tick may fail at any of its parts, and be read by another thread | nothing of a tick stays behind; snapshots are of one tick | GameTick |
| Wallet, Power Garden | src/examples | balances; board and cached connectivity | transfer; rotate | overflow; cache coherence | total conserved; cache equals recomputation | Wallet, Garden |
| Pacer | pacer.rs | next deadline | sleep | catch-up after a stall | never early, bounded catch-up | Pacer |
| Codec, hashing, derive macros | codec.rs, hashing.rs, synctick-derive | none | validate, decode, encode, hash_into | two passes and two budgets; boundaries between fields | bytes and values correspond; the passes agree | Codec |
| Protocol messages | protocol.rs | none | decoders of the five envelopes | untrusted lengths | the same | Envelopes, Messages |

**How they interact.** The application owns a `SessionHandle`; the worker thread runs
`run_server` or `run_client`. Authority and clients exchange messages over three
reliable ordered renet channels per connection: `SAVE` (the recording so far, authority
to client), `LOCKSTEP` (startup messages and commands one way, Start and ticks the
other) and `DESYNC` (state hashes). The startup phase (module Startup) ends when the
authority broadcasts Start and follows a client until it has read Start and the first
ticks sent after it; the live phase (module LiveSession) begins at the broadcast: its
clients are the released peers, and `mode = "live"` with `conn = "up"` covers the time
in which Start is still on its way. Before it, run_server loads a save, mirrors it into
the new recording and replays it, and reads it once more to serve it (module Recording,
which also has the ticks recorded live). The simulation both sides drive is a game behind
an `Adapter` (GameTick). The worker shares a `SessionControl` with the handle and a
bounded queue with the command senders (SessionWorker); a Bevy application keeps the
handle in a slot that a controller fills and empties (BevySession).

**Hazards.** `PROJECT.json` lists each at its line with the properties about it.

## 2. Modules

| Module | Role |
|---|---|
| `LiveSession` | tick loop, channels and replicas in the live phase; its properties and the inductive invariant |
| `MCLiveSession` | what TLC needs besides, and the refinement mapping to Sequencer |
| `Sequencer` | the abstract promise: an order, views of it, confirmations |
| `LiveSessionProofs` | theorems about LiveSession: replicas and reports, its recording, the order of commands, and that it implements Sequencer |
| `Startup` | wait_for_clients, StartupPeer and ClientStartup, Start and the first ticks after it |
| `MCStartup` | the sizes of the messages of a save, for TLC |
| `StartupProofs` | theorems about Startup |
| `Recording` | the file format, run_server around the file, the reader; sessions one after another over the same files |
| `MCRecording` | the files found at first: complete, torn, with a gap, of another game |
| `RecordingProofs` | theorems about Recording |
| `SessionWorker` | worker thread, SessionControl, handle and command senders |
| `Lifecycle` | the abstract promise of a session handle |
| `BevySession` | the slot, the guard, the frames and the App, over SessionWorker's sessions |
| `SessionProofs` | theorems about SessionWorker, among them that it implements Lifecycle, and about BevySession |
| `GameTick` | the tick contract between driver, adapter, game and presentation, with the game a parameter |
| `Wallet`, `Garden` | the rules of the two example games |
| `WalletGame` | the wallet under the contract: its worlds, its commands and what it promises, written independently of its rules |
| `GardenGame` | what Power Garden promises, as reachability on the board |
| `MCGames` | the two games under the contract, with the setups and ticks for TLC |
| `GameTickProofs` | theorems about the contract, for every game, and about the two that are played |
| `Sums` | no part of a model: lemmas on sums over finite sets, used by StartupProofs and GameTickProofs, on least and greatest elements, and induction up to a number |
| `Codec` | Encoder and Decoder over every shape the derive produces; the hashed byte stream |
| `MCCodec` | Messages with, at every state, the payload codec over a schema with a type of every shape |
| `Envelopes` | the framework's own messages: their bytes and their two-pass decoders |
| `Messages` | the decoders over all byte strings, and what they promise |
| `MessagesProofs` | theorems about Messages |
| `Pacer` | sleep_until_next, and its theorem |

Operators commented *Mutant* are no part of a model. Each is the form a plausible bug
would give the definition below it; substituting it must violate the property that
`PROJECT.json` pairs it with, which shows that the property depends on the code and
that the instance is large enough to notice.

### LiveSession and the code

The variables `pc, unserved, active, inputs` are the position in `tick_loop` and its
locals. One iteration is `network → serve (inputs → reports, per client) → local →
commit → seal → send`; between any two of these steps clients act, messages arrive and
the application cancels. That is finer than needed for the authority's own steps and
exactly as fine as needed for what other threads and machines can observe.

| Actions | Code |
|---|---|
| `UpdateNetwork`, `NetworkFails`, `Cancelled` | 333–343 with update_network: lost connections, late connections, the closed ones removed; errors and cancellation |
| `BeginClient`, `ReceiveInput`, `InputsDrained` | 347–372: one message at a time from the client being served |
| `ReceiveReport`, `ReportsDrained` | handle_hash_report, verify_hash; enforce_verification_deadline |
| `DrainLocal`, `LocalDrained` | drain_local and the host's commands, at most 256 an iteration |
| `CommitTick`, `AppendFails`, `AdvanceFails`, `TickExhausted` | 400–412 in the code's order: append, broadcast, advance |
| `SealTick`, `FlushFails` | 413–419: hash, retention, flush |
| `SendPackets` | 420–422: the broadcast leaves the renet queues |
| `Submit`, `ReceiveTick`, `LeaveSession`, `RequestCancel` | forward_inputs; apply_tick with validate_tick and advance_tick; the end of a client; SessionControl::cancel |

What is abstracted, and why it does not matter to the properties:

- A simulation state is the sequence of ticks it was computed from, and a hash is the
  state. Equal states hash equally; that unequal ones might collide in 64 bits is left
  out. A nondeterministic simulation (a client in `Faulty`) may produce `Corrupt` once
  or more; its state differs from then on.
- Payload bytes are a budget of inputs per tick, `TickBudget`. account_input is
  conservative, so the later check of the encoded length never decides; it is subsumed.
- A connection of an id that is not tracked, a former client's or a stranger's, is
  closed as late; the client process that asked for it stays without ticks. Its
  `replica` keeps what the former process had, which no property of a joining client
  reads.
- A failed append may leave part of a record behind; that torn tail belongs to the
  recording module. When publishing or advancing fails, the session ends with the log
  of the ticks whose advance_tick completed.
- `InputDisconnected` cannot happen through the public interface: the handle keeps a
  sender until it joined the worker.
- A message can be seen in the iteration in which it arrived. The code collects packets
  once per iteration; the model allows more behaviours than that.

### Startup and the code

`pc, active, todo` are the position in wait_for_clients: connection events in
`network`, then `Pump(c)`, `Receive(c)` per message and `PeerServed(c)` for each peer,
then `Count`. A client goes round `save → step → lockstep` (run_client.rs 62–139) with
one action per message it takes from a channel, so that what has arrived may be any
part of what was sent.

- The save is `Chunks` chunks after a Begin (message 0); offsets count chunks and
  `Memory` gives what each message costs the receiver (receive_memory). `SendLimit` is
  the sending channel's capacity, in messages, released by `Acknowledged`; the
  receiver's share, `MaxMemory`, is released only by what the client reports. That
  these are two different things is the point of the module.
- A batch of replay advances to any later tick, or not at all when its 5 ms are over
  at once. Its throttled progress report is sent or not: the one-second clock is a
  choice.
- `outstanding` is a deque in the code, always ascending; here it is the set of the messages
  in it.
- A client in `Faulty` may end in another state than declared (damaged bytes, a refused
  header, a nondeterministic simulation); its own startup then fails.
- `idle` counts the time since a peer's last progress up to `Patience`. Time passes for
  all peers at once and between any two steps.
- The clients run this code: malformed messages and Desync messages before Start
  (run_server.rs 252–254) do not occur. The session's acceptance conditions are all
  there; `NobodyRefused` shows that no interleaving of honest parties trips them.
- netcode's own limit on connections is not relied on: the authority's check of the
  number of peers is modelled.
- Of the live phase there is what Start and the ticks have in common: `BroadcastTick` sends
  to whoever is connected, as broadcast_message does, and `ReceiveTick` is the client's arm
  for ticks, which refuses one that arrives before Start. What a tick contains, and what else
  the two do from then on, is LiveSession.

### Recording and the code

`pc` is where run_server is: `idle`, loading (one `ReplayRecord` per record, mirrored by
`AppendRecord` as replay_batch does), serving, live, ended. `EndSession` is the code after
the worker's result, which flushes what can still be flushed; `Crash` loses the buffer.
`Spill` is BufWriter writing out what it holds whenever it likes. The reader side —
`ReplayReader` and the `replay` command — runs over the same files, so a session's
recording is next session's save.

- A file is a sequence of cells, two for the header and two for each record. A crash can
  therefore cut inside either; more cells per record would add no other case to
  `next_record`, which distinguishes an end at a record's boundary from any other.
- Another process may append to the loaded file (`OtherRecorder`, twice at most): this is
  what makes the second read (`ServeSave`) differ from the first.
- A record's hash and the simulation's state are the sequence of records applied.

### SessionWorker, BevySession and the code

SessionWorker has the parts several threads share. The worker's loop is reduced to what
shows here: `Prepare` (statuses before Start), `GoLive`, `Drain`, and its three ends
`SeeCancel`, `Fail`, `Panic`. `submit` is three steps, `CheckFlag`, `CheckLive` and
`Send`, as it is in the code: it reads the flag, then the status, then uses the queue. `Join` publishes the end and
keeps the result; `Poll`, `CallJoin`/`Joined` and `CallShutdown` are the ways to reach it.

BevySession adds `Attach`, `Detach` and the guard's operations, which hold the slot's
mutex while they join (`lock`, `EndShutdown`); `Observe` reads the slot at the start of a
frame and `ApplyDeferred` inserts or removes the resources through Bevy's command buffer,
so a frame may run with those of the session before. `CancelOnExit`, `DropApp`,
`DropUnattached` and `FinishDrop` are the ends. `Install` is the plugin's construction
around a handle or none. In this composition a session's callers are left out: what they
may do is the subject of SessionWorker.

### GameTick, Wallet, Garden and the code

`Initialize`, `Advance`, `Publish`, `Finish` and `Refuse` are advance_tick's parts in its
order, with `failed` recording which of them did not succeed; `GoLive` is the first
publication, `Animate` the presentation's frame, which runs on another thread and loads
whatever snapshot is there. A game is `Create` (its validation included) and `Rule` (one
command); a `Hosted` game keeps commands and effects in a Bevy world until finish_tick.
Wallet computes with integers up to `MaxU` (u64's largest in the code) and `CheckedAdd`;
Garden keeps `powered` as the code does, recomputed by a breadth-first search: `Visited` is a
turn of connectivity's outer loop, `Enqueued` one of its inner loop, and `Flood` takes as many
turns as there are cells (a turn with an empty queue does nothing). `WalletGame` and
`GardenGame` state what the games promise in other terms: true integers; and the cells within
so many steps from the source along pairs of tiles that face each other, by coordinates.
TLC's board has a side of 3 instead of 5.

### Codec, Envelopes and the code

In both, bytes are digits to a base (4 for TLC), and a reader is a record: what is left, what
has been reserved, whether it got here, the last value. In `Codec`, `Validate` is the first
pass and `Decode` the second; a count takes one digit, UTF-8 is the absence of one digit.
`Stream` is what `hash_into` feeds to the fingerprint, without the fields of structs and
variants that are marked to be skipped (`Kept`); FNV-1a's arithmetic is left out. What it must
tell apart is stated in `MCCodec` on the values themselves (`Same`).
`Codec` uses recursive operators, for its types are, and nothing is proved about it.

`Envelopes` has the decoders of protocol.rs: `Cursor` with its `pass` for `materialize`,
`Scalar`, `Length`, `Payload` and `TickAdvance` for its methods, `ClientMessage`,
`ServerMessage`, `SaveMessage` for the closures given to `validated`, `Pass` for a turn of its
loop, `Opened` for the whole. A `?` is the test of `Ok`, `made` counts what try_reserve_exact
was asked for. `CommandsOf` is the loop over the commands of a tick. A body of several fields
is read by operators named for what was read so far (`TickHashAfter`). bincode's encoding is
external: its variable-length integers have two widths for five, and its decoder accepts the
longer one for a small integer too. `Messages` is a state machine only so that TLC may
enumerate the bytes: any string, one byte more at a time. `MCCodec` extends it and reads the
same bytes as values of its schema, by an instance of `Codec` of its own (`Payloads`).

### Pacer and the code

`Work(d)` is an iteration of the loop that takes `d`; then exactly one of `Sleep`,
`CatchUp`, `Restart` is sleep_until_next. `caughtUp` and `spent` are histories: the
scheduled time made up for since the loop last waited, and the time the work took.

## 3. Runs

| Run | Question | States |
|---|---|---|
| live_disconnect | Are exactly the diverged clients punished, in time; is nobody sent a tick to refuse? Two clients, one faulty, `Disconnect` | 0.56 M |
| live_commands | Order, loss and budget of commands of the host and a client, valid and invalid; recorded before seen; all of it a behaviour of Sequencer | 2.4 M |
| live_progress | Does the loop go on, and does every tick sent arrive? `FailFast`, one client faulty | 0.17 M |
| startup_barrier | What holds of the roster when Start is sent; window accounting; two expected, timeouts and reconnections | 3.5 M |
| startup_timeout | Does a straggler leave whatever clients do? Two clients for one place | 0.71 M |
| startup_live | Is no honest message refused and does every startup come to an end? | 12 k |
| recording | Is what a reader takes for the whole of a recording what its session went through, over two sessions and three files? | 1.0 M |
| session_handle | What do an accepted command and a reported end mean; does the handle keep Lifecycle's promise; does shutdown return? | 26 k |
| bevy_session | Do frames follow the slot, is what left it over, does an App that exits end its session? Two sessions | 0.65 M |
| games | Is every snapshot the promised state, is nothing left between ticks, is nothing animated twice, is money conserved? | 84 k |
| codec | Do bytes and values correspond, for payloads and for messages; does no message begin another, do the passes agree, do hashes tell values apart? | 437 k |
| pacer | Is no tick early and the catch-up bounded? | 216 k |

Every run is expected to pass. Each property is stated in words where it is defined and
has a mutant that breaks it. Some join parts that are used apart elsewhere:
`RecordingSound` is `NothingUnrecorded` (what is sent is recorded), `TicksWithinBudget`
and `LossIsBounded`; the parts of the type invariant that say no send channel overflows
are in `Startup!TypeOK`; `Paced` is `NeverEarly` and `CatchUpBounded`; `Unambiguous` is
`OneMeaning` and `Delimited`. The type invariants of Recording and SessionWorker say nothing
but types and are left to their theorems.

**Bounds.**
- *Live.* `MaxTick` is the largest value of the tick counter, which the code checks
  (`checked_add`). The instances have two to four ticks beyond `StartTick`, with a window
  (`Interval * HistoryIntervals`) of 1 tick: a client can fall behind by more than a
  window, be overtaken by the deadline and be pruned from `hashes`. The real window, 10
  intervals, enters nothing but that comparison. `MaxSubmits` 2 for each of two
  participants with a budget of 2 inputs and a local batch of 1 fills a tick and
  overflows it, from either side. Two clients are what it takes for one to be served,
  dropped or cut off while another is elsewhere in its own cycle; no action relates more
  than one client to the authority.
- *Startup.* `MaxQueued` 2: a tick is sent while Start, alone or with another tick, is
  still on its way. `Chunks` is 4, 2 or 1 and `MaxMemory` 3 against messages of size 1, 2, 2,
  (2,) 1: Begin and a chunk fill the window, the transfer stops and resumes, and the last
  chunk is short. `SendLimit` 2 makes the other flow control bite at other times.
  `Patience` caps the idle time; it is 0 where no timeout is wanted, and at least
  `Timeout` where it is.
- *Recording.* `MaxLog` 3 with a flush every 2 ticks: a session can be cut before,
  between and after flushes and resume a save of one record. Two sessions suffice for one
  to read what the other wrote; a third would read a file of the same kinds.
- *Handle.* A queue of 2 with 3 accepted commands from 2 threads fills, is drained and
  fills again. One session: sessions share nothing. *Bevy*: two, because one slot
  is about which of two it holds.
- *Games.* Two ticks of up to two commands, two or three wallets with `MaxU` 3, so sums
  overflow; boards of 3 × 3, and for each error of `validate` one that has it
  (`Dimensions`: one with a cell missing).
- *Codec.* `MaxDigits`: strings of six digits hold a vector of two vectors and one digit too many.
  The payload's budget of 5, `MaxAllocation` and `MaxDepth` are small enough to be exceeded.
- *Messages.* `MaxBytes`: strings of eight digits hold a tick of two commands and one digit too many; a
  record may have seven. `MaxPayload` and `MaxChunk` are 2. What the run leaves open, longer
  strings and greater budgets, is what the proofs are about.
- *Pacer.* Ten durations are the code's limit; iterations of up to fourteen cross it.

**Stopping.** In LiveSession, Startup, Recording and GameTick a step `Terminated` (or
`Done`) marks the states in which the phase is over, so that anything else that stops is
reported as a deadlock. CHECK_DEADLOCK is off for session_handle and bevy_session (all
sessions ended, all handles dropped), codec and pacer (the bound is reached).

## 4. Fairness

- `LiveSession!FairSpec`: weak fairness of the authority's loop as a whole, and of each
  live client taking the next tick that arrived. Both are plain loops that never block:
  they sleep 5 ms or until the next tick. Nothing is assumed of reports, submissions or
  connections, so `LoopNeverBlocks` holds with clients that hang.
- `Startup!AuthorityFairness`: the loop runs, an update of the network reports finitely
  many events (strong fairness of `NetworkDone`, since connections that keep coming
  would disable it again and again), and time passes. `StragglersLeave` needs only that.
- `Startup!Fairness` adds the clients' loops and the transport: a loop that finds a
  channel non-empty again and again takes a message sooner or later (strong fairness,
  since the loop is elsewhere in between), a replay that runs again and again gets
  somewhere (a batch may be cut off before its first tick, not for ever), what was
  delivered is acknowledged, and the end of a client is noticed. renet's channels are
  reliable as long as a connection lasts.
- `SessionWorker!Fairness`: a spawned thread runs, a loop that polls the flag in each
  iteration finds it set (`SeeCancel`), and a join on an ended thread returns. Nothing
  makes the owner call anything or a worker go live or fail.
- `BevySession!BevyFairness`: the same for the workers and joins; a frame that has begun
  goes on, `cancel_on_exit` runs in it, and `main` drops the guard after `App::run` has
  returned, which the scope of a local variable guarantees. Nobody is obliged to attach,
  detach or exit.

## 5. Proofs

They rest on the named ASSUMEs about the constants and on nothing else; TLC evaluates
those on every run.

**LiveSession**, for any number of clients, any interval and window, any start:

| Theorem | Statement |
|---|---|
| `TypeCorrect` | `Spec => []TypeOK` |
| `Inductive` | `Spec => []IInv` |
| `CommandsOrdered`, `RecordedFirst` | `[]` of `CommandsInOrder`, `RecordingSound`; see below |
| `LogFollowed`, `NeverRefused`, `NoFalseAlarm`, `Agreement`, `Detection` | `[]` of `ReplicasFollowLog`, `ClientsNeverRefuse`, `HonestReportsAccepted`, `VerifiedIsAgreed`, `DivergenceDetected` |

None of the safety properties is inductive as it stands: whether a report is accepted
depends on which hashes are still retained, on how old a report in flight can be, and on
which ticks its sender had been given. `IInv` ties these together:

1. `OutboxInv`, `ChannelInv` — for a connected client, replica + channel + outbox = log,
   with consecutive ticks; hence `ClientsNeverRefuse` and `ReplicasFollowLog`.
2. `ReportInv` — reports in flight are hashes of the sender's own prefixes, ascending
   and later than `verified`.
3. `HashInv` — `hashes` maps retained ticks to the authority's own prefixes, and none
   within the window is missing.
4. `DeadlineInv`, `ServingInv` — a connected client's `verified` is at most a window
   behind, plus one tick in the part of the iteration before its deadline is enforced.
5. The step that matters is `ReceiveReport`: by (2) a report is later than `verified`,
   by (4) `verified` is within the window, so by (3) the hash it must match is
   retained. A mismatch therefore means the sender's prefix is not the log's:
   `HonestReportsAccepted`. A match extends `AgreementInv`, from which `VerifiedIsAgreed`
   follows. With `DeadlineInv`, whoever diverged cannot have verified anything later:
   `DivergenceDetected`.

Each lemma (`ChannelStep`, `HashStep`, `DeadlineStep`, `ServingStep`, `ReportStep`) takes
one part of `IInv` through `Next`, action by action; `PrefixShape`, `PrefixDiverges` and
`DivergenceLasts` are the facts about prefixes they rest on.

**The order of commands in LiveSession**: `CommandsOrdered`. Given `TypeOK` and
`ServingInv`, `CommandsInOrder` is inductive: `CommandSteps` shows that a step of the
system either leaves all commands alone (`Undisturbed`: it may cut somebody off, with what
was pending), or moves one from the head of a participant's queue to the end of the tick
being collected (`Collected`), or commits the tick, or submits one. What takes the work is
that a participant's own commands, selected from all ticks in turn and joined, grow exactly
by those of the tick committed (`SequencedGrows`, from `FlattenAppend`).

**The recording of LiveSession**: `RecordedFirst`. Its invariant is independent of `IInv`:

1. `LedgerInv` — the recording is the log, but for a tick on which the session failed.
2. `SentInv` — every message in the outbox or in a channel is in the recording, unchanged.
   It needs (1) in the step that commits: the record appended there has the number of the
   tick that is broadcast.
3. `BudgetInv` — neither the tick being collected nor a recorded one exceeds the envelope.
4. `FlushInv` — between two seals, what is not flushed is at most the tick modulo the
   interval, so that a seal always comes in time; `NextRemainder` is the arithmetic.

**LiveSession implements Sequencer**: `Lockstep` is `Spec => ImplementsSequencer`.
`ShowingSteps` finds the steps that change the log, a replica or a verified tick;
`CommitOrders`, `ReceiveLearns` and `ReportConfirms` show which step of Sequencer each is.
That a tick on its way is the one its replica has to learn is `ChannelInv`; that an accepted
report means agreement is `HashInv` with `ReportInv`; that a committed batch is one of
Sequencer's is `BudgetInv`.

**Startup**, for any number of clients, any save, any windows and timeout:

| Theorem | Statement |
|---|---|
| `StartupTypeCorrect` | `Spec => []TypeOK` |
| `Bounded`, `HonestAccepted`, `StartSound` | `[]` of `ReceiverMemoryBounded`, `NobodyRefused`, `BarrierSound` |
| `ReadyKept` | `Spec => ReadyWaits` |

What the authority believes of a client is old news, and what it may do depends on it. The
invariant (`StartupInv`) says how old:

1. `SaveInv`, `LinkInv` — the save channel holds exactly the messages from the client's next
   one (`First`) to the peer's offset. Hence receive_save never finds a message out of place,
   and whatever a client has received has been sent.
2. `InFlight` — reports on their way ascend, from what the peer recorded to what the client
   has; a Ready is the last of them. With (1), what a report names is outstanding, so
   `Acceptable` holds of each (`HonestAcceptable`), which is `HonestAccepted`, and a Ready
   finds the peer awaiting it.
3. `PeerInv` — `outstanding` is an interval that ends at the offset (`Held`), and
   `receive_memory` is its memory. By (1) and (2) the interval contains what is in the
   channel: `Bounded`.
4. `ClientInv` — what the phases of a client mean. A client that is ready has reported all it
   received, so nothing follows its Ready.
5. `RosterInv` — a connected id has a peer, and a peer that lost its connection is gone from
   the roster when Start is sent. With (4): `StartSound`.
6. `StartInv` — nothing is on its way to a client before Start is sent; then Start is, before
   any tick, until the client has read it, and only ticks follow. A tick therefore never finds
   a client that waits for Start, which is the part of `NobodyRefused` about the client.

`PumpStep` and `ReceiveStep` are the steps that matter; `ServedFrame`, `ClientFrame` and
`OthersGood` say that nothing else moves. That the memory of a set of messages is the sum of
its parts has to be shown of the library's recursive fold; module Sums does. The library's
induction theorems cannot be used for it (they take operators); minimal counterexamples can
(`Minimal`, `Least`), and induction up to a number can be put as a fact about sets (`UpTo`).
The same is done for `FlattenSeq` in LiveSessionProofs and for `FoldLeft` in GameTickProofs.

**SessionWorker**, for any number of sessions and callers and any capacity:

| Theorem | Statement |
|---|---|
| `SessionTypeCorrect` | `Spec => []TypeOK` |
| `Kept`, `Honest` | `[]` of `AcceptedIsKept`, `EndIsHonest` |
| `Implements` | `Spec => KeepsPromise`: the refinement of Lifecycle |

The invariant, `WorkerInv`, adds to the type and `AcceptedIsKept` what links the parts that
different threads write:

1. `StartInv` — before a worker is live, nobody is about to send to it, its queue is empty
   and no end is known. It is what makes the steps of `submit` harmless: `CheckLive`
   needs the status Live, which the worker sets in the step that ends the discarding.
2. `EndInv` — status agrees with the thread until a join and with the result after it;
   a set flag was asked for or comes from that join.
3. `ReceiverInv` — an ended worker's receiver is gone, and a dedicated server's from its
   start, so what a late `Send` finds is the error and not a queue nobody reads.

The refinement maps the pair (owner, status) to Lifecycle's `view`. `PromiseStep` shows for
each action which step of Lifecycle it is: `Send` is `Accept` only if a receiver exists,
whose worker is live by `ReceiverInv`, hence shown as live by `EndInv`; the command `Drain`
takes is the next accepted one by `AcceptedIsKept`; a join is `Stop` only if the flag was
asked for.

**Recording**, for any files found at first, any flush interval, any number of sessions:

| Theorem | Statement |
|---|---|
| `RecordingTypeCorrect` | `Spec => []TypeOK` |
| `RecordedIsHistory`, `ReadToTheEnd` | `[]` of `RecordingIsHistory`, `ReadInFull` |
| `ServedIsWhatIsLive`, `LossAtMostInterval` | `[]` of `ServedAgree`, `LossIsBounded` |

`RecInv` adds to the type:

1. `FilesInv` — whatever is in the file system is a log (`IsLog`: a header and records of
   any ticks, the last cut anywhere); a session never reads the file it writes.
2. `HistoryInv` — what was written, in the file and in the buffer, is the encoding of what
   was appended as long as nothing has gone wrong, and a prefix of it afterwards. A prefix
   of an encoding is a log again, which is (1) for the next session.
3. `ReadInv` — the cells a reader has consumed encode the ticks it has replayed, and a reader
   that found an end is at the file's end, unless the file grew behind it.
4. `ServedInv`, `LossInv` — the save was read after the flush; since then less than an
   interval of records has stayed behind. `NextRemainder` is the arithmetic.

`EncodeShape` is what the proofs use of `Encode`, cell by cell, and `ReadableOfEncode` and
`ReadableGrows` say what a reader finds in a whole recording and in one that has grown.
That the files found at first are logs is assumed (`FilesAssumption`); nothing is assumed
of the ticks, commands and games in them.

**BevySession**, for any number of sessions: `FollowsSlot` is
`BevySpec => []FrameFollowsSlot`, `LeftIsOver` is `BevySpec => []DetachedIsOver`.
`Steps` shows that every step of the application is, for the sessions, a step of
SessionWorker, or lets go of a handle within the join itself (`LetGo`), which SessionWorker
has no action for. So `WorkerInv` holds here too, and with it `EndIsHonest` (`HonestInApp`)
and the refinement of Lifecycle (`PromiseInApp`): two theorems no run states. `BevyInv` adds

1. `OwnerInv` — who waits inside the slot holds its session, on behalf of a guard, a
   controller or an App that exists; else the handle in the slot is held.
2. `LeftInv` — resources, queued commands and retained results that name another session
   than the slot's name one whose end was observed.
3. `SeenInv` — a frame that saw the present generation has the slot's session or has queued it.

**GameTick.** `Clean` is `Spec => []CleanAtRest`, whatever `Create` and `Rule` are and at
whichever of its parts a tick fails. `GameTypeCorrect`, `SnapshotsFaithful` and `Flashed` are
`Spec => []` of `TypeOK`, `SnapshotsKeepPromise` and `FlashedOnce` for every *faithful* game:
one of which each command, where it succeeds, does what it promises (`Faithful`).
That is a hypothesis about the game, which the driver cannot do without: a promise the game
breaks would be shown to the readers. It is asked of single commands only; that a tick of them
keeps its promise (`TickKept`, over the library's `FoldLeft`), and that no refusal, stray tick,
failure or frame then shows anything else, is what is proved.
`GameInv` says that the world is the last promised one as long as the tick has not failed
(`WorldInv`), that the slot is at most the tick in progress behind (`SlotInv`), and that nothing
animated is ahead of the slot (`LitInv`).

**The wallet**, for any width of its integers, any number of wallets, any transfers:

| Theorem | Statement |
|---|---|
| `MoneyConserved` | `HostsWallet` implies `Spec => []Conserved` |
| `WalletFaithful` | `PlaysWallet` implies that the wallet is a faithful game |
| `WalletSnapshots` | `PlaysWallet` implies `Spec => []` of `TypeOK`, `SnapshotsKeepPromise`, `FlashedOnce` |

`HostsWallet` says that the session may run the wallet: its worlds come from `CreateWallet`,
its rule is `TransferRule`, its commands are transfers or undecodable. It allows other games
besides, as in the run, and says nothing of what is promised. `PlaysWallet` adds that nothing else is
played and that the promise is `PromisedTransfer`. Both only say which instance of GameTick is
meant.

The invariant of the first, `MoneyInv`, is that the world is a wallet worth what the session's
first one was. `PaidKeeps` is the step that matters: two terms of a sum change and the others
stay (module Sums), and what the recipient gets is what the sender loses because the amount
does not exceed the sender's balance and the two are not the same. `TickConserves` takes it
through the transfers of a tick, also when one of them fails.
For the second, `TotalSays` shows that the checked sum of a command is its true sum where that
fits the width and -1 where it does not, although it overflows somewhere on the way. From
this `FairChecked` derives that the checks of `transfer` let through what is promised and
nothing else, and `PaidPromised` that what is written is what is promised. It is the theorem
that discharges the hypothesis `Faithful` for this game.

**Power Garden**, for boards of any size, any number of beacons, any commands:

| Theorem | Statement |
|---|---|
| `SearchIsReach` | what connectivity powers is what a path leads to from the source |
| `SetupsLightable` | a board that passes validation is lit when its wires are as recorded |
| `GardenFaithful` | `PlaysGarden` implies that the garden is a faithful game |
| `GardenSnapshots` | `PlaysGarden` implies `Spec => []` of `TypeOK`, `SnapshotsKeepPromise`, `FlashedOnce` |

`PlaysGarden` is to this game what `PlaysWallet` is to the wallet. Of the search, `Pending` is
the invariant: the neighbours of a powered cell are powered unless it is in the queue, and there are
as many powered cells as turns taken and cells queued; so after as many turns as there are
cells the queue is empty, as the array of 25 in the code supposes. `FloodReaches` concludes that
the result is the least set power cannot leave (`Shut`); `PathsReach` says the same of the
promised cells, and `FacingJoined` that both speak of the same pairs of cells, which is the
arithmetic of rows and columns (`NeighborTowards`). That counting the lit beacons tells
whether all are lit needs that their number is right, which validation checks
(`RecomputedPromised`).

**Pacer**, for any duration: `PacedAlways` is `Spec => []Paced`. The bound on the catch-up is
not inductive; `LatenessShared` is the reason for it: while the loop catches up, lateness
and ticks made up for add up to no more than the lateness it began with plus the work done.

**Messages**, for every base and budget, for bytes of any length:

| Theorem | Statement |
|---|---|
| `MeasuredAlways`, `DelimitedAlways`, `OneMeaningAlways` | `Spec => []` of `MeasuredFirst`, `Delimited`, `OneMeaning` |
| `UnambiguousAlways` | `Spec => []Unambiguous`: the last two together |
| `SentIsOpened` | every message the program can build (`Message`) is opened from its own bytes, if these fit a record |

The state gives no more than `Received`: a type and bytes. What has to be shown is about the
readers, and each of four relations between a cursor and the one a reader returns is taken
from `Scalar` through all readers to `Read`, one lemma a reader:

1. `Spends` — what was reserved and what is left do not grow together: a reader reserves less
   than it takes, and nothing when measuring. A count is no more than the bytes left
   (`Length`), and each command takes two at least. At the end nothing is left, so no more
   was reserved than received.
2. `Follows` — a reader that succeeds on some bytes, in either pass, does the same on those
   bytes and more, in either pass, and leaves the more. With nothing more: the second pass
   accepts what the first did (`SecondAccepts`). With something more: it is left over, so the
   longer message is refused, which is `Delimited`. `Length` tests what is left, and only
   passes more easily when there is more.
3. `Yields` — over the bytes of a value and anything after them, a materializing reader gives
   that value and leaves the rest: `SentIsOpened`.
4. `Sends` — a value that was read is one the program can build, and its bytes are no more
   than it was read from. It is what `OneMeaning` needs besides (3): the bytes a message is
   sent on as may be others than it came in, and they must not exceed what a record may
   have.

The commands of a tick are read from the front and encoded from the back: `CommandsRead`
and `CommandsPacked` unfold the two recursive functions, `UpTo` does the induction, and
`PackedAppend` is where they meet.

Only model-checked:

- Liveness (`TicksReachReplicas`, `LoopNeverBlocks`, `PeersGoLive`, `StragglersLeave`,
  `ShutdownReturns`, `ExitEndsSession`): beyond the prover.
- Codec (`RoundTrips`, `PassesAgree`, `HashesTellApart`): recursive operators over types, and
  induction over them.

## 6. Not modelled

- renet and netcode: sockets, authentication, packets, retransmission, and the limits of a
  connection. They are used as reliable ordered channels that end. The binding of
  transports and addresses is I/O.
- The checks of a session's configuration (api.rs): guards on constants, before any state.
- Failing allocations (`try_reserve_exact`): what is modelled is what would be reserved.
- FNV-1a's arithmetic and its collisions; diagnostics of the derive macros, which are
  compile-time.
- The examples' command lines, menus, layout and drawing; logging.
- Cases the code rules out at the public interface: `InputDisconnected` (a handle keeps a
  sender until it has joined), Desync messages before Start (no client of this code sends
  one).
