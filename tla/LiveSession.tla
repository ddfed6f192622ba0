---------------------------- MODULE LiveSession ----------------------------
(***************************************************************************)
(* The live phase of a networked session: the authority's tick loop        *)
(* (run_server.rs, tick_loop), the replicas that follow it (run_client.rs, *)
(* client_loop once live) and the renet channels between them.             *)
(*                                                                         *)
(* One iteration of the tick loop is the cycle of pc                       *)
(*   network -> serve (inputs -> reports, per client) -> local -> commit   *)
(*           -> seal -> send -> network                                    *)
(* The simulation's state is represented by the history of ticks it was    *)
(* computed from, and a state hash by the state hashed: collisions of the  *)
(* 64-bit hash are abstracted away. A replica whose simulation is not      *)
(* deterministic (a client in Faulty) may compute Corrupt for a tick, and  *)
(* its state differs from the authority's from then on.                    *)
(*                                                                         *)
(* A definition marked "Mutant" is no part of the model: it is the form a  *)
(* plausible bug would give the definition after it, and shows that the    *)
(* properties notice.                                                      *)
(***************************************************************************)
EXTENDS Integers, FiniteSets, SequencesExt

CONSTANTS
  Clients,          \* ids of the clients the barrier released
  Host,             \* the listen host's participant id
  NoClient,         \* "no client is being served"
  Commands,         \* command payloads
  ValidCommands,    \* those the simulation's validate_command accepts
  Faulty,           \* clients whose simulation may diverge
  Corrupt,          \* the outcome of a tick in a diverging simulation
  Interval,         \* hash_interval(): ticks between two state hashes
  HistoryIntervals, \* the 10 of "hash_interval() * 10"
  StartTick,        \* SaveMetadata.tick, where the session goes live
  MaxTick,          \* the largest tick a counter can hold
  TickBudget,       \* inputs that fit in one tick's encoded envelope
  LocalBatch,       \* the 256 of drain_local
  Recording,        \* whether the session has a ReplayWriter
  FailFast,         \* whether the policy is DesyncPolicy::FailFast
  MaxSubmits        \* bound: commands one participant submits

ASSUME ParticipantsAssumption ==
  /\ Host \notin Clients
  /\ NoClient \notin Clients
  /\ Faulty \subseteq Clients
  /\ ValidCommands \subseteq Commands

ASSUME TickAssumption ==
  /\ Interval \in Nat \ {0}
  /\ HistoryIntervals \in Nat \ {0}
  /\ StartTick \in Nat
  /\ MaxTick \in Nat
  /\ TickBudget \in Nat
  /\ LocalBatch \in Nat
  /\ MaxSubmits \in Nat

ASSUME OptionAssumption == Recording \in BOOLEAN /\ FailFast \in BOOLEAN

VARIABLES
  \* the authority
  pc,        \* where the tick loop is
  outcome,   \* why the session ended
  cancelled, \* SessionControl's flag
  unserved,  \* ids clients_id() returned that this iteration has not reached
  active,    \* the id being served
  inputs,    \* the commands collected for the next tick
  log,       \* the ticks advance_tick has completed on the authority
  hashes,    \* retained hashes: tick -> state
  tracked,   \* keys of the map verified
  verified,  \* last tick each tracked client proved
  recorded,  \* the records appended to the ReplayWriter
  flushed,   \* how many of them are known to be in the file
  outbox,    \* messages broadcast and not yet sent
  conn,      \* renet's view of each connection
  reason,    \* why the authority disconnected a client
  \* the network and the participants
  down,      \* CHANNEL_LOCKSTEP, authority to client
  pending,   \* CHANNEL_LOCKSTEP, client to authority; the host's own queue
  reports,   \* CHANNEL_DESYNC, client to authority
  submitted, \* all a participant ever submitted (history)
  mode,      \* what each client process is doing
  replica    \* the ticks each client's simulation has advanced through

loop     == <<pc, outcome, unserved, active, inputs>>
ledger   == <<log, hashes, recorded, flushed, outbox>>
peers    == <<tracked, verified, conn, reason>>
channels == <<down, pending, reports, submitted>>
process  == <<mode, replica>>
vars     == <<loop, cancelled, ledger, peers, channels, process>>

Participants == Clients \cup {Host}
Input        == [participant : Participants, payload : Commands]
Batch        == Seq(Input)
History      == Seq(Batch \cup {Corrupt})
Window       == Interval * HistoryIntervals

Tick          == StartTick + Len(log)
ClientTick(c) == StartTick + Len(replica[c])
Sealed(t)     == t % Interval = 0
Up            == {c \in Clients : conn[c] = "up"}

-----------------------------------------------------------------------------
\* The state in which wait_for_clients returns: Start is on its way to every
\* expected client, and each of them holds the authority's state.
Init ==
  /\ pc = "network" /\ outcome = "running" /\ cancelled = FALSE
  /\ unserved = {} /\ active = NoClient /\ inputs = <<>>
  /\ log = <<>> /\ hashes = <<>>
  /\ recorded = <<>> /\ flushed = 0 /\ outbox = <<>>
  /\ tracked = Clients
  /\ verified = [c \in Clients |-> StartTick]
  /\ conn = [c \in Clients |-> "up"]
  /\ reason = [c \in Clients |-> "none"]
  /\ down = [c \in Clients |-> <<>>]
  /\ pending = [p \in Participants |-> <<>>]
  /\ reports = [c \in Clients |-> <<>>]
  /\ submitted = [p \in Participants |-> <<>>]
  /\ mode = [c \in Clients |-> "live"]
  /\ replica = [c \in Clients |-> <<>>]

\* The session ends: transport.disconnect_all, then run_server's final flush,
\* which may itself fail and leave the tail of what was written in the buffer.
Stop(why, written) ==
  /\ pc' = "stopped"
  /\ outcome' = why
  /\ active' = NoClient
  /\ conn' = [c \in Clients |-> "gone"]
  /\ flushed' \in {flushed, Len(written)}

\* RenetServer::disconnect: the connection stops carrying messages at once and
\* is removed at the next update.
Disconnect(c, why) ==
  /\ conn' = [conn EXCEPT ![c] = "closed"]
  /\ reason' = [reason EXCEPT ![c] = why]

\* Mutant: whoever connects during play takes part.
LateAccepted == "up"

\* What the loop makes of a connection made during play.
LateConnection == "closed"

\* update_network and the loop over its events. Closed connections are removed,
\* any other may be found lost, and a former client may connect again: its id is
\* disconnected on sight and is not tracked any more.
UpdateNetwork ==
  /\ pc = "network" /\ ~cancelled
  /\ \E lost \in SUBSET Up, late \in SUBSET Clients :
       LET gone == lost \cup {c \in Clients : conn[c] = "closed"}
       IN /\ \A c \in late : /\ mode[c] \in {"stopped", "failed"}
                             /\ c \in gone \/ conn[c] = "gone"
          /\ conn' = [c \in Clients |-> IF c \in late THEN LateConnection
                                        ELSE IF c \in gone THEN "gone"
                                        ELSE conn[c]]
          /\ tracked' = tracked \ gone
          /\ unserved' = (Up \ lost) \cap tracked'
          /\ reason' = [c \in Clients |-> IF c \in late THEN "late" ELSE reason[c]]
          /\ mode' = [c \in Clients |-> IF c \in late THEN "joining" ELSE mode[c]]
          /\ down' = [c \in Clients |-> IF c \in late THEN <<>> ELSE down[c]]
          /\ reports' = [c \in Clients |-> IF c \in late THEN <<>> ELSE reports[c]]
          /\ pending' = [p \in Participants |-> IF p \in late THEN <<>> ELSE pending[p]]
  /\ pc' = "serve"
  /\ UNCHANGED <<outcome, cancelled, active, inputs, ledger, verified, submitted, replica>>

\* The loop's condition: the session was cancelled.
Cancelled ==
  /\ pc = "network" /\ cancelled
  /\ Stop("cancelled", recorded)
  /\ UNCHANGED <<unserved, inputs, cancelled, log, hashes, recorded, outbox,
                 tracked, verified, reason, channels, process>>

\* Mutant: the client of the iteration before is served again.
BeginStale(c) ==
  /\ pc = "serve" /\ c \in unserved
  /\ pc' = "inputs" /\ active' = active /\ unserved' = unserved \ {c}
  /\ UNCHANGED <<outcome, inputs, cancelled, ledger, peers, channels, process>>

\* transport.update fails: the socket is lost.
NetworkFails ==
  /\ pc = "network" /\ ~cancelled
  /\ Stop("transport", recorded)
  /\ UNCHANGED <<unserved, inputs, cancelled, log, hashes, recorded, outbox,
                 tracked, verified, reason, channels, process>>

\* clients_id() lists connections in no particular order.
BeginClient(c) ==
  /\ pc = "serve" /\ c \in unserved
  /\ pc' = "inputs" /\ active' = c /\ unserved' = unserved \ {c}
  /\ UNCHANGED <<outcome, inputs, cancelled, ledger, peers, channels, process>>

AllServed ==
  /\ pc = "serve" /\ unserved = {}
  /\ pc' = "local"
  /\ UNCHANGED <<outcome, unserved, active, inputs, cancelled, ledger, peers, channels, process>>

\* account_input: one more input may still fit in the tick.
Fits == Len(inputs) < TickBudget

\* Mutant: the newest command comes first.
CollectReversed(p) == inputs' = <<[participant |-> p, payload |-> Head(pending[p])]>> \o inputs

Collect(p) == inputs' = Append(inputs, [participant |-> p, payload |-> Head(pending[p])])

\* The authority is done with the active client for this iteration.
NextClient == pc' = "serve" /\ active' = NoClient

\* One Input of the active client: collected as Remote(id), or the session fails
\* because the tick would be too large, or the client is disconnected because the
\* simulation refuses the command. A disconnected client's queues read as empty.
ReceiveInput(c) ==
  /\ pc = "inputs" /\ active = c /\ pending[c] # <<>>
  /\ pending' = [pending EXCEPT ![c] = Tail(@)]
  /\ \/ /\ Head(pending[c]) \in ValidCommands /\ Fits
        /\ Collect(c)
        /\ UNCHANGED <<pc, outcome, active, flushed, conn, reason>>
     \/ /\ Head(pending[c]) \in ValidCommands /\ ~Fits
        /\ Stop("budget", recorded)
        /\ UNCHANGED <<inputs, reason>>
     \/ /\ Head(pending[c]) \notin ValidCommands
        /\ Disconnect(c, "invalid")
        /\ NextClient
        /\ UNCHANGED <<outcome, inputs, flushed>>
  /\ UNCHANGED <<unserved, cancelled, log, hashes, recorded, outbox, tracked, verified,
                 down, reports, submitted, process>>

\* No further Input of the active client has arrived.
InputsDrained ==
  /\ pc = "inputs"
  /\ pc' = "reports"
  /\ UNCHANGED <<outcome, unserved, active, inputs, cancelled, ledger, peers, channels, process>>

\* Mutant: the hash is not compared.
VerdictTrusting(c, report) ==
  IF report.tick <= verified[c] \/ report.tick > Tick \/ ~Sealed(report.tick)
    THEN "protocol" ELSE "verified"

\* verify_hash
Verdict(c, report) ==
  IF \/ report.tick <= verified[c]
     \/ report.tick > Tick
     \/ ~Sealed(report.tick)
     \/ report.tick \notin DOMAIN hashes
    THEN "protocol"
  ELSE IF hashes[report.tick] # report.hash
    THEN "desync"
  ELSE "verified"

\* handle_hash_report: one report of the active client.
ReceiveReport(c) ==
  /\ pc = "reports" /\ active = c /\ reports[c] # <<>>
  /\ reports' = [reports EXCEPT ![c] = Tail(@)]
  /\ LET verdict == Verdict(c, Head(reports[c]))
     IN \/ /\ verdict = "verified"
           /\ verified' = [verified EXCEPT ![c] = Head(reports[c]).tick]
           /\ UNCHANGED <<pc, outcome, active, flushed, conn, reason>>
        \/ /\ verdict = "desync" /\ FailFast
           /\ Stop("desync", recorded)
           /\ UNCHANGED <<verified, reason>>
        \/ /\ verdict # "verified" /\ ~(verdict = "desync" /\ FailFast)
           /\ Disconnect(c, "report")
           /\ NextClient
           /\ UNCHANGED <<outcome, verified, flushed>>
  /\ UNCHANGED <<unserved, inputs, cancelled, log, hashes, recorded, outbox, tracked,
                 down, pending, submitted, process>>

\* Mutant: the deadline is not enforced.
NoDeadline(c) ==
  /\ pc = "reports" /\ active = c
  /\ NextClient
  /\ UNCHANGED <<outcome, unserved, inputs, cancelled, ledger, peers, channels, process>>

\* Mutant: the loop waits for the overdue client.
AwaitReports(c) ==
  /\ pc = "reports" /\ active = c /\ Tick - verified[c] <= Window
  /\ NextClient
  /\ UNCHANGED <<outcome, unserved, inputs, cancelled, ledger, peers, channels, process>>

\* No further report has arrived: enforce_verification_deadline.
ReportsDrained(c) ==
  /\ pc = "reports" /\ active = c
  /\ IF Tick - verified[c] > Window
       THEN Disconnect(c, "overdue")
       ELSE UNCHANGED <<conn, reason>>
  /\ NextClient
  /\ UNCHANGED <<outcome, unserved, inputs, cancelled, ledger, tracked, verified,
                 channels, process>>

\* drain_local and the checks of each host command, which fail the session.
HostInputs == {i \in DOMAIN inputs : inputs[i].participant = Host}

DrainLocal ==
  /\ pc = "local" /\ pending[Host] # <<>> /\ Cardinality(HostInputs) < LocalBatch
  /\ pending' = [pending EXCEPT ![Host] = Tail(@)]
  /\ \/ /\ Head(pending[Host]) \in ValidCommands /\ Fits
        /\ Collect(Host)
        /\ UNCHANGED <<pc, outcome, active, flushed, conn>>
     \/ /\ Head(pending[Host]) \in ValidCommands /\ ~Fits
        /\ Stop("budget", recorded)
        /\ UNCHANGED inputs
     \/ /\ Head(pending[Host]) \notin ValidCommands
        /\ Stop("invalid", recorded)
        /\ UNCHANGED inputs
  /\ UNCHANGED <<unserved, cancelled, log, hashes, recorded, outbox, tracked, verified, reason,
                 down, reports, submitted, process>>

LocalDrained ==
  /\ pc = "local"
  /\ pending[Host] = <<>> \/ Cardinality(HostInputs) >= LocalBatch
  /\ pc' = "commit"
  /\ UNCHANGED <<outcome, unserved, active, inputs, cancelled, ledger, peers, channels, process>>

\* current.checked_add(1) fails.
TickExhausted ==
  /\ pc = "commit" /\ Tick >= MaxTick
  /\ Stop("exhausted", recorded)
  /\ UNCHANGED <<unserved, inputs, cancelled, log, hashes, recorded, outbox,
                 tracked, verified, reason, channels, process>>

\* Mutant: a tick without inputs is not worth a record.
RecordInputs ==
  recorded' = IF Recording /\ inputs # <<>> THEN Append(recorded, inputs) ELSE recorded

\* writer.append
Record == recorded' = IF Recording THEN Append(recorded, inputs) ELSE recorded

\* Mutant: the host's commands, applied locally, are not sent.
BroadcastRemote ==
  outbox' = Append(outbox, [tick |-> Tick + 1,
                            inputs |-> SelectSeq(inputs, LAMBDA input : input.participant # Host)])

\* server.broadcast_message: queued on every connection, sent by send_packets.
Broadcast == outbox' = Append(outbox, [tick |-> Tick + 1, inputs |-> inputs])

\* writer.append fails before the tick reaches the simulation or a peer.
AppendFails ==
  /\ pc = "commit" /\ Tick < MaxTick /\ Recording
  /\ Stop("io", recorded)
  /\ UNCHANGED <<unserved, inputs, cancelled, log, hashes, recorded, outbox,
                 tracked, verified, reason, channels, process>>

\* The tick is recorded and broadcast, and advance_tick fails on the authority:
\* its simulation or its publication did. Nothing reads its state any more.
AdvanceFails ==
  /\ pc = "commit" /\ Tick < MaxTick
  /\ Record /\ Broadcast
  /\ Stop("simulation", recorded')
  /\ UNCHANGED <<unserved, inputs, cancelled, log, hashes,
                 tracked, verified, reason, channels, process>>

\* The tick is recorded, broadcast and applied.
CommitTick ==
  /\ pc = "commit" /\ Tick < MaxTick
  /\ Record /\ Broadcast
  /\ log' = Append(log, inputs)
  /\ inputs' = <<>>
  /\ pc' = "seal"
  /\ UNCHANGED <<outcome, unserved, active, cancelled, hashes, flushed, peers, channels, process>>

\* Mutant: the hash at the edge of the window is dropped.
RetainLess ==
  hashes' = [t \in {old \in DOMAIN hashes \cup {Tick} : Tick - old < Window} |->
               IF t = Tick THEN log ELSE hashes[t]]

\* On a multiple of the interval: hashes.insert, hashes.retain, writer.flush.
RetainHash ==
  hashes' = [t \in {old \in DOMAIN hashes \cup {Tick} : Tick - old <= Window} |->
               IF t = Tick THEN log ELSE hashes[t]]

SealTick ==
  /\ pc = "seal"
  /\ IF Sealed(Tick)
       THEN RetainHash /\ flushed' = Len(recorded)
       ELSE UNCHANGED <<hashes, flushed>>
  /\ pc' = "send"
  /\ UNCHANGED <<outcome, unserved, active, inputs, cancelled, log, recorded, outbox,
                 peers, channels, process>>

FlushFails ==
  /\ pc = "seal" /\ Sealed(Tick) /\ Recording
  /\ RetainHash
  /\ Stop("io", recorded)
  /\ UNCHANGED <<unserved, inputs, cancelled, log, recorded, outbox,
                 tracked, verified, reason, channels, process>>

\* transport.send_packets, then the pacer.
SendPackets ==
  /\ pc = "send"
  /\ down' = [c \in Clients |-> IF c \in Up THEN down[c] \o outbox ELSE down[c]]
  /\ outbox' = <<>>
  /\ pc' = "network"
  /\ UNCHANGED <<outcome, unserved, active, inputs, cancelled, log, hashes, recorded, flushed,
                 peers, pending, reports, submitted, process>>

-----------------------------------------------------------------------------
\* An application submits a command: a client's worker forwards it on its channel
\* (forward_inputs), the host's worker finds it in its queue.
Submit(p, command) ==
  /\ Len(submitted[p]) < MaxSubmits
  /\ IF p = Host THEN pc # "stopped" ELSE mode[p] = "live"
  /\ pending' = [pending EXCEPT ![p] = Append(@, command)]
  /\ submitted' = [submitted EXCEPT ![p] = Append(@, command)]
  /\ UNCHANGED <<loop, cancelled, ledger, peers, down, reports, process>>

\* apply_tick for the next message, and the report of its hash; a tick that is
\* not the next one (validate_tick), or that comes before Start, is an error.
\* result: what the replica's simulation makes of the tick.
Apply(c, result) ==
  /\ replica' = [replica EXCEPT ![c] = Append(@, result)]
  /\ reports' = IF Sealed(ClientTick(c) + 1)
                  THEN [reports EXCEPT ![c] = Append(@, [tick |-> ClientTick(c) + 1,
                                                         hash |-> Append(replica[c], result)])]
                  ELSE reports

\* Mutant: a tick is held back until the next one has arrived.
TickBuffered(c) == Len(down[c]) > 1

TickArrived(c) == down[c] # <<>>

ReceiveTick(c) ==
  /\ mode[c] \in {"live", "joining"} /\ TickArrived(c)
  /\ down' = [down EXCEPT ![c] = Tail(@)]
  /\ LET message == Head(down[c])
     IN \/ /\ mode[c] = "live" /\ message.tick = ClientTick(c) + 1
           /\ \/ Apply(c, message.inputs)
              \/ c \in Faulty /\ Apply(c, Corrupt)
           /\ UNCHANGED mode
        \/ /\ mode[c] = "joining" \/ message.tick # ClientTick(c) + 1
           /\ mode' = [mode EXCEPT ![c] = "failed"]
           /\ UNCHANGED <<replica, reports>>
  /\ UNCHANGED <<loop, cancelled, ledger, peers, pending, submitted>>

\* client.is_disconnected() ends the client's session; so do its application and a
\* failure of its transport or its simulation.
LeaveSession(c) ==
  /\ mode[c] \in {"live", "joining"}
  /\ mode' = [mode EXCEPT ![c] = "stopped"]
  /\ UNCHANGED <<loop, cancelled, ledger, peers, channels, replica>>

RequestCancel ==
  /\ pc # "stopped" /\ ~cancelled
  /\ cancelled' = TRUE
  /\ UNCHANGED <<loop, ledger, peers, channels, process>>

\* Every process has ended; unread queues are all that is left.
Terminated ==
  /\ pc = "stopped" /\ \A c \in Clients : mode[c] \in {"stopped", "failed"}
  /\ UNCHANGED vars

Server ==
  \/ UpdateNetwork \/ NetworkFails \/ Cancelled \/ AllServed
  \/ \E c \in Clients : BeginClient(c) \/ ReceiveInput(c) \/ ReceiveReport(c) \/ ReportsDrained(c)
  \/ InputsDrained \/ DrainLocal \/ LocalDrained
  \/ TickExhausted \/ AppendFails \/ AdvanceFails \/ CommitTick
  \/ SealTick \/ FlushFails \/ SendPackets

Environment ==
  \/ \E p \in Participants, command \in Commands : Submit(p, command)
  \/ \E c \in Clients : ReceiveTick(c) \/ LeaveSession(c)
  \/ RequestCancel

Next == Server \/ Environment \/ Terminated

Spec == Init /\ [][Next]_vars

\* The tick loop runs on a thread of its own and never waits for a client; each
\* live client's loop runs, and its channel is reliable. Nobody is obliged to
\* submit, to leave or to cancel.
Fairness == WF_vars(Server) /\ \A c \in Clients : WF_vars(ReceiveTick(c))

FairSpec == Spec /\ Fairness

-----------------------------------------------------------------------------
Message == [tick : Nat, inputs : Batch]
Report  == [tick : Nat, hash : History]

\* The types of the variables.
TypeOK ==
  /\ pc \in {"network", "serve", "inputs", "reports", "local", "commit", "seal", "send", "stopped"}
  /\ outcome \in {"running", "cancelled", "budget", "invalid", "desync", "exhausted", "io",
                  "simulation", "transport"}
  /\ cancelled \in BOOLEAN
  /\ unserved \subseteq Clients /\ active \in Clients \cup {NoClient}
  /\ pc \in {"inputs", "reports"} => active \in Clients
  /\ inputs \in Batch /\ log \in Seq(Batch) /\ recorded \in Seq(Batch)
  /\ DOMAIN hashes \subseteq Nat /\ \A t \in DOMAIN hashes : hashes[t] \in History
  /\ flushed \in Nat /\ outbox \in Seq(Message)
  /\ tracked \subseteq Clients /\ verified \in [Clients -> Nat]
  /\ conn \in [Clients -> {"up", "closed", "gone"}]
  /\ reason \in [Clients -> {"none", "late", "invalid", "report", "overdue"}]
  /\ down \in [Clients -> Seq(Message)]
  /\ pending \in [Participants -> Seq(Commands)]
  /\ submitted \in [Participants -> Seq(Commands)]
  /\ reports \in [Clients -> Seq(Report)]
  /\ mode \in [Clients -> {"live", "joining", "stopped", "failed"}]
  /\ replica \in [Clients -> History]

\* A replica has applied exactly the authority's ticks, in its order, none before
\* the authority did; only a diverging simulation makes something else of one.
ReplicasFollowLog ==
  \A c \in Clients : \A i \in DOMAIN replica[c] :
    /\ i \in DOMAIN log
    /\ replica[c][i] = log[i] \/ (c \in Faulty /\ replica[c][i] = Corrupt)

\* What a client can see is in the recording: every tick the authority applied and
\* every tick on its way to a client was appended first, with the same inputs.
NothingUnrecorded ==
  Recording =>
    /\ IsPrefix(log, recorded) /\ Len(recorded) <= Len(log) + 1
    /\ \A c \in Clients : \A message \in ToSet(down[c]) :
         /\ message.tick - StartTick \in DOMAIN recorded
         /\ recorded[message.tick - StartTick] = message.inputs

\* A process failure loses at most one hash interval of ticks: no more than that
\* is appended and not flushed, wherever the loop is (replay.rs, ReplayWriter).
LossIsBounded == Recording => Len(recorded) - flushed <= Interval

\* The commands of p among the inputs of one tick.
Own(p, batch) ==
  FlattenSeq([i \in DOMAIN batch |->
                IF batch[i].participant = p THEN <<batch[i].payload>> ELSE <<>>])

\* The commands of p that a tick, or the tick being collected, contains.
Sequenced(p) == FlattenSeq([t \in DOMAIN log |-> Own(p, log[t])]) \o Own(p, inputs)

\* Per participant, commands are sequenced in the order of submission, none twice
\* and none invented; while its connection lasts none is lost either.
CommandsInOrder ==
  \A p \in Participants :
    /\ IsPrefix(Sequenced(p), submitted[p])
    /\ pc # "stopped" /\ (p = Host \/ p \in Up) => Sequenced(p) \o pending[p] = submitted[p]

\* No tick exceeds the envelope, in the recording or on a channel.
TicksWithinBudget ==
  /\ \A batch \in ToSet(recorded) : Len(batch) <= TickBudget
  /\ \A c \in Clients : \A message \in ToSet(down[c]) : Len(message.inputs) <= TickBudget

\* The recording is what a peer was shown and what a resumed session will be: a
\* prefix of it is the log, none of its ticks is too large to be read back, and a
\* process failure costs one hash interval of it at most.
RecordingSound == NothingUnrecorded /\ TicksWithinBudget /\ LossIsBounded

\* The state of c's simulation is not one the authority has been in.
Diverged(c) == ~IsPrefix(replica[c], log)

\* No false alarm: a client is disconnected for its hash report, and a FailFast
\* session ends, only if that client's state did diverge. In particular the report
\* of a slow but correct client is never "outside retained history": the deadline
\* disconnects it before the hash it must match is dropped.
HonestReportsAccepted ==
  /\ \A c \in Clients : reason[c] = "report" => Diverged(c)
  /\ outcome = "desync" => \E c \in Clients : Diverged(c)

\* verified is what it says: up to that tick the client's state was the authority's.
VerifiedIsAgreed ==
  \A c \in tracked :
    LET n == verified[c] - StartTick
    IN n <= Len(replica[c]) /\ SubSeq(replica[c], 1, n) = SubSeq(log, 1, n)

\* A client that diverged at tick StartTick + i is gone a window later, whether it
\* reports its hashes or not.
DivergenceDetected ==
  \A c \in Up : \A i \in DOMAIN replica[c] :
    replica[c][i] # log[i] => Tick <= StartTick + i + Window

\* No client is sent a tick it must refuse: each gets the ticks from its own on
\* without a gap, and a client that joined during play gets none.
ClientsNeverRefuse == \A c \in Clients : mode[c] # "failed"

\* The inductive invariant the theorems of LiveSessionProofs rest on, by parts.
\* Between the broadcast and send_packets the outbox holds the last tick; a
\* stopped session has no connections.
OutboxInv ==
  /\ pc \in {"seal", "send"} =>
       log # <<>> /\ outbox = <<[tick |-> Tick, inputs |-> log[Len(log)]]>>
  /\ pc \in {"network", "serve", "inputs", "reports", "local", "commit"} => outbox = <<>>
  /\ pc = "stopped" => Up = {}

\* What a live client has applied, what is on its way and what is in the outbox
\* make up the log; a client that joins during play is not connected.
Feed(c) ==
  /\ c \in Up => Len(replica[c]) + Len(down[c]) + Len(outbox) = Len(log)
  /\ \A i \in DOMAIN down[c] :
       /\ Len(replica[c]) + i \in DOMAIN log
       /\ down[c][i].tick = ClientTick(c) + i
       /\ down[c][i].inputs = log[Len(replica[c]) + i]

ChannelInv ==
  \A c \in Clients :
    /\ mode[c] = "joining" => down[c] = <<>> /\ c \notin Up
    /\ mode[c] = "live" => Feed(c)

\* The reports on their way are the hashes of the client's own past states, in
\* order, all of them later than the last one verified.
Reported(c) ==
  /\ verified[c] \in StartTick .. ClientTick(c)
  /\ \A i \in DOMAIN reports[c] :
       /\ Sealed(reports[c][i].tick)
       /\ reports[c][i].tick \in verified[c] + 1 .. ClientTick(c)
       /\ reports[c][i].hash = SubSeq(replica[c], 1, reports[c][i].tick - StartTick)
       /\ \A j \in DOMAIN reports[c] : i < j => reports[c][i].tick < reports[c][j].tick

ReportInv == \A c \in Clients : Reported(c)

\* The retained hashes are those of the authority's own past states, and none
\* younger than the window is missing.
HashInv ==
  /\ \A t \in DOMAIN hashes :
       t \in StartTick + 1 .. Tick /\ hashes[t] = SubSeq(log, 1, t - StartTick)
  /\ \A t \in StartTick + 1 .. Tick :
       Sealed(t) /\ Tick - t <= Window /\ (pc = "seal" => t # Tick) => t \in DOMAIN hashes

\* A connected client has verified a state no older than the window, or it still
\* has this iteration to do so.
DeadlineInv ==
  \A c \in Up :
    /\ c \in tracked
    /\ Tick <= verified[c] + Window + 1
    /\ \/ pc = "serve" /\ c \notin unserved
       \/ pc \in {"inputs", "reports"} /\ c \notin unserved \cup {active}
       \/ pc \in {"local", "commit"}
       => Tick <= verified[c] + Window

\* The client being served, and those still to be, are connected.
ServingInv ==
  /\ pc \in {"serve", "inputs", "reports"} => unserved \subseteq Up
  /\ pc \in {"inputs", "reports"} => active \in Up \ unserved

AgreementInv ==
  \A c \in Clients :
    LET n == verified[c] - StartTick
    IN SubSeq(replica[c], 1, n) = SubSeq(log, 1, n)

IInv ==
  /\ ReplicasFollowLog /\ OutboxInv /\ ChannelInv /\ ClientsNeverRefuse
  /\ ServingInv /\ ReportInv /\ HashInv /\ DeadlineInv /\ AgreementInv /\ HonestReportsAccepted

\* Every tick sent reaches the simulation of a client that stays.
TicksReachReplicas ==
  \A c \in Clients : \A t \in StartTick + 1 .. MaxTick :
    mode[c] = "live" /\ (\E message \in ToSet(down[c]) : message.tick = t)
      ~> ClientTick(c) >= t \/ mode[c] # "live"

\* No client, present, stalled or gone, keeps the loop from its next tick: left to
\* itself it runs out of ticks.
LoopNeverBlocks == <>(pc = "stopped")
=============================================================================
