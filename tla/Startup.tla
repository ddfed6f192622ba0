------------------------------ MODULE Startup ------------------------------
(***************************************************************************)
(* The startup phase of a networked session: the authority's wait for its  *)
(* clients (run_server.rs, wait_for_clients), one StartupPeer per          *)
(* connection and the ClientStartup of each client (startup.rs) inside its *)
(* loop (run_client.rs, client_loop until live).                           *)
(*                                                                         *)
(* The save is cut into chunks 1 .. Chunks, sent after a Begin, which is   *)
(* message 0. Offsets and byte counts are counted in chunks; the ticks of  *)
(* the save are counted from 0 to FinalTick. A client's replay either ends *)
(* in the state the metadata declares or, for a client in Faulty, may not. *)
(*                                                                         *)
(* One iteration of the authority's loop is                                *)
(*   network -> serve (receive, per peer) -> network, or started           *)
(* and one iteration of a client's is save -> step -> lockstep -> save.    *)
(* A definition marked "Mutant" is no part of the model.                   *)
(***************************************************************************)
EXTENDS Integers, SequencesExt, FiniteSetsExt

CONSTANTS
  Clients,    \* ids of client processes
  NoClient,   \* "no peer is being served"
  Expected,   \* expected_clients
  Chunks,     \* chunks the save is cut into
  Memory,     \* receive_memory() of message 0 .. Chunks
  MaxMemory,  \* CHANNEL_SAVE_MAX_MEM
  SendLimit,  \* messages the sending side of the channel holds unacknowledged
  FinalTick,  \* SaveMetadata.tick
  Faulty,     \* clients whose replay may end in another state
  Timeout,    \* STARTUP_TIMEOUT
  Patience,   \* bound: the longest a peer's last progress may lie back
  MaxQueued   \* bound: lockstep messages on their way to a client when a tick is sent

ASSUME StartupAssumption ==
  /\ NoClient \notin Clients
  /\ Expected \in Nat
  /\ Chunks \in Nat \ {0}
  /\ Memory \in [0 .. Chunks -> Nat \ {0}]
  /\ MaxMemory \in Nat /\ \A k \in 1 .. Chunks : Memory[0] + Memory[k] <= MaxMemory
  /\ SendLimit \in Nat /\ SendLimit >= 2
  /\ FinalTick \in Nat
  /\ Timeout \in Nat \ {0} /\ Patience \in Nat /\ MaxQueued \in Nat

VARIABLES
  pc,      \* where wait_for_clients is
  active,  \* the peer being served
  todo,    \* peers this iteration has not reached
  peers,   \* keys of the map peers
  peer,    \* the StartupPeer of each key
  conn,    \* renet's view of each id's connection
  refused, \* ids disconnected for a message (history)
  save,    \* CHANNEL_SAVE, authority to client
  unacked, \* messages of it the transport has not acknowledged
  up,      \* CHANNEL_LOCKSTEP, client to authority
  down,    \* CHANNEL_LOCKSTEP, authority to client
  client   \* each client process: its place in client_loop and its ClientStartup

server   == <<pc, active, todo>>
roster   == <<peers, peer, conn, refused>>
channels == <<save, unacked, up, down>>
vars     == <<server, roster, channels, client>>

Up == {c \in Clients : conn[c] = "up"}

\* outstanding: the deque of messages not shown to be consumed, which is ascending, as
\* the set of them.
NewPeer ==
  [phase |-> "transferring", began |-> FALSE, offset |-> 0, received |-> 0,
   outstanding |-> {}, memory |-> 0, replayed |-> 0, idle |-> 0]

NewClient ==
  [phase |-> "receiving", at |-> "save", begun |-> FALSE, received |-> 0, replayed |-> 0,
   reported |-> <<0, 0>>, sound |-> TRUE]

Progress(received, replayed) ==
  [type |-> "progress", received |-> received, replayed |-> replayed]
Ready == [type |-> "ready"]

MemoryOf(messages) == MapThenSumSet(LAMBDA k : Memory[k], messages)

Init ==
  /\ pc = "network" /\ active = NoClient /\ todo = {}
  /\ peers = {} /\ peer = [c \in Clients |-> NewPeer]
  /\ conn = [c \in Clients |-> "none"] /\ refused = {}
  /\ save = [c \in Clients |-> <<>>] /\ unacked = [c \in Clients |-> 0]
  /\ up = [c \in Clients |-> <<>>] /\ down = [c \in Clients |-> <<>>]
  /\ client = [c \in Clients |-> [NewClient EXCEPT !.phase = "away"]]

-----------------------------------------------------------------------------
\* Messages of an earlier connection are not those of a later one.
Reset(c) ==
  /\ save' = [save EXCEPT ![c] = <<>>] /\ unacked' = [unacked EXCEPT ![c] = 0]
  /\ up' = [up EXCEPT ![c] = <<>>] /\ down' = [down EXCEPT ![c] = <<>>]

\* Mutant: a peer's state is kept for its return.
KeptPeer(c) == peer[c]

\* peers.insert(client_id, StartupPeer::new(..))
FreshPeer(c) == NewPeer

\* update_network reports a new connection: it gets a StartupPeer while there is
\* room. netcode's own limit on connections is not relied on.
Connected(c) ==
  /\ pc = "network" /\ conn[c] = "none" /\ client[c].phase \in {"away", "failed"}
  /\ client' = [client EXCEPT ![c] = NewClient]
  /\ IF Cardinality(peers) < Expected
       THEN /\ conn' = [conn EXCEPT ![c] = "up"]
            /\ peers' = peers \cup {c}
            /\ peer' = [peer EXCEPT ![c] = FreshPeer(c)]
       ELSE conn' = [conn EXCEPT ![c] = "closed"] /\ UNCHANGED <<peers, peer>>
  /\ Reset(c)
  /\ UNCHANGED <<server, refused>>

\* update_network reports the end of a connection: one the authority closed, or
\* one that was lost.
Gone(c) ==
  /\ pc = "network"
  /\ conn' = [conn EXCEPT ![c] = "none"]
  /\ peers' = peers \ {c}
  /\ Reset(c)
  /\ UNCHANGED <<server, peer, refused, client>>

Removed(c) == conn[c] = "closed" /\ Gone(c)
Lost(c)    == conn[c] = "up" /\ Gone(c)

NetworkDone ==
  /\ pc = "network" /\ \A c \in Clients : conn[c] # "closed"
  /\ pc' = "serve" /\ todo' = peers
  /\ UNCHANGED <<active, roster, channels, client>>

\* The session was cancelled, or its transport failed.
Abandon ==
  /\ pc = "network"
  /\ pc' = "stopped"
  /\ conn' = [c \in Clients |-> "none"]
  /\ UNCHANGED <<active, todo, peers, peer, refused, channels, client>>

\* The chunks up to k fit in what the receiver may be holding; in the sending channel.
FitReceiver(p)     == {k \in p.offset .. Chunks : MemoryOf(p.offset + 1 .. k) <= MaxMemory - p.memory}
FitSender(p, held) == {k \in p.offset .. Chunks : held + k - p.offset <= SendLimit}

\* Mutant: what was acknowledged is taken for consumed.
PumpedOnAcks(p, held) == Max({p.offset} \cup FitSender(p, held))

\* Mutant: the sending channel is taken for unbounded.
PumpedAtOnce(p, held) == Max({p.offset} \cup FitReceiver(p))

\* pump: Begin once, then as many chunks as fit in both.
Pumped(p, held) == Max({p.offset} \cup (FitReceiver(p) \cap FitSender(p, held)))

Pump(c) ==
  /\ pc = "serve" /\ c \in todo
  /\ pc' = "receive" /\ active' = c /\ todo' = todo \ {c}
  /\ IF peer[c].phase # "transferring"
       THEN UNCHANGED <<peer, save, unacked>>
       ELSE LET begin == IF peer[c].began THEN <<>> ELSE <<0>>
                p     == [peer[c] EXCEPT !.began = TRUE, !.memory = @ + MemoryOf(ToSet(begin))]
                end   == Pumped(p, unacked[c] + Len(begin))
                sent  == begin \o [i \in 1 .. end - p.offset |-> p.offset + i]
            IN /\ peer' = [peer EXCEPT ![c] =
                    [p EXCEPT !.phase = IF end = Chunks THEN "awaiting" ELSE @,
                              !.offset = end,
                              !.outstanding = @ \cup ToSet(sent),
                              !.memory = @ + MemoryOf(p.offset + 1 .. end)]]
               /\ save' = [save EXCEPT ![c] = @ \o sent]
               /\ unacked' = [unacked EXCEPT ![c] = @ + Len(sent)]
  /\ UNCHANGED <<peers, conn, refused, up, down, client>>

\* The transport acknowledges what it delivered, whether the client read it or not.
Acknowledged(c) ==
  /\ unacked[c] > 0
  /\ unacked' = [unacked EXCEPT ![c] = @ - 1]
  /\ UNCHANGED <<server, roster, save, up, down, client>>

\* receive: what a peer may report, given what it was sent.
Acceptable(p, message) ==
  IF message.type = "ready" THEN p.phase = "awaiting"
  ELSE /\ p.phase # "ready"
       /\ message.received >= p.received
       /\ message.received = p.received \/ message.received \in p.outstanding
       /\ message.replayed >= p.replayed /\ message.replayed <= FinalTick
       /\ message.replayed = 0 \/ message.received = Chunks

\* Mutant: the last message consumed is still counted.
ConsumedBefore(p, received) == {k \in p.outstanding : k < received}

\* The messages a report shows to have left the receive queue. The first chunk
\* consumed shows that Begin was.
Consumed(p, received) == {k \in p.outstanding : received # 0 /\ k <= received}

\* The peer after an acceptable message; only one that reports something new
\* counts as progress.
Updated(p, message) ==
  IF message.type = "ready" THEN [p EXCEPT !.phase = "ready", !.idle = 0]
  ELSE IF message.received > p.received \/ message.replayed > p.replayed
    THEN LET consumed == Consumed(p, message.received)
         IN [p EXCEPT !.idle = 0, !.received = message.received, !.replayed = message.replayed,
                      !.outstanding = @ \ consumed,
                      !.memory = @ - MemoryOf(consumed)]
  ELSE p

Drop(c) == conn' = [conn EXCEPT ![c] = "closed"]

\* One message of the peer being served.
Receive(c) ==
  /\ pc = "receive" /\ active = c /\ up[c] # <<>>
  /\ up' = [up EXCEPT ![c] = Tail(@)]
  /\ \/ /\ Acceptable(peer[c], Head(up[c]))
        /\ peer' = [peer EXCEPT ![c] = Updated(@, Head(up[c]))]
        /\ UNCHANGED <<pc, active, conn, refused>>
     \/ /\ ~Acceptable(peer[c], Head(up[c]))
        /\ Drop(c) /\ refused' = refused \cup {c}
        /\ pc' = "serve" /\ active' = NoClient
        /\ UNCHANGED peer
  /\ UNCHANGED <<todo, peers, save, unacked, down, client>>

\* Mutant: no peer times out.
NeverTimedOut(p) == FALSE

\* Mutant: a peer that waits for the others times out too.
AnyTimedOut(p) == p.idle >= Timeout

TimedOut(p) == p.phase # "ready" /\ p.idle >= Timeout

\* No further message has arrived.
PeerServed(c) ==
  /\ pc = "receive" /\ active = c
  /\ IF TimedOut(peer[c]) THEN Drop(c) ELSE UNCHANGED conn
  /\ pc' = "serve" /\ active' = NoClient
  /\ UNCHANGED <<todo, peers, peer, refused, channels, client>>

\* Mutant: whoever is awaited for readiness is counted.
ReadyEnough(connected) == {c \in connected : peer[c].phase # "transferring"}

ReadyAmong(connected) == {c \in connected : peer[c].phase = "ready"}

\* Mutant: the channel does not keep the order.
QueuedFirst(c, message) == <<message>> \o down[c]

Queued(c, message) == Append(down[c], message)

\* broadcast_message(CHANNEL_LOCKSTEP, ..) reaches whoever is connected.
Broadcast(message) ==
  down' = [c \in Clients |-> IF c \in Up THEN Queued(c, message) ELSE down[c]]

\* The end of an iteration: Start is broadcast when every expected peer is ready.
Count ==
  /\ pc = "serve" /\ todo = {}
  /\ peers' = peers \cap Up
  /\ IF Cardinality(ReadyAmong(peers')) = Expected
       THEN pc' = "started" /\ Broadcast("start")
       ELSE pc' = "network" /\ UNCHANGED down
  /\ UNCHANGED <<active, todo, peer, conn, refused, save, unacked, up, client>>

\* tick_loop: a tick goes out on the channel Start took. What else the loop does is
\* LiveSession's.
BroadcastTick ==
  /\ pc = "started" /\ \A c \in Up : Len(down[c]) < MaxQueued
  /\ Broadcast("tick")
  /\ UNCHANGED <<server, roster, save, unacked, up, client>>

\* Time passes for every peer.
Elapse ==
  /\ pc \notin {"started", "stopped"}
  /\ \E c \in peers : peer[c].idle < Patience
  /\ peer' = [c \in Clients |-> IF c \in peers /\ peer[c].idle < Patience
                                  THEN [peer[c] EXCEPT !.idle = @ + 1] ELSE peer[c]]
  /\ UNCHANGED <<server, peers, conn, refused, channels, client>>

-----------------------------------------------------------------------------
Running(c) == client[c].phase \in {"receiving", "replaying", "awaiting"}

\* receive_save: one message of the save. Data outside the receiving phase, a
\* second Begin or a chunk before it ends the client's session.
ReceiveSave(c) ==
  /\ Running(c) /\ client[c].at = "save" /\ save[c] # <<>>
  /\ save' = [save EXCEPT ![c] = Tail(@)]
  /\ LET me == client[c]
         isBegin == Head(save[c]) = 0
     IN client' = [client EXCEPT ![c] =
          IF me.phase # "receiving" \/ isBegin = me.begun THEN [me EXCEPT !.phase = "failed"]
          ELSE IF isBegin THEN [me EXCEPT !.begun = TRUE]
          ELSE [me EXCEPT !.received = @ + 1,
                          !.phase = IF me.received + 1 = Chunks THEN "replaying" ELSE @]]
  /\ UNCHANGED <<server, roster, unacked, up, down>>

Send(c, messages) == up' = [up EXCEPT ![c] = @ \o messages]

\* The progress to send, if it is news in the part compared.
Report(me) == <<Progress(me.received, me.replayed)>>

\* The save channel is drained as far as it has arrived: consumption is reported
\* before anything else.
ReportReceived(c) ==
  /\ Running(c) /\ client[c].at = "save"
  /\ LET me == client[c]
     IN IF me.received # me.reported[1]
          THEN /\ Send(c, Report(me))
               /\ client' = [client EXCEPT ![c].reported = <<me.received, me.replayed>>,
                                           ![c].at = "step"]
          ELSE /\ client' = [client EXCEPT ![c].at = "step"]
               /\ UNCHANGED up
  /\ UNCHANGED <<server, roster, save, unacked, down>>

\* step: a bounded batch of the replay, none of it when its time is over before it
\* began. The last one ends in the declared state and makes the client ready, or ends
\* its session. Until then the client reports its replay at most once a second.
Replay(c, tick, sound) ==
  LET me   == client[c]
      done == [me EXCEPT !.replayed = tick, !.sound = sound, !.at = "lockstep"]
      news == <<me.received, tick>>
  IN \/ /\ tick = FinalTick /\ sound
        /\ client' = [client EXCEPT ![c] = [done EXCEPT !.phase = "awaiting"]]
        /\ Send(c, <<Ready>>)
     \/ /\ tick = FinalTick /\ ~sound
        /\ client' = [client EXCEPT ![c] = [done EXCEPT !.phase = "failed"]]
        /\ UNCHANGED up
     \/ /\ client' = [client EXCEPT ![c] = done]
        /\ UNCHANGED up
     \/ /\ news # me.reported
        /\ client' = [client EXCEPT ![c] = [done EXCEPT !.reported = news]]
        /\ Send(c, Report(done))

Step(c) ==
  /\ Running(c) /\ client[c].at = "step"
  /\ IF client[c].phase = "replaying"
       THEN \E tick \in client[c].replayed .. FinalTick,
               sound \in {client[c].sound} \cup (IF c \in Faulty THEN {FALSE} ELSE {}) :
              Replay(c, tick, sound)
       ELSE client' = [client EXCEPT ![c].at = "lockstep"] /\ UNCHANGED up
  /\ UNCHANGED <<server, roster, save, unacked, down>>

\* A batch that gets somewhere.
Progresses(c) ==
  Step(c) /\ <<client'[c].phase, client'[c].replayed>> # <<client[c].phase, client[c].replayed>>

\* One message of the lockstep channel; a live client's loop has that place only.
ReceiveLockstep(c, message) ==
  /\ Running(c) \/ client[c].phase = "live"
  /\ client[c].at = "lockstep" /\ down[c] # <<>> /\ Head(down[c]) = message
  /\ down' = [down EXCEPT ![c] = Tail(@)]
  /\ UNCHANGED <<server, roster, save, unacked, up>>

\* start_live: a second Start, or one before the replay is over, ends the session.
ReceiveStart(c) ==
  /\ ReceiveLockstep(c, "start")
  /\ client' = [client EXCEPT ![c].phase = IF @ = "awaiting" THEN "live" ELSE "failed"]

\* A tick before Start ends the session.
ReceiveTick(c) ==
  /\ ReceiveLockstep(c, "tick")
  /\ client' = [client EXCEPT ![c].phase = IF @ = "live" THEN @ ELSE "failed"]

\* Nothing has arrived on the lockstep channel.
NoStart(c) ==
  /\ Running(c) /\ client[c].at = "lockstep"
  /\ client' = [client EXCEPT ![c].at = "save"]
  /\ UNCHANGED <<server, roster, channels>>

\* The client's application, its transport or its machine ends the process.
Leave(c) ==
  /\ client[c].phase # "away"
  /\ client' = [client EXCEPT ![c].phase = "away"]
  /\ UNCHANGED <<server, roster, channels>>

\* The startup phase is over: tick_loop and the live client_loop go on.
Terminated ==
  /\ pc \in {"started", "stopped"} /\ \A c \in Clients : ~Running(c)
  /\ UNCHANGED vars

Server(c) == Removed(c) \/ Pump(c) \/ Receive(c) \/ PeerServed(c)

Client(c) == ReceiveSave(c) \/ ReportReceived(c) \/ Step(c) \/ ReceiveStart(c)
             \/ ReceiveTick(c) \/ NoStart(c)

Next ==
  \/ \E c \in Clients : Server(c) \/ Client(c) \/ Connected(c) \/ Lost(c) \/ Acknowledged(c)
                        \/ Leave(c)
  \/ NetworkDone \/ Count \/ BroadcastTick \/ Abandon \/ Elapse \/ Terminated

Spec == Init /\ [][Next]_vars

\* The authority's loop runs, an update of the transport reports finitely many
\* events, and time passes.
AuthorityFairness ==
  /\ SF_vars(NetworkDone)
  /\ WF_vars(Count \/ \E c \in Clients : Removed(c) \/ Pump(c) \/ PeerServed(c))
  /\ WF_vars(Elapse)

\* Besides, each loop finds sooner or later what keeps arriving, the clients' loops
\* run and their replays advance, and the transport acknowledges what it delivered and notices the end of a
\* client.
Fairness ==
  /\ AuthorityFairness
  /\ \A c \in Clients :
       /\ SF_vars(Receive(c)) /\ SF_vars(ReceiveSave(c)) /\ SF_vars(ReceiveStart(c))
       /\ SF_vars(Lost(c) /\ client[c].phase \in {"away", "failed"})
       /\ WF_vars(ReportReceived(c) \/ Step(c) \/ NoStart(c)) /\ SF_vars(Progresses(c))
       /\ WF_vars(Acknowledged(c))

AuthoritySpec == Spec /\ AuthorityFairness
FairSpec      == Spec /\ Fairness

-----------------------------------------------------------------------------
Message == [type : {"ready"}] \cup
           [type : {"progress"}, received : 0 .. Chunks, replayed : 0 .. FinalTick]

Peer ==
  [phase : {"transferring", "awaiting", "ready"}, began : BOOLEAN, offset : 0 .. Chunks,
   received : 0 .. Chunks, outstanding : SUBSET (0 .. Chunks), memory : Nat,
   replayed : 0 .. FinalTick, idle : 0 .. Patience]

Process ==
  [phase : {"away", "receiving", "replaying", "awaiting", "live", "failed"},
   at : {"save", "step", "lockstep"}, begun : BOOLEAN, received : 0 .. Chunks,
   replayed : 0 .. FinalTick, reported : (0 .. Chunks) \X (0 .. FinalTick), sound : BOOLEAN]

\* Every variable is what the loops make of it.
TypeOK ==
  /\ pc \in {"network", "serve", "receive", "started", "stopped"}
  /\ active \in Clients \cup {NoClient} /\ (pc = "receive" <=> active # NoClient)
  /\ todo \subseteq Clients /\ peers \subseteq Clients /\ refused \subseteq Clients
  /\ conn \in [Clients -> {"none", "up", "closed"}]
  /\ peer \in [Clients -> Peer]
  /\ save \in [Clients -> Seq(0 .. Chunks)] /\ unacked \in [Clients -> 0 .. SendLimit]
  /\ up \in [Clients -> Seq(Message)] /\ down \in [Clients -> Seq({"start", "tick"})]
  /\ client \in [Clients -> Process]

\* What the receiving transport may be holding of the save never exceeds what its
\* channel reserves, whatever was acknowledged: the authority's account of it covers
\* it, and the subtraction in pump cannot underflow (startup.rs 48-50, 90-97).
ReceiverMemoryBounded ==
  \A c \in peers :
    /\ MemoryOf(ToSet(save[c])) <= peer[c].memory
    /\ peer[c].memory <= MaxMemory

\* A client that runs this code is never refused by the authority, and its own startup
\* fails only when its replay does not end in the declared state: reports that cross
\* sends on the way, whatever a reconnecting client left behind and the first ticks
\* on Start's heels never look like a violation of the protocol (startup.rs 113-160,
\* 213-263, 305-315, run_client.rs 123-132).
NobodyRefused ==
  /\ refused = {}
  /\ \A c \in Clients : client[c].phase = "failed" => ~client[c].sound

\* Start is sent only to a full roster, in which every process that holds a place, and
\* has not left, finished its replay in the declared state; and nobody plays before
\* (run_server.rs 259-276).
BarrierSound ==
  /\ pc = "started" =>
       /\ Cardinality(peers) = Expected
       /\ \A c \in peers : client[c].phase \in {"awaiting", "live", "away", "failed"}
       /\ \A c \in peers : client[c].phase # "away" =>
            client[c].sound /\ client[c].replayed = FinalTick
  /\ \A c \in Clients : client[c].phase = "live" => pc = "started" /\ c \in peers

\* A client that is ready waits for the others as long as it takes: the authority
\* never ends its connection (startup.rs 168-170, run_server.rs 255-257).
ReadyWaits ==
  [][\A c \in peers : peer[c].phase = "ready" /\ conn[c] = "up" => conn'[c] # "closed"]_vars

\* While no peer times out, every peer's startup comes to an end: its client goes live,
\* fails or leaves, or the roster has a place to fill, or the session stops. No window
\* of the transfer stays closed (startup.rs 64-108, run_client.rs 69-80).
PeersGoLive ==
  \A c \in Clients :
    c \in peers ~> \/ c \notin peers \/ ~Running(c)
                   \/ Cardinality(peers) < Expected \/ pc = "stopped"

\* Whatever the clients do, the authority does not wait forever for one that no longer
\* progresses: it is ready or loses its place (run_server.rs 255-259).
StragglersLeave ==
  \A c \in Clients :
    c \in peers ~> c \notin peers \/ peer[c].phase = "ready" \/ pc = "stopped"
=============================================================================
