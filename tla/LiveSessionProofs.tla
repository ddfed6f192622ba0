------------------------- MODULE LiveSessionProofs -------------------------
(***************************************************************************)
(* Theorems about LiveSession, for every number of clients, every hash     *)
(* interval, history window, start tick and desync policy.                 *)
(***************************************************************************)
EXTENDS MCLiveSession, Sums

-----------------------------------------------------------------------------
\* Taking the head of a queue, or appending to it, keeps its type.
LEMMA QueueTypes ==
  ASSUME NEW S, NEW s \in Seq(S)
  PROVE  /\ <<>> \in Seq(S)
         /\ Len(s) \in Nat
         /\ \A e \in S : Append(s, e) \in Seq(S)
         /\ s # <<>> => Head(s) \in S /\ Tail(s) \in Seq(S)
         /\ \A t \in Seq(S) : s \o t \in Seq(S)
  OBVIOUS

\* A sequence with one more element.
LEMMA AppendShape ==
  ASSUME NEW S, NEW s \in Seq(S), NEW e \in S
  PROVE  /\ Len(Append(s, e)) = Len(s) + 1
         /\ DOMAIN Append(s, e) = DOMAIN s \cup {Len(s) + 1}
         /\ \A i \in DOMAIN s : Append(s, e)[i] = s[i]
         /\ Append(s, e)[Len(s) + 1] = e
         /\ s \o <<e>> = Append(s, e)
  OBVIOUS

\* A sequence without its head.
LEMMA TailShape ==
  ASSUME NEW S, NEW s \in Seq(S), s # <<>>
  PROVE  /\ 1 \in DOMAIN s /\ Head(s) = s[1]
         /\ Len(Tail(s)) = Len(s) - 1
         /\ \A i \in DOMAIN Tail(s) : i + 1 \in DOMAIN s /\ Tail(s)[i] = s[i + 1]
  OBVIOUS

\* What the proofs use of the types of the log and of the recording.
LEMMA LogTypes ==
  ASSUME TypeOK
  PROVE  /\ log \in Seq(Batch) /\ Len(log) \in Nat /\ inputs \in Batch
         /\ recorded \in Seq(Batch) /\ Len(recorded) \in Nat /\ flushed \in Nat
         /\ outbox \in Seq(Message)
         /\ Tick \in Nat /\ StartTick <= Tick
<1>1. /\ log \in Seq(Batch) /\ inputs \in Batch /\ recorded \in Seq(Batch) /\ flushed \in Nat
      /\ outbox \in Seq(Message)
  BY DEF TypeOK
<1>2. Len(log) \in Nat /\ Len(recorded) \in Nat
  BY <1>1, QueueTypes
<1>. QED
  BY <1>1, <1>2, TickAssumption DEF Tick

\* The variables keep their types.
THEOREM TypeCorrect == Spec => []TypeOK
<1> USE ParticipantsAssumption, TickAssumption
<1>1. Init => TypeOK
  <2>1. /\ <<>> \in Batch /\ <<>> \in Seq(Batch) /\ <<>> \in History
        /\ <<>> \in Seq(Message) /\ <<>> \in Seq(Report) /\ <<>> \in Seq(Commands)
    BY DEF Batch, History
  <2>2. DOMAIN <<>> = {}
    OBVIOUS
  <2>3. ASSUME Init
        PROVE  /\ DOMAIN hashes \subseteq Nat
               /\ \A t \in DOMAIN hashes : hashes[t] \in History
    BY <2>2, <2>3 DEF Init
  <2>4. ASSUME Init
        PROVE  /\ down \in [Clients -> Seq(Message)]
               /\ pending \in [Participants -> Seq(Commands)]
               /\ submitted \in [Participants -> Seq(Commands)]
               /\ reports \in [Clients -> Seq(Report)]
               /\ replica \in [Clients -> History]
    BY <2>1, <2>4 DEF Init
  <2>5. ASSUME Init
        PROVE  /\ verified \in [Clients -> Nat]
               /\ conn \in [Clients -> {"up", "closed", "gone"}]
               /\ reason \in [Clients -> {"none", "late", "invalid", "report", "overdue"}]
               /\ mode \in [Clients -> {"live", "joining", "stopped", "failed"}]
    BY <2>5 DEF Init
  <2>6. ASSUME Init
        PROVE  /\ flushed \in Nat /\ outbox \in Seq(Message)
               /\ unserved \subseteq Clients /\ tracked \subseteq Clients
               /\ inputs \in Batch /\ log \in Seq(Batch) /\ recorded \in Seq(Batch)
    BY <2>1, <2>6 DEF Init
  <2>7. ASSUME Init
        PROVE  pc = "network" /\ outcome = "running" /\ cancelled = FALSE /\ active = NoClient
    BY <2>7 DEF Init
  <2>. QED
    BY <2>3, <2>4, <2>5, <2>6, <2>7 DEF TypeOK
<1>2. TypeOK /\ [Next]_vars => TypeOK'
  <2> SUFFICES ASSUME TypeOK, [Next]_vars PROVE TypeOK'
    OBVIOUS
  <2> USE DEF TypeOK, loop, ledger, peers, channels, process, Stop, Disconnect, NextClient
  <2>a. ASSUME NEW p \in Participants, NEW x \in Commands
        PROVE  Append(inputs, [participant |-> p, payload |-> x]) \in Batch
    <3>1. [participant |-> p, payload |-> x] \in Input
      BY DEF Input
    <3>. QED
      BY <3>1, QueueTypes DEF Batch
  <2>b. \A p \in Participants : pending[p] # <<>> =>
          Head(pending[p]) \in Commands /\ Tail(pending[p]) \in Seq(Commands)
    BY QueueTypes
  <2>c. \A c \in Clients : c \in Participants
    BY DEF Participants
  <2>d. Len(recorded) \in Nat
    BY QueueTypes
  <2>1. CASE UpdateNetwork
    BY <2>1 DEF UpdateNetwork, LateConnection, Up
  <2>2. CASE Cancelled \/ NetworkFails
    BY <2>2, QueueTypes DEF Cancelled, NetworkFails
  <2>3. ASSUME NEW c \in Clients, BeginClient(c) PROVE TypeOK'
    BY <2>3 DEF BeginClient
  <2>4. CASE AllServed
    BY <2>4 DEF AllServed
  <2>5. ASSUME NEW c \in Clients, ReceiveInput(c) PROVE TypeOK'
    <3>1. pending' \in [Participants -> Seq(Commands)]
      BY <2>5, <2>b, <2>c DEF ReceiveInput
    <3>2. inputs' \in Batch
      <4>1. Head(pending[c]) \in Commands
        BY <2>5, <2>b, <2>c DEF ReceiveInput
      <4>2. Append(inputs, [participant |-> c, payload |-> Head(pending[c])]) \in Batch
        BY <4>1, <2>a, <2>c
      <4>. QED
        BY <2>5, <4>2 DEF ReceiveInput, Collect
    <3>3. conn' \in [Clients -> {"up", "closed", "gone"}]
      BY <2>5 DEF ReceiveInput
    <3>4. reason' \in [Clients -> {"none", "late", "invalid", "report", "overdue"}]
      BY <2>5 DEF ReceiveInput
    <3>. QED
      BY <2>5, <2>d, <3>1, <3>2, <3>3, <3>4 DEF ReceiveInput
  <2>6. CASE InputsDrained
    BY <2>6 DEF InputsDrained
  <2>7. ASSUME NEW c \in Clients, ReceiveReport(c) PROVE TypeOK'
    <3>1. Head(reports[c]) \in Report /\ Tail(reports[c]) \in Seq(Report)
      BY <2>7, QueueTypes DEF ReceiveReport
    <3>2. Head(reports[c]).tick \in Nat
      BY <3>1 DEF Report
    <3>3. /\ reports' \in [Clients -> Seq(Report)]
          /\ verified' \in [Clients -> Nat]
      BY <2>7, <3>1, <3>2 DEF ReceiveReport
    <3>4. /\ conn' \in [Clients -> {"up", "closed", "gone"}]
          /\ reason' \in [Clients -> {"none", "late", "invalid", "report", "overdue"}]
      <4>1. \/ UNCHANGED <<conn, reason>>
            \/ conn' = [x \in Clients |-> "gone"] /\ reason' = reason
            \/ conn' = [conn EXCEPT ![c] = "closed"] /\ reason' = [reason EXCEPT ![c] = "report"]
        BY <2>7 DEF ReceiveReport
      <4>2. conn' \in [Clients -> {"up", "closed", "gone"}]
        BY <4>1
      <4>3. reason' \in [Clients -> {"none", "late", "invalid", "report", "overdue"}]
        BY <4>1
      <4>. QED
        BY <4>2, <4>3
    <3>5. /\ pc' \in {"reports", "serve", "stopped"} /\ active' \in Clients \cup {NoClient}
          /\ pc' \in {"inputs", "reports"} => active' \in Clients
          /\ outcome' \in {outcome, "desync"} /\ flushed' \in {flushed, Len(recorded)}
      BY <2>7 DEF ReceiveReport
    <3>. QED
      BY <2>7, <2>d, <3>3, <3>4, <3>5 DEF ReceiveReport
  <2>8. ASSUME NEW c \in Clients, ReportsDrained(c) PROVE TypeOK'
    BY <2>8 DEF ReportsDrained
  <2>9. CASE DrainLocal
    <3>1. Host \in Participants
      BY DEF Participants
    <3>2. pending' \in [Participants -> Seq(Commands)]
      BY <2>9, <2>b, <3>1 DEF DrainLocal
    <3>3. inputs' \in Batch
      <4>1. Head(pending[Host]) \in Commands
        BY <2>9, <2>b, <3>1 DEF DrainLocal
      <4>2. Append(inputs, [participant |-> Host, payload |-> Head(pending[Host])]) \in Batch
        BY <4>1, <2>a, <3>1
      <4>. QED
        BY <2>9, <4>2 DEF DrainLocal, Collect
    <3>4. conn' \in [Clients -> {"up", "closed", "gone"}]
      BY <2>9 DEF DrainLocal
    <3>. QED
      BY <2>9, <2>d, <3>2, <3>3, <3>4 DEF DrainLocal
  <2>10. CASE LocalDrained
    BY <2>10 DEF LocalDrained
  <2>11. CASE TickExhausted \/ AppendFails \/ AdvanceFails \/ CommitTick
    <3>1. /\ <<>> \in Batch
          /\ Append(recorded, inputs) \in Seq(Batch) /\ Append(log, inputs) \in Seq(Batch)
          /\ Len(recorded) \in Nat /\ Len(Append(recorded, inputs)) \in Nat
      BY QueueTypes DEF Batch
    <3>2. [tick |-> Tick + 1, inputs |-> inputs] \in Message
      BY QueueTypes DEF Message, Tick
    <3>3. Append(outbox, [tick |-> Tick + 1, inputs |-> inputs]) \in Seq(Message)
      BY <3>2, QueueTypes
    <3>. QED
      BY <2>11, <3>1, <3>3 DEF TickExhausted, AppendFails, AdvanceFails, CommitTick,
         Record, Broadcast
  <2>12. CASE SealTick \/ FlushFails
    <3>1. log \in History /\ Tick \in Nat /\ Len(recorded) \in Nat
      BY QueueTypes DEF History, Tick
    <3>2. ASSUME RetainHash
          PROVE  DOMAIN hashes' \subseteq Nat /\ \A t \in DOMAIN hashes' : hashes'[t] \in History
      BY <3>1, <3>2 DEF RetainHash
    <3>. QED
      BY <2>12, <3>1, <3>2 DEF SealTick, FlushFails
  <2>13. CASE SendPackets
    BY <2>13, QueueTypes DEF SendPackets
  <2>14. ASSUME NEW p \in Participants, NEW command \in Commands, Submit(p, command)
         PROVE TypeOK'
    BY <2>14, QueueTypes DEF Submit
  <2>15. ASSUME NEW c \in Clients, ReceiveTick(c) PROVE TypeOK'
    <3>1. Head(down[c]) \in Message /\ Tail(down[c]) \in Seq(Message)
      BY <2>15, QueueTypes DEF ReceiveTick, TickArrived
    <3>2. ASSUME NEW result \in Batch \cup {Corrupt}
          PROVE  Append(replica[c], result) \in History
      BY QueueTypes DEF History
    <3>3. ClientTick(c) + 1 \in Nat
      BY QueueTypes DEF ClientTick, History
    <3>4. ASSUME NEW result \in Batch \cup {Corrupt}, Apply(c, result)
          PROVE  replica' \in [Clients -> History] /\ reports' \in [Clients -> Seq(Report)]
      <4>1. [tick |-> ClientTick(c) + 1, hash |-> Append(replica[c], result)] \in Report
        BY <3>2, <3>3 DEF Report
      <4>. QED
        BY <3>2, <3>4, <4>1, QueueTypes DEF Apply
    <3>5. Head(down[c]).inputs \in Batch \cup {Corrupt}
      BY <3>1 DEF Message
    <3>6. replica' \in [Clients -> History] /\ reports' \in [Clients -> Seq(Report)]
      <4>1. CASE Apply(c, Head(down[c]).inputs) \/ Apply(c, Corrupt)
        BY <3>4, <3>5, <4>1
      <4>2. CASE UNCHANGED <<replica, reports>>
        BY <4>2
      <4>. QED
        BY <2>15, <4>1, <4>2 DEF ReceiveTick, TickArrived
    <3>7. /\ mode' \in [Clients -> {"live", "joining", "stopped", "failed"}]
          /\ down' \in [Clients -> Seq(Message)]
      <4>1. down' = [down EXCEPT ![c] = Tail(down[c])]
        BY <2>15 DEF ReceiveTick
      <4>2. down' \in [Clients -> Seq(Message)]
        BY <3>1, <4>1
      <4>3. mode' = mode \/ mode' = [mode EXCEPT ![c] = "failed"]
        BY <2>15 DEF ReceiveTick
      <4>4. mode' \in [Clients -> {"live", "joining", "stopped", "failed"}]
        BY <4>3
      <4>. QED
        BY <4>2, <4>4
    <3>. QED
      BY <2>15, <3>6, <3>7 DEF ReceiveTick, TickArrived
  <2>16. ASSUME NEW c \in Clients, LeaveSession(c) PROVE TypeOK'
    BY <2>16 DEF LeaveSession
  <2>17. CASE RequestCancel
    BY <2>17 DEF RequestCancel
  <2>18. CASE UNCHANGED vars
    BY <2>18 DEF vars
  <2>19. QED
    BY <2>1, <2>2, <2>3, <2>4, <2>5, <2>6, <2>7, <2>8, <2>9, <2>10, <2>11, <2>12, <2>13,
       <2>14, <2>15, <2>16, <2>17, <2>18 DEF Next, Server, Environment, Terminated
<1>3. QED
  BY <1>1, <1>2, PTL DEF Spec

-----------------------------------------------------------------------------
\* What the steps that are not about the channels leave alone.
Quiet ==
  /\ UNCHANGED <<log, down, replica, mode>>
  /\ Up' \subseteq Up
  /\ \/ pc' = "stopped" /\ Up' = {}
     \/ pc' = pc /\ outbox' = outbox
     \/ /\ pc \in {"network", "serve", "inputs", "reports", "local", "commit"}
        /\ pc' \in {"network", "serve", "inputs", "reports", "local", "commit"}
        /\ outbox' = outbox
     \/ pc = "seal" /\ pc' = "send" /\ outbox' = outbox

\* Every step is quiet, or one of the five that move ticks along.
LEMMA QuietSteps ==
  ASSUME TypeOK, OutboxInv, [Next]_vars
  PROVE  \/ Quiet
         \/ UpdateNetwork \/ CommitTick \/ SendPackets
         \/ \E c \in Clients : ReceiveTick(c) \/ LeaveSession(c)
<1> USE DEF TypeOK, OutboxInv, Quiet, Up, loop, ledger, peers, channels, process
<1> DEFINE Same == UNCHANGED <<log, down, replica, mode>>
<1>1. ASSUME NEW why, NEW written, Stop(why, written), Same PROVE Quiet
  BY <1>1 DEF Stop
<1>2. ASSUME NEW c \in Clients, NEW why, Disconnect(c, why), NextClient, Same,
             pc \in {"inputs", "reports"}, outbox' = outbox
      PROVE  Quiet
  BY <1>2 DEF Disconnect, NextClient
<1>3. CASE Cancelled \/ NetworkFails \/ TickExhausted \/ AppendFails \/ AdvanceFails \/ FlushFails
  BY <1>1, <1>3 DEF Cancelled, NetworkFails, TickExhausted, AppendFails, AdvanceFails, FlushFails
<1>4. ASSUME NEW c \in Clients, BeginClient(c) PROVE Quiet
  BY <1>4 DEF BeginClient
<1>5. CASE AllServed \/ InputsDrained \/ LocalDrained \/ SealTick \/ RequestCancel
  BY <1>5 DEF AllServed, InputsDrained, LocalDrained, SealTick, RequestCancel
<1>6. ASSUME NEW c \in Clients, ReceiveInput(c) PROVE Quiet
  BY <1>1, <1>2, <1>6 DEF ReceiveInput
<1>7. ASSUME NEW c \in Clients, ReceiveReport(c) PROVE Quiet
  BY <1>1, <1>2, <1>7 DEF ReceiveReport
<1>8. ASSUME NEW c \in Clients, ReportsDrained(c) PROVE Quiet
  BY <1>2, <1>8 DEF ReportsDrained, NextClient
<1>9. CASE DrainLocal
  BY <1>1, <1>9 DEF DrainLocal
<1>10. ASSUME NEW p \in Participants, NEW command \in Commands, Submit(p, command) PROVE Quiet
  BY <1>10 DEF Submit
<1>11. CASE UNCHANGED vars
  BY <1>11 DEF vars
<1>12. QED
  BY <1>3, <1>4, <1>5, <1>6, <1>7, <1>8, <1>9, <1>10, <1>11
  DEF Next, Server, Environment, Terminated

\* Feed(c) outlasts every step that moves nothing on c's way.
LEMMA FeedFrame ==
  ASSUME NEW c \in Clients, Feed(c), log' = log, replica'[c] = replica[c], down'[c] = down[c],
         c \in Up' => c \in Up /\ outbox' = outbox
  PROVE  Feed(c)'
  BY DEF Feed, ClientTick

\* Channels and replicas: each step keeps the log, the queues and the replicas in
\* line with one another, and no client meets a tick it has to refuse.
LEMMA ChannelStep ==
  ASSUME TypeOK, TypeOK', ReplicasFollowLog, OutboxInv, ChannelInv, ClientsNeverRefuse,
         [Next]_vars
  PROVE  ReplicasFollowLog' /\ OutboxInv' /\ ChannelInv' /\ ClientsNeverRefuse'
<1> USE ParticipantsAssumption, TickAssumption
<1>a. /\ log \in Seq(Batch) /\ Len(log) \in Nat /\ inputs \in Batch
      /\ replica \in [Clients -> Seq(Batch \cup {Corrupt})]
      /\ replica' \in [Clients -> Seq(Batch \cup {Corrupt})]
      /\ down \in [Clients -> Seq(Message)] /\ down' \in [Clients -> Seq(Message)]
      /\ \A c \in Clients : Len(replica[c]) \in Nat /\ Len(down[c]) \in Nat
  BY QueueTypes DEF TypeOK, History
<1>1. CASE Quiet
  <2>1. ReplicasFollowLog' /\ ClientsNeverRefuse'
    BY <1>1 DEF Quiet, ReplicasFollowLog, ClientsNeverRefuse
  <2>2. OutboxInv'
    BY <1>1 DEF Quiet, OutboxInv, Tick
  <2>3. ChannelInv'
    <3> SUFFICES ASSUME NEW c \in Clients
                 PROVE  /\ mode'[c] = "joining" => down'[c] = <<>> /\ c \notin Up'
                        /\ mode'[c] = "live" => Feed(c)'
      BY DEF ChannelInv
    <3>1. Up' = {} \/ outbox' = outbox
      BY <1>1 DEF Quiet
    <3>. QED
      BY <1>1, <3>1, FeedFrame DEF Quiet, ChannelInv
  <2>. QED
    BY <2>1, <2>2, <2>3
<1>2. CASE UpdateNetwork
  <2>1. /\ UNCHANGED <<log, outbox, replica>> /\ pc = "network" /\ pc' = "serve"
        /\ Up' \subseteq Up
        /\ \A c \in Clients :
             \/ mode'[c] = mode[c] /\ down'[c] = down[c]
             \/ mode'[c] = "joining" /\ down'[c] = <<>> /\ c \notin Up'
    BY <1>2 DEF UpdateNetwork, LateConnection, Up, TypeOK, ledger
  <2>2. ReplicasFollowLog' /\ OutboxInv'
    BY <2>1 DEF ReplicasFollowLog, OutboxInv
  <2>3. ClientsNeverRefuse'
    BY <2>1 DEF ClientsNeverRefuse
  <2>4. ChannelInv'
    <3> SUFFICES ASSUME NEW c \in Clients
                 PROVE  /\ mode'[c] = "joining" => down'[c] = <<>> /\ c \notin Up'
                        /\ mode'[c] = "live" => Feed(c)'
      BY DEF ChannelInv
    <3>1. CASE mode'[c] = mode[c] /\ down'[c] = down[c]
      BY <2>1, <3>1, FeedFrame DEF ChannelInv
    <3>2. CASE mode'[c] = "joining" /\ down'[c] = <<>> /\ c \notin Up'
      BY <3>2
    <3>. QED
      BY <2>1, <3>1, <3>2
  <2>. QED
    BY <2>2, <2>3, <2>4
<1>3. CASE CommitTick
  <2>1. /\ UNCHANGED <<down, replica, mode, conn>> /\ pc = "commit" /\ pc' = "seal"
        /\ log' = Append(log, inputs) /\ outbox = <<>>
        /\ outbox' = <<[tick |-> Tick + 1, inputs |-> inputs]>>
    BY <1>3 DEF CommitTick, Broadcast, OutboxInv, channels, process, peers
  <2>2. /\ log' \in Seq(Batch) /\ Len(log') = Len(log) + 1 /\ log'[Len(log')] = inputs
        /\ \A i \in DOMAIN log : i \in DOMAIN log' /\ log'[i] = log[i]
    BY <2>1, <1>a
  <2>3. Len(outbox) = 0 /\ Len(outbox') = 1
    BY <2>1
  <2>4. ReplicasFollowLog' /\ ClientsNeverRefuse'
    BY <2>1, <2>2 DEF ReplicasFollowLog, ClientsNeverRefuse
  <2>5. OutboxInv'
    BY <2>1, <2>2, <1>a DEF OutboxInv, Tick
  <2>6. ChannelInv'
    <3>1. ASSUME NEW c \in Clients, Feed(c) PROVE Feed(c)'
      <4>1. /\ Len(replica[c]) \in Nat /\ Len(down[c]) \in Nat
            /\ replica'[c] = replica[c] /\ down'[c] = down[c] /\ ClientTick(c)' = ClientTick(c)
        BY <2>1, <1>a DEF ClientTick
      <4>2. c \in Up' => Len(replica'[c]) + Len(down'[c]) + Len(outbox') = Len(log')
        BY <2>1, <2>2, <2>3, <3>1, <4>1, <1>a DEF Feed, Up
      <4>. QED
        BY <2>2, <3>1, <4>1, <4>2 DEF Feed
    <3>. QED
      BY <2>1, <3>1 DEF ChannelInv, Up
  <2>. QED
    BY <2>4, <2>5, <2>6
<1>4. CASE SendPackets
  <2>1. /\ UNCHANGED <<log, replica, mode, conn>> /\ pc = "send" /\ pc' = "network"
        /\ outbox' = <<>>
        /\ \A c \in Clients : down'[c] = IF c \in Up THEN down[c] \o outbox ELSE down[c]
    BY <1>4 DEF SendPackets, peers, process
  <2>2. /\ log # <<>> /\ outbox = <<[tick |-> Tick, inputs |-> log[Len(log)]]>>
        /\ Len(outbox) = 1 /\ outbox[1].tick = Tick /\ outbox[1].inputs = log[Len(log)]
        /\ outbox \in Seq(Message) /\ Len(log) \in DOMAIN log
    <3>1. log # <<>> /\ outbox = <<[tick |-> Tick, inputs |-> log[Len(log)]]>>
      BY <2>1 DEF OutboxInv
    <3>2. Len(outbox) = 1 /\ outbox[1].tick = Tick /\ outbox[1].inputs = log[Len(log)]
      BY <3>1
    <3>3. Len(log) \in DOMAIN log
      BY <3>1, <1>a
    <3>. QED
      BY <3>1, <3>2, <3>3, LogTypes
  <2>3. ReplicasFollowLog' /\ ClientsNeverRefuse' /\ OutboxInv'
    BY <2>1 DEF ReplicasFollowLog, ClientsNeverRefuse, OutboxInv
  <2>4. ASSUME NEW c \in Clients, mode[c] = "live", c \in Up PROVE Feed(c)'
    <3>1. /\ Len(down'[c]) = Len(down[c]) + 1
          /\ \A i \in DOMAIN down[c] : down'[c][i] = down[c][i]
          /\ down'[c][Len(down'[c])] = outbox[1]
          /\ DOMAIN down'[c] = DOMAIN down[c] \cup {Len(down[c]) + 1}
      <4>1. [tick |-> Tick, inputs |-> log[Len(log)]] \in Message
        BY <2>2, <1>a DEF Message, Tick
      <4>2. outbox = <<outbox[1]>> /\ outbox[1] \in Message /\ down[c] \in Seq(Message)
        BY <2>2, <4>1, <1>a
      <4>3. down'[c] = down[c] \o <<outbox[1]>>
        BY <2>1, <2>4, <4>2
      <4>4. down'[c] = Append(down[c], outbox[1])
        BY <4>2, <4>3, AppendShape
      <4>. QED
        BY <4>2, <4>4, AppendShape
    <3>2. Len(replica[c]) + Len(down[c]) + 1 = Len(log)
      BY <2>2, <2>4 DEF ChannelInv, Feed
    <3>3. Len(outbox') = 0
      BY <2>1
    <3>4. Feed(c) /\ Len(replica[c]) + Len(down'[c]) + Len(outbox') = Len(log)
      <4>1. Feed(c)
        BY <2>4 DEF ChannelInv
      <4>2. Len(replica[c]) \in Nat /\ Len(down[c]) \in Nat /\ Len(log) \in Nat
        BY <1>a
      <4>. QED
        BY <3>1, <3>2, <3>3, <4>1, <4>2, <1>a
    <3>5. ASSUME NEW i \in DOMAIN down'[c]
          PROVE  /\ Len(replica[c]) + i \in DOMAIN log
                 /\ down'[c][i].tick = ClientTick(c) + i
                 /\ down'[c][i].inputs = log[Len(replica[c]) + i]
      <4>1. CASE i \in DOMAIN down[c]
        BY <3>1, <3>4, <4>1 DEF Feed
      <4>2. CASE i = Len(down[c]) + 1
        <5>1. Len(replica[c]) + i = Len(log) /\ down'[c][i] = outbox[1]
          BY <3>1, <3>2, <4>2, <1>a
        <5>2. Tick = ClientTick(c) + i
          <6>1. Len(replica[c]) \in Nat /\ i \in Nat /\ StartTick \in Nat
            BY <4>2, <1>a
          <6>2. Len(log) = Len(replica[c]) + i
            BY <5>1
          <6>. QED
            BY <6>1, <6>2, <1>a DEF ClientTick, Tick
        <5>. QED
          BY <2>2, <5>1, <5>2
      <4>. QED
        BY <3>1, <4>1, <4>2
    <3>. QED
      BY <2>1, <3>4, <3>5 DEF Feed, ClientTick
  <2>5. ChannelInv'
    <3> SUFFICES ASSUME NEW c \in Clients
                 PROVE  /\ mode'[c] = "joining" => down'[c] = <<>> /\ c \notin Up'
                        /\ mode'[c] = "live" => Feed(c)'
      BY DEF ChannelInv
    <3>1. CASE c \in Up
      BY <2>1, <2>4, <3>1 DEF ChannelInv, Up
    <3>2. CASE c \notin Up
      BY <2>1, <3>2, FeedFrame DEF ChannelInv, Up
    <3>. QED
      BY <3>1, <3>2
  <2>. QED
    BY <2>3, <2>5
<1>5. ASSUME NEW c \in Clients, LeaveSession(c)
      PROVE  ReplicasFollowLog' /\ OutboxInv' /\ ChannelInv' /\ ClientsNeverRefuse'
  <2>1. /\ UNCHANGED <<log, outbox, replica, down, conn, pc>>
        /\ mode' = [mode EXCEPT ![c] = "stopped"]
    BY <1>5 DEF LeaveSession, loop, ledger, peers, channels
  <2>2. Up' = Up /\ Tick' = Tick
    BY <2>1 DEF Up, Tick
  <2>3. \A d \in Clients : mode'[d] = "stopped" \/ mode'[d] = mode[d]
    BY <2>1 DEF TypeOK
  <2>4. ReplicasFollowLog'
    BY <2>1 DEF ReplicasFollowLog
  <2>5. OutboxInv'
    BY <2>1, <2>2 DEF OutboxInv
  <2>6. ClientsNeverRefuse'
    BY <2>3 DEF ClientsNeverRefuse
  <2>7. ChannelInv'
    <3> SUFFICES ASSUME NEW d \in Clients
                 PROVE  /\ mode'[d] = "joining" => down'[d] = <<>> /\ d \notin Up'
                        /\ mode'[d] = "live" => Feed(d)'
      BY DEF ChannelInv
    <3>1. mode[d] = "live" => Feed(d)'
      BY <2>1, <2>2, FeedFrame DEF ChannelInv
    <3>. QED
      BY <2>1, <2>2, <2>3, <3>1 DEF ChannelInv
  <2>. QED
    BY <2>4, <2>5, <2>6, <2>7
<1>6. ASSUME NEW c \in Clients, ReceiveTick(c)
      PROVE  ReplicasFollowLog' /\ OutboxInv' /\ ChannelInv' /\ ClientsNeverRefuse'
  <2>1. mode[c] = "live" /\ down[c] # <<>> /\ Feed(c)
    BY <1>6 DEF ReceiveTick, TickArrived, ChannelInv
  <2>2. /\ Len(replica[c]) + 1 \in DOMAIN log
        /\ Head(down[c]).tick = ClientTick(c) + 1
        /\ Head(down[c]).inputs = log[Len(replica[c]) + 1]
    BY <2>1, <1>a DEF Feed
  <2>3. /\ UNCHANGED <<log, outbox, conn, pc, mode>>
        /\ down' = [down EXCEPT ![c] = Tail(@)]
        /\ \/ replica' = [replica EXCEPT ![c] = Append(@, log[Len(replica[c]) + 1])]
           \/ c \in Faulty /\ replica' = [replica EXCEPT ![c] = Append(@, Corrupt)]
    BY <1>6, <2>1, <2>2 DEF ReceiveTick, TickArrived, Apply, loop, ledger, peers
  <2>4. PICK result \in Batch \cup {Corrupt} :
          /\ replica' = [replica EXCEPT ![c] = Append(@, result)]
          /\ result = log[Len(replica[c]) + 1] \/ (c \in Faulty /\ result = Corrupt)
    BY <2>2, <2>3, <1>a
  <2>5. /\ Len(replica'[c]) = Len(replica[c]) + 1
        /\ DOMAIN replica'[c] = DOMAIN replica[c] \cup {Len(replica[c]) + 1}
        /\ \A i \in DOMAIN replica[c] : replica'[c][i] = replica[c][i]
        /\ replica'[c][Len(replica[c]) + 1] = result
        /\ \A d \in Clients \ {c} : replica'[d] = replica[d] /\ down'[d] = down[d]
    <3>1. replica'[c] = Append(replica[c], result)
      BY <2>4 DEF TypeOK
    <3>2. \A d \in Clients \ {c} : replica'[d] = replica[d] /\ down'[d] = down[d]
      BY <2>3, <2>4 DEF TypeOK
    <3>. QED
      BY <3>1, <3>2, <1>a, AppendShape
  <2>6. /\ down'[c] = Tail(down[c]) /\ Len(down'[c]) = Len(down[c]) - 1
        /\ \A i \in DOMAIN down'[c] : i + 1 \in DOMAIN down[c] /\ down'[c][i] = down[c][i + 1]
    BY <2>1, <2>3, <1>a DEF TypeOK
  <2>7. ReplicasFollowLog'
    BY <2>2, <2>3, <2>4, <2>5 DEF ReplicasFollowLog
  <2>8. OutboxInv' /\ ClientsNeverRefuse'
    BY <2>3 DEF OutboxInv, ClientsNeverRefuse, Tick, Up
  <2>9. Feed(c)'
    <3>1. /\ Len(replica[c]) \in Nat /\ Len(down[c]) \in Nat /\ StartTick \in Nat
          /\ Len(outbox') = Len(outbox) /\ log' = log
      BY <2>3, <1>a
    <3>. USE <1>a
    <3>2. c \in Up' => Len(replica'[c]) + Len(down'[c]) + Len(outbox') = Len(log')
      BY <2>1, <2>3, <2>5, <2>6, <3>1 DEF Feed, Up
    <3>3. ASSUME NEW i \in DOMAIN down'[c]
          PROVE  /\ Len(replica'[c]) + i \in DOMAIN log'
                 /\ down'[c][i].tick = ClientTick(c)' + i
                 /\ down'[c][i].inputs = log'[Len(replica'[c]) + i]
      <4>1. i \in Nat /\ i + 1 \in DOMAIN down[c] /\ down'[c][i] = down[c][i + 1]
        BY <2>6, <1>a
      <4>2. Len(replica'[c]) + i = Len(replica[c]) + (i + 1)
        BY <2>5, <3>1, <4>1
      <4>3. ClientTick(c)' + i = ClientTick(c) + (i + 1)
        BY <3>1, <4>1, <4>2, <2>5 DEF ClientTick
      <4>. QED
        BY <2>1, <3>1, <4>1, <4>2, <4>3 DEF Feed
    <3>. QED
      BY <3>2, <3>3 DEF Feed
  <2>10. ChannelInv'
    <3>1. ASSUME NEW d \in Clients \ {c}, Feed(d) PROVE Feed(d)'
      BY <2>3, <2>5, <3>1, FeedFrame DEF Up
    <3>. QED
      BY <2>1, <2>3, <2>5, <2>9, <3>1 DEF ChannelInv, Up
  <2>. QED
    BY <2>7, <2>8, <2>10
<1>7. QED
  BY <1>1, <1>2, <1>3, <1>4, <1>5, <1>6, QuietSteps

-----------------------------------------------------------------------------
\* Prefixes of a sequence outlast its growth, and are equal element by element.
LEMMA PrefixOfAppend ==
  ASSUME NEW S, NEW s \in Seq(S), NEW e \in S, NEW n \in Int, n <= Len(s)
  PROVE  SubSeq(Append(s, e), 1, n) = SubSeq(s, 1, n)
  OBVIOUS

\* Prefixes are equal when their elements are.
LEMMA PrefixElements ==
  ASSUME NEW S, NEW s \in Seq(S), NEW t \in Seq(S), NEW n \in Nat,
         n <= Len(s), n <= Len(t)
  PROVE  SubSeq(s, 1, n) = SubSeq(t, 1, n) <=> \A i \in 1 .. n : s[i] = t[i]
<1>1. ASSUME SubSeq(s, 1, n) = SubSeq(t, 1, n), NEW i \in 1 .. n PROVE s[i] = t[i]
  <2>1. SubSeq(s, 1, n)[i] = s[i] /\ SubSeq(t, 1, n)[i] = t[i]
    OBVIOUS
  <2>. QED
    BY <1>1, <2>1
<1>2. ASSUME \A i \in 1 .. n : s[i] = t[i] PROVE SubSeq(s, 1, n) = SubSeq(t, 1, n)
  BY <1>2
<1>. QED
  BY <1>1, <1>2

\* The retained hashes stay those of past states, and none inside the window is
\* dropped: hashes.retain measures age from the tick just sealed.
LEMMA HashStep ==
  ASSUME TypeOK, TypeOK', OutboxInv, HashInv, [Next]_vars
  PROVE  HashInv'
<1> USE TickAssumption
<1>a. /\ log \in Seq(Batch) /\ log' \in Seq(Batch) /\ Len(log) \in Nat /\ inputs \in Batch
      /\ Tick \in Nat /\ StartTick <= Tick
  <2>1. log' \in Seq(Batch)
    BY DEF TypeOK
  <2>. QED
    BY <2>1, LogTypes
<1>b. Window \in Nat
  BY DEF Window
<1>1. CASE UNCHANGED <<log, hashes>> /\ (pc' = "seal" <=> pc = "seal")
  BY <1>1 DEF HashInv, Tick
<1>2. CASE CommitTick
  <2>1. /\ log' = Append(log, inputs) /\ hashes' = hashes /\ pc = "commit" /\ pc' = "seal"
    BY <1>2 DEF CommitTick
  <2>2. Tick' = Tick + 1
    BY <2>1, <1>a DEF Tick
  <2>3. ASSUME NEW t \in DOMAIN hashes
        PROVE  t \in StartTick + 1 .. Tick' /\ hashes[t] = SubSeq(log', 1, t - StartTick)
    <3>1. t \in StartTick + 1 .. Tick /\ hashes[t] = SubSeq(log, 1, t - StartTick)
      BY DEF HashInv
    <3>2. t - StartTick \in Int /\ t - StartTick <= Len(log)
      BY <3>1, <1>a DEF Tick
    <3>3. SubSeq(log', 1, t - StartTick) = SubSeq(log, 1, t - StartTick)
      BY <2>1, <3>2, <1>a, PrefixOfAppend
    <3>. QED
      BY <2>2, <3>1, <3>3, <1>a
  <2>4. ASSUME NEW t \in StartTick + 1 .. Tick', Sealed(t), Tick' - t <= Window, t # Tick'
        PROVE  t \in DOMAIN hashes
    <3>1. t \in StartTick + 1 .. Tick /\ Tick - t <= Window
      BY <2>2, <2>4, <1>a, <1>b
    <3>. QED
      BY <2>1, <2>4, <3>1 DEF HashInv
  <2>. QED
    BY <2>1, <2>3, <2>4 DEF HashInv, Sealed, Window
<1>3. CASE pc = "seal" /\ pc' # "seal" /\ log' = log /\ ~Sealed(Tick) /\ hashes' = hashes
  BY <1>3 DEF HashInv, Tick, Sealed, Window
<1>4. CASE pc = "seal" /\ pc' # "seal" /\ log' = log /\ RetainHash
  <2>1. Tick' = Tick /\ SubSeq(log, 1, Tick - StartTick) = log
    BY <1>4, <1>a DEF Tick
  <2>2. DOMAIN hashes' = {old \in DOMAIN hashes \cup {Tick} : Tick - old <= Window}
    BY <1>4 DEF RetainHash
  <2>3. ASSUME NEW t \in DOMAIN hashes'
        PROVE  t \in StartTick + 1 .. Tick /\ hashes'[t] = SubSeq(log, 1, t - StartTick)
    <3>0. t \in DOMAIN hashes \cup {Tick} /\ hashes'[t] = IF t = Tick THEN log ELSE hashes[t]
      BY <1>4, <2>2 DEF RetainHash
    <3>1. Tick \in StartTick + 1 .. Tick
      <4>1. log # <<>>
        BY <1>4 DEF OutboxInv
      <4>2. Len(log) >= 1
        BY <4>1, <1>a
      <4>. QED
        BY <4>2, <1>a DEF Tick
    <3>. QED
      BY <2>1, <3>0, <3>1 DEF HashInv
  <2>4. ASSUME NEW t \in StartTick + 1 .. Tick, Sealed(t), Tick - t <= Window
        PROVE  t \in DOMAIN hashes'
    BY <1>4, <2>2, <2>4 DEF HashInv
  <2>. QED
    BY <1>4, <2>1, <2>3, <2>4 DEF HashInv, Sealed, Window
<1>5. CASE SealTick \/ FlushFails
  BY <1>3, <1>4, <1>5 DEF SealTick, FlushFails, Stop
<1> USE DEF loop, ledger, peers, channels, process, Stop, NextClient
<1>6. CASE UpdateNetwork \/ Cancelled \/ NetworkFails \/ AllServed \/ InputsDrained \/ LocalDrained
             \/ TickExhausted \/ AppendFails \/ AdvanceFails \/ SendPackets \/ RequestCancel
  BY <1>1, <1>6 DEF UpdateNetwork, LateConnection, Cancelled, NetworkFails, AllServed, InputsDrained, LocalDrained,
     TickExhausted, AppendFails, AdvanceFails, SendPackets, RequestCancel
<1>7. ASSUME NEW c \in Clients, BeginClient(c) \/ ReportsDrained(c) \/ LeaveSession(c)
      PROVE  HashInv'
  BY <1>1, <1>7 DEF BeginClient, ReportsDrained, LeaveSession
<1>8. ASSUME NEW c \in Clients, ReceiveInput(c) \/ ReceiveReport(c) PROVE HashInv'
  BY <1>1, <1>8 DEF ReceiveInput, ReceiveReport
<1>9. ASSUME NEW c \in Clients, ReceiveTick(c) PROVE HashInv'
  BY <1>1, <1>9 DEF ReceiveTick, TickArrived
<1>10. CASE DrainLocal
  BY <1>1, <1>10 DEF DrainLocal
<1>11. ASSUME NEW p \in Participants, NEW command \in Commands, Submit(p, command)
       PROVE  HashInv'
  BY <1>1, <1>11 DEF Submit
<1>12. CASE UNCHANGED vars
  BY <1>1, <1>12 DEF vars
<1>13. QED
  BY <1>2, <1>5, <1>6, <1>7, <1>8, <1>9, <1>10, <1>11, <1>12
  DEF Next, Server, Environment, Terminated

\* A client that stays connected is within the window of the deadline whenever the
\* loop moves to the next tick.
LEMMA DeadlineStep ==
  ASSUME TypeOK, TypeOK', ReportInv, DeadlineInv, [Next]_vars
  PROVE  DeadlineInv'
<1> USE TickAssumption
<1>a. /\ log \in Seq(Batch) /\ Len(log) \in Nat /\ Tick \in Nat
      /\ verified \in [Clients -> Nat] /\ verified' \in [Clients -> Nat]
      /\ conn \in [Clients -> {"up", "closed", "gone"}]
  <2>1. log \in Seq(Batch) /\ Len(log) \in Nat
    BY QueueTypes DEF TypeOK
  <2>2. Tick \in Nat
    BY <2>1 DEF Tick
  <2>3. verified \in [Clients -> Nat] /\ conn \in [Clients -> {"up", "closed", "gone"}]
    BY DEF TypeOK
  <2>4. verified' \in [Clients -> Nat]
    BY DEF TypeOK
  <2>. QED
    BY <2>1, <2>2, <2>3, <2>4
<1>b. Window \in Nat
  BY DEF Window
<1> USE DEF loop, ledger, peers, channels, process, NextClient
<1>1. CASE Up' = {}
  BY <1>1 DEF DeadlineInv
<1>2. ASSUME NEW why, NEW written, Stop(why, written) PROVE DeadlineInv'
  BY <1>1, <1>2 DEF Stop, Up
<1>3. CASE UNCHANGED <<log, conn, tracked, verified, pc, unserved, active>>
  BY <1>3 DEF DeadlineInv, Up, Tick
<1>4. CASE UpdateNetwork
  <2>1. /\ log' = log /\ verified' = verified /\ pc' = "serve"
        /\ Up' \subseteq Up /\ Up' \subseteq tracked' /\ Up' \subseteq unserved'
    BY <1>4 DEF UpdateNetwork, LateConnection, DeadlineInv, Up
  <2>. QED
    BY <2>1 DEF DeadlineInv, Tick
<1>5. ASSUME NEW c \in Clients, BeginClient(c) PROVE DeadlineInv'
  BY <1>5 DEF BeginClient, DeadlineInv, Up, Tick
<1>6. CASE AllServed \/ InputsDrained \/ LocalDrained
  BY <1>6 DEF AllServed, InputsDrained, LocalDrained, DeadlineInv, Up, Tick
\* The active client is closed, the others keep what they had.
<1>7. ASSUME NEW c \in Clients, NEW why, Disconnect(c, why), NextClient, active = c,
             pc \in {"inputs", "reports"}, UNCHANGED <<log, tracked, unserved, verified>>
      PROVE  DeadlineInv'
  <2>1. /\ Up' = Up \ {c} /\ Tick' = Tick
    BY <1>7, <1>a DEF Disconnect, Up, Tick
  <2>. QED
    BY <1>7, <2>1 DEF DeadlineInv
<1>8. ASSUME NEW c \in Clients, ReceiveInput(c) PROVE DeadlineInv'
  BY <1>2, <1>3, <1>7, <1>8 DEF ReceiveInput
<1>9. ASSUME NEW c \in Clients, ReceiveReport(c) PROVE DeadlineInv'
  <2>1. CASE Verdict(c, Head(reports[c])) = "verified"
    <3>1. /\ UNCHANGED <<log, conn, tracked, pc, unserved, active>> /\ pc = "reports"
          /\ verified' = [verified EXCEPT ![c] = Head(reports[c]).tick]
      BY <1>9, <2>1 DEF ReceiveReport
    <3>2. ~(Head(reports[c]).tick <= verified[c])
      BY <2>1 DEF Verdict
    <3>3. Head(reports[c]).tick \in Nat
      <4>1. Head(reports[c]) \in Report
        BY <1>9, QueueTypes DEF ReceiveReport, TypeOK
      <4>. QED
        BY <4>1 DEF Report
    <3>4. verified'[c] > verified[c] /\ \A d \in Clients \ {c} : verified'[d] = verified[d]
      BY <3>1, <3>2, <3>3, <1>a
    <3>5. Tick' = Tick /\ Up' = Up
      BY <3>1 DEF Tick, Up
    <3>6. ASSUME NEW d \in Up
          PROVE  /\ d \in tracked /\ d \in Clients
                 /\ Tick <= verified'[d] + Window + 1
                 /\ d \notin unserved \cup {active} => Tick <= verified'[d] + Window
      <4>1. d \in Clients /\ verified'[d] >= verified[d]
        BY <3>4, <1>a DEF Up
      <4>2. /\ d \in tracked /\ Tick <= verified[d] + Window + 1
            /\ d \notin unserved \cup {active} => Tick <= verified[d] + Window
        BY <3>1 DEF DeadlineInv
      <4>. QED
        BY <4>1, <4>2, <1>a, <1>b
    <3>. QED
      BY <3>1, <3>5, <3>6 DEF DeadlineInv, Window
  <2>2. CASE Verdict(c, Head(reports[c])) # "verified"
    BY <1>2, <1>7, <1>9, <2>2 DEF ReceiveReport
  <2>. QED
    BY <2>1, <2>2
<1>10. ASSUME NEW c \in Clients, ReportsDrained(c) PROVE DeadlineInv'
  <2>1. CASE Tick - verified[c] > Window
    BY <1>7, <1>10, <2>1 DEF ReportsDrained
  <2>2. CASE ~(Tick - verified[c] > Window)
    <3>1. /\ UNCHANGED <<log, conn, tracked, verified, unserved>> /\ active = c
          /\ pc = "reports" /\ pc' = "serve"
      BY <1>10, <2>2 DEF ReportsDrained
    <3>2. Tick <= verified[c] + Window
      BY <2>2, <1>a, <1>b
    <3>. QED
      BY <3>1, <3>2 DEF DeadlineInv, Up, Tick
  <2>. QED
    BY <2>1, <2>2
<1>11. CASE DrainLocal
  BY <1>2, <1>3, <1>11 DEF DrainLocal
<1>12. CASE Cancelled \/ NetworkFails \/ TickExhausted \/ AppendFails \/ AdvanceFails \/ FlushFails
  BY <1>2, <1>12 DEF Cancelled, NetworkFails, TickExhausted, AppendFails, AdvanceFails, FlushFails
<1>13. CASE CommitTick
  <2>1. /\ UNCHANGED <<conn, tracked, verified>> /\ pc = "commit" /\ pc' = "seal"
        /\ log' = Append(log, inputs)
    BY <1>13 DEF CommitTick
  <2>2. Tick' = Tick + 1 /\ Up' = Up
    BY <2>1, <1>a DEF TypeOK, Tick, Up
  <2>3. ASSUME NEW d \in Up PROVE d \in tracked /\ Tick + 1 <= verified[d] + Window + 1
    <3>1. d \in Clients /\ d \in tracked /\ Tick <= verified[d] + Window
      BY <2>1 DEF DeadlineInv, Up
    <3>. QED
      BY <3>1, <1>a, <1>b
  <2>. QED
    BY <2>1, <2>2, <2>3 DEF DeadlineInv, Window
<1>14. CASE SealTick \/ SendPackets
  BY <1>14 DEF SealTick, SendPackets, DeadlineInv, Up, Tick
<1>15. ASSUME NEW p \in Participants, NEW command \in Commands, Submit(p, command)
       PROVE  DeadlineInv'
  BY <1>3, <1>15 DEF Submit
<1>16. ASSUME NEW c \in Clients, ReceiveTick(c) \/ LeaveSession(c) PROVE DeadlineInv'
  BY <1>3, <1>16 DEF ReceiveTick, TickArrived, LeaveSession
<1>17. CASE RequestCancel \/ UNCHANGED vars
  BY <1>3, <1>17 DEF RequestCancel, vars
<1>18. QED
  BY <1>4, <1>5, <1>6, <1>8, <1>9, <1>10, <1>11, <1>12, <1>13, <1>14, <1>15, <1>16, <1>17
  DEF Next, Server, Environment, Terminated

\* The loop serves connected clients, each once per iteration.
LEMMA ServingStep ==
  ASSUME TypeOK, ServingInv, [Next]_vars
  PROVE  ServingInv'
<1> USE DEF loop, ledger, peers, channels, process, NextClient
<1>1. CASE UNCHANGED <<pc, conn, unserved, active>>
  BY <1>1 DEF ServingInv, Up
<1>2. CASE pc' \in {"network", "local", "commit", "seal", "send", "stopped"}
  BY <1>2 DEF ServingInv
<1>3. CASE UpdateNetwork
  BY <1>3 DEF UpdateNetwork, LateConnection, ServingInv, Up
<1>4. ASSUME NEW c \in Clients, BeginClient(c) PROVE ServingInv'
  BY <1>4 DEF BeginClient, ServingInv, Up
<1>5. CASE InputsDrained
  BY <1>5 DEF InputsDrained, ServingInv, Up
\* Only the active client can be closed, and it is no longer unserved.
<1>6. ASSUME NEW c \in Clients, NEW why, Disconnect(c, why), NextClient, active = c,
             pc \in {"inputs", "reports"}, unserved' = unserved
      PROVE  ServingInv'
  BY <1>6 DEF Disconnect, ServingInv, Up, TypeOK
<1>7. CASE pc \in {"inputs", "reports"} /\ pc' = "serve" /\ UNCHANGED <<conn, unserved>>
  BY <1>7 DEF ServingInv, Up
<1>8. ASSUME NEW c \in Clients, ReceiveInput(c) PROVE ServingInv'
  BY <1>1, <1>2, <1>6, <1>8 DEF ReceiveInput, Stop
<1>9. ASSUME NEW c \in Clients, ReceiveReport(c) PROVE ServingInv'
  BY <1>1, <1>2, <1>6, <1>9 DEF ReceiveReport, Stop
<1>10. ASSUME NEW c \in Clients, ReportsDrained(c) PROVE ServingInv'
  BY <1>6, <1>7, <1>10 DEF ReportsDrained
<1>11. CASE DrainLocal
  BY <1>1, <1>2, <1>11 DEF DrainLocal, Stop
<1>12. CASE Cancelled \/ NetworkFails \/ AllServed \/ LocalDrained \/ TickExhausted \/ AppendFails
              \/ AdvanceFails \/ CommitTick \/ SealTick \/ FlushFails \/ SendPackets
  BY <1>2, <1>12 DEF Cancelled, NetworkFails, AllServed, LocalDrained, TickExhausted, AppendFails,
     AdvanceFails, CommitTick, SealTick, FlushFails, SendPackets, Stop
<1>13. ASSUME NEW p \in Participants, NEW command \in Commands, Submit(p, command)
       PROVE  ServingInv'
  BY <1>1, <1>13 DEF Submit
<1>14. ASSUME NEW c \in Clients, ReceiveTick(c) \/ LeaveSession(c) PROVE ServingInv'
  BY <1>1, <1>14 DEF ReceiveTick, TickArrived, LeaveSession
<1>15. CASE RequestCancel \/ UNCHANGED vars
  BY <1>1, <1>15 DEF RequestCancel, vars
<1>16. QED
  BY <1>3, <1>4, <1>5, <1>8, <1>9, <1>10, <1>11, <1>12, <1>13, <1>14, <1>15
  DEF Next, Server, Environment, Terminated

-----------------------------------------------------------------------------

\* A sequence over a larger set.
LEMMA WiderSeq ==
  ASSUME NEW S, NEW e, NEW s \in Seq(S)
  PROVE  s \in Seq(S \cup {e})
  OBVIOUS

\* A prefix, element by element.
LEMMA PrefixShape ==
  ASSUME NEW S, NEW s \in Seq(S), NEW t \in Seq(S)
  PROVE  IsPrefix(s, t) <=> Len(s) <= Len(t) /\ \A i \in DOMAIN s : s[i] = t[i]
<1>1. Len(s) \in Nat /\ DOMAIN s = 1 .. Len(s)
  OBVIOUS
<1>2. CASE Len(s) <= Len(t)
  <2>1. SubSeq(s, 1, Len(s)) = SubSeq(t, 1, Len(s)) <=> \A i \in 1 .. Len(s) : s[i] = t[i]
    BY <1>1, <1>2, PrefixElements
  <2>. QED
    BY <1>1, <1>2, <2>1 DEF IsPrefix
<1>3. CASE ~(Len(s) <= Len(t))
  BY <1>3 DEF IsPrefix
<1>. QED
  BY <1>2, <1>3

\* A replica is never ahead of the authority.
LEMMA ReplicaBehind ==
  ASSUME TypeOK, ReplicasFollowLog, NEW c \in Clients
  PROVE  /\ Len(replica[c]) \in Nat /\ Len(log) \in Nat
         /\ Len(replica[c]) <= Len(log)
<1>1. replica[c] \in Seq(Batch \cup {Corrupt}) /\ log \in Seq(Batch)
  BY DEF TypeOK, History
<1>2. \A i \in DOMAIN replica[c] : i \in DOMAIN log
  BY DEF ReplicasFollowLog
<1>. QED
  BY <1>1, <1>2

\* A state that differs from the authority's goes on to differ.
LEMMA DivergenceLasts ==
  ASSUME TypeOK, TypeOK', ReplicasFollowLog, NEW c \in Clients, Diverged(c),
         \A i \in DOMAIN log : i \in DOMAIN log' /\ log'[i] = log[i],
         \A i \in DOMAIN replica[c] :
           i \in DOMAIN replica'[c] /\ replica'[c][i] = replica[c][i]
  PROVE  Diverged(c)'
<1> DEFINE S == Batch \cup {Corrupt}
<1>1. /\ replica[c] \in Seq(S) /\ log \in Seq(S)
      /\ replica'[c] \in Seq(S) /\ log' \in Seq(S)
  <2>1. log \in Seq(Batch) /\ log' \in Seq(Batch)
    BY DEF TypeOK
  <2>2. log \in Seq(S) /\ log' \in Seq(S)
    BY <2>1, WiderSeq
  <2>. QED
    BY <2>2 DEF TypeOK, History
<1>2. Len(replica[c]) <= Len(log)
  BY ReplicaBehind
<1> HIDE DEF S
<1>3. PICK i \in DOMAIN replica[c] : replica[c][i] # log[i]
  BY <1>1, <1>2, PrefixShape DEF Diverged
<1>4. i \in DOMAIN log
  BY DEF ReplicasFollowLog
<1>5. i \in DOMAIN replica'[c] /\ replica'[c][i] # log'[i]
  BY <1>3, <1>4
<1>6. ~IsPrefix(replica'[c], log')
  BY <1>1, <1>5, PrefixShape
<1>. QED
  BY <1>6 DEF Diverged

\* A differing prefix of the two states is a divergence.
LEMMA PrefixDiverges ==
  ASSUME TypeOK, ReplicasFollowLog, NEW c \in Clients, NEW n \in Nat,
         n <= Len(replica[c]), SubSeq(replica[c], 1, n) # SubSeq(log, 1, n)
  PROVE  Diverged(c)
<1> DEFINE S == Batch \cup {Corrupt}
<1>1. replica[c] \in Seq(S) /\ log \in Seq(S)
  <2>1. log \in Seq(Batch)
    BY DEF TypeOK
  <2>2. log \in Seq(S)
    BY <2>1, WiderSeq
  <2>. QED
    BY <2>2 DEF TypeOK, History
<1>2. Len(replica[c]) <= Len(log) /\ Len(replica[c]) \in Nat /\ Len(log) \in Nat
  BY ReplicaBehind
<1> HIDE DEF S
<1>3. n <= Len(log)
  BY <1>2
<1>4. PICK i \in 1 .. n : replica[c][i] # log[i]
  BY <1>1, <1>3, PrefixElements
<1>5. i \in DOMAIN replica[c]
  BY <1>1, <1>2, <1>4
<1>6. ~IsPrefix(replica[c], log)
  BY <1>1, <1>4, <1>5, PrefixShape
<1>. QED
  BY <1>6 DEF Diverged

\* Reported(c) outlasts every step that neither applies, reports nor verifies.
LEMMA ReportedFrame ==
  ASSUME NEW c \in Clients, Reported(c), replica'[c] = replica[c],
         verified'[c] = verified[c], reports'[c] = reports[c]
  PROVE  Reported(c)'
  BY DEF Reported, ClientTick, Sealed

\* The reports, the agreement they establish and the verdicts they lead to. The
\* step that needs all of it is ReceiveReport: the deadline bounds the age of the
\* report of a connected client, so its hash is retained, and what it is not equal
\* to is the hash of another state.
LEMMA ReportStep ==
  ASSUME TypeOK, TypeOK', ReplicasFollowLog, ChannelInv, ClientsNeverRefuse, ServingInv,
         ReportInv, HashInv, DeadlineInv, AgreementInv, HonestReportsAccepted, [Next]_vars
  PROVE  ReportInv' /\ AgreementInv' /\ HonestReportsAccepted'
<1> USE TickAssumption
<1>a. /\ log \in Seq(Batch) /\ Len(log) \in Nat /\ inputs \in Batch /\ Tick \in Nat
      /\ replica \in [Clients -> Seq(Batch \cup {Corrupt})]
      /\ reports \in [Clients -> Seq(Report)]
      /\ verified \in [Clients -> Nat]
      /\ \A c \in Clients : Len(replica[c]) \in Nat /\ ClientTick(c) \in Nat
  <2>1. log \in Seq(Batch) /\ Len(log) \in Nat /\ inputs \in Batch
    BY QueueTypes DEF TypeOK
  <2>2. Tick \in Nat
    BY <2>1 DEF Tick
  <2>3. /\ replica \in [Clients -> Seq(Batch \cup {Corrupt})]
        /\ reports \in [Clients -> Seq(Report)] /\ verified \in [Clients -> Nat]
    BY DEF TypeOK, History
  <2>4. \A c \in Clients : Len(replica[c]) \in Nat
    BY <2>3, QueueTypes
  <2>. QED
    BY <2>1, <2>2, <2>3, <2>4 DEF ClientTick
<1>b. Window \in Nat
  BY DEF Window
<1> USE DEF loop, ledger, peers, channels, process, NextClient
<1> DEFINE NoVerdict ==
      /\ \A d \in Clients : reason'[d] = "report" => reason[d] = "report"
      /\ outcome' = "desync" => outcome = "desync"
<1>c. ASSUME NoVerdict, \A c \in Clients : Diverged(c) => Diverged(c)'
      PROVE  HonestReportsAccepted'
  BY <1>c DEF HonestReportsAccepted
\* Nothing is reported, applied or judged.
<1>1. CASE UNCHANGED <<log, replica, verified, reports>> /\ NoVerdict
  <2>1. log' = log /\ replica' = replica /\ verified' = verified /\ reports' = reports
    BY <1>1
  <2>2. ReportInv' /\ AgreementInv'
    BY <2>1 DEF ReportInv, Reported, AgreementInv, ClientTick
  <2>3. \A c \in Clients : Diverged(c) => Diverged(c)'
    BY <2>1 DEF Diverged
  <2>. QED
    BY <1>1, <1>c, <2>2, <2>3
<1>2. ASSUME NEW c \in Clients, NEW why, Disconnect(c, why), why # "report"
      PROVE  \A d \in Clients : reason'[d] = "report" => reason[d] = "report"
  BY <1>2 DEF Disconnect, TypeOK
<1>3. CASE UpdateNetwork
  <2>1. /\ UNCHANGED <<log, replica, verified>> /\ NoVerdict
        /\ \A d \in Clients : reports'[d] = reports[d] \/ reports'[d] = <<>>
    BY <1>3 DEF UpdateNetwork, LateConnection
  <2>2. ReportInv'
    BY <2>1 DEF ReportInv, Reported, ClientTick
  <2>3. AgreementInv'
    BY <2>1 DEF AgreementInv
  <2>4. \A c \in Clients : Diverged(c) => Diverged(c)'
    BY <2>1 DEF Diverged
  <2>. QED
    BY <1>c, <2>1, <2>2, <2>3, <2>4
<1>4. CASE CommitTick
  <2>1. /\ log' = Append(log, inputs) /\ UNCHANGED <<replica, verified, reports>>
        /\ NoVerdict
    BY <1>4 DEF CommitTick
  <2>2. ReportInv'
    BY <2>1 DEF ReportInv, Reported, ClientTick
  <2>3. ASSUME NEW c \in Clients
        PROVE  SubSeq(log', 1, verified[c] - StartTick) = SubSeq(log, 1, verified[c] - StartTick)
    <3>1. Len(replica[c]) <= Len(log)
      BY ReplicaBehind
    <3>2. verified[c] - StartTick \in Int /\ verified[c] - StartTick <= Len(log)
      BY <3>1, <1>a DEF ReportInv, Reported, ClientTick
    <3>. QED
      BY <2>1, <3>2, <1>a, PrefixOfAppend
  <2>4. AgreementInv'
    BY <2>1, <2>3 DEF AgreementInv
  <2>5. \A i \in DOMAIN log : i \in DOMAIN log' /\ log'[i] = log[i]
    BY <2>1, <1>a, AppendShape
  <2>6. ASSUME NEW c \in Clients, Diverged(c) PROVE Diverged(c)'
    BY <2>1, <2>5, <2>6, DivergenceLasts
  <2>. QED
    BY <1>c, <2>1, <2>2, <2>4, <2>6
<1>5. ASSUME NEW c \in Clients, ReceiveTick(c)
      PROVE  ReportInv' /\ AgreementInv' /\ HonestReportsAccepted'
  <2>0. CASE UNCHANGED <<replica, reports>>
    BY <1>1, <1>5, <2>0 DEF ReceiveTick, TickArrived
  <2>1. ASSUME NEW result \in Batch \cup {Corrupt}, Apply(c, result),
               UNCHANGED <<log, verified, reason, outcome>>
        PROVE  ReportInv' /\ AgreementInv' /\ HonestReportsAccepted'
    <3> DEFINE now == ClientTick(c) + 1
    <3>1. replica' = [replica EXCEPT ![c] = Append(@, result)]
      BY <2>1 DEF Apply
    <3>2. /\ replica'[c] = Append(replica[c], result)
          /\ \A d \in Clients \ {c} : replica'[d] = replica[d]
      BY <3>1, <1>a
    <3>3. Len(replica'[c]) = Len(replica[c]) + 1 /\ ClientTick(c)' = now
      <4>1. Len(replica'[c]) = Len(replica[c]) + 1
        BY <3>2, <1>a, AppendShape
      <4>. QED
        BY <4>1, <1>a DEF ClientTick
    <3>4. ASSUME NEW n \in Int, n <= Len(replica[c])
          PROVE  SubSeq(replica'[c], 1, n) = SubSeq(replica[c], 1, n)
      BY <3>2, <3>4, <1>a, PrefixOfAppend
    <3>5. \A i \in DOMAIN replica[c] : i \in DOMAIN replica'[c] /\ replica'[c][i] = replica[c][i]
      BY <3>2, <1>a, AppendShape
    <3>6. verified[c] \in StartTick .. ClientTick(c)
      BY DEF ReportInv, Reported
    <3>7. AgreementInv'
      <4>1. verified[c] - StartTick \in Int /\ verified[c] - StartTick <= Len(replica[c])
        BY <3>6, <1>a DEF ClientTick
      <4>2. SubSeq(replica'[c], 1, verified[c] - StartTick)
              = SubSeq(replica[c], 1, verified[c] - StartTick)
        BY <3>4, <4>1
      <4>. QED
        BY <2>1, <3>2, <4>2 DEF AgreementInv
    <3>8. HonestReportsAccepted'
      <4>1. \A d \in Clients : \A i \in DOMAIN replica[d] :
              i \in DOMAIN replica'[d] /\ replica'[d][i] = replica[d][i]
        BY <3>2, <3>5
      <4>2. ASSUME NEW d \in Clients, Diverged(d) PROVE Diverged(d)'
        BY <2>1, <4>1, <4>2, DivergenceLasts
      <4>. QED
        BY <1>c, <2>1, <4>2
    <3>9. ReportInv'
      <4>1. ASSUME NEW i \in DOMAIN reports[c]
            PROVE  /\ Sealed(reports[c][i].tick)
                   /\ reports[c][i].tick \in verified[c] + 1 .. now
                   /\ reports[c][i].tick < now
                   /\ reports[c][i].hash
                        = SubSeq(replica'[c], 1, reports[c][i].tick - StartTick)
                   /\ \A j \in DOMAIN reports[c] :
                        i < j => reports[c][i].tick < reports[c][j].tick
        <5> DEFINE t == reports[c][i].tick
        <5>1. /\ Sealed(t) /\ t \in verified[c] + 1 .. ClientTick(c)
              /\ reports[c][i].hash = SubSeq(replica[c], 1, t - StartTick)
              /\ \A j \in DOMAIN reports[c] :
                   i < j => t < reports[c][j].tick
          BY DEF ReportInv, Reported
        <5> HIDE DEF t
        <5>2. t - StartTick \in Int /\ t - StartTick <= Len(replica[c])
          BY <5>1, <1>a DEF ClientTick
        <5>3. SubSeq(replica'[c], 1, t - StartTick) = SubSeq(replica[c], 1, t - StartTick)
          BY <3>4, <5>2
        <5>4. t \in verified[c] + 1 .. now /\ t < now
          BY <5>1, <1>a
        <5>. QED
          BY <5>1, <5>3, <5>4 DEF t
      <4>2. \A d \in Clients \ {c} : reports'[d] = reports[d] /\ ClientTick(d)' = ClientTick(d)
        BY <2>1, <3>2, <1>a DEF Apply, ClientTick
      <4>3. verified'[c] \in StartTick .. ClientTick(c)'
        BY <2>1, <3>3, <3>6, <1>a
      <4>4. \A d \in Clients \ {c} : Reported(d)'
        BY <2>1, <3>2, <4>2, ReportedFrame DEF ReportInv
      <4>5. CASE ~Sealed(now)
        <5>1. reports' = reports
          BY <2>1, <4>5 DEF Apply
        <5>. QED
          <6>1. Reported(c)'
            BY <2>1, <3>3, <4>1, <4>3, <5>1 DEF Reported, Sealed
          <6>. QED
            BY <4>4, <6>1 DEF ReportInv
      <4>7. CASE Sealed(now)
        <5> DEFINE new == [tick |-> now, hash |-> replica'[c]]
        <5>1. reports'[c] = Append(reports[c], new)
          BY <2>1, <3>2, <4>7, <1>a DEF Apply
        <5>2. new \in Report
          <6>1. replica'[c] \in History
            BY DEF TypeOK
          <6>. QED
            BY <6>1, <1>a DEF Report
        <5> HIDE DEF new
        <5>3. /\ DOMAIN reports'[c] = DOMAIN reports[c] \cup {Len(reports[c]) + 1}
              /\ \A i \in DOMAIN reports[c] : reports'[c][i] = reports[c][i]
              /\ reports'[c][Len(reports[c]) + 1] = new
              /\ Len(reports[c]) \in Nat /\ DOMAIN reports[c] = 1 .. Len(reports[c])
          <6>1. reports[c] \in Seq(Report)
            BY <1>a
          <6>. QED
            BY <5>1, <5>2, <6>1, AppendShape, QueueTypes
        <5>4. /\ new.tick = now /\ Sealed(now) /\ now \in verified[c] + 1 .. now
              /\ new.hash = SubSeq(replica'[c], 1, now - StartTick)
          <6>1. now - StartTick = Len(replica'[c])
            BY <3>3, <1>a DEF ClientTick
          <6>2. replica'[c] \in Seq(Batch \cup {Corrupt})
            BY DEF TypeOK, History
          <6>3. SubSeq(replica'[c], 1, Len(replica'[c])) = replica'[c]
            BY <6>2
          <6>4. now \in verified[c] + 1 .. now
            BY <3>6, <1>a
          <6>. QED
            BY <4>7, <6>1, <6>3, <6>4 DEF new
        <5>5. ASSUME NEW i \in DOMAIN reports'[c]
              PROVE  /\ Sealed(reports'[c][i].tick)
                     /\ reports'[c][i].tick \in verified[c] + 1 .. now
                     /\ reports'[c][i].hash
                          = SubSeq(replica'[c], 1, reports'[c][i].tick - StartTick)
                     /\ \A j \in DOMAIN reports'[c] :
                          i < j => reports'[c][i].tick < reports'[c][j].tick
          <6>1. CASE i \in DOMAIN reports[c]
            BY <4>1, <5>3, <5>4, <6>1
          <6>2. CASE i = Len(reports[c]) + 1
            BY <5>3, <5>4, <6>2
          <6>. QED
            BY <5>3, <6>1, <6>2
        <5>. QED
          <6>1. Reported(c)'
            BY <2>1, <3>3, <4>3, <5>5 DEF Reported, Sealed
          <6>. QED
            BY <4>4, <6>1 DEF ReportInv
      <4>. QED
        BY <4>5, <4>7
    <3>. QED
      BY <3>7, <3>8, <3>9
  <2>2. \/ \E result \in {Head(down[c]).inputs, Corrupt} : Apply(c, result)
        \/ UNCHANGED <<replica, reports>>
    BY <1>5 DEF ReceiveTick, TickArrived
  <2>3. Head(down[c]).inputs \in Batch
    <3>1. Head(down[c]) \in Message
      BY <1>5, QueueTypes DEF ReceiveTick, TickArrived, TypeOK
    <3>. QED
      BY <3>1 DEF Message
  <2>4. UNCHANGED <<log, verified, reason, outcome>>
    BY <1>5 DEF ReceiveTick, TickArrived
  <2>. QED
    BY <2>0, <2>1, <2>2, <2>3, <2>4
<1>6. ASSUME NEW c \in Clients, ReceiveReport(c)
      PROVE  ReportInv' /\ AgreementInv' /\ HonestReportsAccepted'
  <2> DEFINE report == Head(reports[c])
  <2>1. /\ pc = "reports" /\ active = c /\ c \in Up /\ reports[c] # <<>>
        /\ log' = log /\ replica' = replica
    BY <1>6 DEF ReceiveReport, ServingInv
  <2>2. /\ reports'[c] = Tail(reports[c])
        /\ \A d \in Clients \ {c} : reports'[d] = reports[d]
    BY <1>6, <1>a DEF ReceiveReport
  <2>3. /\ 1 \in DOMAIN reports[c] /\ report = reports[c][1]
        /\ \A i \in DOMAIN reports'[c] :
             /\ i + 1 \in DOMAIN reports[c] /\ reports'[c][i] = reports[c][i + 1]
             /\ i \in Nat \ {0}
    <3>1. reports[c] \in Seq(Report)
      BY <1>a
    <3>. QED
      BY <2>1, <2>2, <3>1, TailShape
  <2> HIDE DEF report
  <2>4. /\ Sealed(report.tick) /\ report.tick \in verified[c] + 1 .. ClientTick(c)
        /\ report.hash = SubSeq(replica[c], 1, report.tick - StartTick)
        /\ \A i \in DOMAIN reports'[c] : report.tick < reports'[c][i].tick
    BY <2>3 DEF ReportInv, Reported
  <2>5. verified[c] \in StartTick .. ClientTick(c)
    BY DEF ReportInv, Reported
  <2>6. /\ report.tick - StartTick \in Nat /\ report.tick - StartTick <= Len(replica[c])
        /\ report.tick \in StartTick + 1 .. Tick /\ report.tick > verified[c]
    <3>1. Len(replica[c]) <= Len(log) /\ Len(replica[c]) \in Nat
      BY ReplicaBehind
    <3>2. /\ report.tick \in verified[c] + 1 .. StartTick + Len(replica[c])
          /\ verified[c] \in StartTick .. StartTick + Len(replica[c])
      BY <2>4, <2>5 DEF ClientTick
    <3>3. StartTick \in Nat /\ Len(log) \in Nat /\ Tick = StartTick + Len(log)
      BY <1>a DEF Tick
    <3>. QED
      BY <3>1, <3>2, <3>3
  \* The hash it is compared with is still there.
  <2>7. report.tick \in DOMAIN hashes
    <3>1. Tick <= verified[c] + Window + 1
      BY <2>1 DEF DeadlineInv
    <3>2. Tick - report.tick <= Window
      BY <2>6, <3>1, <1>a, <1>b
    <3>. QED
      BY <2>1, <2>4, <2>6, <3>2 DEF HashInv
  <2>8. Verdict(c, report) \in {"desync", "verified"}
    BY <2>4, <2>6, <2>7, <1>a DEF Verdict
  <2>9. hashes[report.tick] = SubSeq(log, 1, report.tick - StartTick)
    BY <2>7 DEF HashInv
  <2>10. ASSUME NEW i \in DOMAIN reports'[c]
         PROVE  /\ Sealed(reports'[c][i].tick)
                /\ reports'[c][i].tick \in verified[c] + 1 .. ClientTick(c)
                /\ reports'[c][i].hash
                     = SubSeq(replica[c], 1, reports'[c][i].tick - StartTick)
                /\ \A j \in DOMAIN reports'[c] :
                     i < j => reports'[c][i].tick < reports'[c][j].tick
    BY <2>3 DEF ReportInv, Reported
  <2>11. CASE Verdict(c, report) = "verified"
    <3>1. /\ verified' = [verified EXCEPT ![c] = report.tick]
          /\ UNCHANGED <<outcome, reason>>
      BY <1>6, <2>11 DEF ReceiveReport, report
    <3>2. /\ verified'[c] = report.tick
          /\ \A d \in Clients \ {c} : verified'[d] = verified[d]
      BY <3>1, <1>a
    <3>3. SubSeq(replica[c], 1, report.tick - StartTick)
            = SubSeq(log, 1, report.tick - StartTick)
      BY <2>4, <2>9, <2>11 DEF Verdict
    <3>4. AgreementInv'
      BY <2>1, <3>2, <3>3 DEF AgreementInv
    <3>5. HonestReportsAccepted'
      BY <1>c, <2>1, <3>1 DEF Diverged
    <3>6. ASSUME NEW i \in DOMAIN reports'[c]
          PROVE  reports'[c][i].tick \in report.tick + 1 .. ClientTick(c)
      <4>1. reports'[c][i].tick \in verified[c] + 1 .. ClientTick(c)
        BY <2>3 DEF ReportInv, Reported
      <4>2. report.tick < reports'[c][i].tick
        BY <2>4
      <4>3. report.tick \in Nat /\ ClientTick(c) \in Int /\ verified[c] \in Int
        BY <2>4, <2>5, <2>6, <1>a
      <4>. QED
        BY ONLY <4>1, <4>2, <4>3
    <3>7. report.tick \in StartTick .. ClientTick(c)
      BY <2>4, <2>5, <1>a
    <3>8. ReportInv'
      <4>1. \A d \in Clients \ {c} : Reported(d)'
        BY <2>1, <2>2, <3>2, ReportedFrame DEF ReportInv
      <4>2. ClientTick(c)' = ClientTick(c)
        BY <2>1 DEF ClientTick
      <4>4. Reported(c)'
        BY <2>1, <2>10, <3>2, <3>6, <3>7, <4>2 DEF Reported, Sealed
      <4>. QED
        BY <4>1, <4>4 DEF ReportInv
    <3>. QED
      BY <3>4, <3>5, <3>8
  <2>12. CASE Verdict(c, report) = "desync"
    <3>1. /\ verified' = verified
          /\ outcome' = "desync" \/ outcome' = outcome
          /\ reason' = reason \/ Disconnect(c, "report")
      BY <1>6, <2>12 DEF ReceiveReport, report, Stop
    <3>2. hashes[report.tick] # report.hash
      BY <2>12 DEF Verdict
    <3>3. Diverged(c)
      BY <2>4, <2>6, <2>9, <3>2, PrefixDiverges
    <3>4. \A d \in Clients : Diverged(d)' <=> Diverged(d)
      BY <2>1 DEF Diverged
    <3>5. \A d \in Clients : reason'[d] = "report" => reason[d] = "report" \/ d = c
      <4>1. reason' = reason \/ reason' = [reason EXCEPT ![c] = "report"]
        BY <3>1 DEF Disconnect
      <4>2. \A d \in Clients \ {c} : reason'[d] = reason[d]
        <5>1. DOMAIN reason = Clients
          BY DEF TypeOK
        <5>. QED
          BY ONLY <4>1, <5>1
      <4>. QED
        BY <4>2
    <3>6. HonestReportsAccepted'
      BY <3>1, <3>3, <3>4, <3>5 DEF HonestReportsAccepted
    <3>7. ReportInv'
      <4>1. \A d \in Clients \ {c} : Reported(d)'
        BY <2>1, <2>2, <3>1, ReportedFrame DEF ReportInv
      <4>2. ClientTick(c)' = ClientTick(c)
        BY <2>1 DEF ClientTick
      <4>4. Reported(c)'
        BY <2>1, <2>5, <2>10, <3>1, <4>2 DEF Reported, Sealed
      <4>. QED
        BY <4>1, <4>4 DEF ReportInv
    <3>8. AgreementInv'
      BY <2>1, <3>1 DEF AgreementInv
    <3>. QED
      BY <3>6, <3>7, <3>8
  <2>. QED
    BY <2>8, <2>11, <2>12
<1>7. CASE Cancelled \/ NetworkFails \/ AllServed \/ InputsDrained \/ LocalDrained \/ TickExhausted
              \/ AppendFails \/ AdvanceFails \/ SealTick \/ FlushFails \/ SendPackets
  BY <1>1, <1>7 DEF Cancelled, NetworkFails, AllServed, InputsDrained, LocalDrained, TickExhausted,
     AppendFails, AdvanceFails, SealTick, FlushFails, SendPackets, Stop
<1>8. ASSUME NEW c \in Clients, BeginClient(c) \/ LeaveSession(c)
      PROVE  ReportInv' /\ AgreementInv' /\ HonestReportsAccepted'
  BY <1>1, <1>8 DEF BeginClient, LeaveSession
<1>9. ASSUME NEW c \in Clients, ReceiveInput(c)
      PROVE  ReportInv' /\ AgreementInv' /\ HonestReportsAccepted'
  <2>1. UNCHANGED <<log, replica, verified, reports>>
    BY <1>9 DEF ReceiveInput
  <2>2. reason' = reason \/ Disconnect(c, "invalid")
    BY <1>9 DEF ReceiveInput
  <2>3. outcome' = "desync" => outcome = "desync"
    BY <1>9 DEF ReceiveInput, Stop
  <2>. QED
    BY <1>1, <1>2, <2>1, <2>2, <2>3
<1>10. ASSUME NEW c \in Clients, ReportsDrained(c)
       PROVE  ReportInv' /\ AgreementInv' /\ HonestReportsAccepted'
  <2>1. UNCHANGED <<log, replica, verified, reports, outcome>>
    BY <1>10 DEF ReportsDrained
  <2>2. reason' = reason \/ Disconnect(c, "overdue")
    BY <1>10 DEF ReportsDrained
  <2>. QED
    BY <1>1, <1>2, <2>1, <2>2
<1>11. CASE DrainLocal
  BY <1>1, <1>11 DEF DrainLocal, Stop
<1>12. ASSUME NEW p \in Participants, NEW command \in Commands, Submit(p, command)
       PROVE  ReportInv' /\ AgreementInv' /\ HonestReportsAccepted'
  BY <1>1, <1>12 DEF Submit
<1>13. CASE RequestCancel \/ UNCHANGED vars
  BY <1>1, <1>13 DEF RequestCancel, vars
<1>14. QED
  BY <1>3, <1>4, <1>5, <1>6, <1>7, <1>8, <1>9, <1>10, <1>11, <1>12, <1>13
  DEF Next, Server, Environment, Terminated

-----------------------------------------------------------------------------

\* The invariant holds when the barrier releases the session.
LEMMA InitIInv == Init => IInv
<1> SUFFICES ASSUME Init PROVE IInv
  OBVIOUS
<1> USE ParticipantsAssumption, TickAssumption
<1>1. Len(<<>>) = 0 /\ DOMAIN <<>> = {} /\ \A i \in DOMAIN <<>> : FALSE
  OBVIOUS
<1>2. Window \in Nat
  BY DEF Window
<1>3. Tick = StartTick /\ \A c \in Clients : ClientTick(c) = StartTick
  BY <1>1 DEF Init, Tick, ClientTick
<1>4. ReplicasFollowLog /\ OutboxInv /\ ClientsNeverRefuse /\ ServingInv
  BY <1>1 DEF Init, ReplicasFollowLog, OutboxInv, ClientsNeverRefuse, ServingInv
<1>5. ChannelInv
  BY <1>1 DEF Init, ChannelInv, Feed, Up
<1>6. ReportInv
  BY <1>1, <1>3 DEF Init, ReportInv, Reported
<1>7. HashInv
  BY <1>1, <1>3 DEF Init, HashInv
<1>8. DeadlineInv
  BY <1>2, <1>3 DEF Init, DeadlineInv, Up
<1>9. AgreementInv /\ HonestReportsAccepted
  BY <1>1 DEF Init, AgreementInv, HonestReportsAccepted
<1>. QED
  BY <1>4, <1>5, <1>6, <1>7, <1>8, <1>9 DEF IInv

\* The inductive invariant holds in every reachable state.
THEOREM Inductive == Spec => []IInv
<1>1. ASSUME TypeOK, TypeOK', IInv, [Next]_vars PROVE IInv'
  <2>1. ReplicasFollowLog' /\ OutboxInv' /\ ChannelInv' /\ ClientsNeverRefuse'
    BY <1>1, ChannelStep DEF IInv
  <2>2. HashInv' /\ DeadlineInv' /\ ServingInv'
    BY <1>1, HashStep, DeadlineStep, ServingStep DEF IInv
  <2>3. ReportInv' /\ AgreementInv' /\ HonestReportsAccepted'
    BY <1>1, ReportStep DEF IInv
  <2>. QED
    BY <2>1, <2>2, <2>3 DEF IInv
<1>. QED
  BY <1>1, InitIInv, TypeCorrect, PTL DEF Spec

\* Every replica follows the authority's log, and a simulation that is
\* deterministic follows it exactly.
THEOREM LogFollowed == Spec => []ReplicasFollowLog
<1>1. IInv => ReplicasFollowLog
  BY DEF IInv
<1>. QED
  BY <1>1, Inductive, PTL

\* The ticks a client is sent are those it must apply next (validate_tick never
\* fails on a client of a session that went live).
THEOREM NeverRefused == Spec => []ClientsNeverRefuse
<1>1. IInv => ClientsNeverRefuse
  BY DEF IInv
<1>. QED
  BY <1>1, Inductive, PTL

\* A client is punished for its report only if its state is not one of the
\* authority's: the hash of a past state the deadline still admits is retained.
THEOREM NoFalseAlarm == Spec => []HonestReportsAccepted
<1>1. IInv => HonestReportsAccepted
  BY DEF IInv
<1>. QED
  BY <1>1, Inductive, PTL

\* What a client has verified, it agrees on with the authority.
THEOREM Agreement == Spec => []VerifiedIsAgreed
<1>1. TypeOK /\ IInv => VerifiedIsAgreed
  <2> SUFFICES ASSUME TypeOK, IInv, NEW c \in tracked
               PROVE  /\ verified[c] - StartTick <= Len(replica[c])
                      /\ SubSeq(replica[c], 1, verified[c] - StartTick)
                           = SubSeq(log, 1, verified[c] - StartTick)
    BY DEF VerifiedIsAgreed
  <2>1. c \in Clients
    BY DEF TypeOK
  <2>2. Len(replica[c]) \in Nat /\ StartTick \in Nat
    BY <2>1, TickAssumption, ReplicaBehind DEF IInv
  <2>3. verified[c] \in StartTick .. ClientTick(c)
    BY <2>1 DEF IInv, ReportInv, Reported
  <2>. QED
    BY <2>1, <2>2, <2>3 DEF IInv, AgreementInv, ClientTick
<1>. QED
  BY <1>1, Inductive, TypeCorrect, PTL

\* A client whose state diverged is disconnected before the authority is more than
\* the window past the tick it diverged at.
THEOREM Detection == Spec => []DivergenceDetected
<1>1. TypeOK /\ IInv => DivergenceDetected
  <2> SUFFICES ASSUME TypeOK, IInv, NEW c \in Up, NEW i \in DOMAIN replica[c],
                      replica[c][i] # log[i]
               PROVE  Tick <= StartTick + i + Window
    BY DEF DivergenceDetected
  <2> DEFINE S == Batch \cup {Corrupt}
             n == verified[c] - StartTick
  <2>1. c \in Clients
    BY DEF Up
  <2>2. replica[c] \in Seq(S) /\ log \in Seq(S) /\ log \in Seq(Batch)
    <3>1. log \in Seq(Batch)
      BY DEF TypeOK
    <3>2. log \in Seq(S)
      BY <3>1, WiderSeq
    <3>. QED
      BY <2>1, <3>1, <3>2 DEF TypeOK, History
  <2>3. /\ Len(replica[c]) \in Nat /\ Len(log) \in Nat /\ Len(replica[c]) <= Len(log)
        /\ StartTick \in Nat /\ Window \in Nat
    BY <2>1, TickAssumption, ReplicaBehind DEF IInv, Window
  <2>4. verified[c] \in StartTick .. ClientTick(c)
    BY <2>1 DEF IInv, ReportInv, Reported
  <2>5. n \in Nat /\ n <= Len(replica[c]) /\ n <= Len(log)
    BY <2>3, <2>4 DEF ClientTick
  <2>6. SubSeq(replica[c], 1, n) = SubSeq(log, 1, n)
    BY <2>1 DEF IInv, AgreementInv
  <2>7. i \in Nat \ {0}
    BY <2>2
  <2> HIDE DEF S, n
  <2>8. i > n
    <3>1. \A k \in 1 .. n : replica[c][k] = log[k]
      BY <2>2, <2>5, <2>6, PrefixElements
    <3>. QED
      BY <2>5, <2>7, <3>1
  <2>9. Tick <= verified[c] + Window + 1
    BY DEF IInv, DeadlineInv
  <2>10. Tick \in Nat /\ verified[c] \in Nat
    BY <2>3, <2>4 DEF Tick, ClientTick
  <2>. QED
    BY <2>3, <2>7, <2>8, <2>9, <2>10 DEF n
<1>. QED
  BY <1>1, Inductive, TypeCorrect, PTL

-----------------------------------------------------------------------------
(***************************************************************************)
(* The recording of the live phase: whatever is sent was recorded, no tick *)
(* exceeds the envelope, and a process failure costs at most one hash      *)
(* interval.                                                               *)
(***************************************************************************)

\* Arithmetic and sequences

\* From one number to the next the remainder grows by one or falls to zero.
LEMMA NextRemainder ==
  ASSUME NEW t \in Nat, NEW n \in Nat \ {0}
  PROVE  /\ t % n \in 0 .. n - 1
         /\ (t + 1) % n = 0 \/ (t + 1) % n = (t % n) + 1
<1> DEFINE q == t \div n
           r == t % n
           p == (t + 1) \div n
           s == (t + 1) % n
<1>1. /\ q \in Int /\ p \in Int /\ r \in 0 .. n - 1 /\ s \in 0 .. n - 1
      /\ t = n * q + r /\ t + 1 = n * p + s
  OBVIOUS
<1>2. n * (p - q) = r + 1 - s
  BY <1>1
<1> HIDE DEF q, r, p, s
<1>3. ASSUME p - q >= 2 PROVE FALSE
  <2>1. n * (p - q) >= n * 2
    BY <1>1, <1>3
  <2> QED
    BY <2>1, <1>1, <1>2
<1>4. ASSUME p - q <= -1 PROVE FALSE
  <2>1. n * (p - q) <= n * (-1)
    BY <1>1, <1>4
  <2> QED
    BY <2>1, <1>1, <1>2
<1>5. p - q = 0 \/ p - q = 1
  BY <1>1, <1>3, <1>4
<1>6. CASE p - q = 0
  BY <1>1, <1>2, <1>6 DEF r, s
<1>7. CASE p - q = 1
  BY <1>1, <1>2, <1>7 DEF r, s
<1> QED
  BY <1>5, <1>6, <1>7

\* The elements of two sequences joined are those of the one and of the other.
LEMMA JoinedElements ==
  ASSUME NEW S, NEW s \in Seq(S), NEW t \in Seq(S), NEW i \in DOMAIN (s \o t)
  PROVE  \/ i \in DOMAIN s /\ (s \o t)[i] = s[i]
         \/ i - Len(s) \in DOMAIN t /\ (s \o t)[i] = t[i - Len(s)]
  OBVIOUS

-----------------------------------------------------------------------------
\* The inductive invariant

\* The message is within the envelope and, if the session is recorded, in the recording.
Kept(message) ==
  /\ Len(message.inputs) <= TickBudget
  /\ Recording => /\ message.tick - StartTick \in DOMAIN recorded
                  /\ recorded[message.tick - StartTick] = message.inputs

KeptAll(messages) == \A i \in DOMAIN messages : Kept(messages[i])

\* The recording is the log, but for a tick on which the session failed.
LedgerInv ==
  /\ Recording => \/ recorded = log
                  \/ pc = "stopped" /\ \E batch \in Batch : recorded = Append(log, batch)
  /\ ~Recording => recorded = <<>>

BudgetInv ==
  /\ Len(inputs) <= TickBudget
  /\ \A i \in DOMAIN recorded : Len(recorded[i]) <= TickBudget

\* What is queued, and what is on its way.
SentInv == KeptAll(outbox) /\ \A c \in Clients : KeptAll(down[c])

\* The ticks since the last multiple of the interval, and in SealTick those up to the
\* tick before, are all that is not flushed.
Unflushed == Len(recorded) - flushed

FlushInv ==
  /\ flushed <= Len(recorded)
  /\ Recording =>
       /\ Unflushed <= Interval
       /\ pc \notin {"seal", "stopped"} => Unflushed <= Tick % Interval
       /\ pc = "seal" => \E t \in Nat : Tick = t + 1 /\ Unflushed <= (t % Interval) + 1

RecordingInv == LedgerInv /\ BudgetInv /\ SentInv /\ FlushInv

-----------------------------------------------------------------------------
\* The steps

\* The places of the loop at which nothing is recorded that the last seal did not see.
Settled == {"network", "serve", "inputs", "reports", "local", "commit", "send"}

\* What the steps that neither write nor send leave alone.
Calm ==
  /\ UNCHANGED <<log, recorded, flushed, outbox>>
  /\ \A c \in Clients : \A i \in DOMAIN down'[c] :
       \E j \in DOMAIN down[c] : down'[c][i] = down[c][j]
  /\ Len(inputs') <= TickBudget
  /\ pc' = pc \/ (pc \in Settled /\ pc' \in Settled)

\* The end of a session, with a last flush that may fail.
Ending ==
  /\ pc' = "stopped"
  /\ UNCHANGED <<log, recorded, outbox, inputs, down>>
  /\ flushed' \in {flushed, Len(recorded)}

\* Every step is calm, ends the session, or is one of the four that write or send.
LEMMA WritingSteps ==
  ASSUME TypeOK, BudgetInv, [Next]_vars
  PROVE  Calm \/ Ending \/ AdvanceFails \/ CommitTick \/ SealTick \/ SendPackets
<1> USE TickAssumption DEF TypeOK, BudgetInv, Settled, loop, ledger, peers, channels, process
<1> DEFINE Same == UNCHANGED <<log, recorded, outbox, down>>
<1>1. ASSUME NEW why, Stop(why, recorded), Same, UNCHANGED inputs PROVE Ending
  BY <1>1 DEF Stop, Ending
<1>2. ASSUME Same, UNCHANGED flushed, Len(inputs') <= TickBudget,
             pc' = pc \/ (pc \in Settled /\ pc' \in Settled)
      PROVE  Calm
  BY <1>2 DEF Calm
<1>3. ASSUME NEW p \in Participants, Collect(p), Fits, pending[p] # <<>>
      PROVE  Len(inputs') <= TickBudget
  <2>1. Head(pending[p]) \in Commands
    BY <1>3, QueueTypes
  <2>2. [participant |-> p, payload |-> Head(pending[p])] \in Input
    BY <2>1 DEF Input
  <2>3. Len(inputs') = Len(inputs) + 1 /\ Len(inputs) \in Nat
    BY <1>3, <2>2, AppendShape DEF Collect, Batch
  <2> QED
    BY <1>3, <2>3 DEF Fits
<1>4. CASE Cancelled \/ NetworkFails \/ TickExhausted \/ AppendFails \/ FlushFails
  BY <1>1, <1>4 DEF Cancelled, NetworkFails, TickExhausted, AppendFails, FlushFails
<1>5. CASE UpdateNetwork
  <2>1. PICK late \in SUBSET Clients :
          down' = [c \in Clients |-> IF c \in late THEN <<>> ELSE down[c]]
    BY <1>5 DEF UpdateNetwork
  <2>2. \A c \in Clients : \A i \in DOMAIN down'[c] :
          \E j \in DOMAIN down[c] : down'[c][i] = down[c][j]
    BY <2>1
  <2> QED
    BY <1>5, <2>2 DEF UpdateNetwork, Calm
<1>6. ASSUME NEW c \in Clients, BeginClient(c) \/ ReportsDrained(c) PROVE Calm
  BY <1>2, <1>6 DEF BeginClient, ReportsDrained, NextClient
<1>7. CASE AllServed \/ InputsDrained \/ LocalDrained \/ RequestCancel
  BY <1>2, <1>7 DEF AllServed, InputsDrained, LocalDrained, RequestCancel
<1>8. ASSUME NEW c \in Clients, ReceiveInput(c) PROVE Calm \/ Ending
  <2>1. c \in Participants
    BY DEF Participants
  <2>2. CASE Head(pending[c]) \in ValidCommands /\ Fits
    BY <1>2, <1>3, <1>8, <2>1, <2>2 DEF ReceiveInput
  <2>3. CASE Head(pending[c]) \in ValidCommands /\ ~Fits
    BY <1>1, <1>8, <2>3 DEF ReceiveInput
  <2>4. CASE Head(pending[c]) \notin ValidCommands
    BY <1>2, <1>8, <2>4 DEF ReceiveInput, NextClient
  <2> QED
    BY <2>2, <2>3, <2>4
<1>9. ASSUME NEW c \in Clients, ReceiveReport(c) PROVE Calm \/ Ending
  BY <1>1, <1>2, <1>9 DEF ReceiveReport, NextClient
<1>10. CASE DrainLocal
  <2>1. Host \in Participants
    BY DEF Participants
  <2>2. CASE Head(pending[Host]) \in ValidCommands /\ Fits
    BY <1>2, <1>3, <1>10, <2>1, <2>2 DEF DrainLocal
  <2>3. CASE ~(Head(pending[Host]) \in ValidCommands /\ Fits)
    BY <1>1, <1>10, <2>3 DEF DrainLocal
  <2> QED
    BY <2>2, <2>3
<1>11. ASSUME NEW p \in Participants, NEW command \in Commands, Submit(p, command) PROVE Calm
  BY <1>2, <1>11 DEF Submit
<1>12. ASSUME NEW c \in Clients, ReceiveTick(c) PROVE Calm
  <2>1. down[c] \in Seq(Message) /\ down[c] # <<>> /\ down' = [down EXCEPT ![c] = Tail(@)]
    BY <1>12 DEF ReceiveTick, TickArrived
  <2>2. \A i \in DOMAIN Tail(down[c]) : i + 1 \in DOMAIN down[c] /\ Tail(down[c])[i] = down[c][i + 1]
    BY <2>1
  <2>3. \A d \in Clients : \A i \in DOMAIN down'[d] :
          \E j \in DOMAIN down[d] : down'[d][i] = down[d][j]
    <3>1. \A d \in Clients : down'[d] = IF d = c THEN Tail(down[c]) ELSE down[d]
      BY <2>1
    <3> QED
      BY <2>2, <3>1
  <2> QED
    BY <1>12, <2>3 DEF ReceiveTick, Calm
<1>13. ASSUME NEW c \in Clients, LeaveSession(c) PROVE Calm
  BY <1>2, <1>13 DEF LeaveSession
<1>14. CASE UNCHANGED vars
  BY <1>2, <1>14 DEF vars
<1> QED
  BY <1>4, <1>5, <1>6, <1>7, <1>8, <1>9, <1>10, <1>11, <1>12, <1>13, <1>14
  DEF Next, Server, Environment, Terminated

\* What is recorded stays recorded.
LEMMA KeptLasts ==
  ASSUME TypeOK, NEW message, Kept(message),
         recorded' = recorded \/ \E batch \in Batch : recorded' = Append(recorded, batch)
  PROVE  Kept(message)'
<1> USE DEF TypeOK, Kept
<1>1. CASE recorded' = recorded
  BY <1>1
<1>2. ASSUME NEW batch \in Batch, recorded' = Append(recorded, batch) PROVE Kept(message)'
  <2>1. \A i \in DOMAIN recorded : i \in DOMAIN recorded' /\ recorded'[i] = recorded[i]
    BY <1>2, AppendShape
  <2> QED
    BY <2>1
<1> QED
  BY <1>1, <1>2

\* The tick being committed is recorded when it is broadcast.
LEMMA CommitStep ==
  ASSUME TypeOK, RecordingInv, Record, Broadcast, pc = "commit"
  PROVE  /\ Recording => /\ recorded' = Append(log, inputs)
                         /\ Len(recorded') = Len(log) + 1 /\ Len(recorded') = Len(recorded) + 1
         /\ ~Recording => recorded' = <<>>
         /\ KeptAll(outbox)'
         /\ \A i \in DOMAIN recorded' : Len(recorded'[i]) <= TickBudget
<1> USE TickAssumption DEF TypeOK, RecordingInv, LedgerInv, BudgetInv, SentInv
<1>1. Recording => /\ recorded' = Append(log, inputs) /\ recorded = log
                   /\ Len(recorded') = Len(log) + 1
                   /\ recorded'[Len(log) + 1] = inputs
                   /\ Len(log) + 1 \in DOMAIN recorded'
  BY AppendShape DEF Record
<1>2. ~Recording => recorded' = <<>>
  BY DEF Record
<1>3. recorded' = recorded \/ recorded' = Append(recorded, inputs)
  BY DEF Record
<1>4. \A i \in DOMAIN recorded' : Len(recorded'[i]) <= TickBudget
  <2>1. CASE recorded' = recorded
    BY <2>1
  <2>2. CASE recorded' = Append(recorded, inputs)
    <3>1. \A i \in DOMAIN recorded' : \/ i \in DOMAIN recorded /\ recorded'[i] = recorded[i]
                                      \/ recorded'[i] = inputs
      BY <2>2, AppendShape
    <3> QED
      BY <3>1
  <2> QED
    BY <1>3, <2>1, <2>2
<1>5. PICK message \in Message : /\ message.tick = Tick + 1 /\ message.inputs = inputs
                                 /\ outbox' = Append(outbox, message)
  <2>1. [tick |-> Tick + 1, inputs |-> inputs] \in Message
    BY DEF Message, Tick
  <2> QED
    BY <2>1 DEF Broadcast
<1>6. Kept(message)'
  BY <1>1, <1>5 DEF Kept, Tick
<1>7.  KeptAll(outbox)'
  <2> SUFFICES ASSUME NEW i \in DOMAIN outbox' PROVE Kept(outbox[i])'
    BY DEF KeptAll
  <2>1. (i \in DOMAIN outbox /\ outbox'[i] = outbox[i]) \/ outbox'[i] = message
    BY <1>5, AppendShape
  <2>2. CASE i \in DOMAIN outbox /\ outbox'[i] = outbox[i]
    <3>1. PICK sent : sent = outbox[i]
      OBVIOUS
    <3>2. Kept(sent)'
      BY <1>3, <2>2, <3>1, KeptLasts DEF KeptAll
    <3> QED
      BY <2>2, <3>1, <3>2 DEF Kept
  <2>3. CASE outbox'[i] = message
    BY <1>6, <2>3 DEF Kept
  <2> QED
    BY <2>1, <2>2, <2>3
<1> QED
  BY <1>1, <1>2, <1>4, <1>7

\* The invariant outlasts every step.
LEMMA RecordingStep ==
  ASSUME TypeOK, TypeOK', RecordingInv, [Next]_vars
  PROVE  RecordingInv'
<1> USE TickAssumption
<1>0. /\ LedgerInv /\ BudgetInv /\ SentInv /\ FlushInv
      /\ Len(log) \in Nat /\ Len(recorded) \in Nat /\ flushed \in Nat /\ Tick \in Nat
  BY LogTypes DEF RecordingInv
<1>1. CASE Calm
  <2>1. LedgerInv'
    BY <1>0, <1>1 DEF Calm, LedgerInv, Settled
  <2>2. BudgetInv'
    BY <1>0, <1>1 DEF Calm, BudgetInv
  <2>3. SentInv'
    BY <1>0, <1>1 DEF Calm, SentInv, KeptAll, Kept
  <2>4. FlushInv'
    BY <1>0, <1>1 DEF Calm, FlushInv, Settled, Unflushed, Tick
  <2> QED
    BY <2>1, <2>2, <2>3, <2>4 DEF RecordingInv
<1>2. CASE Ending
  <2>1. LedgerInv'
    BY <1>0, <1>2 DEF Ending, LedgerInv
  <2>2. BudgetInv'
    BY <1>0, <1>2 DEF Ending, BudgetInv
  <2>3. SentInv'
    BY <1>0, <1>2 DEF Ending, SentInv, KeptAll, Kept
  <2>4. FlushInv'
    BY <1>0, <1>2 DEF Ending, FlushInv, Unflushed
  <2> QED
    BY <2>1, <2>2, <2>3, <2>4 DEF RecordingInv
<1>3. CASE AdvanceFails \/ CommitTick
  <2>1. /\ pc = "commit" /\ Record /\ Broadcast /\ UNCHANGED down /\ inputs' \in {inputs, <<>>}
    BY <1>3 DEF AdvanceFails, CommitTick, channels
  <2>2. /\ Recording => /\ recorded' = Append(log, inputs)
                        /\ Len(recorded') = Len(log) + 1 /\ Len(recorded') = Len(recorded) + 1
        /\ ~Recording => recorded' = <<>> /\ recorded = <<>>
        /\ KeptAll(outbox)'
        /\ \A i \in DOMAIN recorded' : Len(recorded'[i]) <= TickBudget
    BY <1>0, <2>1, CommitStep DEF LedgerInv
  <2>3. inputs \in Batch
    BY DEF TypeOK
  <2>4. LedgerInv'
    <3>1. CASE AdvanceFails
      BY <2>2, <2>3, <3>1 DEF AdvanceFails, Stop, LedgerInv
    <3>2. CASE CommitTick
      BY <2>2, <3>2 DEF CommitTick, LedgerInv
    <3> QED
      BY <1>3, <3>1, <3>2
  <2>5. BudgetInv'
    BY <1>0, <2>1, <2>2 DEF BudgetInv
  <2>6. SentInv'
    <3> SUFFICES ASSUME NEW c \in Clients, NEW i \in DOMAIN down'[c] PROVE Kept(down[c][i])'
      BY <2>2 DEF SentInv, KeptAll
    <3>1. PICK sent : sent = down[c][i]
      OBVIOUS
    <3>2. Kept(sent)
      BY <1>0, <2>1, <3>1 DEF SentInv, KeptAll
    <3>3. recorded' = recorded \/ recorded' = Append(recorded, inputs)
      BY <2>1 DEF Record
    <3>4. Kept(sent)'
      BY <2>3, <3>2, <3>3, KeptLasts
    <3> QED
      BY <2>1, <3>1, <3>4 DEF Kept
  <2>7. FlushInv'
    <3>1. /\ Recording => Unflushed <= Tick % Interval
          /\ Tick % Interval \in 0 .. Interval - 1
      BY <1>0, <2>1, NextRemainder DEF FlushInv
    <3>2. CASE AdvanceFails
      <4>1. pc' = "stopped" /\ flushed' \in {flushed, Len(recorded')}
        BY <3>2 DEF AdvanceFails, Stop
      <4> QED
        BY <1>0, <2>2, <3>1, <4>1 DEF FlushInv, Unflushed
    <3>3. CASE CommitTick
      <4>1. pc' = "seal" /\ flushed' = flushed /\ Tick' = Tick + 1
        BY <3>3, AppendShape DEF CommitTick, Tick, TypeOK
      <4>2. Recording => Unflushed' <= (Tick % Interval) + 1
        BY <1>0, <2>2, <3>1, <4>1 DEF Unflushed
      <4>3. flushed' <= Len(recorded')
        BY <1>0, <2>2, <4>1 DEF FlushInv
      <4> QED
        BY <1>0, <3>1, <4>1, <4>2, <4>3 DEF FlushInv, Unflushed
    <3> QED
      BY <1>3, <3>2, <3>3
  <2> QED
    BY <2>4, <2>5, <2>6, <2>7 DEF RecordingInv
<1>4. CASE SealTick
  <2>1. /\ pc = "seal" /\ pc' = "send" /\ UNCHANGED <<log, recorded, outbox, inputs, down>>
        /\ IF Sealed(Tick) THEN flushed' = Len(recorded) ELSE flushed' = flushed
    BY <1>4 DEF SealTick, channels
  <2>2. LedgerInv' /\ BudgetInv'
    BY <1>0, <2>1 DEF LedgerInv, BudgetInv
  <2>3. SentInv'
    BY <1>0, <2>1 DEF SentInv, KeptAll, Kept
  <2>4. Tick % Interval \in 0 .. Interval - 1 /\ Tick' = Tick
    BY <1>0, <2>1, NextRemainder DEF Tick
  <2>5. flushed' <= Len(recorded') /\ (Recording => Unflushed' <= Tick % Interval) => FlushInv'
    <3> HAVE flushed' <= Len(recorded') /\ (Recording => Unflushed' <= Tick % Interval)
    <3>1. Recording => Unflushed' <= Tick' % Interval /\ Unflushed' <= Interval
      BY <1>0, <2>1, <2>4 DEF Unflushed
    <3> QED
      BY <2>1, <3>1 DEF FlushInv
  <2>6. CASE Sealed(Tick)
    <3>1. flushed' = Len(recorded') /\ Unflushed' = 0
      BY <1>0, <2>1, <2>6 DEF Unflushed
    <3> QED
      BY <1>0, <2>2, <2>3, <2>4, <2>5, <3>1 DEF RecordingInv
  <2>7. CASE ~Sealed(Tick)
    <3>1. Recording => Unflushed <= Tick % Interval
      <4> SUFFICES ASSUME Recording PROVE Unflushed <= Tick % Interval
        OBVIOUS
      <4>1. PICK t \in Nat : Tick = t + 1 /\ Unflushed <= (t % Interval) + 1
        BY <1>0, <2>1 DEF FlushInv
      <4>2. Tick % Interval = (t % Interval) + 1
        BY <2>7, <4>1, NextRemainder DEF Sealed
      <4> QED
        BY <4>1, <4>2
    <3>2. flushed' = flushed /\ Unflushed' = Unflushed /\ flushed' <= Len(recorded')
      BY <1>0, <2>1, <2>7 DEF FlushInv, Unflushed
    <3> QED
      BY <2>2, <2>3, <2>5, <3>1, <3>2 DEF RecordingInv
  <2> QED
    BY <2>6, <2>7
<1>5. CASE SendPackets
  <2>1. /\ pc = "send" /\ pc' = "network" /\ UNCHANGED <<log, recorded, flushed, inputs>>
        /\ outbox' = <<>>
        /\ \A c \in Clients : down'[c] = down[c] \o outbox \/ down'[c] = down[c]
    BY <1>5 DEF SendPackets
  <2>2. LedgerInv' /\ BudgetInv'
    BY <1>0, <2>1 DEF LedgerInv, BudgetInv
  <2>3. FlushInv'
    BY <1>0, <2>1 DEF FlushInv, Unflushed, Tick
  <2>4. SentInv'
    <3>1. KeptAll(outbox)'
      BY <2>1 DEF KeptAll
    <3>2. ASSUME NEW c \in Clients, NEW i \in DOMAIN down'[c] PROVE Kept(down[c][i])'
      <4>1. down[c] \in Seq(Message) /\ outbox \in Seq(Message)
        BY DEF TypeOK
      <4>2. \/ i \in DOMAIN down[c] /\ down'[c][i] = down[c][i]
            \/ i - Len(down[c]) \in DOMAIN outbox /\ down'[c][i] = outbox[i - Len(down[c])]
        <5>1. CASE down'[c] = down[c]
          BY <3>2, <5>1
        <5>2. CASE down'[c] = down[c] \o outbox
          <6>1. i \in DOMAIN (down[c] \o outbox)
            BY <3>2, <5>2
          <6> QED
            BY <4>1, <5>2, <6>1, JoinedElements
        <5> QED
          BY <2>1, <5>1, <5>2
      <4>3. PICK sent : sent = down'[c][i]
        OBVIOUS
      <4>4. Kept(sent)
        BY <1>0, <4>2, <4>3 DEF SentInv, KeptAll
      <4> QED
        BY <2>1, <4>3, <4>4 DEF Kept
    <3> QED
      BY <3>1, <3>2 DEF SentInv, KeptAll
  <2> QED
    BY <2>2, <2>3, <2>4 DEF RecordingInv
<1> QED
  BY <1>0, <1>1, <1>2, <1>3, <1>4, <1>5, WritingSteps

-----------------------------------------------------------------------------
\* Theorems

\* The invariant holds of every session.
LEMMA RecordingAlways == Spec => []RecordingInv
<1>1. Init => RecordingInv
  <2>1. StartTick % Interval \in 0 .. Interval - 1
    BY TickAssumption, NextRemainder
  <2> QED
    BY <2>1, TickAssumption
    DEF Init, RecordingInv, LedgerInv, BudgetInv, SentInv, KeptAll, FlushInv, Unflushed, Tick
<1> QED
  BY <1>1, RecordingStep, TypeCorrect, PTL DEF Spec

\* What a client can see was recorded before, every tick can be read back, and a process
\* failure costs at most an interval of the recording.
THEOREM RecordedFirst == Spec => []RecordingSound
<1>1. TypeOK /\ RecordingInv => RecordingSound
  <2> SUFFICES ASSUME TypeOK, RecordingInv PROVE RecordingSound
    OBVIOUS
  <2>0. LedgerInv /\ BudgetInv /\ SentInv /\ FlushInv
    BY DEF RecordingInv
  <2>1. \A c \in Clients : \A message \in ToSet(down[c]) : Kept(message)
    BY <2>0 DEF SentInv, KeptAll, ToSet
  <2>2. Recording => IsPrefix(log, recorded) /\ Len(recorded) <= Len(log) + 1
    <3> SUFFICES ASSUME Recording PROVE IsPrefix(log, recorded) /\ Len(recorded) <= Len(log) + 1
      OBVIOUS
    <3>1. log \in Seq(Batch) /\ recorded \in Seq(Batch) /\ Len(log) \in Nat
      BY DEF TypeOK
    <3>2. /\ Len(recorded) = Len(log) \/ Len(recorded) = Len(log) + 1
          /\ \A i \in DOMAIN log : recorded[i] = log[i]
      BY <2>0, <3>1, AppendShape DEF LedgerInv
    <3> QED
      BY <3>1, <3>2, PrefixShape
  <2>3. NothingUnrecorded
    BY <2>1, <2>2 DEF NothingUnrecorded, Kept
  <2>4. TicksWithinBudget
    BY <2>0, <2>1 DEF TicksWithinBudget, BudgetInv, ToSet, Kept
  <2>5. LossIsBounded
    BY <2>0 DEF LossIsBounded, FlushInv, Unflushed
  <2> QED
    BY <2>3, <2>4, <2>5 DEF RecordingSound
<1> QED
  BY <1>1, RecordingAlways, TypeCorrect, PTL

-----------------------------------------------------------------------------
(***************************************************************************)
(* The order of the commands. First, what FlattenSeq, a recursive function *)
(* of the library, has of concatenation: that there is such a function and *)
(* that it does not look beyond its argument is shown by minimal           *)
(* counterexamples.                                                        *)
(***************************************************************************)

\* f[i] joins the first i members of s, for i up to n.
Joins(f, s, n) == f = [i \in 1 .. n |-> IF i = 1 THEN s[i] ELSE f[i - 1] \o s[i]]

\* The function the library chooses.
Joiner(s, n) == CHOOSE f : Joins(f, s, n)

\* The library's sequence is that function's last value.
LEMMA FlattenIsJoiner ==
  ASSUME NEW s
  PROVE  FlattenSeq(s) = IF Len(s) = 0 THEN s ELSE Joiner(s, Len(s))[Len(s)]
  BY DEF FlattenSeq, Joiner, Joins

\* Two such functions agree where both are defined and join the same sequences.
LEMMA JoinersAgree ==
  ASSUME NEW n \in Nat, NEW m \in Nat, NEW f, NEW g, NEW s, NEW t,
         Joins(f, s, m), Joins(g, t, n),
         NEW k \in 1 .. m, k <= n, \A i \in 1 .. k : s[i] = t[i]
  PROVE  f[k] = g[k]
<1> DEFINE Bad == {i \in 1 .. k : f[i] # g[i]}
<1>1. SUFFICES ASSUME Bad # {} PROVE FALSE
  OBVIOUS
<1>2. PICK i \in Bad : \A j \in 0 .. i - 1 : j \notin Bad
  <2>1. Bad \in SUBSET (0 .. k) /\ k \in Nat
    OBVIOUS
  <2> HIDE DEF Bad
  <2> QED
    BY <1>1, <2>1, Least
<1>3. i \in 1 .. m /\ i \in 1 .. n /\ i \in 1 .. k
  OBVIOUS
<1>4. f[i] = (IF i = 1 THEN s[i] ELSE f[i - 1] \o s[i])
  BY <1>3 DEF Joins
<1>5. g[i] = (IF i = 1 THEN t[i] ELSE g[i - 1] \o t[i])
  BY <1>3 DEF Joins
<1>6. i # 1 => f[i - 1] = g[i - 1]
  BY <1>2, <1>3
<1> QED
  BY <1>3, <1>4, <1>5, <1>6

\* There is such a function.
LEMMA JoinerJoins == ASSUME NEW s, NEW n \in Nat PROVE Joins(Joiner(s, n), s, n)
<1> DEFINE Bad == {k \in 0 .. n : ~ \E f : Joins(f, s, k)}
<1>1. SUFFICES Bad = {}
  BY DEF Joiner
<1>2. SUFFICES ASSUME Bad # {} PROVE FALSE
  OBVIOUS
<1>3. PICK k \in Bad : \A j \in 0 .. k - 1 : j \notin Bad
  <2>1. Bad \in SUBSET (0 .. n)
    OBVIOUS
  <2> HIDE DEF Bad
  <2> QED
    BY <1>2, <2>1, Least
<1>4. CASE k = 0
  <2>1. Joins([i \in 1 .. 0 |-> 0], s, 0)
    BY DEF Joins
  <2> QED
    BY <1>4, <2>1
<1>5. CASE k # 0
  <2>1. k - 1 \in 0 .. k - 1 /\ k \in Nat /\ k - 1 \in 0 .. n
    BY <1>5
  <2>2. PICK f : Joins(f, s, k - 1)
    BY <1>3, <2>1
  <2> DEFINE last == IF k = 1 THEN s[k] ELSE f[k - 1] \o s[k]
             g == [i \in 1 .. k |-> IF i = k THEN last ELSE f[i]]
  <2>3. ASSUME NEW i \in 1 .. k PROVE g[i] = (IF i = 1 THEN s[i] ELSE g[i - 1] \o s[i])
    <3>1. CASE i = k
      <4>1. k # 1 => g[k - 1] = f[k - 1]
        BY <2>1
      <4> QED
        BY <3>1, <4>1, <2>1
    <3>2. CASE i # k
      <4>1. i \in 1 .. k - 1
        BY <2>1, <3>2
      <4>2. f[i] = (IF i = 1 THEN s[i] ELSE f[i - 1] \o s[i])
        BY <2>2, <4>1 DEF Joins
      <4>3. g[i] = f[i] /\ (i # 1 => g[i - 1] = f[i - 1])
        BY <2>1, <4>1
      <4> QED
        BY <4>2, <4>3
    <3> QED
      BY <3>1, <3>2
  <2>4. Joins(g, s, k)
    BY <2>3 DEF Joins
  <2> QED
    BY <2>4
<1> QED
  BY <1>4, <1>5

\* A sequence of length zero.
LEMMA EmptySeq == ASSUME NEW S, NEW s \in Seq(S), Len(s) = 0 PROVE s = << >>
  OBVIOUS

\* Flattening, one member at a time.
LEMMA FlattenEmpty == FlattenSeq(<< >>) = << >>
  BY FlattenIsJoiner

\* The last member is joined last.
LEMMA FlattenLast ==
  ASSUME NEW s, NEW n \in Nat, Len(s) = n, n # 0
  PROVE  FlattenSeq(s) = IF n = 1 THEN s[1] ELSE Joiner(s, n)[n - 1] \o s[n]
<1>1. FlattenSeq(s) = Joiner(s, n)[n]
  BY FlattenIsJoiner
<1>2. Joins(Joiner(s, n), s, n)
  BY JoinerJoins
<1>3. PICK f : f = Joiner(s, n)
  OBVIOUS
<1>4. n \in 1 .. n
  OBVIOUS
<1>5. f[n] = (IF n = 1 THEN s[n] ELSE f[n - 1] \o s[n])
  BY <1>2, <1>3, <1>4 DEF Joins
<1> QED
  BY <1>1, <1>3, <1>5

\* One more member goes behind the others.
LEMMA FlattenAppend ==
  ASSUME NEW S, NEW s \in Seq(Seq(S)), NEW e \in Seq(S)
  PROVE  FlattenSeq(Append(s, e)) = FlattenSeq(s) \o e
<1>1. PICK n, a : n = Len(s) /\ a = Append(s, e)
  OBVIOUS
<1>2. /\ n \in Nat /\ Len(a) = n + 1 /\ a[n + 1] = e
      /\ \A i \in 1 .. n : s[i] = a[i]
  BY <1>1
<1>3. FlattenSeq(a) = IF n + 1 = 1 THEN a[1] ELSE Joiner(a, n + 1)[n] \o a[n + 1]
  <2>1. PICK m : m = n + 1
    OBVIOUS
  <2>2. m \in Nat /\ m # 0 /\ m - 1 = n /\ Len(a) = m
    BY <1>2, <2>1
  <2>3. FlattenSeq(a) = IF m = 1 THEN a[1] ELSE Joiner(a, m)[m - 1] \o a[m]
    BY <2>2, FlattenLast
  <2> QED
    BY <2>1, <2>2, <2>3
<1>4. CASE n = 0
  <2>1. s = << >>
    BY <1>1, <1>4, EmptySeq
  <2>2. << >> \o e = e
    OBVIOUS
  <2> QED
    BY <1>1, <1>2, <1>3, <1>4, <2>1, <2>2, FlattenEmpty
<1>5. CASE n # 0
  <2>1. FlattenSeq(s) = Joiner(s, n)[n]
    BY <1>1, <1>5, FlattenIsJoiner
  <2>2. Joins(Joiner(a, n + 1), a, n + 1) /\ Joins(Joiner(s, n), s, n)
    BY <1>2, JoinerJoins
  <2>3. n \in 1 .. n /\ n <= n + 1 /\ n + 1 \in Nat /\ n + 1 # 1
    BY <1>2, <1>5
  <2>4. Joiner(s, n)[n] = Joiner(a, n + 1)[n]
    BY <1>2, <2>2, <2>3, JoinersAgree
  <2> QED
    BY <1>1, <1>2, <1>3, <2>1, <2>3, <2>4
<1> QED
  BY <1>2, <1>4, <1>5

\* Joined sequences of commands are a sequence of commands.
LEMMA FlattenType ==
  ASSUME NEW S, NEW s \in Seq(Seq(S))
  PROVE  FlattenSeq(s) \in Seq(S)
<1>1. PICK n, f : n = Len(s) /\ f = Joiner(s, n)
  OBVIOUS
<1>2. n \in Nat /\ \A i \in 1 .. n : s[i] \in Seq(S)
  BY <1>1
<1>3. Joins(f, s, n)
  BY <1>1, <1>2, JoinerJoins
<1> DEFINE Bad == {k \in 1 .. n : f[k] \notin Seq(S)}
<1>4. Bad = {}
  <2>1. SUFFICES ASSUME Bad # {} PROVE FALSE
    OBVIOUS
  <2>2. PICK k \in Bad : \A j \in 0 .. k - 1 : j \notin Bad
    <3>1. Bad \in SUBSET (0 .. n)
      BY <1>2
    <3> HIDE DEF Bad
    <3> QED
      BY <1>2, <2>1, <3>1, Least
  <2>3. k \in 1 .. n
    OBVIOUS
  <2>4. f[k] = (IF k = 1 THEN s[k] ELSE f[k - 1] \o s[k])
    BY <1>3, <2>3 DEF Joins
  <2>5. k # 1 => k - 1 \in 1 .. n /\ k - 1 \in 0 .. k - 1
    BY <1>2, <2>3
  <2>6. k # 1 => f[k - 1] \in Seq(S)
    BY <2>2, <2>5
  <2>7. s[k] \in Seq(S) /\ \A u, v \in Seq(S) : u \o v \in Seq(S)
    BY <1>2, <2>3
  <2>8. f[k] \in Seq(S)
    BY ONLY <2>4, <2>6, <2>7
  <2> QED
    BY <2>8
<1>5. CASE n = 0
  <2>1. s = << >> /\ << >> \in Seq(S)
    BY <1>1, <1>5, EmptySeq
  <2> QED
    BY <2>1, FlattenEmpty
<1>6. CASE n # 0
  <2>1. n \in 1 .. n
    BY <1>2, <1>6
  <2>2. FlattenSeq(s) = f[n]
    BY <1>1, <1>6, FlattenIsJoiner
  <2> QED
    BY <1>4, <2>1, <2>2
<1> QED
  BY <1>5, <1>6

\* A function applied to every member of a sequence, and to one more.
LEMMA MapAppend ==
  ASSUME NEW S, NEW T, NEW f \in [S -> T], NEW s \in Seq(S), NEW e \in S
  PROVE  /\ [i \in DOMAIN s |-> f[s[i]]] \in Seq(T)
         /\ [i \in DOMAIN Append(s, e) |-> f[Append(s, e)[i]]]
              = Append([i \in DOMAIN s |-> f[s[i]]], f[e])
<1>1. PICK n, a, m : /\ n = Len(s) /\ a = Append(s, e)
                     /\ m = [i \in DOMAIN s |-> f[s[i]]]
  OBVIOUS
<1>2. /\ n \in Nat /\ DOMAIN s = 1 .. n /\ DOMAIN a = 1 .. n + 1 /\ a[n + 1] = e
      /\ \A i \in 1 .. n : a[i] = s[i] /\ s[i] \in S
  BY <1>1
<1>3. m \in Seq(T) /\ Len(m) = n /\ f[e] \in T
  BY <1>1, <1>2
<1>4. PICK b : b = Append(m, f[e])
  OBVIOUS
<1>5. /\ DOMAIN b = 1 .. n + 1 /\ b[n + 1] = f[e] /\ b \in Seq(T)
      /\ \A i \in 1 .. n : b[i] = m[i]
  BY <1>2, <1>3, <1>4
<1>6. \A i \in 1 .. n : m[i] = f[s[i]]
  BY <1>1, <1>2
<1>7. \A i \in 1 .. n + 1 : f[a[i]] = b[i]
  BY <1>2, <1>5, <1>6
<1>8. b = [i \in DOMAIN b |-> b[i]]
  BY <1>5
<1>9. [i \in 1 .. n + 1 |-> f[a[i]]] = [i \in 1 .. n + 1 |-> b[i]]
  BY <1>7
<1> QED
  BY <1>1, <1>2, <1>3, <1>4, <1>5, <1>8, <1>9

\* A function applied to every member of a sequence.
LEMMA MapType ==
  ASSUME NEW S, NEW T, NEW f \in [S -> T], NEW s \in Seq(S)
  PROVE  [i \in DOMAIN s |-> f[s[i]]] \in Seq(T)
<1>1. Len(s) \in Nat /\ DOMAIN s = 1 .. Len(s) /\ \A i \in DOMAIN s : s[i] \in S
  OBVIOUS
<1> QED
  BY <1>1

\* What one input adds to the commands of p, and what one tick does.
Share(p)  == [x \in Input |-> IF x.participant = p THEN <<x.payload>> ELSE << >>]
Shares(p) == [batch \in Batch |-> Own(p, batch)]

\* An input is a command of its participant and of nobody else.
LEMMA ShareType ==
  ASSUME NEW p, NEW input \in Input
  PROVE  /\ Share(p) \in [Input -> Seq(Commands)]
         /\ Share(p)[input] \in Seq(Commands)
         /\ input.payload \in Commands
         /\ Share(p)[input] = IF input.participant = p THEN <<input.payload>> ELSE << >>
<1>1. \A x \in Input : x.payload \in Commands
  BY DEF Input
<1>2. \A x \in Commands : <<x>> \in Seq(Commands)
  OBVIOUS
<1>3. << >> \in Seq(Commands)
  OBVIOUS
<1>4. \A x \in Input : (IF x.participant = p THEN <<x.payload>> ELSE << >>) \in Seq(Commands)
  BY <1>1, <1>2, <1>3
<1> QED
  BY <1>1, <1>4 DEF Share

\* The commands of p in a tick, by the share of each input.
LEMMA OwnIsFlat ==
  ASSUME NEW p, NEW batch \in Seq(Input)
  PROVE  /\ Own(p, batch) = FlattenSeq([i \in DOMAIN batch |-> Share(p)[batch[i]]])
         /\ [i \in DOMAIN batch |-> Share(p)[batch[i]]] \in Seq(Seq(Commands))
<1>1. \A i \in DOMAIN batch : batch[i] \in Input
  OBVIOUS
<1>2. \A i \in DOMAIN batch :
        (IF batch[i].participant = p THEN <<batch[i].payload>> ELSE << >>) = Share(p)[batch[i]]
  BY <1>1, ShareType
<1>3. [i \in DOMAIN batch |-> IF batch[i].participant = p THEN <<batch[i].payload>> ELSE << >>]
        = [i \in DOMAIN batch |-> Share(p)[batch[i]]]
  BY <1>2, Zenon
<1>4. Share(p) \in [Input -> Seq(Commands)]
  BY <1>1, ShareType DEF Share
<1>5. PICK f : f = Share(p)
  OBVIOUS
<1>6. [i \in DOMAIN batch |-> f[batch[i]]] \in Seq(Seq(Commands))
  BY <1>4, <1>5, MapType
<1>7. Own(p, batch) = FlattenSeq([i \in DOMAIN batch |-> Share(p)[batch[i]]])
  BY <1>3, Zenon DEF Own
<1> QED
  BY <1>5, <1>6, <1>7

\* The commands of p in a tick with one more input.
LEMMA OwnAppend ==
  ASSUME NEW p, NEW batch \in Batch, NEW input \in Input
  PROVE  Own(p, Append(batch, input)) = Own(p, batch) \o Share(p)[input]
<1>1. PICK f : f = Share(p)
  OBVIOUS
<1>2. f \in [Input -> Seq(Commands)] /\ f[input] \in Seq(Commands)
  BY <1>1, ShareType
<1>3. batch \in Seq(Input) /\ Append(batch, input) \in Seq(Input)
  BY DEF Batch
<1> DEFINE m(s) == [i \in DOMAIN s |-> f[s[i]]]
<1>4. Own(p, batch) = FlattenSeq(m(batch)) /\ m(batch) \in Seq(Seq(Commands))
  BY <1>1, <1>3, OwnIsFlat
<1>5. Own(p, Append(batch, input)) = FlattenSeq(m(Append(batch, input)))
  BY <1>1, <1>3, OwnIsFlat
<1>6. m(Append(batch, input)) = Append(m(batch), f[input])
  BY <1>2, <1>3, MapAppend
<1> HIDE DEF m
<1>7. FlattenSeq(Append(m(batch), f[input])) = FlattenSeq(m(batch)) \o f[input]
  BY <1>2, <1>4, FlattenAppend
<1> QED
  BY <1>1, <1>4, <1>5, <1>6, <1>7

\* The commands of p in a tick are commands; an empty tick has none.
LEMMA OwnType ==
  ASSUME NEW p
  PROVE  /\ Own(p, << >>) = << >>
         /\ \A batch \in Batch : Own(p, batch) \in Seq(Commands)
<1>1. Own(p, << >>) = << >>
  BY FlattenEmpty DEF Own
<1>2. ASSUME NEW batch \in Batch PROVE Own(p, batch) \in Seq(Commands)
  BY OwnIsFlat, FlattenType DEF Batch
<1> QED
  BY <1>1, <1>2

\* The commands of p in the ticks committed, and in one more.
Committed(p, ticks) == FlattenSeq([t \in DOMAIN ticks |-> Own(p, ticks[t])])

\* The commands of p in a log, by the share of each tick.
LEMMA CommittedIsFlat ==
  ASSUME NEW p, NEW ticks \in Seq(Batch)
  PROVE  /\ Committed(p, ticks) = FlattenSeq([t \in DOMAIN ticks |-> Shares(p)[ticks[t]]])
         /\ [t \in DOMAIN ticks |-> Shares(p)[ticks[t]]] \in Seq(Seq(Commands))
         /\ Shares(p) \in [Batch -> Seq(Commands)]
         /\ Committed(p, ticks) \in Seq(Commands)
<1>1. \A t \in DOMAIN ticks : ticks[t] \in Batch
  OBVIOUS
<1>2. \A t \in DOMAIN ticks : Own(p, ticks[t]) = Shares(p)[ticks[t]]
  BY <1>1 DEF Shares
<1>3. [t \in DOMAIN ticks |-> Own(p, ticks[t])] = [t \in DOMAIN ticks |-> Shares(p)[ticks[t]]]
  BY <1>2, Zenon
<1>4. Shares(p) \in [Batch -> Seq(Commands)]
  BY OwnType DEF Shares
<1>5. [t \in DOMAIN ticks |-> Shares(p)[ticks[t]]] \in Seq(Seq(Commands))
  BY <1>4, MapType
<1> QED
  BY <1>3, <1>4, <1>5, FlattenType DEF Committed

\* One more tick adds its commands of p behind the others'.
LEMMA CommittedAppend ==
  ASSUME NEW p, NEW ticks \in Seq(Batch), NEW batch \in Batch
  PROVE  Committed(p, Append(ticks, batch)) = Committed(p, ticks) \o Own(p, batch)
<1>1. PICK f : f = Shares(p)
  OBVIOUS
<1>2. /\ f \in [Batch -> Seq(Commands)] /\ f[batch] \in Seq(Commands)
      /\ f[batch] = Own(p, batch)
  <2>1. f \in [Batch -> Seq(Commands)]
    BY <1>1, CommittedIsFlat
  <2>2. f[batch] = Own(p, batch)
    BY <1>1 DEF Shares
  <2> QED
    BY <2>1, <2>2
<1>3. Append(ticks, batch) \in Seq(Batch)
  OBVIOUS
<1> DEFINE m(s) == [t \in DOMAIN s |-> f[s[t]]]
<1>4. Committed(p, ticks) = FlattenSeq(m(ticks)) /\ m(ticks) \in Seq(Seq(Commands))
  BY <1>1, CommittedIsFlat
<1>5. Committed(p, Append(ticks, batch)) = FlattenSeq(m(Append(ticks, batch)))
  BY <1>1, <1>3, CommittedIsFlat
<1>6. m(Append(ticks, batch)) = Append(m(ticks), f[batch])
  BY <1>2, MapAppend
<1> HIDE DEF m
<1>7. FlattenSeq(Append(m(ticks), f[batch])) = FlattenSeq(m(ticks)) \o f[batch]
  BY <1>2, <1>4, FlattenAppend
<1> QED
  BY <1>2, <1>4, <1>5, <1>6, <1>7

-----------------------------------------------------------------------------
\* Those committed, and those of the tick being collected.
LEMMA SequencedIs ==
  ASSUME NEW p PROVE Sequenced(p) = Committed(p, log) \o Own(p, inputs)
  BY DEF Sequenced, Committed

\* A tick committed moves the commands collected to the log; a command collected goes
\* behind those of its participant.
LEMMA SequencedGrows ==
  ASSUME TypeOK, NEW p
  PROVE  /\ Sequenced(p) \in Seq(Commands)
         /\ log' = log /\ inputs' = inputs => Sequenced(p)' = Sequenced(p)
         /\ log' = Append(log, inputs) /\ inputs' = << >> => Sequenced(p)' = Sequenced(p)
         /\ \A q \in Participants :
              pending[q] # << >> /\ log' = log /\ Collect(q) =>
                Sequenced(p)' = IF p = q THEN Append(Sequenced(p), Head(pending[p]))
                                ELSE Sequenced(p)
<1>1. log \in Seq(Batch) /\ inputs \in Batch
  BY DEF TypeOK
<1>2. PICK old, now : old = Committed(p, log) /\ now = Own(p, inputs)
  OBVIOUS
<1>3. old \in Seq(Commands) /\ now \in Seq(Commands)
  BY <1>1, <1>2, CommittedIsFlat, OwnType
<1>4. Sequenced(p) = old \o now /\ Sequenced(p) \in Seq(Commands)
  BY <1>2, <1>3, SequencedIs, QueueTypes
<1>5. Sequenced(p)' = Committed(p, log') \o Own(p, inputs')
  BY DEF Sequenced, Committed
<1>6. ASSUME log' = log, inputs' = inputs PROVE Sequenced(p)' = Sequenced(p)
  BY <1>2, <1>4, <1>5, <1>6
<1>7. ASSUME log' = Append(log, inputs), inputs' = << >> PROVE Sequenced(p)' = Sequenced(p)
  <2>1. Sequenced(p)' = (old \o now) \o << >>
    BY <1>1, <1>2, <1>5, <1>7, CommittedAppend, OwnType
  <2>2. (old \o now) \o << >> = old \o now
    BY <1>3
  <2> QED
    BY <1>4, <2>1, <2>2
<1>8. ASSUME NEW q \in Participants, pending[q] # << >>, log' = log, Collect(q)
      PROVE  Sequenced(p)' = IF p = q THEN Append(Sequenced(p), Head(pending[p]))
                             ELSE Sequenced(p)
  <2>1. PICK input : input = [participant |-> q, payload |-> Head(pending[q])]
    OBVIOUS
  <2>2. Head(pending[q]) \in Commands /\ input \in Input
    <3>1. Head(pending[q]) \in Commands
      BY <1>8, QueueTypes DEF TypeOK
    <3> QED
      BY <2>1, <3>1 DEF Input
  <2>3. input.participant = q /\ input.payload = Head(pending[q]) /\ inputs' = Append(inputs, input)
    BY <1>8, <2>1 DEF Collect
  <2>4. Sequenced(p)' = old \o (now \o Share(p)[input])
    BY <1>1, <1>2, <1>5, <1>8, <2>2, <2>3, OwnAppend
  <2>5. CASE p = q
    <3>1. Share(p)[input] = <<Head(pending[p])>>
      BY <2>2, <2>3, <2>5, ShareType
    <3>2. PICK x \in Commands : x = Head(pending[p])
      BY <2>2, <2>5
    <3>3. old \o (now \o <<x>>) = Append(old \o now, x)
      BY <1>3
    <3> QED
      BY <1>4, <2>4, <2>5, <3>1, <3>2, <3>3
  <2>6. CASE p # q
    <3>1. Share(p)[input] = << >>
      BY <2>2, <2>3, <2>6, ShareType
    <3>2. now \o << >> = now
      BY <1>3
    <3> QED
      BY <1>4, <2>4, <2>6, <3>1, <3>2
  <2> QED
    BY <2>5, <2>6
<1> QED
  BY <1>4, <1>6, <1>7, <1>8

\* What the steps that move no command of a connected participant leave alone.
Undisturbed ==
  /\ UNCHANGED <<log, inputs, submitted>>
  /\ \A p \in Participants :
       pc' # "stopped" /\ (p = Host \/ p \in Up') =>
         pc # "stopped" /\ (p = Host \/ p \in Up) /\ pending'[p] = pending[p]

\* The oldest command on its way of a participant that takes part is collected.
Collected(q) ==
  /\ pc # "stopped" /\ (q = Host \/ q \in Up)
  /\ pending[q] # << >> /\ Collect(q)
  /\ pending' = [pending EXCEPT ![q] = Tail(@)]
  /\ UNCHANGED <<pc, conn, log, submitted>>

\* Every step leaves the commands alone, collects one, commits a tick or submits one.
LEMMA CommandSteps ==
  ASSUME TypeOK, ServingInv, [Next]_vars
  PROVE  \/ Undisturbed \/ CommitTick
         \/ \E q \in Participants : Collected(q)
         \/ \E p \in Participants, command \in Commands : Submit(p, command)
<1> USE ParticipantsAssumption DEF TypeOK, Up, loop, ledger, peers, channels, process
<1> DEFINE Same == UNCHANGED <<log, inputs, submitted>>
<1>1. ASSUME NEW why, NEW written, Stop(why, written), Same PROVE Undisturbed
  BY <1>1 DEF Stop, Undisturbed
<1>2. ASSUME Same, UNCHANGED <<pending, conn>>, pc # "stopped" \/ pc' = pc PROVE Undisturbed
  BY <1>2 DEF Undisturbed
<1>3. ASSUME NEW c \in Clients, NEW why, Disconnect(c, why), Same, pc # "stopped",
             \A p \in Participants : p # c => pending'[p] = pending[p]
      PROVE  Undisturbed
  <2>1. c \notin Up' /\ Up' \subseteq Up /\ c # Host
    BY <1>3 DEF Disconnect
  <2> QED
    BY <1>3, <2>1 DEF Undisturbed
<1>4. CASE Cancelled \/ NetworkFails \/ TickExhausted \/ AppendFails \/ AdvanceFails \/ FlushFails
  BY <1>1, <1>4 DEF Cancelled, NetworkFails, TickExhausted, AppendFails, AdvanceFails, FlushFails
<1>5. CASE UpdateNetwork
  <2>1. /\ Up' \subseteq Up /\ pc = "network" /\ Same
        /\ \A p \in Participants : pending'[p] = pending[p] \/ p \in Clients \ Up'
    BY <1>5 DEF UpdateNetwork, LateConnection
  <2> QED
    BY <2>1 DEF Undisturbed
<1>6. ASSUME NEW c \in Clients, BeginClient(c) PROVE Undisturbed
  BY <1>2, <1>6 DEF BeginClient
<1>7. CASE AllServed \/ InputsDrained \/ LocalDrained \/ RequestCancel \/ SealTick \/ SendPackets
  BY <1>2, <1>7 DEF AllServed, InputsDrained, LocalDrained, RequestCancel, SealTick, SendPackets
<1>8. ASSUME NEW c \in Clients, ReceiveInput(c) PROVE Undisturbed \/ Collected(c)
  <2>1. c \in Participants /\ c \in Up /\ pc = "inputs" /\ pending[c] # << >>
    BY <1>8 DEF Participants, ReceiveInput, ServingInv
  <2>2. CASE Head(pending[c]) \in ValidCommands /\ Fits
    BY <1>8, <2>1, <2>2 DEF ReceiveInput, Collected
  <2>3. CASE Head(pending[c]) \in ValidCommands /\ ~Fits
    BY <1>1, <1>8, <2>3 DEF ReceiveInput
  <2>4. CASE Head(pending[c]) \notin ValidCommands
    BY <1>3, <1>8, <2>1, <2>4 DEF ReceiveInput
  <2> QED
    BY <2>2, <2>3, <2>4
<1>9. ASSUME NEW c \in Clients, ReceiveReport(c) PROVE Undisturbed
  BY <1>1, <1>2, <1>3, <1>9 DEF ReceiveReport
<1>10. ASSUME NEW c \in Clients, ReportsDrained(c) PROVE Undisturbed
  BY <1>2, <1>3, <1>10 DEF ReportsDrained
<1>11. CASE DrainLocal
  <2>1. Host \in Participants /\ pc = "local" /\ pending[Host] # << >>
    BY <1>11 DEF Participants, DrainLocal
  <2>2. CASE Head(pending[Host]) \in ValidCommands /\ Fits
    BY <1>11, <2>1, <2>2 DEF DrainLocal, Collected
  <2>3. CASE ~(Head(pending[Host]) \in ValidCommands /\ Fits)
    BY <1>1, <1>11, <2>3 DEF DrainLocal
  <2> QED
    BY <2>1, <2>2, <2>3
<1>12. ASSUME NEW c \in Clients, ReceiveTick(c) \/ LeaveSession(c) PROVE Undisturbed
  BY <1>2, <1>12 DEF ReceiveTick, LeaveSession
<1>13. CASE UNCHANGED vars
  BY <1>2, <1>13 DEF vars
<1> QED
  BY <1>4, <1>5, <1>6, <1>7, <1>8, <1>9, <1>10, <1>11, <1>12, <1>13
  DEF Next, Server, Environment, Terminated, Participants

\* Joining sequences.
LEMMA Joined ==
  ASSUME NEW S, NEW s \in Seq(S), NEW t \in Seq(S)
  PROVE  /\ IsPrefix(s, s \o t)
         /\ t # << >> => s \o t = Append(s, Head(t)) \o Tail(t)
         /\ \A e \in S : s \o Append(t, e) = Append(s \o t, e)
         /\ s \o << >> = s
<1>1. IsPrefix(s, s \o t)
  <2>1. PICK u : u = s \o t
    OBVIOUS
  <2>2. u \in Seq(S) /\ Len(s) <= Len(u) /\ \A i \in DOMAIN s : s[i] = u[i]
    BY <2>1
  <2> QED
    BY <2>1, <2>2, PrefixShape
<1>2. t # << >> => s \o t = Append(s, Head(t)) \o Tail(t)
  OBVIOUS
<1>3. \A e \in S : s \o Append(t, e) = Append(s \o t, e)
  OBVIOUS
<1>4. s \o << >> = s
  OBVIOUS
<1> QED
  BY <1>1, <1>2, <1>3, <1>4, Zenon

\* The order of the commands outlasts every step.
LEMMA OrderStep ==
  ASSUME TypeOK, TypeOK', ServingInv, CommandsInOrder, [Next]_vars
  PROVE  CommandsInOrder'
<1> SUFFICES ASSUME NEW p \in Participants
             PROVE  /\ IsPrefix(Sequenced(p)', submitted'[p])
                    /\ pc' # "stopped" /\ (p = Host \/ p \in Up') =>
                         Sequenced(p)' \o pending'[p] = submitted'[p]
  BY DEF CommandsInOrder
<1>1. /\ IsPrefix(Sequenced(p), submitted[p])
      /\ pc # "stopped" /\ (p = Host \/ p \in Up) => Sequenced(p) \o pending[p] = submitted[p]
  BY DEF CommandsInOrder
<1>2. PICK s : s = Sequenced(p)
  OBVIOUS
<1>3. s \in Seq(Commands) /\ pending[p] \in Seq(Commands) /\ submitted[p] \in Seq(Commands)
  BY <1>2, SequencedGrows DEF TypeOK
<1>4. CASE Undisturbed
  BY <1>1, <1>4, SequencedGrows DEF Undisturbed
<1>5. CASE CommitTick
  <2>1. /\ log' = Append(log, inputs) /\ inputs' = << >> /\ pc = "commit"
        /\ UNCHANGED <<conn, pending, submitted>>
    BY <1>5 DEF CommitTick, peers, channels
  <2>2. Sequenced(p)' = Sequenced(p) /\ Up' = Up
    BY <2>1, SequencedGrows DEF Up
  <2> QED
    BY <1>1, <2>1, <2>2
<1>6. ASSUME NEW q \in Participants, Collected(q)
      PROVE  /\ IsPrefix(Sequenced(p)', submitted'[p])
             /\ pc' # "stopped" /\ (p = Host \/ p \in Up') =>
                  Sequenced(p)' \o pending'[p] = submitted'[p]
  <2>1. Sequenced(p)' = IF p = q THEN Append(s, Head(pending[p])) ELSE s
    BY <1>2, <1>6, SequencedGrows DEF Collected
  <2>2. /\ pending'[p] = IF p = q THEN Tail(pending[p]) ELSE pending[p]
        /\ submitted' = submitted /\ pc' = pc /\ Up' = Up
    BY <1>6 DEF Collected, Up, TypeOK
  <2>3. CASE p = q
    <3>1. pending[p] # << >> /\ s \o pending[p] = submitted[p]
      BY <1>1, <1>2, <1>6, <2>3 DEF Collected
    <3>2. Append(s, Head(pending[p])) \o Tail(pending[p]) = submitted[p]
      BY <1>3, <3>1, Joined
    <3>3. Append(s, Head(pending[p])) \in Seq(Commands) /\ Tail(pending[p]) \in Seq(Commands)
      BY <1>3, <3>1, QueueTypes
    <3>4. IsPrefix(Append(s, Head(pending[p])), submitted[p])
      <4>1. PICK u, v : u = Append(s, Head(pending[p])) /\ v = Tail(pending[p])
        OBVIOUS
      <4>2. IsPrefix(u, u \o v)
        BY <3>3, <4>1, Joined
      <4> QED
        BY <3>2, <4>1, <4>2
    <3> QED
      BY <2>1, <2>2, <2>3, <3>2, <3>4
  <2>4. CASE p # q
    BY <1>1, <1>2, <2>1, <2>2, <2>4
  <2> QED
    BY <2>3, <2>4
<1>7. ASSUME NEW q \in Participants, NEW command \in Commands, Submit(q, command)
      PROVE  /\ IsPrefix(Sequenced(p)', submitted'[p])
             /\ pc' # "stopped" /\ (p = Host \/ p \in Up') =>
                  Sequenced(p)' \o pending'[p] = submitted'[p]
  <2>1. UNCHANGED <<log, inputs, pc, conn>>
    BY <1>7 DEF Submit, loop, ledger, peers
  <2>2. Sequenced(p)' = s /\ Up' = Up
    BY <1>2, <2>1, SequencedGrows DEF Up
  <2>3. CASE p = q
    <3>1. pending'[p] = Append(pending[p], command) /\ submitted'[p] = Append(submitted[p], command)
      BY <1>7, <2>3 DEF Submit, TypeOK
    <3>2. s \o Append(pending[p], command) = Append(s \o pending[p], command)
      BY <1>3, Joined
    <3>3. IsPrefix(s, Append(submitted[p], command))
      <4>1. Append(submitted[p], command) \in Seq(Commands)
        BY <1>3, QueueTypes
      <4>2. Len(s) <= Len(submitted[p]) /\ \A i \in DOMAIN s : s[i] = submitted[p][i]
        BY <1>1, <1>2, <1>3, PrefixShape
      <4>3. /\ Len(s) \in Nat /\ Len(submitted[p]) \in Nat
            /\ DOMAIN s = 1 .. Len(s) /\ DOMAIN submitted[p] = 1 .. Len(submitted[p])
        BY <1>3
      <4>4. /\ Len(Append(submitted[p], command)) = Len(submitted[p]) + 1
            /\ \A i \in DOMAIN submitted[p] : Append(submitted[p], command)[i] = submitted[p][i]
        BY <1>3, AppendShape
      <4>5. Len(s) <= Len(Append(submitted[p], command))
        BY <4>2, <4>3, <4>4
      <4>6. \A i \in DOMAIN s : s[i] = Append(submitted[p], command)[i]
        BY <4>2, <4>3, <4>4
      <4> QED
        BY <1>3, <4>1, <4>5, <4>6, PrefixShape
    <3> QED
      BY <1>1, <1>2, <2>1, <2>2, <3>1, <3>2, <3>3
  <2>4. CASE p # q
    <3>1. pending'[p] = pending[p] /\ submitted'[p] = submitted[p]
      BY <1>7, <2>4 DEF Submit, TypeOK
    <3> QED
      BY <1>1, <1>2, <2>1, <2>2, <3>1
  <2> QED
    BY <2>3, <2>4
<1> QED
  BY <1>4, <1>5, <1>6, <1>7, CommandSteps

\* Every participant's commands are in the ticks in the order of submission, none twice,
\* and none lost while its connection lasts.
THEOREM CommandsOrdered == Spec => []CommandsInOrder
<1>1. Init => CommandsInOrder
  <2> SUFFICES ASSUME Init, NEW p \in Participants
               PROVE  IsPrefix(Sequenced(p), submitted[p]) /\ Sequenced(p) \o pending[p] = submitted[p]
    BY DEF CommandsInOrder
  <2>1. log = << >> /\ inputs = << >> /\ pending[p] = << >> /\ submitted[p] = << >>
    BY DEF Init
  <2>2. Sequenced(p) = << >> \o << >>
    BY <2>1, SequencedIs, OwnType, FlattenEmpty DEF Committed
  <2>3. << >> \in Seq(Commands)
    OBVIOUS
  <2>4. PICK e : e = << >>
    OBVIOUS
  <2>5. e \o e = e /\ IsPrefix(e, e \o e)
    BY <2>3, <2>4, Joined
  <2> QED
    BY <2>1, <2>2, <2>4, <2>5
<1>2. IInv => ServingInv
  BY DEF IInv
<1> QED
  BY <1>1, <1>2, OrderStep, TypeCorrect, Inductive, PTL DEF Spec

-----------------------------------------------------------------------------
(***************************************************************************)
(* LiveSession implements Sequencer: a committed tick is the order's next  *)
(* batch, a tick applied by a replica is learned, an accepted report       *)
(* confirms, and nothing else shows.                                       *)
(***************************************************************************)

\* A batch within the budget is one of the Sequencer's.
LEMMA BatchBounded ==
  ASSUME NEW batch \in Batch, Len(batch) <= TickBudget
  PROVE  batch \in BoundedSeq(Input, TickBudget)
<1>1. batch \in [1 .. Len(batch) -> Input] /\ Len(batch) \in 0 .. TickBudget
  BY TickAssumption DEF Batch
<1> QED
  BY <1>1 DEF BoundedSeq, SeqOf

\* What the Sequencer shows of a state.
Shown == <<log, replica, verified>>

\* Every step but these four leaves what is shown alone.
LEMMA ShowingSteps ==
  ASSUME [Next]_vars
  PROVE  \/ UNCHANGED Shown
         \/ CommitTick
         \/ \E c \in Clients : ReceiveTick(c) \/ ReceiveReport(c)
<1> USE DEF Shown, loop, ledger, peers, channels, process
<1>1. CASE Cancelled \/ NetworkFails \/ TickExhausted \/ AppendFails \/ AdvanceFails \/ FlushFails
  BY <1>1 DEF Cancelled, NetworkFails, TickExhausted, AppendFails, AdvanceFails, FlushFails
<1>2. CASE UpdateNetwork \/ AllServed \/ InputsDrained \/ DrainLocal \/ LocalDrained
  BY <1>2 DEF UpdateNetwork, AllServed, InputsDrained, DrainLocal, LocalDrained
<1>3. CASE SealTick \/ SendPackets \/ RequestCancel
  BY <1>3 DEF SealTick, SendPackets, RequestCancel
<1>4. ASSUME NEW c \in Clients,
             BeginClient(c) \/ ReceiveInput(c) \/ ReportsDrained(c) \/ LeaveSession(c)
      PROVE  UNCHANGED Shown
  BY <1>4 DEF BeginClient, ReceiveInput, ReportsDrained, LeaveSession
<1>5. ASSUME NEW p \in Participants, NEW command \in Commands, Submit(p, command)
      PROVE  UNCHANGED Shown
  BY <1>5 DEF Submit
<1>6. CASE UNCHANGED vars
  BY <1>6 DEF vars
<1> QED
  BY <1>1, <1>2, <1>3, <1>4, <1>5, <1>6 DEF Next, Server, Environment, Terminated

\* The initial states are initial states of the sequencer.
LEMMA SequencerInit == Init => Abstract!SInit
<1> SUFFICES ASSUME Init PROVE Abstract!SInit
  OBVIOUS
<1>1. log = <<>> /\ replica = [c \in Clients |-> <<>>] /\ verified = [c \in Clients |-> StartTick]
  BY DEF Init
<1>2. [c \in Clients |-> verified[c] - StartTick] = [c \in Clients |-> 0]
  BY <1>1, TickAssumption
<1> QED
  BY <1>1, <1>2 DEF Abstract!SInit

\* A tick the authority has applied is the next of the order.
LEMMA CommitOrders ==
  ASSUME TypeOK, RecordingInv, CommitTick
  PROVE  Abstract!Order
<1>1. inputs \in BoundedSeq(Input, TickBudget)
  BY BatchBounded DEF TypeOK, RecordingInv, BudgetInv
<1>2. log' = Append(log, inputs) /\ UNCHANGED <<replica, verified>>
  BY DEF CommitTick, peers, process
<1>3. [c \in Clients |-> verified[c] - StartTick]' = [c \in Clients |-> verified[c] - StartTick]
  BY <1>2
<1> QED
  BY <1>1, <1>2, <1>3 DEF Abstract!Order

\* A tick that arrives is the next one its replica has to learn; ChannelInv.
LEMMA ReceiveLearns ==
  ASSUME TypeOK, IInv, NEW c \in Clients, ReceiveTick(c)
  PROVE  UNCHANGED Shown \/ Abstract!Learn(c)
<1>1. /\ UNCHANGED <<log, verified>> /\ mode[c] \in {"live", "joining"} /\ down[c] # <<>>
      /\ down[c] \in Seq(Message)
  BY DEF ReceiveTick, TickArrived, ledger, peers, TypeOK
<1>2. [d \in Clients |-> verified[d] - StartTick]' = [d \in Clients |-> verified[d] - StartTick]
  BY <1>1
<1>3. CASE replica' = replica
  BY <1>1, <1>3 DEF Shown
<1>4. CASE replica' # replica
  <2>1. mode[c] = "live" /\ Feed(c) /\ 1 \in DOMAIN down[c] /\ Head(down[c]) = down[c][1]
    BY <1>1, <1>4, TailShape DEF ReceiveTick, IInv, ChannelInv
  <2>2. Len(replica[c]) + 1 \in DOMAIN log /\ Head(down[c]).inputs = log[Len(replica[c]) + 1]
    BY <2>1 DEF Feed
  <2>3. Len(replica[c]) \in Nat /\ Len(log) \in Nat /\ Len(replica[c]) < Len(log)
    BY <2>2 DEF TypeOK, History
  <2>4. \E result \in {Head(down[c]).inputs} \cup (IF c \in Faulty THEN {Corrupt} ELSE {}) :
          replica' = [replica EXCEPT ![c] = Append(@, result)]
    BY <1>4 DEF ReceiveTick, Apply
  <2> QED
    BY <1>1, <1>2, <2>2, <2>3, <2>4 DEF Abstract!Learn
<1> QED
  BY <1>3, <1>4

\* A report that is accepted is evidence: the hash retained for its tick is that of the
\* authority's own state then (HashInv), the one reported that of the client's (ReportInv).
LEMMA ReportConfirms ==
  ASSUME TypeOK, IInv, NEW c \in Clients, ReceiveReport(c)
  PROVE  \/ UNCHANGED Shown
         \/ \E n \in 1 .. Len(replica[c]) : Abstract!Confirm(c, n)
<1>1. UNCHANGED <<log, replica>> /\ reports[c] # <<>> /\ reports[c] \in Seq(Report)
  BY DEF ReceiveReport, process, TypeOK
<1> DEFINE report == Head(reports[c])
<1>2. 1 \in DOMAIN reports[c] /\ report = reports[c][1] /\ report \in Report
  BY <1>1, TailShape, QueueTypes
<1>3. CASE verified' = verified
  BY <1>1, <1>3 DEF Shown
<1>4. CASE verified' # verified
  <2>1. Verdict(c, report) = "verified" /\ verified' = [verified EXCEPT ![c] = report.tick]
    BY <1>4 DEF ReceiveReport
  <2>2. /\ verified[c] \in Nat /\ StartTick \in Nat /\ report.tick \in Nat
        /\ Len(replica[c]) \in Nat /\ verified \in [Clients -> Nat]
    BY <1>2, TickAssumption DEF Report, TypeOK, History
  <2>3. report.tick \in DOMAIN hashes /\ hashes[report.tick] = report.hash
        /\ verified[c] < report.tick
    BY <2>1, <2>2 DEF Verdict
  <2>4. /\ report.tick <= StartTick + Len(replica[c]) /\ verified[c] >= StartTick
        /\ report.hash = SubSeq(replica[c], 1, report.tick - StartTick)
    BY <1>2, <2>2 DEF IInv, ReportInv, Reported, ClientTick
  <2>5. hashes[report.tick] = SubSeq(log, 1, report.tick - StartTick)
    BY <2>3 DEF IInv, HashInv
  <2>6. PICK n \in 1 .. Len(replica[c]) :
          n = report.tick - StartTick /\ verified[c] - StartTick < n
    <3>1. /\ report.tick - StartTick \in 1 .. Len(replica[c])
          /\ verified[c] - StartTick < report.tick - StartTick
      BY <2>2, <2>3, <2>4
    <3> HIDE DEF report
    <3> QED
      BY <3>1
  <2>7. SubSeq(replica[c], 1, n) = SubSeq(log, 1, n)
    BY <2>3, <2>4, <2>5, <2>6
  <2>8. [d \in Clients |-> verified[d] - StartTick]'
          = [[d \in Clients |-> verified[d] - StartTick] EXCEPT ![c] = n]
    BY <2>1, <2>2, <2>6
  <2>9. Abstract!Confirm(c, n)
    BY <1>1, <2>6, <2>7, <2>8 DEF Abstract!Confirm
  <2> QED
    BY <2>9
<1> QED
  BY <1>3, <1>4

\* Each step of the session is one of the Sequencer or does not show.
LEMMA SequencerStep ==
  ASSUME TypeOK, IInv, RecordingInv, [Next]_vars
  PROVE  [Abstract!SNext]_(Abstract!svars)
<1>1. CASE UNCHANGED Shown
  BY <1>1 DEF Shown, Abstract!svars
<1>2. CASE CommitTick
  BY <1>2, CommitOrders DEF Abstract!SNext
<1>3. ASSUME NEW c \in Clients, ReceiveTick(c) PROVE [Abstract!SNext]_(Abstract!svars)
  BY <1>1, <1>3, ReceiveLearns DEF Abstract!SNext
<1>4. ASSUME NEW c \in Clients, ReceiveReport(c) PROVE [Abstract!SNext]_(Abstract!svars)
  BY <1>1, <1>4, ReportConfirms DEF Abstract!SNext
<1> QED
  BY <1>1, <1>2, <1>3, <1>4, ShowingSteps

\* The tick loop, the channels and the replicas together do only what lockstep promises:
\* one order, which replicas learn batch by batch, and of which the authority confirms
\* only what a replica has in common with it (run_server.rs, run_client.rs).
THEOREM Lockstep == Spec => ImplementsSequencer
<1>1. Spec => Abstract!SInit /\ [][Abstract!SNext]_(Abstract!svars)
  BY SequencerInit, SequencerStep, TypeCorrect, Inductive, RecordingAlways, PTL DEF Spec
<1> QED
  BY <1>1 DEF ImplementsSequencer, Abstract!SSpec
=============================================================================
