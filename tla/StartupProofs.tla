---------------------------- MODULE StartupProofs ----------------------------
(***************************************************************************)
(* Theorems about Startup, for any number of clients, any save and any     *)
(* windows: the receiver's memory is bounded, no honest party is refused,  *)
(* and Start is sent to a full roster of ready processes only.             *)
(***************************************************************************)
EXTENDS Startup, Sums

-----------------------------------------------------------------------------
\* The memory of a set of messages

Domain == 0 .. Chunks

\* The library's sum over a set of messages.
LEMMA MemorySum == ASSUME NEW S PROVE MemoryOf(S) = SumOf(Memory, S)
  BY DEF MemoryOf, SumOf

\* What each message takes.
LEMMA MemorySizes ==
  ASSUME NEW S \in SUBSET Domain
  PROVE  IsFiniteSet(S) /\ \A k \in S : Memory[k] \in Nat
<1>1. IsFiniteSet(Domain)
  BY FS_Interval, StartupAssumption DEF Domain
<1>2. IsFiniteSet(S)
  BY <1>1, FinitePart
<1> QED
  BY <1>2, StartupAssumption DEF Domain

\* No message, no memory.
LEMMA MemoryEmpty == MemoryOf({}) = 0
  BY MemorySum, SumEmpty

\* A sum is a number.
LEMMA MemoryType == ASSUME NEW S \in SUBSET Domain PROVE MemoryOf(S) \in Nat
  BY MemorySizes, MemorySum, SumType

\* The memory of one message.
LEMMA MemoryOne == ASSUME NEW k \in Domain PROVE MemoryOf({k}) = Memory[k]
  BY MemorySizes, MemorySum, SumOne

\* What two sets have apart adds up.
LEMMA MemoryUnion ==
  ASSUME NEW S \in SUBSET Domain, NEW U \in SUBSET Domain, S \cap U = {}
  PROVE  MemoryOf(S \cup U) = MemoryOf(S) + MemoryOf(U)
<1>1. IsFiniteSet(Domain) /\ \A k \in Domain : Memory[k] \in Nat
  BY MemorySizes
<1> QED
  BY <1>1, MemorySum, SumUnion

\* A part is no larger than the whole, which is it and the rest.
LEMMA MemoryPart ==
  ASSUME NEW S \in SUBSET Domain, NEW T \in SUBSET S
  PROVE  /\ MemoryOf(S \ T) = MemoryOf(S) - MemoryOf(T)
         /\ MemoryOf(T) <= MemoryOf(S)
  BY MemorySizes, MemorySum, SumPart

-----------------------------------------------------------------------------
\* The inductive invariant

\* Who is in the roster, who is being served, and what Start means.
RosterInv ==
  /\ IsFiniteSet(peers) /\ Cardinality(peers) <= Expected
  /\ Up \subseteq peers
  /\ pc # "stopped" => \A c \in peers : conn[c] # "none"
  /\ todo \subseteq Up /\ (pc \in {"network", "stopped"} => todo = {})
  /\ active \in Clients => active \in Up \ todo
  /\ pc = "started" =>
       peers = Up /\ Cardinality(peers) = Expected /\ \A c \in peers : peer[c].phase = "ready"

\* Start is the first message on the lockstep channel to a client that awaits it, and
\* only ticks follow it.
StartInv(c) ==
  /\ down[c] # <<>> \/ client[c].phase = "live" => pc = "started" /\ c \in peers
  /\ pc = "started" /\ c \in peers /\ client[c].phase = "awaiting" =>
       down[c] # <<>> /\ down[c][1] = "start"
  /\ \A i \in DOMAIN down[c] : i > 1 \/ client[c].phase = "live" => down[c][i] = "tick"

\* What a client process is, seen by itself.
ClientInv(c) ==
  LET me == client[c]
  IN /\ me.received # 0 => me.begun
     /\ me.phase = "receiving" => me.received < Chunks
     /\ me.phase \in {"replaying", "awaiting", "live"} => me.begun /\ me.received = Chunks
     /\ me.replayed # 0 => me.received = Chunks
     /\ me.at # "save" \/ me.phase \in {"awaiting", "live"} => me.reported[1] = me.received
     /\ me.phase \in {"awaiting", "live"} => me.sound /\ me.replayed = FinalTick
     /\ me.phase = "failed" => ~me.sound

\* The next message of the save a client has to take.
First(me) == IF me.begun THEN me.received + 1 ELSE 0

SaveInv(c) == \A i \in DOMAIN save[c] : save[c][i] = First(client[c]) + i - 1

\* The messages of the save the authority takes to be in the receiver's memory: the
\* first chunk consumed shows that Begin was.
Held(p) == IF p.began THEN (IF p.received = 0 THEN 0 ELSE p.received + 1) .. p.offset ELSE {}

PeerInv(c) ==
  LET p == peer[c]
  IN /\ p.phase = "transferring" <=> p.offset < Chunks
     /\ ~p.began => p.offset = 0 /\ p.received = 0
     /\ p.received <= p.offset
     /\ p.outstanding = Held(p)
     /\ p.memory = MemoryOf(p.outstanding) /\ p.memory <= MaxMemory

\* What is in the save channel reaches from the client's next message to the peer's offset.
LinkInv(c) ==
  LET p == peer[c]
      me == client[c]
  IN /\ p.received <= me.received /\ p.replayed <= me.replayed
     /\ me.begun => p.began
     /\ Len(save[c]) = IF p.began THEN p.offset + 1 - First(me) ELSE 0
     /\ ~p.began => unacked[c] = 0
     /\ p.phase = "ready" => up[c] = <<>> /\ me.phase \in {"awaiting", "live", "away"}

\* The reports on their way ascend, from what the peer has to what the client is.
InFlight(c) ==
  LET p == peer[c]
      me == client[c]
  IN \A i \in DOMAIN up[c] :
       /\ up[c][i].type = "progress" =>
            /\ up[c][i].received \in p.received .. me.received
            /\ up[c][i].replayed \in p.replayed .. me.replayed
            /\ up[c][i].replayed = 0 \/ up[c][i].received = Chunks
            /\ \A j \in DOMAIN up[c] :
                 i < j /\ up[c][j].type = "progress" =>
                   /\ up[c][i].received <= up[c][j].received
                   /\ up[c][i].replayed <= up[c][j].replayed
       /\ up[c][i].type = "ready" =>
            /\ i = Len(up[c]) /\ me.received = Chunks /\ me.phase \in {"awaiting", "away"}

Good(c) ==
  /\ StartInv(c) /\ ClientInv(c) /\ SaveInv(c) /\ PeerInv(c)
  /\ c \in peers => LinkInv(c) /\ InFlight(c)

StartupInv == RosterInv /\ refused = {} /\ \A c \in Clients : Good(c)

Inv == TypeOK /\ StartupInv

-----------------------------------------------------------------------------
\* Helpers

\* A queue and its head.
LEMMA QueueShape ==
  ASSUME NEW S, NEW s \in Seq(S), s # <<>>
  PROVE  /\ 1 \in DOMAIN s /\ Head(s) = s[1] /\ Head(s) \in S
         /\ Tail(s) \in Seq(S) /\ Len(Tail(s)) = Len(s) - 1
         /\ \A i \in DOMAIN Tail(s) : i + 1 \in DOMAIN s /\ Tail(s)[i] = s[i + 1]
  OBVIOUS

\* A queue without messages.
LEMMA EmptyQueue == ASSUME NEW S, NEW s \in Seq(S), Len(s) = 0 PROVE s = <<>>
  OBVIOUS

\* A queue with one more message.
LEMMA SentShape ==
  ASSUME NEW S, NEW s \in Seq(S), NEW e \in S
  PROVE  /\ s \o <<e>> \in Seq(S) /\ Len(s \o <<e>>) = Len(s) + 1
         /\ DOMAIN (s \o <<e>>) = DOMAIN s \cup {Len(s) + 1}
         /\ \A i \in DOMAIN s : (s \o <<e>>)[i] = s[i] /\ i \in Nat /\ i <= Len(s)
         /\ (s \o <<e>>)[Len(s) + 1] = e
  OBVIOUS

\* The largest of a set of messages is one of them.
LEMMA MaxIsMember ==
  ASSUME NEW S \in SUBSET Domain, S # {}
  PROVE  Max(S) \in S
  BY StartupAssumption, Greatest DEF Domain

\* Clients nothing was done to.
Untouched(d) ==
  /\ save'[d] = save[d] /\ up'[d] = up[d] /\ down'[d] = down[d] /\ client'[d] = client[d]
  /\ unacked[d] = 0 => unacked'[d] = 0
  /\ \/ peer'[d] = peer[d]
     \/ \E t : peer'[d] = [peer[d] EXCEPT !.idle = t]
  /\ d \in peers' => d \in peers
  /\ pc = "started" /\ d \in peers => pc' = "started" /\ d \in peers'
  /\ pc' = "started" => pc = "started"

\* What was good of a client nothing was done to stays so.
LEMMA GoodFrame ==
  ASSUME TypeOK, NEW d \in Clients, Good(d), Untouched(d)
  PROVE  Good(d)'
<1>1. peer[d] \in Peer
  BY DEF TypeOK
<1>2. /\ peer'[d].phase = peer[d].phase /\ peer'[d].began = peer[d].began
      /\ peer'[d].offset = peer[d].offset /\ peer'[d].received = peer[d].received
      /\ peer'[d].outstanding = peer[d].outstanding /\ peer'[d].memory = peer[d].memory
      /\ peer'[d].replayed = peer[d].replayed
  BY <1>1 DEF Untouched, Peer
<1>3. StartInv(d)' /\ ClientInv(d)' /\ SaveInv(d)'
  BY DEF Good, Untouched, StartInv, ClientInv, SaveInv
<1>4. Held(peer'[d]) = Held(peer[d])
  BY <1>2 DEF Held
<1>5. PeerInv(d)'
  BY <1>2, <1>4 DEF Good, PeerInv
<1>6. ASSUME d \in peers' PROVE LinkInv(d)' /\ InFlight(d)'
  <2>1. LinkInv(d) /\ InFlight(d)
    BY <1>6 DEF Good, Untouched
  <2>2. LinkInv(d)'
    BY <1>2, <2>1 DEF Untouched, LinkInv
  <2>3. InFlight(d)'
    BY <1>2, <2>1 DEF Untouched, InFlight
  <2> QED
    BY <2>2, <2>3
<1> QED
  BY <1>3, <1>5, <1>6 DEF Good

-----------------------------------------------------------------------------
\* The steps of a client

\* A client changes what it is and its own channels; the rest follows.
LEMMA ClientFrame ==
  ASSUME Inv, NEW c \in Clients, UNCHANGED <<server, roster, unacked>>,
         NEW s \in Seq(0 .. Chunks), save' = [save EXCEPT ![c] = s],
         NEW u \in Seq(Message), up' = [up EXCEPT ![c] = u],
         NEW w \in Seq({"start", "tick"}), down' = [down EXCEPT ![c] = w],
         NEW m \in Process, client' = [client EXCEPT ![c] = m],
         Good(c)'
  PROVE  Inv'
<1> USE DEF Inv, StartupInv, server, roster
<1>1. TypeOK'
  BY DEF TypeOK
<1>2. RosterInv' /\ refused' = {}
  BY DEF RosterInv, Up
<1>3. ASSUME NEW d \in Clients, d # c PROVE Good(d)'
  <2>1. Untouched(d)
    BY <1>3 DEF Untouched, TypeOK
  <2> QED
    BY <2>1, GoodFrame
<1> QED
  BY <1>1, <1>2, <1>3

\* The message a client takes is the one it needs: LinkInv moves by one at its near end.
LEMMA ReceiveSaveStep ==
  ASSUME Inv, NEW c \in Clients, ReceiveSave(c)
  PROVE  Inv'
<1> DEFINE me == client[c]
<1>1. /\ me \in Process /\ save[c] \in Seq(0 .. Chunks) /\ save[c] # <<>> /\ Chunks \in Nat
      /\ up[c] \in Seq(Message) /\ down[c] \in Seq({"start", "tick"}) /\ peer[c] \in Peer
      /\ me.received \in 0 .. Chunks /\ me.begun \in BOOLEAN
  BY StartupAssumption DEF Inv, TypeOK, ReceiveSave, Process
<1>2. Good(c) /\ ClientInv(c) /\ SaveInv(c) /\ StartInv(c) /\ PeerInv(c)
  BY DEF Inv, StartupInv, Good
<1>3. Head(save[c]) = First(me) /\ Head(save[c]) \in 0 .. Chunks /\ Tail(save[c]) \in Seq(0 .. Chunks)
  <2>1. /\ 1 \in DOMAIN save[c] /\ Head(save[c]) = save[c][1] /\ Head(save[c]) \in 0 .. Chunks
        /\ Tail(save[c]) \in Seq(0 .. Chunks)
    BY <1>1, QueueShape
  <2>2. save[c][1] = First(me) + 1 - 1 /\ First(me) \in Nat
    BY <1>1, <1>2, <2>1 DEF SaveInv, First
  <2> QED
    BY <2>1, <2>2
<1>4. me.phase = "receiving" /\ me.at = "save"
  <2>1. Running(c) /\ me.at = "save" /\ me.phase \in {"receiving", "replaying", "awaiting"}
    BY DEF ReceiveSave, Running
  <2>2. me.phase # "receiving" => me.begun /\ me.received = Chunks
    BY <1>2, <2>1 DEF ClientInv
  <2>3. First(me) <= Chunks
    BY <1>3, StartupAssumption
  <2> QED
    BY <1>1, <2>1, <2>2, <2>3, StartupAssumption DEF First
<1>5. (Head(save[c]) = 0) = ~me.begun
  BY <1>1, <1>3 DEF First
<1> DEFINE m == IF ~me.begun THEN [me EXCEPT !.begun = TRUE]
                ELSE [me EXCEPT !.received = @ + 1,
                                !.phase = IF me.received + 1 = Chunks THEN "replaying" ELSE @]
<1>6. /\ client' = [client EXCEPT ![c] = m] /\ save' = [save EXCEPT ![c] = Tail(@)]
      /\ UNCHANGED <<server, roster, unacked, up, down>>
  BY <1>4, <1>5 DEF ReceiveSave
<1>7. me.begun => me.received + 1 \in 0 .. Chunks
  BY <1>1, <1>3 DEF First
<1>8. /\ m \in Process /\ m.begun = TRUE
      /\ m.received = (IF me.begun THEN me.received + 1 ELSE me.received)
      /\ m.phase = (IF me.begun /\ me.received + 1 = Chunks THEN "replaying" ELSE "receiving")
      /\ m.at = "save" /\ m.replayed = me.replayed /\ m.reported = me.reported /\ m.sound = me.sound
  BY <1>1, <1>4, <1>7 DEF Process
<1>9. client'[c] = m /\ save'[c] = Tail(save[c]) /\ peer'[c] = peer[c] /\ unacked'[c] = unacked[c]
      /\ up'[c] = up[c] /\ down'[c] = down[c] /\ pc' = pc /\ peers' = peers
  BY <1>6 DEF Inv, TypeOK, server, roster
<1> HIDE DEF m
<1>10. First(m) = First(me) + 1
  BY <1>1, <1>2, <1>8 DEF First, ClientInv
<1>11. SaveInv(c)'
  <2>1. ASSUME NEW i \in DOMAIN Tail(save[c]) PROVE Tail(save[c])[i] = First(m) + i - 1
    <3>1. i + 1 \in DOMAIN save[c] /\ Tail(save[c])[i] = save[c][i + 1] /\ i \in Nat
      BY <1>1, <2>1
    <3>2. First(me) \in Nat
      <4>1. me.received \in Nat
        BY <1>1
      <4> QED
        BY <4>1 DEF First
    <3>3. save[c][i + 1] = First(me) + (i + 1) - 1
      BY <1>2, <3>1 DEF SaveInv
    <3> QED
      BY <1>10, <3>1, <3>2, <3>3
  <2> QED
    BY <1>9, <2>1 DEF SaveInv
<1>12. ClientInv(c)'
  BY <1>1, <1>2, <1>4, <1>7, <1>8, <1>9 DEF ClientInv
<1>13. StartInv(c)' /\ PeerInv(c)'
  BY <1>2, <1>8, <1>9 DEF StartInv, PeerInv
<1>14. ASSUME c \in peers' PROVE LinkInv(c)' /\ InFlight(c)'
  <2>1. LinkInv(c) /\ InFlight(c)
    BY <1>2, <1>9, <1>14 DEF Good
  <2>2. Len(Tail(save[c])) = Len(save[c]) - 1 /\ Len(save[c]) > 0 /\ First(me) \in Nat
    BY <1>1 DEF First
  <2>3. peer[c].offset \in Nat /\ peer[c].received \in Nat
    BY <1>1 DEF Peer
  <2>4. LinkInv(c)'
    <3>1. /\ peer[c].began /\ peer[c].received <= me.received /\ peer[c].replayed <= me.replayed
          /\ Len(save[c]) = peer[c].offset + 1 - First(me)
          /\ peer[c].phase # "ready"
      BY <1>4, <2>1, <2>2 DEF LinkInv
    <3>2. Len(save'[c]) = peer'[c].offset + 1 - First(client'[c])
      BY <1>9, <1>10, <2>2, <2>3, <3>1
    <3>3. peer'[c].received <= client'[c].received /\ peer'[c].replayed <= client'[c].replayed
      BY <1>1, <1>8, <1>9, <2>3, <3>1
    <3> QED
      BY <1>9, <3>1, <3>2, <3>3 DEF LinkInv
  <2>5. InFlight(c)'
    BY <1>1, <1>2, <1>4, <1>8, <1>9, <2>1 DEF InFlight, ClientInv, Message
  <2> QED
    BY <2>4, <2>5
<1>15. Good(c)'
  BY <1>11, <1>12, <1>13, <1>14 DEF Good
<1> QED
  <2>1. /\ up' = [up EXCEPT ![c] = up[c]] /\ down' = [down EXCEPT ![c] = down[c]]
        /\ UNCHANGED <<server, roster, unacked>>
    BY <1>6 DEF Inv, TypeOK
  <2> QED
    BY <1>1, <1>3, <1>6, <1>8, <1>15, <2>1, ClientFrame

\* While it replays or waits a client keeps what it received, and sends at most one
\* message, which tells what it is.
Tells(m, message) ==
  \/ message = Progress(m.received, m.replayed)
  \/ message = Ready /\ m.phase = "awaiting"

\* Such a step keeps the invariant: the message ends the ascent of those in flight.
LEMMA ClientAdvance ==
  ASSUME Inv, NEW c \in Clients, UNCHANGED <<server, roster, save, unacked, down>>,
         NEW m \in Process, client' = [client EXCEPT ![c] = m],
         m.received = client[c].received, m.begun = client[c].begun,
         client[c].replayed <= m.replayed, ClientInv(c)', m.phase = "live" => client[c].phase = "live",
         NEW message \in Message, NEW u \in {up[c], up[c] \o <<message>>}, up' = [up EXCEPT ![c] = u],
         \/ client[c].phase \in {"receiving", "replaying"} /\ Tells(m, message)
         \/ u = up[c] /\ m.phase \in {client[c].phase, "away"}
  PROVE  Inv'
<1> DEFINE me == client[c]
           p == peer[c]
<1>1. /\ me \in Process /\ p \in Peer /\ up[c] \in Seq(Message) /\ save[c] \in Seq(0 .. Chunks)
      /\ down[c] \in Seq({"start", "tick"}) /\ u \in Seq(Message)
      /\ up'[c] = u /\ client'[c] = m /\ save'[c] = save[c] /\ peer'[c] = p
      /\ unacked'[c] = unacked[c] /\ down'[c] = down[c] /\ pc' = pc /\ peers' = peers
  <2>1. /\ me \in Process /\ p \in Peer /\ up[c] \in Seq(Message) /\ save[c] \in Seq(0 .. Chunks)
        /\ down[c] \in Seq({"start", "tick"})
    BY DEF Inv, TypeOK
  <2>2. u \in Seq(Message)
    <3>1. up[c] \o <<message>> \in Seq(Message)
      BY <2>1, SentShape
    <3> QED
      BY <2>1, <3>1
  <2> QED
    BY <2>1, <2>2 DEF Inv, TypeOK, server, roster
<1>2. /\ p.received \in Nat /\ p.replayed \in Nat /\ me.received \in Nat /\ me.replayed \in Nat
      /\ m.replayed \in Nat /\ m.received \in Nat
  <2>1. /\ p.received \in 0 .. Chunks /\ p.replayed \in 0 .. FinalTick
        /\ me.received \in 0 .. Chunks /\ me.replayed \in 0 .. FinalTick
        /\ m.received \in 0 .. Chunks /\ m.replayed \in 0 .. FinalTick
    <3> HIDE DEF me, p
    <3> QED
      BY <1>1 DEF Process, Peer
  <2> QED
    BY <2>1
<1>3. Good(c) /\ ClientInv(c) /\ SaveInv(c) /\ StartInv(c) /\ PeerInv(c)
  BY DEF Inv, StartupInv, Good
<1>4. First(m) = First(me)
  BY DEF First
<1>5. SaveInv(c)' /\ PeerInv(c)' /\ StartInv(c)'
  <2>1. SaveInv(c)' /\ PeerInv(c)'
    BY <1>1, <1>3, <1>4 DEF SaveInv, PeerInv
  <2>2. pc = "started" /\ c \in peers => m.phase \in {me.phase, "away"}
    BY <1>3 DEF Inv, StartupInv, RosterInv, Good, LinkInv
  <2>3. StartInv(c)'
    BY <1>1, <1>3, <2>2 DEF StartInv
  <2> QED
    BY <2>1, <2>3
<1>6. ASSUME c \in peers' PROVE LinkInv(c)' /\ InFlight(c)'
  <2>1. LinkInv(c) /\ InFlight(c)
    BY <1>1, <1>3, <1>6 DEF Good
  <2>2. LinkInv(c)'
    BY <1>1, <1>2, <1>4, <2>1 DEF LinkInv
  <2>3. ASSUME NEW i \in DOMAIN up[c]
        PROVE  /\ up[c][i].type = "progress" =>
                    /\ up[c][i].received \in p.received .. m.received
                    /\ up[c][i].replayed \in p.replayed .. m.replayed
                    /\ up[c][i].received \in Nat /\ up[c][i].replayed \in Nat
               /\ up[c][i].type = "ready" => u = up[c] /\ m.phase \in {"awaiting", "away"}
    <3>1. up[c][i] \in Message
      BY <1>1
    <3>2. up[c][i].type = "progress" => up[c][i].received \in Nat /\ up[c][i].replayed \in Nat
      BY <3>1, StartupAssumption DEF Message
    <3>3. up[c][i].type = "progress" =>
            up[c][i].received \in p.received .. me.received /\ up[c][i].replayed \in p.replayed .. me.replayed
      BY <2>1, <2>3 DEF InFlight
    <3>4. up[c][i].type = "ready" => me.phase \in {"awaiting", "away"}
      BY <2>1, <2>3 DEF InFlight
    <3> QED
      BY <1>2, <3>2, <3>3, <3>4
  <2>4. CASE u = up[c]
    <3>1. \A i \in DOMAIN up[c] :
            /\ up[c][i].type = "progress" =>
                 /\ up[c][i].replayed = 0 \/ up[c][i].received = Chunks
                 /\ \A j \in DOMAIN up[c] :
                      i < j /\ up[c][j].type = "progress" =>
                        /\ up[c][i].received <= up[c][j].received
                        /\ up[c][i].replayed <= up[c][j].replayed
            /\ up[c][i].type = "ready" => i = Len(up[c]) /\ me.received = Chunks
      BY <2>1 DEF InFlight
    <3> QED
      BY <1>1, <2>2, <2>3, <2>4, <3>1 DEF InFlight
  <2>5. CASE u = up[c] \o <<message>> /\ u # up[c]
    <3>1. /\ DOMAIN u = DOMAIN up[c] \cup {Len(up[c]) + 1} /\ Len(u) = Len(up[c]) + 1
          /\ \A i \in DOMAIN up[c] : u[i] = up[c][i] /\ i \in Nat /\ i <= Len(up[c])
          /\ u[Len(up[c]) + 1] = message /\ Len(up[c]) \in Nat
      BY <1>1, <2>5, SentShape
    <3>2. me.phase \in {"receiving", "replaying"} /\ Tells(m, message)
      BY <2>5
    <3>3. \A i \in DOMAIN up[c] : u[i].type = "progress" /\ u[i] = up[c][i]
      <4>1. \A i \in DOMAIN up[c] : up[c][i].type \in {"progress", "ready"}
        BY <1>1 DEF Message
      <4> QED
        BY <2>3, <2>5, <3>1, <4>1
    <3>4. message.type = "progress" => message.received = m.received /\ message.replayed = m.replayed
      BY <3>2 DEF Tells, Progress, Ready
    <3>5. message.type = "ready" => m.phase = "awaiting" /\ m.received = Chunks
      BY <1>1, <3>2 DEF Tells, Progress, Ready, ClientInv
    <3>6. m.replayed = 0 \/ m.received = Chunks
      BY <1>1 DEF ClientInv
    <3>7. p.received <= m.received /\ p.replayed <= m.replayed
      BY <1>2, <2>1 DEF LinkInv
    <3>8. ASSUME NEW i \in DOMAIN u, u[i].type = "progress"
          PROVE  /\ u[i].received \in p.received .. m.received
                 /\ u[i].replayed \in p.replayed .. m.replayed
                 /\ u[i].replayed = 0 \/ u[i].received = Chunks
                 /\ \A j \in DOMAIN u :
                      i < j /\ u[j].type = "progress" =>
                        u[i].received <= u[j].received /\ u[i].replayed <= u[j].replayed
      <4>1. CASE i \in DOMAIN up[c]
        <5>1. /\ u[i].received \in p.received .. m.received
              /\ u[i].replayed \in p.replayed .. m.replayed
              /\ u[i].replayed = 0 \/ u[i].received = Chunks
          BY <2>1, <2>3, <3>3, <4>1 DEF InFlight
        <5>2. ASSUME NEW j \in DOMAIN u, i < j, u[j].type = "progress"
              PROVE  u[i].received <= u[j].received /\ u[i].replayed <= u[j].replayed
          <6>1. CASE j \in DOMAIN up[c]
            <7>1. u[i] = up[c][i] /\ u[j] = up[c][j] /\ up[c][i].type = "progress"
              BY <3>3, <4>1, <6>1
            <7> QED
              BY <2>1, <4>1, <5>2, <6>1, <7>1 DEF InFlight
          <6>2. CASE j = Len(up[c]) + 1
            BY <1>2, <3>1, <3>4, <5>1, <5>2, <6>2
          <6> QED
            BY <3>1, <6>1, <6>2
        <5> QED
          BY <5>1, <5>2
      <4>2. CASE i = Len(up[c]) + 1
        <5>1. u[i].received = m.received /\ u[i].replayed = m.replayed
          BY <3>1, <3>4, <3>8, <4>2
        <5>2. \A j \in DOMAIN u : ~ (i < j)
          BY <3>1, <4>2
        <5> QED
          BY <1>2, <3>6, <3>7, <5>1, <5>2
      <4> QED
        BY <3>1, <4>1, <4>2
    <3>9. ASSUME NEW i \in DOMAIN u, u[i].type = "ready"
          PROVE  i = Len(u) /\ m.received = Chunks /\ m.phase \in {"awaiting", "away"}
      BY <3>1, <3>3, <3>5, <3>9
    <3> QED
      BY <1>1, <2>2, <3>8, <3>9 DEF InFlight
  <2> QED
    BY <2>2, <2>4, <2>5
<1>7. Good(c)'
  BY <1>5, <1>6 DEF Good
<1> QED
  <2>1. save' = [save EXCEPT ![c] = save[c]] /\ down' = [down EXCEPT ![c] = down[c]]
    BY DEF Inv, TypeOK
  <2> QED
    BY <1>1, <1>7, <2>1, ClientFrame

\* What the steps of a client start from.
LEMMA ClientFacts ==
  ASSUME Inv, NEW c \in Clients
  PROVE  /\ client[c] \in Process /\ client \in [Clients -> Process] /\ up \in [Clients -> Seq(Message)]
         /\ client[c].received \in 0 .. Chunks /\ client[c].replayed \in 0 .. FinalTick
         /\ client[c].replayed \in Nat /\ client[c].replayed <= client[c].replayed
         /\ ClientInv(c) /\ FinalTick \in Nat
<1>1. client[c] \in Process /\ client \in [Clients -> Process] /\ up \in [Clients -> Seq(Message)]
  BY DEF Inv, TypeOK
<1>2. client[c].received \in 0 .. Chunks /\ client[c].replayed \in 0 .. FinalTick
  BY <1>1 DEF Process
<1>3. client[c].replayed \in Nat /\ client[c].replayed <= client[c].replayed /\ FinalTick \in Nat
  BY <1>2, StartupAssumption
<1>4. ClientInv(c)
  BY DEF Inv, StartupInv, Good
<1> QED
  BY <1>1, <1>2, <1>3, <1>4

\* A client reports what it consumed.
LEMMA ReportReceivedStep ==
  ASSUME Inv, NEW c \in Clients, ReportReceived(c)
  PROVE  Inv'
<1> DEFINE me == client[c]
<1>1. /\ me \in Process /\ client \in [Clients -> Process] /\ up \in [Clients -> Seq(Message)]
      /\ me.received \in 0 .. Chunks /\ me.replayed \in 0 .. FinalTick /\ me.replayed <= me.replayed
      /\ ClientInv(c) /\ me.phase \in {"receiving", "replaying", "awaiting"} /\ me.at = "save"
  BY ClientFacts DEF ReportReceived, Running
<1>2. UNCHANGED <<server, roster, save, unacked, down>>
  BY DEF ReportReceived
<1>3. CASE me.received # me.reported[1]
  <2> DEFINE m == [me EXCEPT !.reported = <<me.received, me.replayed>>, !.at = "step"]
  <2>1. /\ m \in Process /\ m.received = me.received /\ m.begun = me.begun /\ m.replayed = me.replayed
        /\ m.phase = me.phase /\ m.sound = me.sound /\ m.reported[1] = m.received
    BY <1>1 DEF Process
  <2>2. client' = [client EXCEPT ![c] = m] /\ client'[c] = m
    BY <1>1, <1>3 DEF ReportReceived
  <2> DEFINE message == Progress(me.received, me.replayed)
  <2>3. message \in Message
    BY <1>1 DEF Message, Progress
  <2>4. up' = [up EXCEPT ![c] = up[c] \o <<message>>]
    BY <1>1, <1>3 DEF ReportReceived, Send, Report
  <2>5. me.phase \in {"receiving", "replaying"} /\ Tells(m, message)
    BY <1>1, <1>3, <2>1 DEF ClientInv, Tells
  <2> HIDE DEF m, message
  <2>6. ClientInv(c)'
    BY <1>1, <2>1, <2>2 DEF ClientInv
  <2> QED
    BY <1>1, <1>2, <2>1, <2>2, <2>3, <2>4, <2>5, <2>6, ClientAdvance
<1>4. CASE me.received = me.reported[1]
  <2> DEFINE m == [me EXCEPT !.at = "step"]
  <2>1. /\ m \in Process /\ m.received = me.received /\ m.begun = me.begun /\ m.replayed = me.replayed
        /\ m.phase = me.phase /\ m.sound = me.sound /\ m.reported = me.reported
    BY <1>1 DEF Process
  <2>2. client' = [client EXCEPT ![c] = m] /\ client'[c] = m
    BY <1>1, <1>4 DEF ReportReceived
  <2>3. Ready \in Message
    BY DEF Message, Ready
  <2>4. up' = [up EXCEPT ![c] = up[c]]
    BY <1>1, <1>4 DEF ReportReceived
  <2> HIDE DEF m
  <2>6. ClientInv(c)'
    BY <1>1, <1>4, <2>1, <2>2 DEF ClientInv
  <2> QED
    BY <1>1, <1>2, <2>1, <2>2, <2>3, <2>4, <2>6, ClientAdvance
<1> QED
  BY <1>3, <1>4

\* A client replays a batch, and is ready, fails, reports or says nothing.
LEMMA StepStep ==
  ASSUME Inv, NEW c \in Clients, Step(c)
  PROVE  Inv'
<1> DEFINE me == client[c]
<1>1. /\ me \in Process /\ client \in [Clients -> Process] /\ up \in [Clients -> Seq(Message)]
      /\ me.received \in 0 .. Chunks /\ me.replayed \in 0 .. FinalTick /\ me.replayed <= me.replayed
      /\ ClientInv(c) /\ me.phase \in {"receiving", "replaying", "awaiting"} /\ me.at = "step"
      /\ FinalTick \in Nat
  BY ClientFacts DEF Step, Running
<1>2. UNCHANGED <<server, roster, save, unacked, down>>
  BY DEF Step
<1>3. CASE me.phase # "replaying"
  <2> DEFINE m == [me EXCEPT !.at = "lockstep"]
  <2>1. /\ m \in Process /\ m.received = me.received /\ m.begun = me.begun /\ m.replayed = me.replayed
        /\ m.phase = me.phase /\ m.sound = me.sound /\ m.reported = me.reported
    BY <1>1 DEF Process
  <2>2. client' = [client EXCEPT ![c] = m] /\ client'[c] = m
    BY <1>1, <1>3 DEF Step
  <2>3. Ready \in Message
    BY DEF Message, Ready
  <2>4. up' = [up EXCEPT ![c] = up[c]]
    BY <1>1, <1>3 DEF Step
  <2> HIDE DEF m
  <2>6. ClientInv(c)'
    BY <1>1, <2>1, <2>2 DEF ClientInv
  <2> QED
    BY <1>1, <1>2, <2>1, <2>2, <2>3, <2>4, <2>6, ClientAdvance
<1>4. CASE me.phase = "replaying"
  <2>1. PICK tick \in me.replayed .. FinalTick, sound \in BOOLEAN : Replay(c, tick, sound)
    <3>1. me.sound \in BOOLEAN
      BY <1>1 DEF Process
    <3> QED
      BY <1>4, <3>1 DEF Step
  <2>2. tick \in 0 .. FinalTick /\ me.replayed <= tick
    BY <1>1
  <2> DEFINE done == [me EXCEPT !.replayed = tick, !.sound = sound, !.at = "lockstep"]
  <2>3. ASSUME NEW m \in Process, client' = [client EXCEPT ![c] = m],
               m.received = me.received, m.begun = me.begun, m.replayed = tick,
               m.reported[1] = me.received, m.sound = sound,
               \/ m.phase \in {"replaying"}
               \/ m.phase = "awaiting" /\ tick = FinalTick /\ sound
               \/ m.phase = "failed" /\ ~sound,
               NEW message \in Message, Tells(m, message),
               up' \in {up, [up EXCEPT ![c] = up[c] \o <<message>>]}
        PROVE  Inv'
    <3>1. client'[c] = m
      BY <1>1, <2>3
    <3>2. ClientInv(c)'
      BY <1>1, <1>4, <2>3, <3>1 DEF ClientInv
    <3>3. me.replayed <= m.replayed
      BY <2>2, <2>3
    <3>4. PICK u \in {up[c], up[c] \o <<message>>} : up' = [up EXCEPT ![c] = u]
      BY <1>1, <2>3
    <3>5. m.phase = "live" => me.phase = "live"
      BY <2>3
    <3> QED
      BY <1>2, <1>4, <2>3, <3>2, <3>3, <3>4, <3>5, ClientAdvance
  <2>4. /\ done \in Process /\ done.received = me.received /\ done.begun = me.begun
        /\ done.replayed = tick /\ done.reported = me.reported /\ done.sound = sound
        /\ done.phase = "replaying" /\ me.reported[1] = me.received
        /\ me.reported \in (0 .. Chunks) \X (0 .. FinalTick)
    BY <1>1, <1>4, <2>2 DEF Process, ClientInv
  <2> HIDE DEF done
  <2>5. Progress(me.received, tick) \in Message /\ Ready \in Message
    BY <1>1, <2>2 DEF Message, Progress, Ready
  <2>6. CASE /\ tick = FinalTick /\ sound
             /\ client' = [client EXCEPT ![c] = [done EXCEPT !.phase = "awaiting"]]
             /\ Send(c, <<Ready>>)
    <3> DEFINE m == [done EXCEPT !.phase = "awaiting"]
    <3>1. /\ m \in Process /\ m.received = me.received /\ m.begun = me.begun /\ m.replayed = tick
          /\ m.reported[1] = me.received /\ m.sound = sound /\ m.phase = "awaiting"
      BY <2>4 DEF Process
    <3>2. up' = [up EXCEPT ![c] = up[c] \o <<Ready>>] /\ Tells(m, Ready)
      BY <1>1, <2>6, <3>1 DEF Send, Tells
    <3> HIDE DEF m
    <3>3. client' = [client EXCEPT ![c] = m]
      BY <2>6 DEF m
    <3> QED
      BY <2>3, <2>5, <2>6, <3>1, <3>2, <3>3
  <2>7. CASE /\ tick = FinalTick /\ ~sound
             /\ client' = [client EXCEPT ![c] = [done EXCEPT !.phase = "failed"]]
             /\ UNCHANGED up
    <3> DEFINE m == [done EXCEPT !.phase = "failed"]
    <3>1. /\ m \in Process /\ m.received = me.received /\ m.begun = me.begun /\ m.replayed = tick
          /\ m.reported[1] = me.received /\ m.sound = sound /\ m.phase = "failed"
      BY <2>4 DEF Process
    <3>2. Tells(m, Progress(me.received, tick))
      BY <3>1 DEF Tells
    <3> HIDE DEF m
    <3>3. client' = [client EXCEPT ![c] = m]
      BY <2>7 DEF m
    <3> QED
      BY <2>3, <2>5, <2>7, <3>1, <3>2, <3>3
  <2>8. CASE client' = [client EXCEPT ![c] = done] /\ UNCHANGED up
    <3>1. Tells(done, Progress(me.received, tick))
      BY <2>4 DEF Tells
    <3> QED
      BY <2>3, <2>4, <2>5, <2>8, <3>1
  <2>9. CASE /\ client' = [client EXCEPT ![c] = [done EXCEPT !.reported = <<me.received, tick>>]]
             /\ Send(c, Report(done))
    <3> DEFINE m == [done EXCEPT !.reported = <<me.received, tick>>]
    <3>1. /\ m \in Process /\ m.received = me.received /\ m.begun = me.begun /\ m.replayed = tick
          /\ m.reported[1] = me.received /\ m.sound = sound /\ m.phase = "replaying"
      BY <1>1, <2>2, <2>4 DEF Process
    <3>2. /\ up' = [up EXCEPT ![c] = up[c] \o <<Progress(me.received, tick)>>]
          /\ Tells(m, Progress(me.received, tick))
      BY <1>1, <2>4, <2>9, <3>1 DEF Send, Report, Tells
    <3> HIDE DEF m
    <3>3. client' = [client EXCEPT ![c] = m]
      BY <2>9 DEF m
    <3> QED
      BY <2>3, <2>5, <2>9, <3>1, <3>2, <3>3
  <2> QED
    BY <2>1, <2>6, <2>7, <2>8, <2>9 DEF Replay, done
<1> QED
  BY <1>3, <1>4

\* A client goes round its loop, or leaves.
LEMMA QuietClientStep ==
  ASSUME Inv, NEW c \in Clients, NoStart(c) \/ Leave(c)
  PROVE  Inv'
<1> DEFINE me == client[c]
           m  == IF NoStart(c) THEN [me EXCEPT !.at = "save"] ELSE [me EXCEPT !.phase = "away"]
<1>1. /\ me \in Process /\ client \in [Clients -> Process] /\ up \in [Clients -> Seq(Message)]
      /\ me.replayed \in Nat /\ ClientInv(c)
  BY ClientFacts
<1>2. client' = [client EXCEPT ![c] = m] /\ UNCHANGED <<server, roster, channels>>
  BY DEF NoStart, Leave
<1>3. /\ m \in Process /\ m.received = me.received /\ m.begun = me.begun /\ m.replayed = me.replayed
      /\ m.sound = me.sound /\ m.reported = me.reported
      /\ m.phase \in {me.phase, "away"} /\ m.at \in {"save", me.at}
  BY <1>1 DEF Process
<1>4. client'[c] = m
  BY <1>1, <1>2
<1> HIDE DEF m
<1>5. ClientInv(c)'
  BY <1>1, <1>3, <1>4 DEF ClientInv
<1>6. /\ Ready \in Message /\ up' = [up EXCEPT ![c] = up[c]] /\ me.replayed <= m.replayed
      /\ UNCHANGED <<server, roster, save, unacked, down>> /\ (m.phase = "live" => me.phase = "live")
  BY <1>1, <1>2, <1>3 DEF Message, Ready, channels
<1> QED
  BY <1>2, <1>3, <1>5, <1>6, ClientAdvance

\* Who finds a message on the lockstep channel was ready, or Start would not have been
\* sent; and what it finds first is Start, unless it has taken that already.
LEMMA Started ==
  ASSUME Inv, NEW c \in Clients, Running(c) \/ client[c].phase = "live", down[c] # <<>>
  PROVE  /\ pc = "started" /\ c \in peers /\ LinkInv(c) /\ InFlight(c) /\ up[c] = <<>>
         /\ down[c] \in Seq({"start", "tick"}) /\ Tail(down[c]) \in Seq({"start", "tick"})
         /\ \A i \in DOMAIN Tail(down[c]) : Tail(down[c])[i] = "tick"
         /\ client[c].phase \in {"awaiting", "live"}
         /\ (Head(down[c]) = "start") = (client[c].phase = "awaiting")
<1>1. down[c] \in Seq({"start", "tick"}) /\ Good(c) /\ StartInv(c) /\ RosterInv
  BY DEF Inv, StartupInv, TypeOK, Good
<1>2. /\ 1 \in DOMAIN down[c] /\ Head(down[c]) = down[c][1] /\ Tail(down[c]) \in Seq({"start", "tick"})
      /\ \A i \in DOMAIN Tail(down[c]) : i + 1 \in DOMAIN down[c] /\ Tail(down[c])[i] = down[c][i + 1]
  BY <1>1, QueueShape
<1>3. pc = "started" /\ c \in peers /\ peer[c].phase = "ready" /\ LinkInv(c) /\ InFlight(c)
  BY <1>1 DEF StartInv, RosterInv, Good
<1>4. up[c] = <<>> /\ client[c].phase \in {"awaiting", "live"}
  BY <1>3 DEF LinkInv, Running
<1>5. (Head(down[c]) = "start") = (client[c].phase = "awaiting")
  BY <1>1, <1>2, <1>3, <1>4 DEF StartInv
<1>6. \A i \in DOMAIN Tail(down[c]) : Tail(down[c])[i] = "tick"
  <2>1. \A i \in DOMAIN Tail(down[c]) : i + 1 > 1
    BY <1>2
  <2> QED
    BY <1>1, <1>2, <2>1 DEF StartInv
<1> QED
  BY <1>1, <1>2, <1>3, <1>4, <1>5, <1>6

\* A client goes live, or stays so for a tick.
LEMMA ReceiveLockstepStep ==
  ASSUME Inv, NEW c \in Clients, ReceiveStart(c) \/ ReceiveTick(c)
  PROVE  Inv'
<1> DEFINE me == client[c]
           m  == [me EXCEPT !.phase = "live"]
<1>1. /\ me \in Process /\ client \in [Clients -> Process] /\ Good(c)
      /\ down \in [Clients -> Seq({"start", "tick"})]
      /\ up[c] \in Seq(Message) /\ save[c] \in Seq(0 .. Chunks)
  BY DEF Inv, StartupInv, TypeOK
<1>2. /\ Running(c) \/ me.phase = "live"
      /\ down[c] # <<>> /\ down' = [down EXCEPT ![c] = Tail(@)]
      /\ UNCHANGED <<server, roster, save, unacked, up>>
  BY DEF ReceiveStart, ReceiveTick, ReceiveLockstep
<1>3. /\ pc = "started" /\ c \in peers /\ LinkInv(c) /\ InFlight(c) /\ up[c] = <<>>
      /\ Tail(down[c]) \in Seq({"start", "tick"}) /\ \A i \in DOMAIN Tail(down[c]) : Tail(down[c])[i] = "tick"
      /\ me.phase \in {"awaiting", "live"} /\ (Head(down[c]) = "start") = (me.phase = "awaiting")
  BY <1>2, Started
<1>4. client' = [client EXCEPT ![c] = m]
  BY <1>1, <1>3 DEF ReceiveStart, ReceiveTick, ReceiveLockstep
<1>5. /\ m \in Process /\ m.received = me.received /\ m.begun = me.begun /\ m.replayed = me.replayed
      /\ m.sound = me.sound /\ m.reported = me.reported /\ m.at = me.at /\ m.phase = "live"
  BY <1>1 DEF Process
<1>6. /\ client'[c] = m /\ save'[c] = save[c] /\ up'[c] = <<>> /\ peer'[c] = peer[c]
      /\ unacked'[c] = unacked[c] /\ pc' = pc /\ peers' = peers /\ down'[c] = Tail(down[c])
  BY <1>1, <1>2, <1>3, <1>4 DEF server, roster
<1> HIDE DEF m
<1>7. First(m) = First(me)
  BY <1>5 DEF First
<1>8. StartInv(c)' /\ ClientInv(c)' /\ SaveInv(c)' /\ PeerInv(c)' /\ LinkInv(c)' /\ InFlight(c)'
  <2>1. StartInv(c)'
    BY <1>3, <1>5, <1>6 DEF StartInv
  <2>2. ClientInv(c)'
    BY <1>1, <1>3, <1>5, <1>6 DEF Good, ClientInv
  <2>3. SaveInv(c)' /\ PeerInv(c)'
    BY <1>1, <1>6, <1>7 DEF Good, SaveInv, PeerInv
  <2>4. LinkInv(c)'
    BY <1>3, <1>5, <1>6, <1>7 DEF LinkInv
  <2>5. InFlight(c)'
    BY <1>6 DEF InFlight
  <2> QED
    BY <2>1, <2>2, <2>3, <2>4, <2>5
<1> QED
  <2>1. save' = [save EXCEPT ![c] = save[c]] /\ up' = [up EXCEPT ![c] = up[c]]
    BY <1>2 DEF Inv, TypeOK
  <2>2. Good(c)'
    BY <1>8 DEF Good
  <2> QED
    BY <1>1, <1>2, <1>3, <1>4, <1>5, <2>1, <2>2, ClientFrame

-----------------------------------------------------------------------------
\* The steps of the authority that concern the roster

\* No client is touched, apart from the one dealt with.
LEMMA OthersGood ==
  ASSUME Inv, NEW c \in Clients, \A d \in Clients \ {c} : Untouched(d), Good(c)'
  PROVE  \A d \in Clients : Good(d)'
  BY GoodFrame DEF Inv, StartupInv

\* A client without messages on its way in or out, and without a place.
LEMMA CleanSlate ==
  ASSUME NEW c \in Clients, save'[c] = <<>>, down'[c] = <<>>, ClientInv(c)', PeerInv(c)',
         client'[c].phase # "live",
         c \in peers' => /\ peer'[c] = NewPeer /\ client'[c] = NewClient
                         /\ unacked'[c] = 0 /\ up'[c] = <<>>
  PROVE  Good(c)'
<1>1. StartInv(c)' /\ SaveInv(c)'
  BY DEF StartInv, SaveInv, NewClient
<1>2. ASSUME c \in peers' PROVE LinkInv(c)' /\ InFlight(c)'
  BY <1>2 DEF LinkInv, InFlight, NewPeer, NewClient
<1> QED
  BY <1>1, <1>2 DEF Good

\* What is new is as it should be.
LEMMA Fresh ==
  /\ NewPeer \in Peer /\ NewClient \in Process
  /\ \A c \in Clients :
       /\ peer'[c] = NewPeer => PeerInv(c)'
       /\ client'[c] = NewClient => ClientInv(c)'
<1>1. NewPeer \in Peer /\ NewClient \in Process
  BY StartupAssumption DEF NewPeer, NewClient, Peer, Process
<1>2. ASSUME NEW c \in Clients, peer'[c] = NewPeer PROVE PeerInv(c)'
  <2>1. NewPeer.outstanding = Held(NewPeer) /\ NewPeer.outstanding = {}
    BY DEF NewPeer, Held
  <2>2. NewPeer.memory = 0 /\ MemoryOf({}) = 0
    BY MemoryEmpty DEF NewPeer
  <2>3. /\ NewPeer.phase = "transferring" /\ NewPeer.offset = 0 /\ NewPeer.received = 0
        /\ NewPeer.began = FALSE
    BY DEF NewPeer
  <2> QED
    BY <1>2, <2>1, <2>2, <2>3, StartupAssumption DEF PeerInv
<1>3. ASSUME NEW c \in Clients, client'[c] = NewClient PROVE ClientInv(c)'
  BY <1>3, StartupAssumption DEF ClientInv, NewClient
<1> QED
  BY <1>1, <1>2, <1>3

\* A connection that returns finds nothing of the one before.
LEMMA ConnectedStep ==
  ASSUME Inv, NEW c \in Clients, Connected(c)
  PROVE  Inv'
<1> USE DEF Inv, StartupInv
<1>1. /\ pc = "network" /\ conn[c] = "none" /\ UNCHANGED <<server, refused>>
      /\ client' = [client EXCEPT ![c] = NewClient]
      /\ save' = [save EXCEPT ![c] = <<>>] /\ unacked' = [unacked EXCEPT ![c] = 0]
      /\ up' = [up EXCEPT ![c] = <<>>] /\ down' = [down EXCEPT ![c] = <<>>]
  BY DEF Connected, Reset
<1>2. c \notin peers
  BY <1>1 DEF RosterInv
<1>3. /\ save'[c] = <<>> /\ down'[c] = <<>> /\ up'[c] = <<>> /\ unacked'[c] = 0
      /\ client'[c] = NewClient /\ client'[c].phase # "live"
  BY <1>1 DEF TypeOK, NewClient
<1>4. PeerInv(c) /\ Good(c)
  BY DEF Good
<1>5. CASE Cardinality(peers) < Expected
  <2>1. /\ conn' = [conn EXCEPT ![c] = "up"] /\ peers' = peers \cup {c}
        /\ peer' = [peer EXCEPT ![c] = NewPeer]
    BY <1>5 DEF Connected, FreshPeer
  <2>2. TypeOK'
    BY <1>1, <2>1, Fresh, StartupAssumption DEF TypeOK, server
  <2>3. peer'[c] = NewPeer
    BY <2>1 DEF TypeOK
  <2>4. Good(c)'
    BY <1>3, <2>3, Fresh, CleanSlate
  <2>5. \A d \in Clients \ {c} : Untouched(d)
    BY <1>1, <2>1 DEF Untouched, TypeOK, server
  <2>6. IsFiniteSet(peers') /\ Cardinality(peers') <= Expected
    <3>1. IsFiniteSet(peers) /\ Cardinality(peers) \in Nat
      BY FS_CardinalityType DEF RosterInv
    <3>2. IsFiniteSet(peers \cup {c}) /\ Cardinality(peers \cup {c}) = Cardinality(peers) + 1
      BY <1>2, <3>1, FS_AddElement
    <3> QED
      BY <1>5, <2>1, <3>1, <3>2, StartupAssumption
  <2>7. RosterInv'
    BY <1>1, <2>1, <2>6 DEF RosterInv, Up, TypeOK, server
  <2>8. \A d \in Clients : Good(d)'
    BY <2>4, <2>5, OthersGood
  <2> QED
    BY <1>1, <2>2, <2>7, <2>8
<1>6. CASE ~(Cardinality(peers) < Expected)
  <2>1. conn' = [conn EXCEPT ![c] = "closed"] /\ UNCHANGED <<peers, peer>>
    BY <1>6 DEF Connected
  <2>2. TypeOK'
    BY <1>1, <2>1, Fresh, StartupAssumption DEF TypeOK, server
  <2>4. Good(c)'
    <3>1. PeerInv(c)'
      BY <1>4, <2>1 DEF PeerInv
    <3> QED
      BY <1>2, <1>3, <2>1, <3>1, Fresh, CleanSlate
  <2>5. \A d \in Clients \ {c} : Untouched(d)
    BY <1>1, <2>1 DEF Untouched, TypeOK, server
  <2>7. RosterInv'
    BY <1>1, <1>2, <2>1 DEF RosterInv, Up, TypeOK, server
  <2>8. \A d \in Clients : Good(d)'
    BY <2>4, <2>5, OthersGood
  <2> QED
    BY <1>1, <2>2, <2>7, <2>8
<1> QED
  BY <1>5, <1>6

\* A connection ends, and its place is free.
LEMMA GoneStep ==
  ASSUME Inv, NEW c \in Clients, Gone(c)
  PROVE  Inv'
<1> USE DEF Inv, StartupInv
<1>1. /\ pc = "network" /\ UNCHANGED <<server, peer, refused, client>>
      /\ conn' = [conn EXCEPT ![c] = "none"] /\ peers' = peers \ {c}
      /\ save' = [save EXCEPT ![c] = <<>>] /\ unacked' = [unacked EXCEPT ![c] = 0]
      /\ up' = [up EXCEPT ![c] = <<>>] /\ down' = [down EXCEPT ![c] = <<>>]
  BY DEF Gone, Reset
<1>2. TypeOK'
  BY <1>1, StartupAssumption DEF TypeOK, server
<1>3. Good(c)'
  <2>1. ClientInv(c)' /\ PeerInv(c)' /\ client'[c].phase # "live"
    BY <1>1 DEF Good, ClientInv, PeerInv, StartInv
  <2>2. save'[c] = <<>> /\ down'[c] = <<>> /\ c \notin peers'
    BY <1>1 DEF TypeOK
  <2> QED
    BY <2>1, <2>2, CleanSlate
<1>4. \A d \in Clients \ {c} : Untouched(d)
  BY <1>1 DEF Untouched, TypeOK, server
<1>5. IsFiniteSet(peers') /\ Cardinality(peers') <= Expected
  <2>1. IsFiniteSet(peers) /\ Cardinality(peers) \in Nat /\ Cardinality(peers) <= Expected
    BY FS_CardinalityType DEF RosterInv
  <2>2. IsFiniteSet(peers') /\ Cardinality(peers') \in {Cardinality(peers), Cardinality(peers) - 1}
    BY <1>1, <2>1, FS_RemoveElement
  <2> QED
    BY <2>1, <2>2, StartupAssumption
<1>6. RosterInv'
  BY <1>1, <1>5, StartupAssumption DEF RosterInv, Up, TypeOK, server
<1>7. \A d \in Clients : Good(d)'
  BY <1>3, <1>4, OthersGood
<1> QED
  BY <1>1, <1>2, <1>6, <1>7

\* The steps that touch neither a client nor what a peer has recorded of one.
LEMMA QuietServerStep ==
  ASSUME Inv, \/ NetworkDone \/ Abandon \/ Elapse
              \/ \E c \in Clients : PeerServed(c) \/ Acknowledged(c)
  PROVE  Inv'
<1> USE DEF Inv, StartupInv
<1>1. CASE NetworkDone
  <2>1. TypeOK' /\ \A d \in Clients : Untouched(d)
    BY <1>1 DEF NetworkDone, TypeOK, roster, channels, Untouched
  <2>2. RosterInv'
    BY <1>1, StartupAssumption DEF NetworkDone, TypeOK, roster, RosterInv, Up
  <2> QED
    BY <1>1, <2>1, <2>2, GoodFrame DEF NetworkDone, roster
<1>2. CASE Abandon
  <2>1. TypeOK' /\ \A d \in Clients : Untouched(d)
    BY <1>2 DEF Abandon, TypeOK, channels, Untouched
  <2>2. RosterInv'
    <3>1. Up' = {} /\ todo = {} /\ active \notin Clients
      BY <1>2, StartupAssumption DEF Abandon, TypeOK, RosterInv, Up
    <3> QED
      BY <1>2, <3>1 DEF Abandon, RosterInv
  <2> QED
    BY <1>2, <2>1, <2>2, GoodFrame DEF Abandon
<1>3. CASE Elapse
  <2>1. /\ UNCHANGED <<server, peers, conn, refused, channels, client>>
        /\ peer' = [c \in Clients |-> IF c \in peers /\ peer[c].idle < Patience
                                        THEN [peer[c] EXCEPT !.idle = @ + 1] ELSE peer[c]]
        /\ pc # "started"
    BY <1>3 DEF Elapse
  <2>2. ASSUME NEW d \in Clients PROVE peer'[d] \in Peer /\ Untouched(d)
    <3>1. peer[d] \in Peer /\ Patience \in Nat
      BY StartupAssumption DEF TypeOK
    <3>2. peer'[d] \in Peer
      <4>1. peer[d].idle < Patience => [peer[d] EXCEPT !.idle = @ + 1] \in Peer
        BY <3>1 DEF Peer
      <4> QED
        BY <2>1, <3>1, <4>1
    <3>3. peer'[d] = peer[d] \/ peer'[d] = [peer[d] EXCEPT !.idle = peer[d].idle + 1]
      BY <2>1
    <3> QED
      BY <2>1, <3>2, <3>3 DEF Untouched, server, channels
  <2>3. TypeOK'
    BY <2>1, <2>2 DEF TypeOK, server, channels
  <2>4. RosterInv'
    BY <2>1 DEF RosterInv, Up, server
  <2> QED
    BY <2>1, <2>2, <2>3, <2>4, GoodFrame
<1>4. ASSUME NEW c \in Clients, PeerServed(c) PROVE Inv'
  <2>1. TypeOK' /\ \A d \in Clients : Untouched(d)
    BY <1>4, StartupAssumption DEF PeerServed, Drop, TypeOK, channels, Untouched
  <2>2. RosterInv'
    BY <1>4, StartupAssumption DEF PeerServed, Drop, TypeOK, RosterInv, Up
  <2> QED
    BY <1>4, <2>1, <2>2, GoodFrame DEF PeerServed
<1>5. ASSUME NEW c \in Clients, Acknowledged(c) PROVE Inv'
  <2>1. /\ UNCHANGED <<server, roster, save, up, down, client>>
        /\ unacked' = [unacked EXCEPT ![c] = @ - 1] /\ unacked[c] > 0
    BY <1>5 DEF Acknowledged
  <2>2. TypeOK'
    <3>1. unacked[c] \in 0 .. SendLimit /\ SendLimit \in Nat
      BY StartupAssumption DEF TypeOK
    <3>2. unacked[c] - 1 \in 0 .. SendLimit
      BY <2>1, <3>1
    <3>3. unacked' \in [Clients -> 0 .. SendLimit]
      BY <2>1, <3>2 DEF TypeOK
    <3> QED
      BY <2>1, <3>3 DEF TypeOK, server, roster
  <2>3. \A d \in Clients : Untouched(d)
    BY <2>1 DEF Untouched, TypeOK, server, roster
  <2>4. RosterInv'
    BY <2>1 DEF RosterInv, Up, server, roster
  <2> QED
    BY <2>1, <2>2, <2>3, <2>4, GoodFrame DEF roster
<1> QED
  BY <1>1, <1>2, <1>3, <1>4, <1>5

\* Start: the peers counted as ready are all there are, and as many as expected.
LEMMA CountStep ==
  ASSUME Inv, Count
  PROVE  Inv'
<1> USE DEF Inv, StartupInv
<1>1. /\ pc = "serve" /\ todo = {} /\ peers' = peers \cap Up /\ peers' = Up
      /\ UNCHANGED <<active, todo, peer, conn, refused, save, unacked, up, client>>
      /\ \A d \in Clients : down[d] = <<>> /\ client[d].phase # "live"
  BY DEF Count, RosterInv, Good, StartInv
<1>2. IsFiniteSet(peers') /\ Cardinality(peers') \in Nat /\ Cardinality(peers') <= Expected
  <2>1. IsFiniteSet(peers) /\ Cardinality(peers) \in Nat /\ Cardinality(peers) <= Expected
    BY FS_CardinalityType DEF RosterInv
  <2>2. peers' \in SUBSET peers
    BY <1>1
  <2>3. IsFiniteSet(peers') /\ Cardinality(peers') <= Cardinality(peers)
    BY <2>1, <2>2, FS_Subset
  <2> QED
    BY <2>1, <2>3, FS_CardinalityType, StartupAssumption
<1>3. CASE Cardinality(ReadyAmong(peers')) = Expected
  <2>1. /\ pc' = "started"
        /\ down' = [c \in Clients |-> IF c \in Up THEN Append(down[c], "start") ELSE down[c]]
    BY <1>3 DEF Count, Broadcast, Queued
  <2>2. ReadyAmong(peers') = peers' /\ Cardinality(peers') = Expected
    <3>1. ReadyAmong(peers') \in SUBSET peers'
      BY DEF ReadyAmong
    <3>2. Cardinality(ReadyAmong(peers')) <= Cardinality(peers')
      BY <1>2, <3>1, FS_Subset
    <3>3. Cardinality(peers') = Expected
      BY <1>2, <1>3, <3>2, StartupAssumption
    <3> QED
      BY <1>2, <1>3, <3>1, <3>3, FS_Subset
  <2>3. \A c \in peers' : peer[c].phase = "ready"
    BY <2>2 DEF ReadyAmong
  <2>4. TypeOK'
    BY <1>1, <2>1 DEF TypeOK, Up
  <2>5. RosterInv'
    BY <1>1, <1>2, <2>1, <2>2, <2>3 DEF RosterInv, Up
  <2>6. ASSUME NEW d \in Clients PROVE Good(d)'
    <3>1. Good(d)
      OBVIOUS
    <3>2. down'[d] = IF d \in peers' THEN <<"start">> ELSE <<>>
      <4>1. down'[d] = IF d \in peers' THEN Append(down[d], "start") ELSE down[d]
        BY <1>1, <2>1
      <4>2. down[d] = <<>> /\ Append(<<>>, "start") = <<"start">>
        BY <1>1
      <4> QED
        BY <4>1, <4>2
    <3>3. StartInv(d)'
      BY <1>1, <2>1, <3>2 DEF StartInv
    <3>4. ClientInv(d)' /\ SaveInv(d)' /\ PeerInv(d)'
      BY <1>1, <3>1 DEF Good, ClientInv, SaveInv, PeerInv
    <3>5. ASSUME d \in peers' PROVE LinkInv(d)' /\ InFlight(d)'
      BY <1>1, <3>1, <3>5 DEF Good, LinkInv, InFlight
    <3> QED
      BY <3>3, <3>4, <3>5 DEF Good
  <2> QED
    BY <1>1, <2>4, <2>5, <2>6
<1>4. CASE Cardinality(ReadyAmong(peers')) # Expected
  <2>1. pc' = "network" /\ UNCHANGED down
    BY <1>4 DEF Count
  <2>2. TypeOK' /\ \A d \in Clients : Untouched(d)
    BY <1>1, <2>1 DEF TypeOK, Untouched, Up
  <2>3. RosterInv'
    BY <1>1, <1>2, <2>1 DEF RosterInv, Up
  <2> QED
    BY <1>1, <2>2, <2>3, GoodFrame
<1> QED
  BY <1>3, <1>4

\* A tick goes to everyone in the roster, behind Start and the ticks before it.
LEMMA BroadcastTickStep ==
  ASSUME Inv, BroadcastTick
  PROVE  Inv'
<1> USE DEF Inv, StartupInv
<1>1. /\ pc = "started" /\ peers = Up /\ UNCHANGED <<server, roster, save, unacked, up, client>>
      /\ down' = [c \in Clients |-> IF c \in Up THEN Append(down[c], "tick") ELSE down[c]]
  BY DEF BroadcastTick, Broadcast, Queued, RosterInv
<1>2. TypeOK'
  <2>1. \A c \in Clients : down'[c] \in Seq({"start", "tick"})
    BY <1>1 DEF TypeOK
  <2> QED
    BY <1>1, <2>1 DEF TypeOK, server, roster
<1>3. RosterInv'
  BY <1>1 DEF RosterInv, Up, server, roster
<1>4. ASSUME NEW d \in Clients PROVE Good(d)'
  <2>1. StartInv(d) /\ down[d] \in Seq({"start", "tick"})
    BY DEF Good, TypeOK
  <2>2. StartInv(d)'
    <3>1. CASE d \in Up
      <4>1. /\ down'[d] = Append(down[d], "tick") /\ client'[d] = client[d] /\ pc' = pc /\ peers' = peers
        BY <1>1, <3>1 DEF server, roster
      <4>2. /\ down'[d] # <<>> /\ (down[d] # <<>> => down'[d][1] = down[d][1])
            /\ \A i \in DOMAIN down'[d] : (i \in DOMAIN down[d] /\ down'[d][i] = down[d][i]) \/ down'[d][i] = "tick"
        BY <2>1, <4>1
      <4> QED
        BY <1>1, <2>1, <3>1, <4>1, <4>2 DEF StartInv
    <3>2. CASE d \notin Up
      BY <1>1, <2>1, <3>2 DEF StartInv, server, roster
    <3> QED
      BY <3>1, <3>2
  <2>3. ClientInv(d)' /\ SaveInv(d)' /\ PeerInv(d)'
    BY <1>1 DEF Good, ClientInv, SaveInv, PeerInv, server, roster
  <2>4. d \in peers' => LinkInv(d)' /\ InFlight(d)'
    BY <1>1 DEF Good, LinkInv, InFlight, server, roster
  <2> QED
    BY <2>2, <2>3, <2>4 DEF Good
<1> QED
  BY <1>1, <1>2, <1>3, <1>4 DEF roster

-----------------------------------------------------------------------------
\* The steps of the authority that serve a peer

\* One queue after another.
LEMMA ConcatShape ==
  ASSUME NEW S, NEW s \in Seq(S), NEW r \in Seq(S)
  PROVE  /\ s \o r \in Seq(S) /\ Len(s \o r) = Len(s) + Len(r)
         /\ DOMAIN (s \o r) = 1 .. Len(s) + Len(r)
         /\ \A i \in DOMAIN (s \o r) :
              (s \o r)[i] = IF i <= Len(s) THEN s[i] ELSE r[i - Len(s)]
  OBVIOUS

\* What one pump sends: the messages from base to end.
Batch(begin, offset, end) == begin \o [i \in 1 .. end - offset |-> offset + i]

\* Its messages follow on one another.
LEMMA BatchShape ==
  ASSUME NEW offset \in Nat, NEW end \in offset .. Chunks, NEW base \in Nat, NEW begin,
         \/ begin = <<>> /\ base = offset + 1
         \/ begin = << 0 >> /\ base = 0 /\ offset = 0,
         NEW s, s = Batch(begin, offset, end)
  PROVE  /\ s \in Seq(0 .. Chunks) /\ Len(s) = end + 1 - base
         /\ \A j \in DOMAIN s : j \in Nat /\ s[j] = base + j - 1
         /\ ToSet(s) = base .. end
<1> DEFINE r == [i \in 1 .. end - offset |-> offset + i]
<1>1. /\ r \in Seq(0 .. Chunks) /\ Len(r) = end - offset /\ DOMAIN r = 1 .. end - offset
      /\ \A i \in DOMAIN r : r[i] = offset + i
  <2>1. \A i \in 1 .. end - offset : offset + i \in 0 .. Chunks
    BY StartupAssumption
  <2>2. r \in [1 .. end - offset -> 0 .. Chunks] /\ end - offset \in Nat
    BY <2>1
  <2> QED
    BY <2>2
<1>2. /\ s \in Seq(0 .. Chunks) /\ Len(s) = end + 1 - base
      /\ \A j \in DOMAIN s : j \in Nat /\ s[j] = base + j - 1
  <2> HIDE DEF r
  <2>1. CASE begin = <<>> /\ base = offset + 1
    <3>1. s = r
      BY <1>1, <2>1 DEF Batch, r
    <3> QED
      BY <1>1, <2>1, <3>1
  <2>2. CASE begin = <<0>> /\ base = 0 /\ offset = 0
    <3>1. s = <<0>> \o r
      BY <2>2 DEF Batch, r
    <3>2. <<0>> \in Seq(0 .. Chunks)
      BY StartupAssumption
    <3> DEFINE b == <<0>>
    <3>3. b \in Seq(0 .. Chunks) /\ Len(b) = 1 /\ b[1] = 0 /\ s = b \o r
      BY <3>1, <3>2
    <3> HIDE DEF b
    <3>4. /\ s \in Seq(0 .. Chunks) /\ Len(s) = 1 + Len(r) /\ DOMAIN s = 1 .. 1 + Len(r)
          /\ \A j \in DOMAIN s : s[j] = IF j <= 1 THEN b[j] ELSE r[j - 1]
      <4>1. /\ b \o r \in Seq(0 .. Chunks) /\ Len(b \o r) = Len(b) + Len(r)
            /\ DOMAIN (b \o r) = 1 .. Len(b) + Len(r)
            /\ \A j \in DOMAIN (b \o r) : (b \o r)[j] = IF j <= Len(b) THEN b[j] ELSE r[j - Len(b)]
        BY <1>1, <3>3, ConcatShape, Zenon
      <4> QED
        BY <3>3, <4>1
    <3>5. \A j \in DOMAIN s : j \in Nat /\ s[j] = j - 1
      <4> TAKE j \in DOMAIN s
      <4>1. CASE j = 1
        BY <3>3, <3>4, <4>1
      <4>2. CASE j # 1
        <5>1. j - 1 \in DOMAIN r /\ j \in Nat /\ j > 1
          BY <1>1, <3>4, <4>2
        <5>2. r[j - 1] = j - 1
          BY <1>1, <2>2, <5>1
        <5> QED
          BY <3>4, <5>1, <5>2
      <4> QED
        BY <4>1, <4>2
    <3>6. Len(s) = end + 1
      BY <1>1, <2>2, <3>4
    <3> QED
      BY <2>2, <3>4, <3>5, <3>6
  <2> QED
    BY <2>1, <2>2
<1>3. DOMAIN s = 1 .. end + 1 - base
  BY <1>2
<1>4. ToSet(s) = base .. end
  <2>1. ASSUME NEW k \in base .. end PROVE k \in ToSet(s)
    <3>1. k + 1 - base \in DOMAIN s
      BY <1>3
    <3>2. s[k + 1 - base] = k
      BY <1>2, <3>1
    <3> QED
      BY <3>1, <3>2 DEF ToSet
  <2>2. ASSUME NEW j \in DOMAIN s PROVE s[j] \in base .. end
    BY <1>2, <1>3
  <2> QED
    BY <2>1, <2>2 DEF ToSet
<1> QED
  BY <1>2, <1>4

\* A pump stays within both windows.
LEMMA PumpWithin ==
  ASSUME NEW p, p.offset \in Domain, NEW held \in Nat
  PROVE  /\ Pumped(p, held) \in p.offset .. Chunks
         /\ \/ Pumped(p, held) = p.offset
            \/ /\ MemoryOf(p.offset + 1 .. Pumped(p, held)) <= MaxMemory - p.memory
               /\ held + Pumped(p, held) - p.offset <= SendLimit
<1> DEFINE S == {p.offset} \cup (FitReceiver(p) \cap FitSender(p, held))
<1>1. S \in SUBSET Domain /\ S # {} /\ \A k \in S : k \in p.offset .. Chunks
  BY StartupAssumption DEF FitReceiver, FitSender, Domain
<1> HIDE DEF S
<1>2. Max(S) \in S
  BY <1>1, MaxIsMember
<1>3. Pumped(p, held) \in S
  BY <1>2 DEF Pumped, S
<1> QED
  BY <1>1, <1>3 DEF S, FitReceiver, FitSender

\* The peer being served changes, and the channels to and from it; the rest follows.
LEMMA ServedFrame ==
  ASSUME Inv, NEW c \in Clients,
         UNCHANGED <<peers, conn, refused, down, client>>, pc' \in {"serve", "receive"},
         pc \in {"serve", "receive"}, active' \in {c, NoClient}, todo' \in SUBSET (todo \ {c}),
         c \in Up, pc' = "receive" <=> active' = c,
         NEW q \in Peer, peer' = [peer EXCEPT ![c] = q],
         NEW s \in Seq(0 .. Chunks), save' = [save EXCEPT ![c] = s],
         NEW a \in 0 .. SendLimit, unacked' = [unacked EXCEPT ![c] = a],
         NEW u \in Seq(Message), up' = [up EXCEPT ![c] = u],
         PeerInv(c)', SaveInv(c)', LinkInv(c)', InFlight(c)'
  PROVE  Inv'
<1> USE DEF Inv, StartupInv
<1>1. TypeOK'
  BY StartupAssumption DEF TypeOK
<1>2. RosterInv' /\ refused' = {}
  BY StartupAssumption DEF RosterInv, Up, TypeOK
<1>3. \A d \in Clients \ {c} : Untouched(d)
  BY DEF Untouched, TypeOK
<1>4. Good(c)'
  <2>1. StartInv(c) /\ ClientInv(c)
    BY DEF Good
  <2>2. StartInv(c)' /\ ClientInv(c)'
    BY <2>1 DEF StartInv, ClientInv
  <2> QED
    BY <2>2 DEF Good
<1> QED
  BY <1>1, <1>2, <1>3, <1>4, OthersGood

\* A pump: the window's account covers what it sends, which extends the channel at its far end.
LEMMA PumpStep ==
  ASSUME Inv, NEW c \in Clients, Pump(c)
  PROVE  Inv'
<1> DEFINE o  == peer[c]
           me == client[c]
<1>1. /\ pc = "serve" /\ c \in todo /\ c \in Up /\ c \in peers
      /\ pc' = "receive" /\ active' = c /\ todo' = todo \ {c}
      /\ UNCHANGED <<peers, conn, refused, up, down, client>>
  BY DEF Inv, StartupInv, RosterInv, Pump
<1>2. /\ o \in Peer /\ me \in Process /\ save[c] \in Seq(0 .. Chunks) /\ unacked[c] \in 0 .. SendLimit
      /\ up[c] \in Seq(Message) /\ up' = [up EXCEPT ![c] = up[c]]
  BY <1>1 DEF Inv, TypeOK
<1>3. ClientInv(c) /\ SaveInv(c) /\ PeerInv(c) /\ LinkInv(c) /\ InFlight(c)
  BY <1>1 DEF Inv, StartupInv, Good
<1>4. CASE o.phase # "transferring"
  <2>1. UNCHANGED <<peer, save, unacked>>
    BY <1>4 DEF Pump
  <2>2. /\ peer' = [peer EXCEPT ![c] = o] /\ save' = [save EXCEPT ![c] = save[c]]
        /\ unacked' = [unacked EXCEPT ![c] = unacked[c]]
    BY <2>1 DEF Inv, TypeOK
  <2>3. PeerInv(c)' /\ SaveInv(c)' /\ LinkInv(c)' /\ InFlight(c)'
    BY <1>1, <1>3, <2>1 DEF PeerInv, SaveInv, LinkInv, InFlight
  <2> QED
    BY <1>1, <1>2, <2>2, <2>3, ServedFrame
<1>5. CASE o.phase = "transferring"
  <2> DEFINE begin == IF o.began THEN <<>> ELSE <<0>>
             base  == IF o.began THEN o.offset + 1 ELSE 0
             start == IF o.began THEN o.outstanding ELSE {0}
             p     == [o EXCEPT !.began = TRUE, !.memory = @ + MemoryOf(ToSet(begin))]
             end   == Pumped(p, unacked[c] + Len(begin))
             sent  == Batch(begin, p.offset, end)
             q     == [p EXCEPT !.phase = IF end = Chunks THEN "awaiting" ELSE @,
                                !.offset = end,
                                !.outstanding = @ \cup ToSet(sent),
                                !.memory = @ + MemoryOf(p.offset + 1 .. end)]
  <2>1. /\ o.offset \in 0 .. Chunks /\ o.received \in 0 .. Chunks /\ o.began \in BOOLEAN
        /\ o.memory \in Nat /\ Chunks \in Nat \ {0} /\ SendLimit \in Nat /\ SendLimit >= 2
        /\ MaxMemory \in Nat /\ o.replayed \in 0 .. FinalTick
    BY <1>2, StartupAssumption DEF Peer
  <2>2. ~o.began => o.offset = 0 /\ o.received = 0 /\ o.memory = 0 /\ unacked[c] = 0
    BY <1>3, MemoryEmpty DEF PeerInv, LinkInv, Held
  <2>3. /\ Len(begin) = (IF o.began THEN 0 ELSE 1)
        /\ ToSet(begin) = (IF o.began THEN {} ELSE {0})
    BY DEF ToSet
  <2>4. /\ p.offset = o.offset /\ p.received = o.received /\ p.replayed = o.replayed
        /\ p.outstanding = o.outstanding /\ p.began = TRUE /\ p.phase = "transferring"
        /\ p.idle = o.idle /\ p.memory = o.memory + MemoryOf(ToSet(begin))
    BY <1>2, <1>5 DEF Peer
  <2> HIDE DEF begin, p
  <2>5. /\ start \in SUBSET Domain /\ p.memory = MemoryOf(start) /\ p.memory <= MaxMemory
        /\ \A k \in start : k <= o.offset
    <3>1. CASE o.began
      <4>1. ToSet(begin) = {}
        BY <2>3, <3>1
      <4>2. p.memory = o.memory
        BY <2>1, <2>4, <4>1, MemoryEmpty
      <4>3. o.outstanding = Held(o) /\ o.memory = MemoryOf(o.outstanding) /\ o.memory <= MaxMemory
        BY <1>3 DEF PeerInv
      <4>4. \A k \in Held(o) : k \in Domain /\ k <= o.offset
        BY <2>1 DEF Held, Domain
      <4> QED
        BY <3>1, <4>2, <4>3, <4>4
    <3>2. CASE ~o.began
      <4>1. MemoryOf({0}) = Memory[0] /\ 0 \in Domain
        BY StartupAssumption, MemoryOne DEF Domain
      <4>2. Memory[0] \in Nat /\ Memory[0] <= MaxMemory
        <5>1. 0 \in 0 .. Chunks /\ 1 \in 0 .. Chunks /\ 1 \in 1 .. Chunks
          BY <2>1
        <5>2. Memory[0] \in Nat /\ Memory[1] \in Nat /\ Memory[0] + Memory[1] <= MaxMemory
          BY <5>1, StartupAssumption
        <5> QED
          BY <2>1, <5>2
      <4>3. p.memory = MemoryOf({0})
        BY <2>2, <2>3, <2>4, <3>2, <4>1, <4>2
      <4> QED
        BY <2>2, <3>2, <4>1, <4>2, <4>3
    <3> QED
      BY <2>1, <3>1, <3>2
  <2> HIDE DEF start
  <2>6. /\ end \in o.offset .. Chunks
        /\ \/ end = o.offset
           \/ /\ MemoryOf(o.offset + 1 .. end) <= MaxMemory - p.memory
              /\ unacked[c] + Len(begin) + end - o.offset <= SendLimit
    <3>1. p.offset \in Domain /\ unacked[c] + Len(begin) \in Nat
      BY <1>2, <2>1, <2>3, <2>4 DEF Domain
    <3> QED
      BY <2>4, <3>1, PumpWithin
  <2> HIDE DEF end
  <2>7. /\ sent \in Seq(0 .. Chunks) /\ Len(sent) = end + 1 - base
        /\ \A j \in DOMAIN sent : j \in Nat /\ sent[j] = base + j - 1
        /\ ToSet(sent) = base .. end
    <3>1. p.offset \in Nat /\ base \in Nat /\ end \in p.offset .. Chunks
      BY <2>1, <2>4, <2>6
    <3>2. \/ begin = <<>> /\ base = p.offset + 1
          \/ begin = <<0>> /\ base = 0 /\ p.offset = 0
      BY <2>2, <2>4 DEF begin
    <3>3. sent = Batch(begin, p.offset, end)
      OBVIOUS
    <3> HIDE DEF base, sent
    <3>4. p.offset \in Nat
      BY <3>1
    <3>5. end \in p.offset .. Chunks
      BY <3>1
    <3>6. base \in Nat
      BY <3>1
    <3> HIDE DEF q
    <3> HIDE DEF p, begin
    <3>7. sent \in Seq(0 .. Chunks)
      BY ONLY <3>2, <3>3, <3>4, <3>5, <3>6, BatchShape, SMTT(30)
    <3>8. Len(sent) = end + 1 - base
      BY ONLY <3>2, <3>3, <3>4, <3>5, <3>6, BatchShape, SMTT(30)
    <3>9. \A j \in DOMAIN sent : j \in Nat /\ sent[j] = base + j - 1
      BY ONLY <3>2, <3>3, <3>4, <3>5, <3>6, BatchShape
    <3>10. ToSet(sent) = base .. end
      BY ONLY <3>2, <3>3, <3>4, <3>5, <3>6, BatchShape
    <3> QED
      BY <3>7, <3>8, <3>9, <3>10
  <2>8. /\ peer' = [peer EXCEPT ![c] = q] /\ save' = [save EXCEPT ![c] = save[c] \o sent]
        /\ unacked' = [unacked EXCEPT ![c] = unacked[c] + Len(sent)]
    BY <1>1, <1>5 DEF Pump, Batch, begin, p, end
  <2> HIDE DEF sent
  <2> DEFINE more == o.offset + 1 .. end
             all  == IF o.received = 0 THEN 0 .. end ELSE o.received + 1 .. end
  <2>9. /\ all = start \cup more /\ start \cap more = {} /\ more \in SUBSET Domain
        /\ o.outstanding \cup (base .. end) = all
    <3>1. o.outstanding = Held(o) /\ o.received <= o.offset
      BY <1>3 DEF PeerInv
    <3>2. more \in SUBSET Domain /\ start \cap more = {}
      BY <2>1, <2>5, <2>6 DEF Domain
    <3>3. CASE o.began
      BY <2>1, <2>6, <3>1, <3>2, <3>3 DEF start, Held
    <3>4. CASE ~o.began
      BY <2>1, <2>2, <2>6, <3>1, <3>2, <3>4 DEF start, Held
    <3> QED
      BY <2>1, <3>3, <3>4
  <2>10. /\ MemoryOf(all) = p.memory + MemoryOf(more) /\ MemoryOf(all) <= MaxMemory
         /\ MemoryOf(all) \in Nat /\ all \in SUBSET Domain
    <3>1. MemoryOf(all) = p.memory + MemoryOf(more) /\ all \in SUBSET Domain
      <4> HIDE DEF more, all
      <4> QED
        BY <2>5, <2>9, MemoryUnion
    <3>2. MemoryOf(more) \in Nat /\ p.memory \in Nat
      <4> HIDE DEF more
      <4> QED
        BY <2>5, <2>9, MemoryType
    <3>3. end = o.offset => MemoryOf(more) = 0
      <4>1. end = o.offset => more = {}
        BY <2>1
      <4> QED
        BY <4>1, MemoryEmpty
    <3> HIDE DEF more, all
    <3>4. p.memory + MemoryOf(more) <= MaxMemory
      BY <2>1, <2>5, <2>6, <3>2, <3>3 DEF more
    <3> QED
      BY <3>1, <3>2, <3>4
  <2> HIDE DEF all, more
  <2>11. /\ q.phase = (IF end = Chunks THEN "awaiting" ELSE "transferring") /\ q.offset = end
         /\ q.outstanding = all /\ q.memory = MemoryOf(all) /\ q.began = TRUE
         /\ q.received = o.received /\ q.replayed = o.replayed /\ q.idle = o.idle
         /\ q \in Peer
    <3>1. p \in Peer
      BY <1>2, <2>1, <2>5, MemoryType DEF p, Peer
    <3>2. q = [p EXCEPT !.phase = IF end = Chunks THEN "awaiting" ELSE @, !.offset = end,
                        !.outstanding = all, !.memory = MemoryOf(all)]
      BY <2>4, <2>7, <2>9, <2>10 DEF more
    <3>3. end \in 0 .. Chunks /\ all \in SUBSET (0 .. Chunks)
      BY <2>1, <2>6, <2>10 DEF Domain
    <3> HIDE DEF q
    <3> QED
      BY <2>4, <2>10, <3>1, <3>2, <3>3 DEF Peer
  <2> HIDE DEF q
  <2>12. /\ peer'[c] = q /\ save'[c] = save[c] \o sent /\ unacked'[c] = unacked[c] + Len(sent)
         /\ up'[c] = up[c] /\ client'[c] = me
    BY <1>1, <2>8 DEF Inv, TypeOK
  <2>13. PeerInv(c)'
    <3>1. all = Held(q)
      BY <2>11 DEF Held, all
    <3>2. o.received <= end
      BY <1>3, <2>1, <2>6 DEF PeerInv
    <3> QED
      BY <2>1, <2>6, <2>10, <2>11, <2>12, <3>1, <3>2 DEF PeerInv
  <2>14. /\ First(me) \in Nat /\ Len(save[c]) \in Nat /\ base = First(me) + Len(save[c])
    <3>1. First(me) \in Nat
      BY <1>2 DEF First, Process
    <3>2. ~o.began => First(me) = 0 /\ Len(save[c]) = 0
      BY <1>3 DEF LinkInv, First
    <3>3. o.began => Len(save[c]) = o.offset + 1 - First(me)
      BY <1>3 DEF LinkInv
    <3>4. Len(save[c]) \in Nat /\ o.offset \in Nat
      BY <1>2, <2>1
    <3>5. base = IF o.began THEN o.offset + 1 ELSE 0
      OBVIOUS
    <3> HIDE DEF base, me, o
    <3> QED
      BY <3>1, <3>2, <3>3, <3>4, <3>5
  <2> HIDE DEF base
  <2>15. SaveInv(c)'
    <3>1. ASSUME NEW i \in DOMAIN (save[c] \o sent)
          PROVE  (save[c] \o sent)[i] = First(me) + i - 1
      <4>1. /\ DOMAIN (save[c] \o sent) = 1 .. Len(save[c]) + Len(sent)
            /\ (save[c] \o sent)[i] = IF i <= Len(save[c]) THEN save[c][i] ELSE sent[i - Len(save[c])]
        <5>1. /\ DOMAIN (save[c] \o sent) = 1 .. Len(save[c]) + Len(sent)
              /\ \A j \in DOMAIN (save[c] \o sent) :
                   (save[c] \o sent)[j] =
                     IF j <= Len(save[c]) THEN save[c][j] ELSE sent[j - Len(save[c])]
          <6>1. save[c] \in Seq(0 .. Chunks) /\ sent \in Seq(0 .. Chunks)
            BY <1>2, <2>7
          <6>2. PICK s, r : s = save[c] /\ r = sent
            OBVIOUS
          <6>3. /\ DOMAIN (s \o r) = 1 .. Len(s) + Len(r)
                /\ \A j \in DOMAIN (s \o r) :
                     (s \o r)[j] = IF j <= Len(s) THEN s[j] ELSE r[j - Len(s)]
            <7>1. s \in Seq(0 .. Chunks) /\ r \in Seq(0 .. Chunks)
              BY ONLY <6>1, <6>2
            <7> QED
              BY ONLY <7>1, ConcatShape
          <6> QED
            BY ONLY <6>2, <6>3
        <5> QED
          BY <3>1, <5>1
      <4>2. CASE i <= Len(save[c])
        <5>1. i \in DOMAIN save[c]
          BY <1>2, <4>1, <4>2
        <5> QED
          BY <1>3, <4>1, <4>2, <5>1 DEF SaveInv
      <4>3. CASE ~(i <= Len(save[c]))
        <5>1. i - Len(save[c]) \in DOMAIN sent /\ i \in Nat
          BY <1>2, <2>7, <4>1, <4>3
        <5>2. sent[i - Len(save[c])] = base + (i - Len(save[c])) - 1
          BY <2>7, <5>1
        <5> QED
          BY <2>14, <4>1, <4>3, <5>1, <5>2
      <4> QED
        BY <4>2, <4>3
    <3> QED
      BY <2>12, <3>1 DEF SaveInv
  <2>16. LinkInv(c)'
    <3>1. Len(save[c] \o sent) = Len(save[c]) + Len(sent)
      BY <1>2, <2>7, ConcatShape
    <3>2. Len(save[c] \o sent) = end + 1 - First(me)
      BY <2>1, <2>6, <2>7, <2>14, <3>1
    <3> QED
      BY <1>3, <2>11, <2>12, <3>2 DEF LinkInv
  <2>17. InFlight(c)'
    BY <1>3, <2>11, <2>12 DEF InFlight
  <2>18. unacked[c] + Len(sent) \in 0 .. SendLimit
    <3>1. Len(sent) \in Nat
      BY <2>7
    <3>2. Len(sent) = Len(begin) + end - o.offset
      BY <2>1, <2>2, <2>3, <2>6, <2>7 DEF base
    <3>3. unacked[c] + Len(begin) <= SendLimit
      BY <1>2, <2>1, <2>2, <2>3
    <3>4. Len(begin) \in Nat /\ unacked[c] \in Nat /\ end \in Nat
      BY <1>2, <2>1, <2>3, <2>6
    <3>5. unacked[c] + Len(sent) = unacked[c] + Len(begin) + end - o.offset
      BY <2>1, <3>1, <3>2, <3>4
    <3>6. unacked[c] + Len(sent) <= SendLimit
      BY <2>1, <2>6, <3>3, <3>4, <3>5
    <3> QED
      BY <2>1, <3>1, <3>4, <3>6
  <2>19. save[c] \o sent \in Seq(0 .. Chunks)
    BY <1>2, <2>7, ConcatShape
  <2> QED
    BY <1>1, <1>2, <2>8, <2>11, <2>13, <2>15, <2>16, <2>17, <2>18, <2>19, ServedFrame
<1> QED
  BY <1>4, <1>5

\* A report on its way is one the authority accepts.
LEMMA HonestAcceptable ==
  ASSUME Inv, NEW c \in Clients, pc = "receive", active = c, up[c] # <<>>
  PROVE  /\ Acceptable(peer[c], Head(up[c]))
         /\ c \in Up /\ c \in peers /\ peer[c].phase # "ready"
         /\ Head(up[c]).type = "progress" /\ Head(up[c]).received # 0 =>
              /\ peer[c].began /\ Head(up[c]).received \in 1 .. peer[c].offset
<1> DEFINE p  == peer[c]
           me == client[c]
           m  == Head(up[c])
<1>1. c \in Up /\ c \in peers
  BY DEF Inv, StartupInv, RosterInv
<1>2. p \in Peer /\ me \in Process /\ up[c] \in Seq(Message) /\ save[c] \in Seq(0 .. Chunks)
  BY DEF Inv, TypeOK
<1>3. ClientInv(c) /\ PeerInv(c) /\ LinkInv(c) /\ InFlight(c)
  BY <1>1 DEF Inv, StartupInv, Good
<1>4. 1 \in DOMAIN up[c] /\ m = up[c][1] /\ m \in Message
  BY <1>2, QueueShape
<1>5. p.phase # "ready"
  BY <1>3 DEF LinkInv
<1>6. /\ p.received \in 0 .. Chunks /\ p.offset \in 0 .. Chunks /\ p.replayed \in 0 .. FinalTick
      /\ me.received \in 0 .. Chunks /\ me.replayed \in 0 .. FinalTick
      /\ Chunks \in Nat \ {0} /\ FinalTick \in Nat /\ Len(save[c]) \in Nat
  <2>1. Len(save[c]) \in Nat
    BY <1>2
  <2>2. /\ p.received \in 0 .. Chunks /\ p.offset \in 0 .. Chunks /\ p.replayed \in 0 .. FinalTick
        /\ me.received \in 0 .. Chunks /\ me.replayed \in 0 .. FinalTick
    BY <1>2 DEF Peer, Process
  <2> QED
    BY <2>1, <2>2, StartupAssumption
<1>7. me.received # 0 => p.began /\ me.received <= p.offset
  <2>1. ASSUME me.received # 0 PROVE p.began /\ me.received <= p.offset
    <3>1. me.begun /\ p.began
      BY <1>3, <2>1 DEF ClientInv, LinkInv
    <3>2. Len(save[c]) = p.offset + 1 - (me.received + 1)
      BY <1>3, <3>1 DEF LinkInv, First
    <3> QED
      BY <1>6, <3>1, <3>2
  <2> QED
    BY <2>1
<1>8. CASE m.type = "ready"
  <2>1. me.received = Chunks
    BY <1>3, <1>4, <1>8 DEF InFlight
  <2>2. p.offset = Chunks
    BY <1>6, <1>7, <2>1
  <2>3. p.phase = "awaiting"
    BY <1>2, <1>3, <1>5, <1>6, <2>2 DEF PeerInv, Peer
  <2> QED
    BY <1>1, <1>8, <2>3 DEF Acceptable
<1>9. CASE m.type = "progress"
  <2>1. m.received \in 0 .. Chunks /\ m.replayed \in 0 .. FinalTick
    BY <1>4, <1>9 DEF Message
  <2>2. /\ m.received \in p.received .. me.received /\ m.replayed \in p.replayed .. me.replayed
        /\ m.replayed = 0 \/ m.received = Chunks
    BY <1>3, <1>4, <1>9 DEF InFlight
  <2>3. m.received # 0 => p.began /\ m.received \in 1 .. p.offset
    BY <1>6, <1>7, <2>1, <2>2
  <2>4. m.received # p.received => m.received \in p.outstanding
    <3>1. ASSUME m.received # p.received PROVE m.received \in Held(p)
      BY <1>6, <2>1, <2>2, <2>3, <3>1 DEF Held
    <3> QED
      BY <1>3, <3>1 DEF PeerInv
  <2>5. Acceptable(p, m)
    BY <1>5, <1>6, <1>9, <2>1, <2>2, <2>4 DEF Acceptable
  <2> QED
    BY <1>1, <1>5, <2>3, <2>5
<1> QED
  BY <1>4, <1>8, <1>9 DEF Message

\* The reports still on their way after the first is taken.
LEMMA RestInFlight ==
  ASSUME TypeOK, NEW c \in Clients, InFlight(c), up[c] # <<>>, up'[c] = Tail(up[c]),
         client'[c] = client[c], NEW q, peer'[c] = q,
         \/ q.received = peer[c].received /\ q.replayed = peer[c].replayed
         \/ /\ Head(up[c]).type = "progress"
            /\ q.received = Head(up[c]).received /\ q.replayed = Head(up[c]).replayed
  PROVE  InFlight(c)'
<1> DEFINE u == up[c]
           r == Tail(u)
<1>1. /\ u \in Seq(Message) /\ 1 \in DOMAIN u /\ Head(u) = u[1]
      /\ r \in Seq(Message) /\ Len(r) = Len(u) - 1
      /\ \A i \in DOMAIN r : i + 1 \in DOMAIN u /\ r[i] = u[i + 1]
  BY QueueShape DEF TypeOK
<1>2. \A i \in DOMAIN r : i \in Nat /\ i >= 1 /\ u[i + 1] \in Message
  BY <1>1
<1>3. peer[c] \in Peer /\ client[c] \in Process
  BY DEF TypeOK
<1>4. ASSUME NEW i \in DOMAIN r, r[i].type = "progress"
      PROVE  r[i].received \in q.received .. client[c].received
             /\ r[i].replayed \in q.replayed .. client[c].replayed
  <2>1. u[i + 1].type = "progress" /\ i + 1 \in DOMAIN u /\ 1 < i + 1
    BY <1>1, <1>2, <1>4
  <2>2. /\ u[i + 1].received \in peer[c].received .. client[c].received
        /\ u[i + 1].replayed \in peer[c].replayed .. client[c].replayed
        /\ u[1].type = "progress" =>
             u[1].received <= u[i + 1].received /\ u[1].replayed <= u[i + 1].replayed
    BY <1>1, <2>1 DEF InFlight
  <2>3. u[1].type = "progress" => u[1].received \in Nat /\ u[1].replayed \in Nat
    <3>1. u[1] \in Message
      BY <1>1
    <3> QED
      BY <3>1 DEF Message
  <2> QED
    BY <1>1, <1>4, <2>1, <2>2, <2>3
<1>5. ASSUME NEW i \in DOMAIN r, r[i].type = "progress"
      PROVE  /\ r[i].replayed = 0 \/ r[i].received = Chunks
             /\ \A j \in DOMAIN r :
                  i < j /\ r[j].type = "progress" =>
                    r[i].received <= r[j].received /\ r[i].replayed <= r[j].replayed
  <2>1. ASSUME NEW j \in DOMAIN r PROVE i < j => i + 1 < j + 1
    BY <1>2
  <2> QED
    BY <1>1, <1>5, <2>1 DEF InFlight
<1>6. ASSUME NEW i \in DOMAIN r, r[i].type = "ready"
      PROVE  i = Len(r) /\ client[c].received = Chunks /\ client[c].phase \in {"awaiting", "away"}
  <2>1. i + 1 = Len(u) /\ client[c].received = Chunks /\ client[c].phase \in {"awaiting", "away"}
    BY <1>1, <1>6 DEF InFlight
  <2> QED
    BY <1>1, <1>2, <2>1
<1> QED
  BY <1>4, <1>5, <1>6 DEF InFlight

\* A report: what it shows to be consumed leaves the window.
LEMMA ReceiveStep ==
  ASSUME Inv, NEW c \in Clients, Receive(c)
  PROVE  Inv'
<1> DEFINE p  == peer[c]
           me == client[c]
           m  == Head(up[c])
           q  == Updated(p, m)
<1>1. pc = "receive" /\ active = c /\ up[c] # <<>> /\ up' = [up EXCEPT ![c] = Tail(@)]
      /\ UNCHANGED <<todo, peers, save, unacked, down, client>>
  BY DEF Receive
<1>2. /\ Acceptable(p, m) /\ c \in Up /\ c \in peers /\ p.phase # "ready"
      /\ m.type = "progress" /\ m.received # 0 => p.began /\ m.received \in 1 .. p.offset
  BY <1>1, HonestAcceptable
<1>3. peer' = [peer EXCEPT ![c] = q] /\ UNCHANGED <<pc, active, conn, refused>>
  BY <1>2 DEF Receive
<1>4. /\ p \in Peer /\ me \in Process /\ up[c] \in Seq(Message) /\ save[c] \in Seq(0 .. Chunks)
      /\ unacked[c] \in 0 .. SendLimit /\ todo \in SUBSET (todo \ {c})
  BY <1>1, <1>2 DEF Inv, TypeOK, StartupInv, RosterInv
<1>5. ClientInv(c) /\ SaveInv(c) /\ PeerInv(c) /\ LinkInv(c) /\ InFlight(c)
  BY <1>2 DEF Inv, StartupInv, Good
<1>6. /\ 1 \in DOMAIN up[c] /\ m = up[c][1] /\ m \in Message
      /\ Tail(up[c]) \in Seq(Message) /\ Len(Tail(up[c])) = Len(up[c]) - 1
  BY <1>1, <1>4, QueueShape
<1>7. /\ p.offset \in 0 .. Chunks /\ p.received \in 0 .. Chunks /\ p.replayed \in 0 .. FinalTick
      /\ p.memory \in Nat /\ p.began \in BOOLEAN /\ p.idle \in 0 .. Patience
      /\ Chunks \in Nat \ {0} /\ Patience \in Nat
  BY <1>4, StartupAssumption DEF Peer
<1>8. /\ save' = [save EXCEPT ![c] = save[c]] /\ unacked' = [unacked EXCEPT ![c] = unacked[c]]
      /\ peer'[c] = q /\ save'[c] = save[c] /\ unacked'[c] = unacked[c] /\ up'[c] = Tail(up[c])
      /\ client'[c] = me
  BY <1>1, <1>3 DEF Inv, TypeOK
<1> HIDE DEF q
<1>9. SaveInv(c)'
  BY <1>5, <1>8 DEF SaveInv
<1>10. /\ q \in Peer /\ PeerInv(c)' /\ LinkInv(c)' /\ InFlight(c)'
  <2>1. CASE m.type = "ready"
    <3>1. q = [p EXCEPT !.phase = "ready", !.idle = 0]
      BY <2>1 DEF q, Updated
    <3>2. /\ q \in Peer /\ q.phase = "ready" /\ q.offset = p.offset /\ q.began = p.began
          /\ q.received = p.received /\ q.outstanding = p.outstanding /\ q.memory = p.memory
          /\ q.replayed = p.replayed
      <4>1. 0 \in 0 .. Patience /\ p \in Peer
        BY <1>4, <1>7
      <4> HIDE DEF p
      <4>2. q \in Peer
        BY <3>1, <4>1 DEF Peer
      <4> QED
        BY <3>1, <4>1, <4>2 DEF Peer
    <3>3. p.phase = "awaiting"
      BY <1>2, <2>1 DEF Acceptable
    <3>4. Held(q) = Held(p)
      BY <3>2 DEF Held
    <3>5. PeerInv(c)'
      BY <1>5, <1>8, <3>2, <3>3, <3>4 DEF PeerInv
    <3>6. 1 = Len(up[c]) /\ me.phase \in {"awaiting", "away"}
      BY <1>5, <1>6, <2>1 DEF InFlight
    <3>7. Tail(up[c]) = <<>>
      <4>1. Len(Tail(up[c])) = 0 /\ Tail(up[c]) \in Seq(Message)
        BY <1>6, <3>6
      <4> QED
        BY <4>1, EmptyQueue
    <3>8. LinkInv(c)'
      BY <1>5, <1>8, <3>2, <3>6, <3>7 DEF LinkInv
    <3>9. InFlight(c)'
      BY <1>8, <3>7 DEF InFlight
    <3> QED
      BY <3>2, <3>5, <3>8, <3>9
  <2>2. CASE m.type = "progress" /\ (m.received > p.received \/ m.replayed > p.replayed)
    <3> DEFINE consumed == Consumed(p, m.received)
    <3>1. q = [p EXCEPT !.idle = 0, !.received = m.received, !.replayed = m.replayed,
                        !.outstanding = @ \ consumed, !.memory = @ - MemoryOf(consumed)]
      BY <2>2 DEF q, Updated
    <3>2. m.received \in 0 .. Chunks /\ m.replayed \in 0 .. FinalTick
      BY <1>6, <2>2 DEF Message
    <3>3. m.received >= p.received
      BY <1>2, <2>2 DEF Acceptable
    <3>4. /\ p.outstanding = Held(p) /\ p.memory = MemoryOf(p.outstanding) /\ p.memory <= MaxMemory
          /\ p.outstanding \in SUBSET Domain /\ consumed \in SUBSET p.outstanding
      BY <1>4, <1>5 DEF PeerInv, Peer, Domain, Consumed
    <3>5. p.memory - MemoryOf(consumed) = MemoryOf(p.outstanding \ consumed)
      BY <3>4, MemoryPart
    <3>6. p.memory - MemoryOf(consumed) \in Nat /\ p.memory - MemoryOf(consumed) <= MaxMemory
      <4>1. MemoryOf(consumed) \in Nat /\ MemoryOf(consumed) <= p.memory
        BY <3>4, MemoryPart, MemoryType
      <4>2. p.memory \in Nat
        BY <1>7 DEF Peer
      <4> QED
        BY <3>4, <4>1, <4>2, StartupAssumption
    <3>7. /\ q.phase = p.phase /\ q.offset = p.offset /\ q.began = p.began
          /\ q.received = m.received /\ q.replayed = m.replayed
          /\ q.outstanding = p.outstanding \ consumed /\ q.memory = p.memory - MemoryOf(consumed)
          /\ q \in Peer
      <4>1. /\ 0 \in 0 .. Patience /\ p \in Peer
            /\ p.outstanding \ consumed \in SUBSET (0 .. Chunks)
        BY <1>4, <1>7, <3>4 DEF Domain
      <4> DEFINE rest == p.outstanding \ consumed
                 memory == p.memory - MemoryOf(consumed)
      <4>2. q = [p EXCEPT !.idle = 0, !.received = m.received, !.replayed = m.replayed,
                          !.outstanding = rest, !.memory = memory]
        BY <3>1
      <4>3. rest \in SUBSET (0 .. Chunks) /\ memory \in Nat
        BY <3>6, <4>1
      <4> HIDE DEF consumed, p, rest, memory
      <4>4. q \in Peer
        BY <3>2, <4>1, <4>2, <4>3 DEF Peer
      <4>5. /\ q.phase = p.phase /\ q.offset = p.offset /\ q.began = p.began
            /\ q.received = m.received /\ q.replayed = m.replayed
            /\ q.outstanding = rest /\ q.memory = memory
        BY <4>1, <4>2 DEF Peer
      <4> QED
        BY <4>4, <4>5 DEF rest, memory
    <3>8. q.outstanding = Held(q)
      <4>1. CASE m.received = 0
        <5>1. consumed = {} /\ p.received = 0
          BY <1>7, <3>3, <4>1 DEF Consumed
        <5> QED
          BY <3>4, <3>7, <4>1, <5>1 DEF Held
      <4>2. CASE m.received # 0
        <5>1. p.began /\ m.received \in 1 .. p.offset
          BY <1>2, <2>2, <4>2
        <5>2. consumed = {k \in p.outstanding : k <= m.received}
          BY <4>2 DEF Consumed
        <5> HIDE DEF consumed
        <5>3. q.outstanding = m.received + 1 .. p.offset
          BY <1>7, <3>2, <3>3, <3>4, <3>7, <5>1, <5>2 DEF Held
        <5> QED
          BY <3>7, <4>2, <5>1, <5>3 DEF Held
      <4> QED
        BY <4>1, <4>2
    <3> HIDE DEF consumed
    <3>9. PeerInv(c)'
      <4>1. ~p.began => m.received = 0
        BY <1>2, <2>2
      <4>2. m.received <= p.offset
        BY <1>2, <1>7, <2>2, <3>2
      <4> QED
        BY <1>5, <1>8, <3>5, <3>6, <3>7, <3>8, <4>1, <4>2 DEF PeerInv
    <3>10. LinkInv(c)'
      <4>1. m.received <= me.received /\ m.replayed <= me.replayed
        <5>1. me.received \in 0 .. Chunks /\ me.replayed \in 0 .. FinalTick
          BY <1>4 DEF Process
        <5>2. m.received \in p.received .. me.received /\ m.replayed \in p.replayed .. me.replayed
          BY <1>5, <1>6, <2>2 DEF InFlight
        <5> QED
          BY <1>7, <3>2, <5>1, <5>2
      <4> QED
        BY <1>2, <1>5, <1>8, <3>7, <4>1 DEF LinkInv
    <3>11. InFlight(c)'
      BY <1>1, <1>5, <1>8, <2>2, <3>7, RestInFlight DEF Inv
    <3> QED
      BY <3>7, <3>9, <3>10, <3>11
  <2>3. CASE m.type = "progress" /\ ~(m.received > p.received \/ m.replayed > p.replayed)
    <3>1. q = p
      BY <2>3 DEF q, Updated
    <3>2. PeerInv(c)' /\ LinkInv(c)'
      BY <1>2, <1>5, <1>8, <3>1 DEF PeerInv, LinkInv
    <3>3. InFlight(c)'
      BY <1>1, <1>5, <1>8, <3>1, RestInFlight DEF Inv
    <3> QED
      BY <1>4, <3>1, <3>2, <3>3
  <2> QED
    BY <1>6, <2>1, <2>2, <2>3 DEF Message
<1>11. /\ pc' \in {"serve", "receive"} /\ active' \in {c, NoClient} /\ todo' \in SUBSET (todo \ {c})
       /\ (pc' = "receive" <=> active' = c) /\ UNCHANGED <<peers, conn, refused, down, client>>
       /\ up' = [up EXCEPT ![c] = Tail(up[c])]
  BY <1>1, <1>3, <1>4
<1> QED
  BY <1>1, <1>2, <1>3, <1>4, <1>6, <1>8, <1>9, <1>10, <1>11, ServedFrame

-----------------------------------------------------------------------------
\* The theorems

\* The invariant holds at first.
LEMMA InitInv == Init => Inv
<1> SUFFICES ASSUME Init PROVE Inv
  OBVIOUS
<1>1. /\ 0 \in 0 .. Patience /\ 0 \in 0 .. SendLimit /\ 0 \in 0 .. Chunks /\ 0 \in 0 .. FinalTick
      /\ NoClient \notin Clients /\ Expected \in Nat /\ MaxMemory \in Nat /\ Chunks > 0
  BY StartupAssumption
<1>2. NewPeer \in Peer
  BY <1>1 DEF NewPeer, Peer
<1>3. [NewClient EXCEPT !.phase = "away"] \in Process
  BY <1>1 DEF NewClient, Process
<1>4. TypeOK
  BY <1>1, <1>2, <1>3 DEF Init, TypeOK
<1>5. RosterInv
  <2>1. IsFiniteSet({}) /\ Cardinality({}) = 0
    BY FS_EmptySet
  <2> QED
    BY <1>1, <2>1 DEF Init, RosterInv, Up
<1>6. ASSUME NEW c \in Clients PROVE Good(c)
  <2>1. StartInv(c) /\ SaveInv(c)
    BY DEF Init, StartInv, SaveInv, NewClient
  <2>2. ClientInv(c)
    BY DEF Init, ClientInv, NewClient
  <2>3. PeerInv(c)
    <3>1. peer[c] = NewPeer
      BY DEF Init
    <3>2. NewPeer.outstanding = Held(NewPeer) /\ NewPeer.outstanding = {} /\ NewPeer.memory = 0
      BY DEF NewPeer, Held
    <3>3. /\ NewPeer.phase = "transferring" /\ NewPeer.offset = 0 /\ NewPeer.received = 0
          /\ NewPeer.began = FALSE
      BY DEF NewPeer
    <3> QED
      BY <1>1, <3>1, <3>2, <3>3, MemoryEmpty DEF PeerInv
  <2> QED
    BY <2>1, <2>2, <2>3 DEF Init, Good
<1> QED
  BY <1>4, <1>5, <1>6 DEF Init, Inv, StartupInv

\* Nothing happens.
LEMMA StutterStep == ASSUME Inv, UNCHANGED vars PROVE Inv'
<1>1. TypeOK' /\ RosterInv' /\ refused' = {}
  BY DEF vars, server, roster, channels, Inv, StartupInv, TypeOK, RosterInv, Up
<1>2. \A d \in Clients : Untouched(d)
  BY DEF vars, server, roster, channels, Untouched
<1> QED
  BY <1>1, <1>2, GoodFrame DEF Inv, StartupInv

\* Every step keeps the invariant.
LEMMA NextInv == ASSUME Inv, [Next]_vars PROVE Inv'
<1>1. CASE UNCHANGED vars
  BY <1>1, StutterStep
<1>2. ASSUME NEW c \in Clients, Server(c) PROVE Inv'
  BY <1>2, GoneStep, PumpStep, ReceiveStep, QuietServerStep DEF Server, Removed
<1>3. ASSUME NEW c \in Clients, Client(c) PROVE Inv'
  BY <1>3, ReceiveSaveStep, ReportReceivedStep, StepStep, ReceiveLockstepStep, QuietClientStep DEF Client
<1>4. ASSUME NEW c \in Clients, Connected(c) \/ Lost(c) \/ Acknowledged(c) \/ Leave(c) PROVE Inv'
  BY <1>4, ConnectedStep, GoneStep, QuietServerStep, QuietClientStep DEF Lost
<1>5. CASE NetworkDone \/ Abandon \/ Elapse
  BY <1>5, QuietServerStep
<1>6. CASE Count
  BY <1>6, CountStep
<1>7. CASE BroadcastTick
  BY <1>7, BroadcastTickStep
<1>8. CASE Terminated
  BY <1>8, StutterStep DEF Terminated
<1> QED
  BY <1>1, <1>2, <1>3, <1>4, <1>5, <1>6, <1>7, <1>8 DEF Next

\* The invariant holds always.
LEMMA InvAlways == Spec => []Inv
  BY InitInv, NextInv, PTL DEF Spec

\* Every variable is what the loops make of it: an offset never passes the save, and the
\* sending channel never holds more than it may, so that no send fails for a full channel
\* (TypeOK; startup.rs 64-108).
THEOREM StartupTypeCorrect == Spec => []TypeOK
<1>1. Inv => TypeOK
  BY DEF Inv
<1> QED
  BY <1>1, InvAlways, PTL

\* However reports and acknowledgements cross, what the receiving transport may be holding
\* of the save stays within what its channel reserves, for any save and any windows
\* (ReceiverMemoryBounded; startup.rs 48-50, 90-97).
THEOREM Bounded == Spec => []ReceiverMemoryBounded
<1>1. ASSUME Inv, NEW c \in peers
      PROVE  MemoryOf(ToSet(save[c])) <= peer[c].memory /\ peer[c].memory <= MaxMemory
  <2> DEFINE p  == peer[c]
             me == client[c]
  <2>1. /\ c \in Clients /\ p \in Peer /\ me \in Process /\ save[c] \in Seq(0 .. Chunks)
        /\ ClientInv(c) /\ SaveInv(c) /\ PeerInv(c) /\ LinkInv(c)
    BY <1>1 DEF Inv, StartupInv, TypeOK, Good
  <2>2. /\ p.received \in 0 .. Chunks /\ p.offset \in 0 .. Chunks /\ me.received \in 0 .. Chunks
        /\ p.outstanding \in SUBSET Domain
    BY <2>1 DEF Peer, Process, Domain
  <2>3. ASSUME NEW i \in DOMAIN save[c] PROVE save[c][i] \in p.outstanding
    <3>1. i \in Nat /\ i >= 1 /\ i <= Len(save[c]) /\ Len(save[c]) \in Nat
      BY <2>1
    <3>2. p.began /\ Len(save[c]) = p.offset + 1 - First(me)
      BY <2>1, <3>1 DEF LinkInv
    <3>3. First(me) \in Nat /\ (p.received # 0 => First(me) >= p.received + 1)
      BY <2>1, <2>2 DEF First, ClientInv, LinkInv
    <3>4. save[c][i] = First(me) + i - 1
      BY <2>1 DEF SaveInv
    <3>5. First(me) + i - 1 \in Held(p)
      BY <2>2, <3>1, <3>2, <3>3 DEF Held
    <3> QED
      BY <2>1, <3>4, <3>5 DEF PeerInv
  <2>4. ToSet(save[c]) \in SUBSET p.outstanding
    BY <2>3 DEF ToSet
  <2>5. MemoryOf(ToSet(save[c])) <= MemoryOf(p.outstanding)
    BY <2>2, <2>4, MemoryPart
  <2> QED
    BY <2>1, <2>5 DEF PeerInv
<1>2. Inv => ReceiverMemoryBounded
  BY <1>1 DEF ReceiverMemoryBounded
<1> QED
  BY <1>2, InvAlways, PTL

\* No client that runs this code is refused, whatever reports cross whatever sends, and its
\* startup fails only over its own replay: no tick overtakes Start at a client
\* (NobodyRefused; startup.rs 113-160, 213-263, run_client.rs 123-132).
THEOREM HonestAccepted == Spec => []NobodyRefused
<1>1. Inv => NobodyRefused
  BY DEF Inv, StartupInv, Good, ClientInv, NobodyRefused
<1> QED
  BY <1>1, InvAlways, PTL

\* Start goes to a full roster in which every process that is still there replayed the
\* save to its declared end, and nobody plays before (BarrierSound; run_server.rs 259-276).
THEOREM StartSound == Spec => []BarrierSound
<1>1. ASSUME Inv, pc = "started", NEW c \in peers
      PROVE  /\ client[c].phase \in {"awaiting", "live", "away"}
             /\ client[c].phase # "away" => client[c].sound /\ client[c].replayed = FinalTick
  <2>1. c \in Clients /\ peer[c].phase = "ready" /\ ClientInv(c) /\ LinkInv(c)
    BY <1>1 DEF Inv, TypeOK, StartupInv, RosterInv, Good
  <2> QED
    BY <2>1 DEF LinkInv, ClientInv
<1>2. ASSUME Inv PROVE BarrierSound
  <2>1. pc = "started" => Cardinality(peers) = Expected
    BY <1>2 DEF Inv, StartupInv, RosterInv
  <2>2. \A c \in Clients : client[c].phase = "live" => pc = "started" /\ c \in peers
    BY <1>2 DEF Inv, StartupInv, Good, StartInv
  <2> QED
    BY <1>1, <1>2, <2>1, <2>2 DEF BarrierSound
<1> QED
  BY <1>2, InvAlways, PTL

\* A peer that is ready is never disconnected by the authority, however long the others
\* take: neither its timer nor a late message ends its connection (ReadyWaits;
\* startup.rs 168-170, run_server.rs 255-257).
THEOREM ReadyKept == Spec => ReadyWaits
<1>1. ASSUME Inv, [Next]_vars, NEW c \in peers, peer[c].phase = "ready", conn[c] = "up"
      PROVE  conn'[c] # "closed"
  <2>1. c \in Clients /\ conn \in [Clients -> {"none", "up", "closed"}]
    BY <1>1 DEF Inv, TypeOK
  <2>2. ASSUME conn'[c] # conn[c], ~Abandon
        PROVE  \/ \E d \in Clients : Connected(d) \/ Gone(d) \/ Receive(d) \/ PeerServed(d)
    <3>1. Next
      BY <1>1, <2>2 DEF vars, roster
    <3>2. ASSUME NEW d \in Clients, Client(d) PROVE conn' = conn
      BY <3>2 DEF Client, ReceiveSave, ReportReceived, Step, ReceiveStart, ReceiveTick,
                       ReceiveLockstep, NoStart, roster
    <3>3. ASSUME NEW d \in Clients, Pump(d) \/ Acknowledged(d) \/ Leave(d)
          PROVE  conn' = conn
      BY <3>3 DEF Pump, Acknowledged, Leave, roster, server
    <3>4. NetworkDone \/ Count \/ BroadcastTick \/ Elapse \/ Terminated => conn' = conn
      BY DEF NetworkDone, Count, BroadcastTick, Elapse, Terminated, vars, roster
    <3> QED
      BY <2>2, <3>1, <3>2, <3>3, <3>4 DEF Next, Server, Removed, Lost
  <2>3. ASSUME Abandon PROVE conn'[c] # "closed"
    BY <2>1, <2>3 DEF Abandon
  <2>4. ASSUME NEW d \in Clients, Connected(d) PROVE conn'[c] # "closed"
    BY <1>1, <2>1, <2>4 DEF Connected
  <2>5. ASSUME NEW d \in Clients, Gone(d) PROVE conn'[c] # "closed"
    BY <1>1, <2>1, <2>5 DEF Gone
  <2>6. ASSUME NEW d \in Clients, Receive(d) PROVE conn'[c] # "closed"
    <3>1. Acceptable(peer[d], Head(up[d]))
      BY <1>1, <2>6, HonestAcceptable DEF Receive
    <3> QED
      BY <1>1, <2>6, <3>1 DEF Receive
  <2>7. ASSUME NEW d \in Clients, PeerServed(d) PROVE conn'[c] # "closed"
    BY <1>1, <2>1, <2>7 DEF PeerServed, Drop, TimedOut
  <2> QED
    BY <1>1, <2>2, <2>3, <2>4, <2>5, <2>6, <2>7
<1>2. ASSUME Inv, [Next]_vars
      PROVE  [\A c \in peers : peer[c].phase = "ready" /\ conn[c] = "up" => conn'[c] # "closed"]_vars
  BY <1>1, <1>2
<1> QED
  BY <1>2, InvAlways, PTL DEF Spec, ReadyWaits
=============================================================================
