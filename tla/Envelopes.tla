----------------------------- MODULE Envelopes -----------------------------
(***************************************************************************)
(* The framework's own messages as bytes (protocol.rs): every decoder runs *)
(* one reading function twice over the same bytes, first without and then  *)
(* with materializing, and refuses what is left over. Integers are         *)
(* bincode's variable-length ones: a byte below Base - 1 is itself, the    *)
(* byte Base - 1 announces a second byte (one width stands for all). A     *)
(* command payload has the budget MAX_PAYLOAD_BYTES of codec.rs.           *)
(***************************************************************************)
EXTENDS Integers, Sequences

CONSTANTS
  Base,        \* values of a byte
  MaxPayload,  \* MAX_PAYLOAD_BYTES
  MaxChunk,    \* MAX_SAVE_CHUNK_BYTES
  MaxRecord,   \* MAX_REPLAY_RECORD_BYTES
  Refused      \* an error

ASSUME BaseAssumption == Base \in Nat /\ Base >= 4
ASSUME BudgetAssumption == MaxPayload \in Nat /\ MaxChunk \in Nat /\ MaxRecord \in Nat

Envelopes == {"client", "server", "save", "desync", "tick"}

\* Cursor: what is left, what this pass does and what it has reserved, with the result
\* of the reading so far.
Passes == {"measure", "materialize"}
Cursor(bytes, pass) ==
  [result |-> "ok", rest |-> bytes, pass |-> pass, made |-> 0, val |-> <<>>]
Ok(c) == c.result = "ok"
Stop(c) == [c EXCEPT !.result = "err"]

\* What was read, and the bytes that took.
Gives(c, v) == [c EXCEPT !.val = v]
Skip(c, n)  == [c EXCEPT !.rest = SubSeq(@, n + 1, Len(@))]

\* Cursor::scalar
Scalar(c) ==
  IF ~Ok(c) \/ c.rest = <<>> THEN Stop(c)
  ELSE IF c.rest[1] < Base - 1 THEN Gives(Skip(c, 1), c.rest[1])
  ELSE IF Len(c.rest) < 2 THEN Stop(c)
  ELSE Gives(Skip(c, 2), c.rest[2])

\* Mutant: the fields of a variant are read in another order than written.
HashFirst(tick, hash) == Gives(hash, [tick |-> hash.val, hash |-> tick.val])

\* The bodies made of integers only, a field after the fields before it.
WithHash(tick, hash) == Gives(hash, [tick |-> tick.val, hash |-> hash.val])
TickHashAfter(tick) == WithHash(tick, Scalar(tick))
TickHash(c) == TickHashAfter(Scalar(c))

WithReplayed(received, replayed) ==
  Gives(replayed, [received_bytes |-> received.val, replayed_tick |-> replayed.val])
ReplayedAfter(received) == WithReplayed(received, Scalar(received))
Progress(c) == ReplayedAfter(Scalar(c))

WithTickHash(total, of) ==
  Gives(of, [total_bytes |-> total.val, tick |-> of.val.tick, hash |-> of.val.hash])
MetadataAfter(total) == WithTickHash(total, TickHash(total))
SaveMetadata(c) == MetadataAfter(Scalar(c))

\* Cursor::length
Within(n) == IF Ok(n) /\ n.val > Len(n.rest) THEN Stop(n) ELSE n
Length(c) == Within(Scalar(c))

\* Mutant: room is reserved in the measuring pass too.
ReservedTwice(n) == [n EXCEPT !.made = @ + n.val]

\* Reserve room for what was just counted, in the materializing pass.
Reserved(n) == IF n.pass = "materialize" THEN [n EXCEPT !.made = @ + n.val] ELSE n

\* As many bytes as n counted, kept when materializing, if that many are allowed.
Kept(n) == IF n.pass = "materialize" THEN SubSeq(n.rest, 1, n.val) ELSE <<>>
TakeBytes(n, allowed) ==
  IF Ok(n) /\ n.val \in allowed THEN Gives(Skip(Reserved(n), n.val), Kept(n)) ELSE Stop(n)

\* Cursor::payload
Payload(c) == TakeBytes(Length(c), 0..MaxPayload)

\* ParticipantId: the host, or a remote participant and its number.
Remote(id) == Gives(id, <<id.val>>)
ParticipantOf(tag) ==
  IF ~Ok(tag) THEN tag
  ELSE CASE tag.val = 0 -> Gives(tag, <<>>)
         [] tag.val = 1 -> Remote(Scalar(tag))
         [] OTHER       -> Stop(tag)
Participant(c) == ParticipantOf(Scalar(c))

\* One command of a tick, after the participant it is of.
WithPayload(who, payload) ==
  Gives(payload, [participant |-> who.val, payload |-> payload.val])
CommandAfter(who) == WithPayload(who, Payload(who))

\* One more command of a tick, kept when materializing.
Push(c, next) ==
  Gives(next, IF c.pass = "materialize" THEN Append(c.val, next.val) ELSE c.val)
OneMore(c) == IF Ok(c) THEN Push(c, CommandAfter(Participant(c))) ELSE c

\* Cursor::tick after its count: one command after another.
CommandsOf(c, count) ==
  LET read[k \in 0..count] == IF k = 0 THEN Gives(c, <<>>) ELSE OneMore(read[k - 1])
  IN read[count]

Inputs(n) == IF Ok(n) THEN CommandsOf(Reserved(n), n.val) ELSE n

\* Cursor::tick
WithInputs(number, inputs) == Gives(inputs, [tick |-> number.val, inputs |-> inputs.val])
InputsAfter(number) == WithInputs(number, Inputs(Length(number)))
TickAdvance(c) == InputsAfter(Scalar(c))

\* A save chunk is neither empty nor over its budget.
Chunk(c) == TakeBytes(Length(c), 1..MaxChunk)

Named(c, variant) == Gives(c, [variant |-> variant, body |-> c.val])

\* decode_client_message
ClientMessage(tag) ==
  IF ~Ok(tag) THEN tag
  ELSE CASE tag.val = 0 -> Named(Payload(tag), "Input")
         [] tag.val = 1 -> Named(Progress(tag), "Progress")
         [] tag.val = 2 -> Named(TickHash(tag), "Ready")
         [] OTHER       -> Stop(tag)

\* decode_server_message
ServerMessage(tag) ==
  IF ~Ok(tag) THEN tag
  ELSE CASE tag.val = 0 -> Named(TickHash(tag), "Start")
         [] tag.val = 1 -> Named(TickAdvance(tag), "Tick")
         [] OTHER       -> Stop(tag)

\* decode_save_message
SaveMessage(tag) ==
  IF ~Ok(tag) THEN tag
  ELSE CASE tag.val = 0 -> Named(SaveMetadata(tag), "Begin")
         [] tag.val = 1 -> Named(Chunk(tag), "Chunk")
         [] OTHER       -> Stop(tag)

Read(envelope, c) ==
  CASE envelope = "client" -> ClientMessage(Scalar(c))
    [] envelope = "server" -> ServerMessage(Scalar(c))
    [] envelope = "save"   -> SaveMessage(Scalar(c))
    [] envelope = "desync" -> TickHash(c)
    [] envelope = "tick"   -> TickAdvance(c)

WithinRecord(envelope, bytes) == envelope \in {"server", "tick"} => Len(bytes) <= MaxRecord

\* Mutant: what follows the message is ignored.
AnyRest(c) == c

\* No trailing bytes.
Exhausted(c) == IF Ok(c) /\ c.rest # <<>> THEN Stop(c) ELSE c

\* One pass over the whole message.
Pass(envelope, bytes, pass) == Exhausted(Read(envelope, Cursor(bytes, pass)))

\* validated: the second pass is reached only by what the first accepted.
ValueOf(c) == IF Ok(c) THEN c.val ELSE Refused
Opened(envelope, bytes) ==
  IF WithinRecord(envelope, bytes) /\ Ok(Pass(envelope, bytes, "measure"))
    THEN ValueOf(Pass(envelope, bytes, "materialize")) ELSE Refused

-----------------------------------------------------------------------------
\* encode: bincode's form of a message (external), integers as short as they go.
Varint(v) == IF v < Base - 1 THEN <<v>> ELSE <<Base - 1, v>>
Prefixed(bytes) == Varint(Len(bytes)) \o bytes

ParticipantBytes(who) == IF who = <<>> THEN <<0>> ELSE <<1>> \o Varint(who[1])
CommandBytes(c) == ParticipantBytes(c.participant) \o Prefixed(c.payload)

\* One command after another: the last k of them, and all.
Packed(commands) ==
  LET packed[k \in 0..Len(commands)] ==
        IF k = 0 THEN <<>>
        ELSE CommandBytes(commands[Len(commands) - k + 1]) \o packed[k - 1]
  IN packed[Len(commands)]

TickBytes(t) == Varint(t.tick) \o Varint(Len(t.inputs)) \o Packed(t.inputs)

Sealed(envelope, m) ==
  LET Two(a, b) == Varint(a) \o Varint(b)
  IN CASE envelope = "desync" -> Two(m.tick, m.hash)
       [] envelope = "tick"   -> TickBytes(m)
       [] OTHER ->
         CASE m.variant = "Input"    -> <<0>> \o Prefixed(m.body)
           [] m.variant = "Progress" -> <<1>> \o Two(m.body.received_bytes, m.body.replayed_tick)
           [] m.variant = "Ready"    -> <<2>> \o Two(m.body.tick, m.body.hash)
           [] m.variant = "Start"    -> <<0>> \o Two(m.body.tick, m.body.hash)
           [] m.variant = "Tick"     -> <<1>> \o TickBytes(m.body)
           [] m.variant = "Begin"    -> <<0>> \o Varint(m.body.total_bytes)
                                              \o Two(m.body.tick, m.body.hash)
           [] m.variant = "Chunk"    -> <<1>> \o Prefixed(m.body)
=============================================================================
