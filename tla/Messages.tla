------------------------------ MODULE Messages ------------------------------
(***************************************************************************)
(* Envelopes over every byte string up to a bound: the state is a type of  *)
(* message and the bytes someone hands to its decoder.                     *)
(***************************************************************************)
EXTENDS Envelopes

CONSTANT MaxBytes  \* bound: length of the byte strings

VARIABLES type, bytes

Init == type \in Envelopes /\ bytes = <<>>

Next ==
  /\ Len(bytes) < MaxBytes
  /\ \E b \in 0..(Base - 1) : bytes' = Append(bytes, b)
  /\ UNCHANGED type

Spec == Init /\ [][Next]_<<type, bytes>>

-----------------------------------------------------------------------------
\* Peers and recordings agree on what was sent: what was read from any bytes is read
\* again from the bytes it is sent as, though those may be others, for integers have
\* longer forms (protocol.rs, encode and the decoders).
OneMeaning ==
  LET Faithful(m) == m # Refused => Opened(type, Sealed(type, m)) = m
  IN Faithful(Opened(type, bytes))

\* No message begins another: a truncated or an extended one is refused, whatever the
\* lengths inside it claim (protocol.rs, validated).
Delimited ==
  Opened(type, bytes) # Refused =>
    \A n \in 0..(Len(bytes) - 1) : Opened(type, SubSeq(bytes, 1, n)) = Refused

\* Sender and receiver agree where a message ends and what it says, whatever the
\* bytes in between (protocol.rs, encode and validated).
Unambiguous == OneMeaning /\ Delimited

\* Nothing is reserved for bytes that will be refused, and no more than was received: the
\* first pass reserves nothing, the second succeeds whenever the first did, and it
\* reserves no more elements than there are bytes, however many a count claims
\* (protocol.rs, validated, Cursor::length).
MeasuredFirst ==
  LET Agree(first, second) ==
        Ok(first) => Ok(second) /\ first.made = 0 /\ second.made <= Len(bytes)
  IN Agree(Pass(type, bytes, "measure"), Pass(type, bytes, "materialize"))
=============================================================================
