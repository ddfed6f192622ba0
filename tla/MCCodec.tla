------------------------------ MODULE MCCodec ------------------------------
(***************************************************************************)
(* Both formats over every byte string up to a bound: the messages, which  *)
(* a state of Messages decodes as its type, and the payloads inside them,  *)
(* which every state decodes as each type of a schema.                     *)
(***************************************************************************)
EXTENDS Messages, TLC

CONSTANTS
  CountBytes, LengthBytes, NotUtf8, MaxAllocation, MaxDepth,
  MaxDigits  \* bound: length of the payloads, one digit over their MAX_PAYLOAD_BYTES

\* A type of every shape, vectors in vectors, and a recursive type as a game may
\* define one (an enum whose variant holds a vector of itself).
Scalar1(size) == [kind |-> "scalar", size |-> size]
VecOf(t)      == [kind |-> "vec", elem |-> t]
StructOf(fields, skipped) == [kind |-> "struct", fields |-> fields, skipped |-> skipped]
EnumOf(variants, skipped) == [kind |-> "enum", variants |-> variants, skipped |-> skipped]
Nothing(variants)         == [tag \in DOMAIN variants |-> {}]

MCSchema ==
  [byte    |-> Scalar1(1),
   wide    |-> Scalar1(2),
   unit    |-> [kind |-> "unit"],
   text    |-> [kind |-> "string"],
   bytes   |-> VecOf("byte"),
   units   |-> VecOf("unit"),
   texts   |-> VecOf("text"),
   table   |-> VecOf("bytes"),
   pair    |-> StructOf(<<"bytes", "text">>, {}),
   cached  |-> StructOf(<<"byte", "wide", "units">>, {2}),
   command |-> LET fields == 0 :> <<>> @@ 2 :> <<"byte", "unit">>
               IN EnumOf(fields, Nothing(fields)),
   hint    |-> EnumOf(1 :> <<"byte", "byte", "bytes">> @@ 3 :> <<"byte">>, 1 :> {1} @@ 3 :> {1}),
   hints   |-> VecOf("hint"),
   tree    |-> LET fields == 1 :> <<"byte">> @@ 2 :> <<"trees">>
               IN EnumOf(fields, Nothing(fields)),
   trees   |-> VecOf("tree")]

MCMemory ==
  [t \in DOMAIN MCSchema |->
     CASE t = "unit" -> 0 [] t = "byte" -> 1 [] t \in {"wide", "command"} -> 2 [] OTHER -> 3]

Payloads == INSTANCE Codec WITH
  Schema <- MCSchema, Memory <- MCMemory, MaxPayload <- MaxDigits - 1

-----------------------------------------------------------------------------
\* Bytes mean one value and a value one string of bytes: what decodes encodes to
\* the same bytes again, and neither a shorter nor a longer string decodes too. So
\* peers and recordings agree on what was sent, and a truncated or extended payload
\* is refused (codec.rs and the Wire derive).
RoundTrips ==
  LET Faithful(t, v) ==
        v # Refused =>
          /\ Payloads!Encoded(t, v) = bytes
          /\ \A n \in 0..(Len(bytes) - 1) : Payloads!Decoded(t, SubSeq(bytes, 1, n)) = Refused
  IN Len(bytes) <= MaxDigits =>
       \A t \in DOMAIN MCSchema : Faithful(t, Payloads!Decoded(t, bytes))

\* Nothing is allocated for bytes that will be refused, and what is allocated is
\* within budget: the second pass succeeds whenever the first did and reserves
\* exactly what the first counted (codec.rs, validate and decode).
PassesAgree ==
  LET Agree(first, second) ==
        first.ok => /\ second.ok /\ second.rest = first.rest
                    /\ first.depth = 0 /\ first.made = 0
                    /\ second.made = first.allocation /\ second.made <= MaxAllocation
      Reader == Payloads!NewReader(bytes)
  IN Len(bytes) <= MaxDigits =>
       \A t \in DOMAIN MCSchema :
         Agree(Payloads!Validate(t, Reader), Payloads!Decode(t, Reader))

\* Values of a type that some short string of bytes encodes.
Strings == UNION {[1..n -> 0..(Base - 1)] : n \in 0..5}
Samples(t) == {Payloads!Decoded(t, b) : b \in Strings} \ {Refused}

\* What two values must share to count as the same state: all but the skipped fields,
\* at any depth.
RECURSIVE Same(_, _, _)
Same(t, v, w) ==
  LET s == MCSchema[t]
      Fields(ts, skipped, vs, ws) == \A i \in DOMAIN ts \ skipped : Same(ts[i], vs[i], ws[i])
  IN CASE s.kind = "vec" ->
            Len(v) = Len(w) /\ \A i \in DOMAIN v : Same(s.elem, v[i], w[i])
       [] s.kind = "struct" -> Fields(s.fields, s.skipped, v, w)
       [] s.kind = "enum" ->
            v[1] = w[1] /\ Fields(s.variants[v[1]], s.skipped[v[1]], v[2], w[2])
       [] OTHER -> v = w

\* What a hash is computed from is the same for two states exactly when they differ in
\* skipped fields only, those of structs and of variants, at any depth: no boundary
\* between fields or elements is lost (hashing.rs and the StableHash derive).
HashesTellApart ==
  bytes = <<>> =>
    \A t \in DOMAIN MCSchema : \A v, w \in Samples(t) :
      (Payloads!Stream(t, v) = Payloads!Stream(t, w)) <=> Same(t, v, w)
=============================================================================
