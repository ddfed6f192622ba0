------------------------------- MODULE Codec -------------------------------
(***************************************************************************)
(* The payload codec of codec.rs with the code the Wire derive generates   *)
(* (synctick-derive/src/wire.rs), and the byte stream behind a state hash  *)
(* (hashing.rs and its derive). A schema gives every type its shape:       *)
(*                                                                         *)
(*   [kind |-> "scalar", size]      a little-endian integer                *)
(*   [kind |-> "unit"], [kind |-> "string"], [kind |-> "vec", elem]        *)
(*   [kind |-> "struct", fields, skipped]                                  *)
(*   [kind |-> "enum", variants, skipped]                                  *)
(*                                                                         *)
(* where fields are the types of a struct's fields and skipped the places  *)
(* of those with #[stable_hash(skip)]; an enum has both for each byte tag. *)
(* Values are numbers, sequences, and <<tag, fields>>. A byte is a digit   *)
(* below Base and the widths of a count (u32) and a hashed length (u64)    *)
(* are parameters. The allocations that may fail for lack of memory do not *)
(* fail here.                                                              *)
(***************************************************************************)
EXTENDS Integers, SequencesExt

CONSTANTS
  Schema,        \* type -> shape
  Memory,        \* type -> size_of a value of it
  Base,          \* values of a byte
  CountBytes,    \* bytes of a collection's count
  LengthBytes,   \* bytes of a hashed length
  NotUtf8,       \* bytes that make a string invalid
  MaxPayload,    \* MAX_PAYLOAD_BYTES
  MaxAllocation, \* MAX_ALLOCATION_BYTES
  MaxDepth,      \* MAX_DEPTH
  Refused        \* an error

Shape(t) == Schema[t]

AtLeastOne(n) == IF n = 0 THEN 1 ELSE n

\* MIN_SIZE: the least number of bytes a value takes.
RECURSIVE MinSize(_)
MinSize(t) ==
  LET s == Shape(t)
      Plus(sum, u) == sum + MinSize(u)
      SizeOfAll(ts) == FoldLeft(Plus, 0, ts)
  IN CASE s.kind = "scalar" -> s.size
       [] s.kind = "unit"   -> 1
       [] s.kind \in {"vec", "string"} -> CountBytes
       [] s.kind = "struct" -> SizeOfAll(s.fields)
       [] s.kind = "enum"   -> 1 + Min({SizeOfAll(s.variants[tag]) :
                                          tag \in DOMAIN s.variants})

-----------------------------------------------------------------------------
\* The Decoder. A reader is what is left, what has been counted and reserved,
\* the nesting, whether it still succeeds, and the last value read.

NewReader(bytes) ==
  [ok |-> TRUE, rest |-> bytes, allocation |-> 0, made |-> 0, depth |-> 0, val |-> <<>>]
Fail(r) == [r EXCEPT !.ok = FALSE]
Require(r, condition) == IF condition THEN r ELSE Fail(r)

\* Decoder::take
Take(r, n) ==
  IF ~r.ok \/ n > Len(r.rest) THEN Fail(r)
  ELSE [r EXCEPT !.val = SubSeq(r.rest, 1, n), !.rest = SubSeq(@, n + 1, Len(@))]

\* from_le_bytes and to_le_bytes
Number(bytes) == LET Shift(b, high) == b + Base * high IN FoldRight(Shift, bytes, 0)
LittleEndian(v, size) == [i \in 1..size |-> (v \div Base ^ (i - 1)) % Base]

TakeNumber(r, size) ==
  LET taken == Take(r, size)
  IN IF taken.ok THEN [taken EXCEPT !.val = Number(taken.val)] ELSE taken

\* Mutant: every collection is given a budget of its own.
ChargedAlone(n, size) == size

\* The allocation of a payload so far and of one more collection.
Charged(n, size) == n.allocation + size

\* Decoder::count, of elements of type t
Count(r, t) ==
  LET n     == TakeNumber(r, CountBytes)
      total == Charged(n, n.val * AtLeastOne(Memory[t]))
  IN IF ~n.ok \/ n.val > Len(n.rest) \div MinSize(t) THEN Fail(n)
     ELSE Require([n EXCEPT !.allocation = total], total <= MaxAllocation)

\* Decoder::enter
Enter(r) == Require([r EXCEPT !.depth = @ + 1], r.depth + 1 <= MaxDepth)
Leave(r) == [r EXCEPT !.depth = @ - 1]

Utf8(bytes) == \A i \in DOMAIN bytes : bytes[i] \notin NotUtf8

TakeText(n) ==
  LET text == Take(n, n.val)
  IN IF text.ok THEN Require(text, Utf8(text.val)) ELSE text

\* A byte that must be zero.
TakeUnit(r) == LET u == TakeNumber(r, 1) IN IF u.ok THEN Require(u, u.val = 0) ELSE u

-----------------------------------------------------------------------------
\* Wire::validate, which traverses the whole shape and builds nothing.
RECURSIVE Validate(_, _), ValidateAll(_, _)
ValidateAll(ts, r) ==
  IF ts = <<>> \/ ~r.ok THEN r ELSE ValidateAll(Tail(ts), Validate(Head(ts), r))
Validate(t, r) ==
  LET s == Shape(t)
  IN CASE s.kind = "scalar" -> Take(r, s.size)
       [] s.kind = "unit"   -> TakeUnit(r)
       [] s.kind = "string" ->
            LET n == Count(r, "byte") IN IF n.ok THEN TakeText(n) ELSE n
       [] s.kind = "vec" ->
            LET n == Count(Enter(r), s.elem)
            IN IF n.ok THEN Leave(ValidateAll([i \in 1..n.val |-> s.elem], n)) ELSE n
       [] s.kind = "struct" -> ValidateAll(s.fields, r)
       [] s.kind = "enum" ->
            LET tag == TakeNumber(r, 1)
            IN IF ~tag.ok \/ tag.val \notin DOMAIN s.variants THEN Fail(tag)
               ELSE ValidateAll(s.variants[tag.val], tag)

\* try_reserve_exact, after the count was accepted.
Reserve(n, size) == [n EXCEPT !.made = @ + n.val * size]

\* Wire::decode; DecodeAll reads one value of each type into a sequence.
RECURSIVE Decode(_, _), DecodeAll(_, _, _)
DecodeAll(ts, r, values) ==
  IF ts = <<>> \/ ~r.ok THEN [r EXCEPT !.val = values]
  ELSE LET next == Decode(Head(ts), r)
       IN DecodeAll(Tail(ts), next, Append(values, next.val))
Decode(t, r) ==
  LET s == Shape(t)
  IN CASE s.kind = "scalar" -> TakeNumber(r, s.size)
       [] s.kind = "unit"   -> TakeUnit(r)
       [] s.kind = "string" ->
            LET n == Count(r, "byte") IN IF n.ok THEN TakeText(Reserve(n, 1)) ELSE n
       [] s.kind = "vec" ->
            LET n == Count(Enter(r), s.elem)
            IN IF ~n.ok THEN n
               ELSE Leave(DecodeAll([i \in 1..n.val |-> s.elem],
                                    Reserve(n, AtLeastOne(Memory[s.elem])), <<>>))
       [] s.kind = "struct" -> DecodeAll(s.fields, r, <<>>)
       [] s.kind = "enum" ->
            LET tag == TakeNumber(r, 1)
            IN IF ~tag.ok \/ tag.val \notin DOMAIN s.variants THEN Fail(tag)
               ELSE LET fields == DecodeAll(s.variants[tag.val], tag, <<>>)
                    IN [fields EXCEPT !.val = <<tag.val, @>>]

\* Mutant: what follows the value is ignored.
Succeeded(r) == r.ok

\* Decoder::finish
Finished(r) == r.ok /\ r.rest = <<>>

\* codec::validate
Valid(t, bytes) == Len(bytes) <= MaxPayload /\ Finished(Validate(t, NewReader(bytes)))

\* codec::decode
Decoded(t, bytes) ==
  LET Value(r) == IF Finished(r) THEN r.val ELSE Refused
  IN IF Valid(t, bytes) THEN Value(Decode(t, NewReader(bytes))) ELSE Refused

\* Wire::encode
RECURSIVE Bytes(_, _), BytesOfAll(_, _)
BytesOfAll(ts, values) ==
  IF ts = <<>> THEN <<>> ELSE Bytes(Head(ts), Head(values)) \o BytesOfAll(Tail(ts), Tail(values))
Bytes(t, v) ==
  LET s == Shape(t)
  IN CASE s.kind = "scalar" -> LittleEndian(v, s.size)
       [] s.kind = "unit"   -> <<0>>
       [] s.kind = "string" -> LittleEndian(Len(v), CountBytes) \o v
       [] s.kind = "vec"    -> LittleEndian(Len(v), CountBytes)
                                 \o BytesOfAll([i \in DOMAIN v |-> s.elem], v)
       [] s.kind = "struct" -> BytesOfAll(s.fields, v)
       [] s.kind = "enum"   -> <<v[1]>> \o BytesOfAll(s.variants[v[1]], v[2])

\* codec::encode of a value whose collections can be counted.
Encoded(t, v) ==
  LET bytes == Bytes(t, v)
  IN IF Len(bytes) <= MaxPayload /\ Valid(t, bytes) THEN bytes ELSE Refused

-----------------------------------------------------------------------------
\* StableHash::hash_into: the bytes the fingerprint is computed from. A unit has
\* none, a string and a vector are preceded by their length, a skipped field of a
\* struct or of a variant is left out.

\* Mutant: a pattern has as many bindings as fields are hashed, so it binds the first.
KeptFirst(ts, skipped, values) ==
  LET Hashed(i) == i \notin skipped
      kept == SelectSeq([i \in DOMAIN ts |-> i], Hashed)
  IN [i \in DOMAIN kept |-> [type |-> ts[i], value |-> values[i]]]

\* The fields of a struct or of a variant that are hashed, with their types.
Kept(ts, skipped, values) ==
  LET Hashed(i) == i \notin skipped
      kept == SelectSeq([i \in DOMAIN ts |-> i], Hashed)
  IN [i \in DOMAIN kept |-> [type |-> ts[kept[i]], value |-> values[kept[i]]]]

\* Mutant: a collection is hashed without its length.
Unframed(n) == <<>>

\* The length before a string or a sequence.
Framed(n) == LittleEndian(n, LengthBytes)

RECURSIVE Stream(_, _)
StreamOfAll(fields) ==
  FlattenSeq([i \in DOMAIN fields |-> Stream(fields[i].type, fields[i].value)])
Stream(t, v) ==
  LET s == Shape(t)
  IN CASE s.kind = "scalar" -> LittleEndian(v, s.size)
       [] s.kind = "unit"   -> <<>>
       [] s.kind = "string" -> Framed(Len(v)) \o v
       [] s.kind = "vec"    ->
            Framed(Len(v)) \o StreamOfAll([i \in DOMAIN v |-> [type |-> s.elem, value |-> v[i]]])
       [] s.kind = "struct" -> StreamOfAll(Kept(s.fields, s.skipped, v))
       [] s.kind = "enum"   ->
            <<v[1]>> \o StreamOfAll(Kept(s.variants[v[1]], s.skipped[v[1]], v[2]))
=============================================================================
