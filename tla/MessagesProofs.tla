--------------------------- MODULE MessagesProofs ---------------------------
(***************************************************************************)
(* Theorems about the framework's messages, for every budget and for bytes *)
(* of any length: the two passes of a decoder agree, no message begins     *)
(* another, and what was read is read again from what it is sent as. Each  *)
(* follows the readers from part to part: what a part reserves (Spends),   *)
(* that it looks at its own bytes only (Follows), that it reads what was   *)
(* sent (Yields), and that sending that takes no more bytes (Sends).       *)
(***************************************************************************)
EXTENDS Messages, Sums, SequenceTheorems

Byte == 0..Base - 1

\* A cursor over bytes, as the decoders leave it.
Shaped(c) ==
  /\ c = [result |-> c.result, rest |-> c.rest, pass |-> c.pass, made |-> c.made,
          val |-> c.val]
  /\ c.result \in {"ok", "err"} /\ c.rest \in Seq(Byte)
  /\ c.pass \in Passes /\ c.made \in Nat

\* s without its first n bytes.
After(s, n) == SubSeq(s, n + 1, Len(s))

\* What is left after some bytes are bytes, as many as were not taken.
LEMMA AfterShape ==
  ASSUME NEW S, NEW s \in Seq(S), NEW n \in 0..Len(s)
  PROVE  /\ After(s, n) \in Seq(S) /\ Len(After(s, n)) = Len(s) - n
         /\ \A i \in 1..Len(s) - n : After(s, n)[i] = s[n + i]
<1>1. \A i \in n + 1..Len(s) : s[i] \in S
  OBVIOUS
<1>2. /\ SubSeq(s, n + 1, Len(s)) \in Seq(S)
      /\ Len(SubSeq(s, n + 1, Len(s))) = IF n + 1 <= Len(s) THEN Len(s) - (n + 1) + 1 ELSE 0
      /\ \A i \in 1..Len(s) - (n + 1) + 1 : SubSeq(s, n + 1, Len(s))[i] = s[n + 1 + i - 1]
  BY <1>1, SubSeqProperties
<1> QED
  BY <1>2 DEF After

\* Taking bytes off the front does not look at what follows.
LEMMA AfterConcat ==
  ASSUME NEW S, NEW s \in Seq(S), NEW x \in Seq(S), NEW n \in 0..Len(s)
  PROVE  After(s \o x, n) = After(s, n) \o x
<1>1. /\ s \o x \in Seq(S) /\ Len(s \o x) = Len(s) + Len(x)
      /\ \A i \in 1..Len(s) + Len(x) : (s \o x)[i] = IF i <= Len(s) THEN s[i] ELSE x[i - Len(s)]
  BY ConcatProperties
<1>2. /\ After(s, n) \in Seq(S) /\ Len(After(s, n)) = Len(s) - n
      /\ \A i \in 1..Len(s) - n : After(s, n)[i] = s[n + i]
  BY AfterShape
<1>3. PICK a : a = After(s, n)
  OBVIOUS
<1>4. /\ a \o x \in Seq(S) /\ Len(a \o x) = Len(a) + Len(x)
      /\ \A i \in 1..Len(a) + Len(x) : (a \o x)[i] = IF i <= Len(a) THEN a[i] ELSE x[i - Len(a)]
  BY <1>2, <1>3, ConcatProperties
<1>5. PICK b : b = s \o x
  OBVIOUS
<1>6. b \in Seq(S) /\ n \in 0..Len(b)
  BY <1>1, <1>5
<1>7. /\ After(b, n) \in Seq(S) /\ Len(After(b, n)) = Len(b) - n
      /\ \A i \in 1..Len(b) - n : After(b, n)[i] = b[n + i]
  BY <1>6, AfterShape
<1>8. Len(After(b, n)) = Len(a \o x)
  BY <1>1, <1>2, <1>3, <1>4, <1>5, <1>7
<1>9. ASSUME NEW i \in 1..Len(After(b, n)) PROVE After(b, n)[i] = (a \o x)[i]
  BY <1>1, <1>2, <1>3, <1>4, <1>5, <1>7
<1> QED
  BY <1>3, <1>4, <1>5, <1>7, <1>8, <1>9, SeqEqual

-----------------------------------------------------------------------------
\* The parts of the readers

\* A cursor that stops keeps what it has reserved.
LEMMA StopShape ==
  ASSUME NEW c, Shaped(c)
  PROVE  /\ Shaped(Stop(c)) /\ ~Ok(Stop(c)) /\ Stop(c).pass = c.pass
         /\ Stop(c).made = c.made
BY DEF Shaped, Stop, Ok

\* Giving a value changes the value only.
LEMMA GivesShape ==
  ASSUME NEW c, NEW v, Shaped(c)
  PROVE  /\ Shaped(Gives(c, v)) /\ Gives(c, v).result = c.result
         /\ Gives(c, v).rest = c.rest /\ Gives(c, v).pass = c.pass
         /\ Gives(c, v).made = c.made /\ Gives(c, v).val = v
         /\ Ok(Gives(c, v)) <=> Ok(c)
BY DEF Shaped, Gives, Ok

\* A field set is the record written out.
LEMMA RestSet ==
  ASSUME NEW c, Shaped(c), NEW v
  PROVE  [c EXCEPT !.rest = v] = [result |-> c.result, rest |-> v, pass |-> c.pass,
                                  made |-> c.made, val |-> c.val]
BY DEF Shaped

\* So it is for what has been reserved.
LEMMA MadeSet ==
  ASSUME NEW c, Shaped(c), NEW v
  PROVE  [c EXCEPT !.made = v] = [result |-> c.result, rest |-> c.rest, pass |-> c.pass,
                                  made |-> v, val |-> c.val]
BY DEF Shaped

\* Skipping takes bytes from the rest only.
LEMMA SkipShape ==
  ASSUME NEW c, Shaped(c), NEW n \in 0..Len(c.rest)
  PROVE  /\ Shaped(Skip(c, n)) /\ Skip(c, n).rest = After(c.rest, n)
         /\ Len(Skip(c, n).rest) = Len(c.rest) - n
         /\ Skip(c, n).pass = c.pass /\ Skip(c, n).made = c.made /\ Skip(c, n).val = c.val
         /\ Ok(Skip(c, n)) <=> Ok(c)
<1>1. After(c.rest, n) \in Seq(Byte) /\ Len(After(c.rest, n)) = Len(c.rest) - n
  BY AfterShape DEF Shaped
<1>2. PICK v : v = After(c.rest, n)
  OBVIOUS
<1>3. Skip(c, n) = [c EXCEPT !.rest = v]
  BY <1>2 DEF Skip, After
<1>4. Skip(c, n) = [result |-> c.result, rest |-> v, pass |-> c.pass, made |-> c.made,
                    val |-> c.val]
  BY <1>3, RestSet
<1> QED
  BY <1>1, <1>2, <1>4 DEF Shaped, Ok

\* Reserving counts when materializing only.
LEMMA ReservedShape ==
  ASSUME NEW c, Shaped(c), c.val \in Byte
  PROVE  /\ Shaped(Reserved(c)) /\ Reserved(c).rest = c.rest
         /\ Reserved(c).pass = c.pass /\ Reserved(c).val = c.val
         /\ Reserved(c).made = IF c.pass = "materialize" THEN c.made + c.val ELSE c.made
         /\ Ok(Reserved(c)) <=> Ok(c)
<1>1. PICK m \in Nat : m = c.made + c.val
  BY BaseAssumption DEF Shaped, Byte
<1>2. CASE c.pass = "materialize"
  <2>1. Reserved(c) = [c EXCEPT !.made = m]
    BY <1>1, <1>2 DEF Reserved
  <2>2. Reserved(c) = [result |-> c.result, rest |-> c.rest, pass |-> c.pass, made |-> m,
                       val |-> c.val]
    BY <2>1, MadeSet
  <2> QED
    BY <1>1, <1>2, <2>2 DEF Shaped, Ok
<1>3. CASE c.pass # "materialize"
  BY <1>3 DEF Reserved
<1> QED
  BY <1>2, <1>3
-----------------------------------------------------------------------------
\* Every reader takes bytes off the front, and reserves less than it takes: r is c after
\* at least n bytes more than were reserved, if it still reads.
Spends(c, r, n) ==
  /\ Shaped(c) /\ Shaped(r) /\ r.pass = c.pass
  /\ c.pass = "measure" => r.made = c.made
  /\ Ok(r) => Ok(c) /\ r.made + Len(r.rest) + n <= c.made + Len(c.rest)

\* A number that counts bytes that are there.
Sized(n) == Shaped(n) /\ (Ok(n) => n.val \in Byte /\ n.val <= Len(n.rest))

\* A byte is a number.
LEMMA Bytes == Byte \subseteq Nat
BY BaseAssumption DEF Byte

\* Reading on adds up.
LEMMA SpendsTwice ==
  ASSUME NEW c, NEW r, NEW s, NEW i \in Nat, NEW j \in Nat, Spends(c, r, i), Spends(r, s, j)
  PROVE  Spends(c, s, i + j)
<1>1. /\ Len(c.rest) \in Nat /\ Len(r.rest) \in Nat /\ Len(s.rest) \in Nat
      /\ c.made \in Nat /\ r.made \in Nat /\ s.made \in Nat
  BY DEF Spends, Shaped
<1>2. ASSUME Ok(s) PROVE Ok(c) /\ s.made + Len(s.rest) + (i + j) <= c.made + Len(c.rest)
  <2>1. Ok(r) /\ s.made + Len(s.rest) + j <= r.made + Len(r.rest)
    BY <1>2 DEF Spends
  <2>2. Ok(c) /\ r.made + Len(r.rest) + i <= c.made + Len(c.rest)
    BY <2>1 DEF Spends
  <2>3. PICK a \in Nat : a = c.made + Len(c.rest)
    BY <1>1
  <2>4. PICK b \in Nat : b = r.made + Len(r.rest)
    BY <1>1
  <2>5. PICK z \in Nat : z = s.made + Len(s.rest)
    BY <1>1
  <2>6. z + (i + j) <= a
    BY <2>1, <2>2, <2>3, <2>4, <2>5
  <2> QED
    BY <2>2, <2>3, <2>5, <2>6
<1>3. /\ Shaped(c) /\ Shaped(s) /\ s.pass = c.pass
      /\ c.pass = "measure" => s.made = c.made
  BY DEF Spends
<1> QED
  BY <1>2, <1>3 DEF Spends

\* What takes i bytes takes the fewer ones too.
LEMMA SpendsLess ==
  ASSUME NEW c, NEW r, NEW i \in Nat, NEW j \in 0..i, Spends(c, r, i)
  PROVE  Spends(c, r, j)
<1>1. /\ Len(c.rest) \in Nat /\ Len(r.rest) \in Nat /\ c.made \in Nat /\ r.made \in Nat
  BY DEF Spends, Shaped
<1> QED
  BY <1>1 DEF Spends

\* Giving a value takes nothing.
LEMMA GivesSpends ==
  ASSUME NEW c, NEW r, NEW n, Spends(c, r, n), NEW v
  PROVE  Spends(c, Gives(r, v), n)
BY GivesShape DEF Spends

\* Stopping takes nothing.
LEMMA StopSpends ==
  ASSUME NEW c, Shaped(c), NEW n
  PROVE  Spends(c, Stop(c), n)
BY StopShape DEF Spends

\* An integer takes a byte at least and reserves nothing.
LEMMA ScalarShape ==
  ASSUME NEW c, Shaped(c)
  PROVE  /\ Shaped(Scalar(c)) /\ Scalar(c).pass = c.pass /\ Scalar(c).made = c.made
         /\ Ok(Scalar(c)) => /\ Ok(c) /\ Scalar(c).val \in Byte
                             /\ Len(Scalar(c).rest) + 1 <= Len(c.rest)
<1>1. CASE ~Ok(c) \/ c.rest = <<>>
  BY <1>1, StopShape DEF Scalar
<1>2. CASE Ok(c) /\ c.rest # <<>>
  <2>1. c.rest \in Seq(Byte) /\ Len(c.rest) \in Nat \ {0} /\ c.rest[1] \in Byte
    BY <1>2 DEF Shaped
  <2>2. CASE c.rest[1] < Base - 1
    <3>1. Scalar(c) = Gives(Skip(c, 1), c.rest[1])
      BY <1>2, <2>2 DEF Scalar
    <3> QED
      BY <1>2, <2>1, <3>1, SkipShape, GivesShape
  <2>3. CASE ~(c.rest[1] < Base - 1) /\ Len(c.rest) < 2
    <3>1. Scalar(c) = Stop(c)
      BY <1>2, <2>3 DEF Scalar
    <3> QED
      BY <3>1, StopShape
  <2>4. CASE ~(c.rest[1] < Base - 1) /\ ~(Len(c.rest) < 2)
    <3>1. Scalar(c) = Gives(Skip(c, 2), c.rest[2])
      BY <1>2, <2>4 DEF Scalar
    <3>2. c.rest[2] \in Byte
      BY <2>1, <2>4
    <3> QED
      BY <1>2, <2>1, <2>4, <3>1, <3>2, SkipShape, GivesShape
  <2> QED
    BY <2>2, <2>3, <2>4
<1> QED
  BY <1>1, <1>2

\* So it spends a byte.
LEMMA ScalarSpends ==
  ASSUME NEW c, Shaped(c)
  PROVE  Spends(c, Scalar(c), 1)
<1>1. /\ Len(c.rest) \in Nat /\ Len(Scalar(c).rest) \in Nat
      /\ c.made \in Nat /\ Scalar(c).made \in Nat
  BY ScalarShape DEF Shaped
<1> QED
  BY <1>1, ScalarShape DEF Spends

\* A length takes a byte and is no more than what is left.
LEMMA LengthSpends ==
  ASSUME NEW c, Shaped(c)
  PROVE  Spends(c, Length(c), 1) /\ Sized(Length(c))
<1>1. PICK n : n = Scalar(c)
  OBVIOUS
<1>2. /\ Spends(c, n, 1) /\ Shaped(n) /\ (Ok(n) => n.val \in Byte)
      /\ n.pass = c.pass /\ n.made = c.made
  BY <1>1, ScalarShape, ScalarSpends
<1>3. CASE Ok(n) /\ n.val > Len(n.rest)
  <2>1. Length(c) = Stop(n)
    BY <1>1, <1>3 DEF Length, Within
  <2> QED
    BY <2>1, <1>2, StopShape DEF Spends, Sized
<1>4. CASE ~(Ok(n) /\ n.val > Len(n.rest))
  <2>1. Length(c) = n
    BY <1>1, <1>4 DEF Length, Within
  <2>2. Ok(n) => n.val <= Len(n.rest)
    BY <1>2, <1>4, Bytes DEF Shaped
  <2> QED
    BY <2>1, <2>2, <1>2 DEF Sized
<1> QED
  BY <1>3, <1>4

\* Counted bytes are reserved and taken, one for one.
LEMMA TakeBytesSpends ==
  ASSUME NEW n, Sized(n), NEW allowed
  PROVE  Spends(n, TakeBytes(n, allowed), 0)
<1>1. CASE Ok(n) /\ n.val \in allowed
  <2> DEFINE p == Reserved(n)
             k == n.val
  <2>1. /\ Shaped(n) /\ k \in 0..Len(n.rest) /\ Len(n.rest) \in Nat /\ n.made \in Nat
        /\ n.val \in Byte
    BY <1>1, Bytes DEF Sized, Shaped
  <2>2. /\ Shaped(p) /\ Ok(p) /\ p.rest = n.rest /\ p.pass = n.pass
        /\ p.made = IF n.pass = "materialize" THEN n.made + k ELSE n.made
    BY <1>1, <2>1, ReservedShape
  <2>3. TakeBytes(n, allowed) = Gives(Skip(p, k), Kept(n))
    BY <1>1 DEF TakeBytes
  <2> HIDE DEF p, k
  <2>4. Shaped(Skip(p, k)) /\ Skip(p, k).pass = n.pass /\ Skip(p, k).made = p.made
        /\ Len(Skip(p, k).rest) = Len(n.rest) - k
    BY <2>1, <2>2, SkipShape
  <2>5. Spends(n, Skip(p, k), 0)
    BY <1>1, <2>1, <2>2, <2>4 DEF Spends
  <2> QED
    BY <2>3, <2>5, GivesSpends
<1>2. CASE ~(Ok(n) /\ n.val \in allowed)
  <2>1. TakeBytes(n, allowed) = Stop(n)
    BY <1>2 DEF TakeBytes
  <2> QED
    BY <2>1, StopSpends DEF Sized
<1> QED
  BY <1>1, <1>2

\* A payload and a chunk take a byte at least.
LEMMA PayloadSpends ==
  ASSUME NEW c, Shaped(c)
  PROVE  Spends(c, Payload(c), 1) /\ Spends(c, Chunk(c), 1)
<1>1. ASSUME NEW allowed PROVE Spends(c, TakeBytes(Length(c), allowed), 1 + 0)
  BY LengthSpends, TakeBytesSpends, SpendsTwice
<1>2. ASSUME NEW allowed PROVE Spends(c, TakeBytes(Length(c), allowed), 1)
  BY <1>1
<1> QED
  BY <1>2 DEF Payload, Chunk

\* A participant takes a byte at least.
LEMMA ParticipantSpends ==
  ASSUME NEW c, Shaped(c)
  PROVE  Spends(c, Participant(c), 1)
<1>1. PICK tag : tag = Scalar(c)
  OBVIOUS
<1>2. Shaped(tag) /\ Spends(c, tag, 1)
  BY <1>1, ScalarSpends DEF Spends
<1>3. Spends(c, Gives(tag, <<>>), 1)
  BY <1>2, GivesSpends
<1>4. Spends(c, Stop(tag), 1)
  BY <1>2, StopShape DEF Spends
<1>5. Spends(c, Remote(Scalar(tag)), 1)
  <2>1. Spends(c, Scalar(tag), 1 + 1)
    BY <1>2, ScalarSpends, SpendsTwice
  <2>2. Spends(c, Scalar(tag), 1)
    BY <2>1, SpendsLess
  <2> QED
    BY <2>2, GivesSpends DEF Remote
<1>6. ParticipantOf(tag) \in {tag, Gives(tag, <<>>), Stop(tag), Remote(Scalar(tag))}
  BY DEF ParticipantOf
<1> QED
  BY <1>1, <1>2, <1>3, <1>4, <1>5, <1>6 DEF Participant

\* A command takes two: a participant and a payload.
LEMMA OneMoreSpends ==
  ASSUME NEW c, Shaped(c)
  PROVE  Spends(c, OneMore(c), 2)
<1>1. CASE Ok(c)
  <2>1. PICK who : who = Participant(c)
    OBVIOUS
  <2>2. Spends(c, who, 1) /\ Spends(who, Payload(who), 1)
    BY <2>1, ParticipantSpends, PayloadSpends DEF Spends
  <2>3. Spends(c, Payload(who), 1 + 1)
    BY <2>2, SpendsTwice
  <2>4. Spends(c, CommandAfter(who), 2)
    BY <2>3, GivesSpends DEF CommandAfter, WithPayload
  <2>5. Spends(c, Push(c, CommandAfter(who)), 2)
    BY <2>4, GivesSpends DEF Push
  <2> QED
    BY <1>1, <2>1, <2>5 DEF OneMore
<1>2. CASE ~Ok(c)
  BY <1>2 DEF OneMore, Spends
<1> QED
  BY <1>1, <1>2

-----------------------------------------------------------------------------
\* The recursive functions of the module: the commands of a tick are read, and written,
\* one by one.

\* One command more: read from the bytes left, or written before the others.
Grown(kind, commands, was, k) ==
  CASE kind = "read" -> OneMore(was)
    [] OTHER         -> CommandBytes(commands[Len(commands) - k + 1]) \o was

\* f does so n times from a start.
Grows(kind, commands, start, n, f) ==
  f = [k \in 0..n |-> IF k = 0 THEN start ELSE Grown(kind, commands, f[k - 1], k)]

\* So it does, number by number.
AfterEach(kind, commands, start, n, f) ==
  f[0] = start /\ \A k \in 1..n : f[k] = Grown(kind, commands, f[k - 1], k)

\* A recursive function at each number.
LEMMA GrowsApplied ==
  ASSUME NEW kind, NEW commands, NEW start, NEW n \in Nat, NEW f,
         Grows(kind, commands, start, n, f)
  PROVE  AfterEach(kind, commands, start, n, f)
<1> DEFINE G(g) == [k \in 0..n |-> IF k = 0 THEN start ELSE Grown(kind, commands, g[k - 1], k)]
<1>1. f = G(f)
  BY DEF Grows
<1>2. \A k \in 0..n : G(f)[k] = IF k = 0 THEN start ELSE Grown(kind, commands, f[k - 1], k)
  OBVIOUS
<1> HIDE DEF G
<1> QED
  BY <1>1, <1>2 DEF AfterEach

\* There is such a function.
LEMMA GrowsExist ==
  ASSUME NEW kind, NEW commands, NEW start, NEW N \in Nat
  PROVE  \E f : Grows(kind, commands, start, N, f)
<1> DEFINE Has(n) == \E f : Grows(kind, commands, start, n, f)
           T == {n \in 0..N : Has(n)}
<1>1. Has(0)
  <2> DEFINE f == [k \in 0..0 |-> start]
  <2>1. f = [k \in 0..0 |-> IF k = 0 THEN start ELSE Grown(kind, commands, f[k - 1], k)]
    <3>1. \A k \in 0..0 : k = 0
      OBVIOUS
    <3> QED
      BY <3>1
  <2> HIDE DEF f
  <2>2. Grows(kind, commands, start, 0, f)
    BY <2>1 DEF Grows
  <2> QED
    BY <2>2
<1>2. ASSUME NEW n \in 1..N, Has(n - 1) PROVE Has(n)
  <2>1. PICK m \in Nat : m = n - 1
    OBVIOUS
  <2>2. PICK f : Grows(kind, commands, start, n - 1, f)
    BY <1>2
  <2>3. f[0] = start /\ \A k \in 1..m : f[k] = Grown(kind, commands, f[k - 1], k)
    <3>1. Grows(kind, commands, start, m, f)
      BY ONLY <2>1, <2>2
    <3>2. AfterEach(kind, commands, start, m, f)
      BY <3>1, GrowsApplied
    <3> QED
      BY <3>2 DEF AfterEach
  <2> DEFINE g == [k \in 0..n |-> IF k = n THEN Grown(kind, commands, f[m], n) ELSE f[k]]
  <2>4. /\ g[0] = start /\ \A k \in 1..n : g[k] = Grown(kind, commands, g[k - 1], k)
    BY <2>1, <2>3
  <2>5. g = [k \in 0..n |-> g[k]]
    OBVIOUS
  <2> HIDE DEF g
  <2>6. g = [k \in 0..n |-> IF k = 0 THEN start ELSE Grown(kind, commands, g[k - 1], k)]
    <3>1. ASSUME NEW k \in 0..n
          PROVE  g[k] = IF k = 0 THEN start ELSE Grown(kind, commands, g[k - 1], k)
      BY <2>4
    <3> QED
      BY <2>5, <3>1
  <2>7. Grows(kind, commands, start, n, g)
    BY <2>6 DEF Grows
  <2> QED
    BY <2>7
<1> HIDE DEF Has
<1>3. 0 \in T /\ \A k \in 1..N : k - 1 \in T => k \in T
  BY <1>1, <1>2
<1> HIDE DEF T
<1>4. N \in T
  BY <1>3, UpTo
<1> USE DEF T, Has
<1> QED
  BY <1>4

\* What reading some commands leaves, command by command.
LEMMA CommandsRead ==
  ASSUME NEW c, NEW count \in Nat
  PROVE  \E f : /\ f[0] = Gives(c, <<>>) /\ \A k \in 1..count : f[k] = OneMore(f[k - 1])
                /\ CommandsOf(c, count) = f[count]
<1> DEFINE f == CHOOSE g : Grows("read", <<>>, Gives(c, <<>>), count, g)
<1>1. CommandsOf(c, count) = f[count]
  BY DEF CommandsOf, Grows, Grown
<1>2. Grows("read", <<>>, Gives(c, <<>>), count, f)
  BY GrowsExist
<1>3. AfterEach("read", <<>>, Gives(c, <<>>), count, f)
  BY <1>2, GrowsApplied
<1> HIDE DEF f
<1>4. f[0] = Gives(c, <<>>) /\ \A k \in 1..count : f[k] = OneMore(f[k - 1])
  BY <1>3 DEF AfterEach, Grown
<1> QED
  BY <1>1, <1>4

\* The bytes of some commands: of the last k of them, for every k.
LEMMA CommandsPacked ==
  ASSUME NEW S, NEW commands \in Seq(S)
  PROVE  \E f : /\ f[0] = <<>>
                /\ \A k \in 1..Len(commands) :
                     f[k] = CommandBytes(commands[Len(commands) - k + 1]) \o f[k - 1]
                /\ Packed(commands) = f[Len(commands)]
<1> DEFINE f == CHOOSE g : Grows("write", commands, <<>>, Len(commands), g)
<1>1. Packed(commands) = f[Len(commands)]
  BY DEF Packed, Grows, Grown
<1>2. Grows("write", commands, <<>>, Len(commands), f)
  BY GrowsExist
<1>3. AfterEach("write", commands, <<>>, Len(commands), f)
  BY <1>2, GrowsApplied
<1> HIDE DEF f
<1>4. /\ f[0] = <<>>
      /\ \A k \in 1..Len(commands) :
           f[k] = CommandBytes(commands[Len(commands) - k + 1]) \o f[k - 1]
  BY <1>3 DEF AfterEach, Grown
<1> QED
  BY <1>1, <1>4

-----------------------------------------------------------------------------
\* Commands, ticks and messages spend as much as they say, too.

\* k commands take 2 k bytes more than they reserve.
LEMMA CommandsSpend ==
  ASSUME NEW c, Shaped(c), NEW count \in Nat
  PROVE  Spends(c, CommandsOf(c, count), 2 * count)
<1>1. PICK f : /\ f[0] = Gives(c, <<>>) /\ \A k \in 1..count : f[k] = OneMore(f[k - 1])
               /\ CommandsOf(c, count) = f[count]
  BY CommandsRead
<1> DEFINE T == {k \in 0..count : Spends(c, f[k], 2 * k)}
<1>2. Spends(c, f[0], 2 * 0)
  <2>1. Spends(c, c, 0)
    BY DEF Spends, Shaped
  <2> QED
    BY <2>1, <1>1, GivesSpends
<1>3. ASSUME NEW k \in 1..count, k - 1 \in T PROVE k \in T
  <2>1. PICK i \in Nat : i = k - 1
    OBVIOUS
  <2>2. PICK g : g = f[k - 1]
    OBVIOUS
  <2>3. Spends(c, g, 2 * i) /\ f[k] = OneMore(g)
    BY <1>1, <1>3, <2>1, <2>2
  <2>4. Spends(g, OneMore(g), 2)
    BY <2>3, OneMoreSpends DEF Spends
  <2>5. Spends(c, OneMore(g), 2 * i + 2)
    BY <2>3, <2>4, SpendsTwice
  <2>6. 2 * i + 2 = 2 * k
    BY <2>1
  <2> QED
    BY <2>3, <2>5, <2>6
<1>4. 0 \in T
  BY <1>2
<1> HIDE DEF T
<1>5. 0..count \subseteq T
  BY <1>3, <1>4, UpTo
<1> QED
  BY <1>1, <1>5 DEF T

\* So a tick's inputs take at least the bytes that were reserved for them.
LEMMA InputsSpend ==
  ASSUME NEW n, Sized(n)
  PROVE  Spends(n, Inputs(n), 0)
<1>1. CASE Ok(n)
  <2>1. PICK p : p = Reserved(n)
    OBVIOUS
  <2>2. PICK k : k = n.val
    OBVIOUS
  <2>3. PICK r : r = CommandsOf(p, k)
    OBVIOUS
  <2>4. Shaped(n) /\ k \in Nat /\ k \in Byte
    BY <1>1, <2>2, Bytes DEF Sized
  <2>5. /\ Shaped(p) /\ p.rest = n.rest /\ p.pass = n.pass
        /\ p.made = IF n.pass = "materialize" THEN n.made + k ELSE n.made
    BY <2>1, <2>2, <2>4, ReservedShape
  <2>6. Spends(p, r, 2 * k)
    BY <2>3, <2>4, <2>5, CommandsSpend
  <2>7. Inputs(n) = r
    BY <1>1, <2>1, <2>2, <2>3 DEF Inputs
  <2>8. Shaped(r) /\ r.pass = n.pass /\ (n.pass = "measure" => r.made = n.made)
    BY <2>5, <2>6 DEF Spends
  <2>9. ASSUME Ok(r) PROVE r.made + Len(r.rest) + 0 <= n.made + Len(n.rest)
    <3>1. r.made + Len(r.rest) + 2 * k <= p.made + Len(n.rest)
      BY <2>5, <2>6, <2>9 DEF Spends
    <3>2. p.made <= n.made + k /\ n.made \in Nat /\ p.made \in Nat /\ r.made \in Nat
      BY <2>4, <2>5, <2>8 DEF Shaped
    <3>3. Len(r.rest) \in Nat /\ Len(n.rest) \in Nat
      BY <2>4, <2>8 DEF Shaped
    <3> QED
      BY <2>4, <3>1, <3>2, <3>3
  <2> QED
    BY <1>1, <2>4, <2>7, <2>8, <2>9 DEF Spends
<1>2. CASE ~Ok(n)
  BY <1>2 DEF Inputs, Spends, Sized
<1> QED
  BY <1>1, <1>2

\* A tick takes what its parts do.
LEMMA TickSpends ==
  ASSUME NEW c, Shaped(c)
  PROVE  Spends(c, TickAdvance(c), 0)
<1>1. PICK number : number = Scalar(c)
  OBVIOUS
<1>2. PICK n : n = Length(number)
  OBVIOUS
<1>3. Spends(c, number, 1) /\ Shaped(number)
  BY <1>1, ScalarSpends DEF Spends
<1>4. Spends(number, n, 1) /\ Sized(n)
  BY <1>2, <1>3, LengthSpends
<1>5. Spends(n, Inputs(n), 0)
  BY <1>4, InputsSpend
<1>6. Spends(c, n, 1 + 1)
  BY <1>3, <1>4, SpendsTwice
<1>7. Spends(c, Inputs(n), 1 + 1 + 0)
  BY <1>5, <1>6, SpendsTwice
<1>8. Spends(c, Inputs(n), 0)
  BY <1>7, SpendsLess
<1> QED
  BY <1>1, <1>2, <1>8, GivesSpends DEF TickAdvance, InputsAfter, WithInputs

\* The bodies made of integers.
LEMMA BodiesSpend ==
  ASSUME NEW c, Shaped(c)
  PROVE  Spends(c, TickHash(c), 0) /\ Spends(c, Progress(c), 0) /\ Spends(c, SaveMetadata(c), 0)
<1>1. ASSUME NEW b, Shaped(b) PROVE Spends(b, Scalar(Scalar(b)), 1 + 1)
  BY <1>1, ScalarSpends, SpendsTwice DEF Spends
<1>2. ASSUME NEW b, Shaped(b) PROVE Spends(b, Scalar(Scalar(b)), 0)
  BY <1>1, <1>2, SpendsLess
<1>3. ASSUME NEW b, Shaped(b) PROVE Spends(b, TickHash(b), 0) /\ Spends(b, Progress(b), 0)
  <2>1. Spends(b, Scalar(Scalar(b)), 0)
    BY <1>2, <1>3
  <2> QED
    BY <2>1, GivesSpends
      DEF TickHash, TickHashAfter, WithHash, Progress, ReplayedAfter, WithReplayed
<1>4. Spends(c, SaveMetadata(c), 0)
  <2>1. PICK total : total = Scalar(c)
    OBVIOUS
  <2>2. Spends(c, total, 1) /\ Spends(total, TickHash(total), 0)
    BY <1>3, <2>1, ScalarSpends DEF Spends
  <2>3. Spends(c, TickHash(total), 1 + 0)
    BY <2>2, SpendsTwice
  <2>4. Spends(c, TickHash(total), 0)
    BY <2>3, SpendsLess
  <2> QED
    BY <2>1, <2>4, GivesSpends DEF SaveMetadata, MetadataAfter, WithTickHash
<1> QED
  BY <1>3, <1>4

\* No decoder reserves more than it reads.
LEMMA ReadSpends ==
  ASSUME NEW envelope \in Envelopes, NEW c, Shaped(c)
  PROVE  Spends(c, Read(envelope, c), 0)
<1>1. PICK tag : tag = Scalar(c)
  OBVIOUS
<1>2. Spends(c, tag, 1) /\ Shaped(tag)
  BY <1>1, ScalarSpends DEF Spends
<1>3. Spends(c, tag, 0) /\ Spends(c, Stop(tag), 0)
  BY <1>2, SpendsLess, StopShape DEF Spends
<1>4. ASSUME NEW r, NEW v, Spends(tag, r, 0) PROVE Spends(c, Named(r, v), 0)
  <2>1. Spends(c, r, 1 + 0)
    BY <1>2, <1>4, SpendsTwice
  <2>2. Spends(c, r, 0)
    BY <2>1, SpendsLess
  <2> QED
    BY <2>2, GivesSpends DEF Named
<1>5. Spends(tag, Payload(tag), 0) /\ Spends(tag, Chunk(tag), 0)
  BY <1>2, PayloadSpends, SpendsLess
<1>6. /\ Spends(tag, TickHash(tag), 0) /\ Spends(tag, Progress(tag), 0)
      /\ Spends(tag, SaveMetadata(tag), 0) /\ Spends(tag, TickAdvance(tag), 0)
  BY <1>2, BodiesSpend, TickSpends
<1>7. CASE envelope = "client"
  <2>1. ClientMessage(tag) \in {tag, Named(Payload(tag), "Input"), Named(Progress(tag), "Progress"),
                                Named(TickHash(tag), "Ready"), Stop(tag)}
    BY DEF ClientMessage
  <2>2. Spends(c, ClientMessage(tag), 0)
    BY <2>1, <1>3, <1>4, <1>5, <1>6
  <2> QED
    BY <1>1, <1>7, <2>2 DEF Read
<1>8. CASE envelope = "server"
  <2>1. ServerMessage(tag) \in {tag, Named(TickHash(tag), "Start"), Named(TickAdvance(tag), "Tick"),
                                Stop(tag)}
    BY DEF ServerMessage
  <2>2. Spends(c, ServerMessage(tag), 0)
    BY <2>1, <1>3, <1>4, <1>6
  <2> QED
    BY <1>1, <1>8, <2>2 DEF Read
<1>9. CASE envelope = "save"
  <2>1. SaveMessage(tag) \in {tag, Named(SaveMetadata(tag), "Begin"), Named(Chunk(tag), "Chunk"),
                              Stop(tag)}
    BY DEF SaveMessage
  <2>2. Spends(c, SaveMessage(tag), 0)
    BY <2>1, <1>3, <1>4, <1>5, <1>6
  <2> QED
    BY <1>1, <1>9, <2>2 DEF Read
<1>10. CASE envelope = "desync"
  BY <1>10, BodiesSpend DEF Read
<1>11. CASE envelope = "tick"
  BY <1>11, TickSpends DEF Read
<1> QED
  BY <1>7, <1>8, <1>9, <1>10, <1>11 DEF Envelopes

-----------------------------------------------------------------------------
\* What a reader does depends on the bytes it reads, not on the pass nor on what comes
\* after them.

\* d has read what c has, and has x left after what c has left.
Follows(c, d, x) == Shaped(c) /\ Shaped(d) /\ (Ok(c) => Ok(d) /\ d.rest = c.rest \o x)

\* So it has, and both just read the same number.
Alike(c, d, x) == Follows(c, d, x) /\ (Ok(c) => c.val \in Byte /\ d.val = c.val)

\* Giving values moves nothing.
LEMMA GivesFollows ==
  ASSUME NEW c, NEW d, NEW x, Follows(c, d, x), NEW v, NEW w
  PROVE  Follows(Gives(c, v), Gives(d, w), x)
BY GivesShape DEF Follows

\* Skipping as much leaves the same more.
LEMMA SkipFollows ==
  ASSUME NEW c, NEW d, NEW x \in Seq(Byte), Follows(c, d, x), Ok(c), NEW n \in 0..Len(c.rest)
  PROVE  Follows(Skip(c, n), Skip(d, n), x)
<1>1. /\ Len(d.rest) = Len(c.rest) + Len(x) /\ Len(c.rest) \in Nat /\ Len(x) \in Nat
      /\ d.rest = c.rest \o x
  BY ConcatProperties DEF Follows, Shaped
<1>2. n \in 0..Len(d.rest)
  BY <1>1
<1>3. After(d.rest, n) = After(c.rest, n) \o x
  BY <1>1, AfterConcat DEF Follows, Shaped
<1> QED
  BY <1>2, <1>3, SkipShape DEF Follows

\* An integer is the same one, whatever follows it.
LEMMA ScalarFollows ==
  ASSUME NEW c, NEW d, NEW x \in Seq(Byte), Follows(c, d, x)
  PROVE  Alike(Scalar(c), Scalar(d), x)
<1>1. Shaped(Scalar(c)) /\ Shaped(Scalar(d)) /\ (Ok(Scalar(c)) => Scalar(c).val \in Byte)
  BY ScalarShape DEF Follows
<1>2. SUFFICES ASSUME Ok(Scalar(c))
               PROVE  Follows(Scalar(c), Scalar(d), x) /\ Scalar(d).val = Scalar(c).val
  BY <1>1 DEF Alike, Follows
<1>3. Shaped(c) /\ Ok(c) /\ c.rest # <<>> /\ ~Ok(Stop(c))
  BY <1>2, ScalarShape, StopShape DEF Scalar, Follows
<1>4. /\ Len(c.rest) \in Nat \ {0} /\ Len(d.rest) = Len(c.rest) + Len(x) /\ Len(x) \in Nat
      /\ d.rest[1] = c.rest[1] /\ (Len(c.rest) >= 2 => d.rest[2] = c.rest[2])
      /\ d.rest # <<>> /\ Ok(d)
  <2>1. d.rest = c.rest \o x /\ c.rest \in Seq(Byte) /\ Ok(d)
    BY <1>3 DEF Follows, Shaped
  <2>2. /\ Len(c.rest) \in Nat \ {0} /\ Len(d.rest) = Len(c.rest) + Len(x) /\ Len(x) \in Nat
        /\ \A i \in 1..Len(c.rest) + Len(x) :
             d.rest[i] = IF i <= Len(c.rest) THEN c.rest[i] ELSE x[i - Len(c.rest)]
    BY <1>3, <2>1, ConcatProperties
  <2>3. Len(d.rest) > 0
    BY <2>2
  <2> QED
    BY <2>1, <2>2, <2>3
<1>5. ASSUME NEW k \in 1..2, k <= Len(c.rest), NEW v, Scalar(c) = Gives(Skip(c, k), v),
             Scalar(d) = Gives(Skip(d, k), v)
      PROVE  Follows(Scalar(c), Scalar(d), x) /\ Scalar(d).val = Scalar(c).val
  <2>1. PICK p, q : p = Skip(c, k) /\ q = Skip(d, k)
    OBVIOUS
  <2>2. Follows(p, q, x)
    BY <1>3, <1>4, <1>5, <2>1, SkipFollows
  <2>3. Follows(Gives(p, v), Gives(q, v), x)
    BY <2>2, GivesFollows
  <2>4. Gives(p, v).val = v /\ Gives(q, v).val = v
    BY <2>2, GivesShape DEF Follows
  <2> QED
    BY <1>5, <2>1, <2>3, <2>4
<1>6. CASE c.rest[1] < Base - 1
  <2>1. Scalar(c) = Gives(Skip(c, 1), c.rest[1]) /\ Scalar(d) = Gives(Skip(d, 1), c.rest[1])
    BY <1>3, <1>4, <1>6 DEF Scalar
  <2> QED
    BY <1>4, <1>5, <2>1
<1>7. CASE ~(c.rest[1] < Base - 1)
  <2>1. Len(c.rest) >= 2
    <3>1. Len(c.rest) < 2 => Scalar(c) = Stop(c)
      BY <1>3, <1>7 DEF Scalar
    <3> QED
      BY <1>2, <1>3, <1>4, <3>1
  <2>2. Scalar(c) = Gives(Skip(c, 2), c.rest[2]) /\ Scalar(d) = Gives(Skip(d, 2), c.rest[2])
    BY <1>3, <1>4, <1>7, <2>1 DEF Scalar
  <2> QED
    BY <1>4, <1>5, <2>1, <2>2
<1> QED
  BY <1>6, <1>7

\* So is a length, which fits the longer rest too.
LEMMA LengthFollows ==
  ASSUME NEW c, NEW d, NEW x \in Seq(Byte), Follows(c, d, x)
  PROVE  Alike(Length(c), Length(d), x) /\ Sized(Length(c)) /\ Sized(Length(d))
<1>0. Sized(Length(c)) /\ Sized(Length(d))
  BY LengthSpends DEF Follows
<1>1. PICK n, m : n = Scalar(c) /\ m = Scalar(d)
  OBVIOUS
<1>2. Alike(n, m, x)
  BY <1>1, ScalarFollows
<1>3. Shaped(n) /\ Shaped(m) /\ Shaped(Stop(n)) /\ Shaped(Stop(m)) /\ ~Ok(Stop(n))
  BY <1>2, StopShape DEF Alike, Follows
<1>4. CASE Ok(n) /\ ~(n.val > Len(n.rest))
  <2>1. Ok(m) /\ n.val \in Byte /\ n.val = m.val /\ n.val \in Nat /\ m.rest = n.rest \o x
    BY <1>2, <1>4, Bytes DEF Alike, Follows
  <2>2. Len(m.rest) = Len(n.rest) + Len(x) /\ Len(n.rest) \in Nat /\ Len(x) \in Nat
    BY <1>3, <2>1, ConcatProperties DEF Shaped
  <2>3. ~(m.val > Len(m.rest))
    BY <1>4, <2>1, <2>2
  <2>4. Length(c) = n
    BY <1>1, <1>4 DEF Length, Within
  <2>5. Length(d) = m
    BY <1>1, <2>3 DEF Length, Within
  <2> QED
    BY <1>0, <1>2, <2>4, <2>5
<1>5. CASE ~(Ok(n) /\ ~(n.val > Len(n.rest)))
  <2>1. ~Ok(Length(c))
    BY <1>1, <1>3, <1>5 DEF Length, Within
  <2> QED
    BY <1>0, <2>1 DEF Alike, Follows, Sized
<1> QED
  BY <1>4, <1>5

\* Reserving moves nothing.
LEMMA ReservedFollows ==
  ASSUME NEW n, NEW m, NEW x, Alike(n, m, x), Ok(n)
  PROVE  Follows(Reserved(n), Reserved(m), x)
BY ReservedShape DEF Alike, Follows

\* As many bytes are taken.
LEMMA TakeBytesFollows ==
  ASSUME NEW n, NEW m, NEW x \in Seq(Byte), Alike(n, m, x), Sized(n), Sized(m), NEW allowed
  PROVE  Follows(TakeBytes(n, allowed), TakeBytes(m, allowed), x)
<1>1. Shaped(TakeBytes(n, allowed)) /\ Shaped(TakeBytes(m, allowed))
  BY TakeBytesSpends DEF Spends
<1>2. CASE Ok(n) /\ n.val \in allowed
  <2>1. PICK p, q, k : p = Reserved(n) /\ q = Reserved(m) /\ k = n.val
    OBVIOUS
  <2>2. Ok(m) /\ m.val = k /\ k \in Byte /\ k \in Nat /\ k <= Len(n.rest) /\ Shaped(n)
    BY <1>2, <2>1, Bytes DEF Alike, Follows, Sized
  <2>3. Follows(p, q, x) /\ Ok(p) /\ p.rest = n.rest
    BY <1>2, <2>1, <2>2, ReservedFollows, ReservedShape
  <2>4. TakeBytes(n, allowed) = Gives(Skip(p, k), Kept(n))
    BY <1>2, <2>1 DEF TakeBytes
  <2>5. TakeBytes(m, allowed) = Gives(Skip(q, k), Kept(m))
    BY <1>2, <2>1, <2>2 DEF TakeBytes
  <2>6. Len(n.rest) \in Nat
    BY <2>2 DEF Shaped
  <2>7. Follows(Skip(p, k), Skip(q, k), x)
    BY <2>2, <2>3, <2>6, SkipFollows
  <2> QED
    BY <2>4, <2>5, <2>7, GivesFollows
<1>3. CASE ~(Ok(n) /\ n.val \in allowed)
  <2>1. TakeBytes(n, allowed) = Stop(n) /\ ~Ok(Stop(n))
    BY <1>3, StopShape DEF TakeBytes, Sized
  <2> QED
    BY <1>1, <2>1 DEF Follows
<1> QED
  BY <1>2, <1>3

\* Payloads and chunks end where they did.
LEMMA PayloadFollows ==
  ASSUME NEW c, NEW d, NEW x \in Seq(Byte), Follows(c, d, x)
  PROVE  Follows(Payload(c), Payload(d), x) /\ Follows(Chunk(c), Chunk(d), x)
BY LengthFollows, TakeBytesFollows DEF Payload, Chunk

\* Participants end where they did.
LEMMA ParticipantFollows ==
  ASSUME NEW c, NEW d, NEW x \in Seq(Byte), Follows(c, d, x)
  PROVE  Follows(Participant(c), Participant(d), x)
<1>1. Shaped(Participant(c)) /\ Shaped(Participant(d))
  BY ParticipantSpends DEF Follows, Spends
<1>2. PICK t, u : t = Scalar(c) /\ u = Scalar(d)
  OBVIOUS
<1>3. Alike(t, u, x)
  BY <1>2, ScalarFollows
<1>4. ~Ok(Stop(t))
  BY <1>3, StopShape DEF Alike, Follows
<1>5. CASE Ok(t) /\ t.val = 0
  <2>1. Ok(u) /\ u.val = 0
    BY <1>3, <1>5 DEF Alike, Follows
  <2>2. Participant(c) = Gives(t, <<>>) /\ Participant(d) = Gives(u, <<>>)
    BY <1>2, <1>5, <2>1 DEF Participant, ParticipantOf
  <2> QED
    BY <1>3, <2>2, GivesFollows DEF Alike
<1>6. CASE Ok(t) /\ t.val = 1
  <2>1. Ok(u) /\ u.val = 1
    BY <1>3, <1>6 DEF Alike, Follows
  <2>2. Participant(c) = Remote(Scalar(t)) /\ Participant(d) = Remote(Scalar(u))
    BY <1>2, <1>6, <2>1 DEF Participant, ParticipantOf
  <2>3. Follows(Scalar(t), Scalar(u), x)
    BY <1>3, ScalarFollows DEF Alike
  <2> QED
    BY <2>2, <2>3, GivesFollows DEF Remote
<1>7. CASE ~(Ok(t) /\ t.val \in {0, 1})
  <2>1. ~Ok(Participant(c))
    BY <1>2, <1>7, <1>4 DEF Participant, ParticipantOf
  <2> QED
    BY <1>1, <2>1 DEF Follows
<1> QED
  BY <1>5, <1>6, <1>7

\* A command ends where it did.
LEMMA OneMoreFollows ==
  ASSUME NEW c, NEW d, NEW x \in Seq(Byte), Follows(c, d, x)
  PROVE  Follows(OneMore(c), OneMore(d), x)
<1>1. CASE Ok(c)
  <2>1. PICK w, z : w = Participant(c) /\ z = Participant(d)
    OBVIOUS
  <2>2. Follows(Payload(w), Payload(z), x)
    BY <2>1, ParticipantFollows, PayloadFollows
  <2>3. Follows(CommandAfter(w), CommandAfter(z), x)
    BY <2>2, GivesFollows DEF CommandAfter, WithPayload
  <2>4. Follows(Push(c, CommandAfter(w)), Push(d, CommandAfter(z)), x)
    BY <2>3, GivesFollows DEF Push
  <2> QED
    BY <1>1, <2>1, <2>4 DEF OneMore, Follows
<1>2. CASE ~Ok(c)
  <2>1. Shaped(OneMore(d)) /\ OneMore(c) = c
    BY <1>2, OneMoreSpends DEF Follows, Spends, OneMore
  <2> QED
    BY <1>2, <2>1 DEF Follows
<1> QED
  BY <1>1, <1>2

\* So do as many commands.
LEMMA CommandsFollow ==
  ASSUME NEW c, NEW d, NEW x \in Seq(Byte), Follows(c, d, x), NEW count \in Nat
  PROVE  Follows(CommandsOf(c, count), CommandsOf(d, count), x)
<1>1. PICK f : /\ f[0] = Gives(c, <<>>) /\ \A k \in 1..count : f[k] = OneMore(f[k - 1])
               /\ CommandsOf(c, count) = f[count]
  BY CommandsRead
<1>2. PICK g : /\ g[0] = Gives(d, <<>>) /\ \A k \in 1..count : g[k] = OneMore(g[k - 1])
               /\ CommandsOf(d, count) = g[count]
  BY CommandsRead
<1> DEFINE T == {k \in 0..count : Follows(f[k], g[k], x)}
<1>3. 0 \in T
  BY <1>1, <1>2, GivesFollows
<1>4. ASSUME NEW k \in 1..count, k - 1 \in T PROVE k \in T
  <2>1. PICK p, q : p = f[k - 1] /\ q = g[k - 1]
    OBVIOUS
  <2>2. Follows(p, q, x) /\ f[k] = OneMore(p) /\ g[k] = OneMore(q)
    BY <1>1, <1>2, <1>4, <2>1
  <2> QED
    BY <2>2, OneMoreFollows
<1> HIDE DEF T
<1>5. 0..count \subseteq T
  BY <1>3, <1>4, UpTo
<1> QED
  BY <1>1, <1>2, <1>5 DEF T

\* A tick ends where it did.
LEMMA TickFollows ==
  ASSUME NEW c, NEW d, NEW x \in Seq(Byte), Follows(c, d, x)
  PROVE  Follows(TickAdvance(c), TickAdvance(d), x)
<1>1. PICK n, m : n = Length(Scalar(c)) /\ m = Length(Scalar(d))
  OBVIOUS
<1>2. Alike(n, m, x) /\ Sized(n) /\ Sized(m)
  BY <1>1, ScalarFollows, LengthFollows DEF Alike
<1>3. Follows(Inputs(n), Inputs(m), x)
  <2>1. CASE Ok(n)
    <3>1. PICK p, q, k : p = Reserved(n) /\ q = Reserved(m) /\ k = n.val
      OBVIOUS
    <3>2. Follows(p, q, x) /\ Ok(m) /\ m.val = k /\ k \in Nat
      BY <1>2, <2>1, <3>1, Bytes, ReservedFollows DEF Alike, Follows
    <3> QED
      BY <2>1, <3>1, <3>2, CommandsFollow DEF Inputs
  <2>2. CASE ~Ok(n)
    <3>1. Shaped(Inputs(m)) /\ Inputs(n) = n /\ Shaped(n)
      BY <1>2, <2>2, InputsSpend DEF Spends, Sized, Inputs
    <3> QED
      BY <2>2, <3>1 DEF Follows
  <2> QED
    BY <2>1, <2>2
<1> QED
  BY <1>1, <1>3, GivesFollows DEF TickAdvance, InputsAfter, WithInputs

\* So do the bodies made of integers.
LEMMA BodiesFollow ==
  ASSUME NEW c, NEW d, NEW x \in Seq(Byte), Follows(c, d, x)
  PROVE  /\ Follows(TickHash(c), TickHash(d), x) /\ Follows(Progress(c), Progress(d), x)
         /\ Follows(SaveMetadata(c), SaveMetadata(d), x)
<1>1. ASSUME NEW a, NEW b, Follows(a, b, x)
      PROVE  Follows(Scalar(a), Scalar(b), x) /\ Follows(Scalar(Scalar(a)), Scalar(Scalar(b)), x)
  BY <1>1, ScalarFollows DEF Alike
<1>2. ASSUME NEW a, NEW b, Follows(a, b, x)
      PROVE  Follows(TickHash(a), TickHash(b), x) /\ Follows(Progress(a), Progress(b), x)
  BY <1>1, <1>2, GivesFollows
     DEF TickHash, TickHashAfter, WithHash, Progress, ReplayedAfter, WithReplayed
<1>3. Follows(SaveMetadata(c), SaveMetadata(d), x)
  <2>1. PICK t, u : t = Scalar(c) /\ u = Scalar(d)
    OBVIOUS
  <2>2. Follows(TickHash(t), TickHash(u), x)
    BY <1>1, <1>2, <2>1
  <2> QED
    BY <2>1, <2>2, GivesFollows DEF SaveMetadata, MetadataAfter, WithTickHash
<1> QED
  BY <1>2, <1>3

\* A decoder reads a message the same way in both passes, and whatever follows it.
LEMMA ReadFollows ==
  ASSUME NEW envelope \in Envelopes, NEW c, NEW d, NEW x \in Seq(Byte), Follows(c, d, x)
  PROVE  Follows(Read(envelope, c), Read(envelope, d), x)
<1>1. PICK t, u : t = Scalar(c) /\ u = Scalar(d)
  OBVIOUS
<1>2. Alike(t, u, x) /\ Follows(t, u, x)
  BY <1>1, ScalarFollows DEF Alike
<1>3. Shaped(Read(envelope, c)) /\ Shaped(Read(envelope, d))
  BY ReadSpends DEF Follows, Spends
<1>4. Ok(t) => Ok(u) /\ u.val = t.val
  BY <1>2 DEF Alike, Follows
<1>5. ~Ok(Stop(t))
  BY <1>2, StopShape DEF Follows
<1>6. ASSUME NEW r, NEW s, NEW v, Follows(r, s, x) PROVE Follows(Named(r, v), Named(s, v), x)
  BY <1>6, GivesFollows DEF Named
<1>7. /\ Follows(Payload(t), Payload(u), x) /\ Follows(Chunk(t), Chunk(u), x)
      /\ Follows(TickHash(t), TickHash(u), x) /\ Follows(Progress(t), Progress(u), x)
      /\ Follows(SaveMetadata(t), SaveMetadata(u), x)
      /\ Follows(TickAdvance(t), TickAdvance(u), x)
  BY <1>2, PayloadFollows, BodiesFollow, TickFollows
<1>8. SUFFICES ASSUME Ok(Read(envelope, c)) PROVE Follows(Read(envelope, c), Read(envelope, d), x)
  BY <1>3 DEF Follows
<1>9. CASE envelope = "client"
  <2>1. Read(envelope, c) = ClientMessage(t) /\ Read(envelope, d) = ClientMessage(u)
    BY <1>1, <1>9 DEF Read
  <2>2. Ok(t) /\ t.val \in {0, 1, 2}
    BY <1>5, <1>8, <2>1 DEF ClientMessage
  <2>3. Follows(ClientMessage(t), ClientMessage(u), x)
    BY <1>4, <1>6, <1>7, <2>2 DEF ClientMessage
  <2> QED
    BY <2>1, <2>3
<1>10. CASE envelope = "server"
  <2>1. Read(envelope, c) = ServerMessage(t) /\ Read(envelope, d) = ServerMessage(u)
    BY <1>1, <1>10 DEF Read
  <2>2. Ok(t) /\ t.val \in {0, 1}
    BY <1>5, <1>8, <2>1 DEF ServerMessage
  <2>3. Follows(ServerMessage(t), ServerMessage(u), x)
    BY <1>4, <1>6, <1>7, <2>2 DEF ServerMessage
  <2> QED
    BY <2>1, <2>3
<1>11. CASE envelope = "save"
  <2>1. Read(envelope, c) = SaveMessage(t) /\ Read(envelope, d) = SaveMessage(u)
    BY <1>1, <1>11 DEF Read
  <2>2. Ok(t) /\ t.val \in {0, 1}
    BY <1>5, <1>8, <2>1 DEF SaveMessage
  <2>3. Follows(SaveMessage(t), SaveMessage(u), x)
    BY <1>4, <1>6, <1>7, <2>2 DEF SaveMessage
  <2> QED
    BY <2>1, <2>3
<1>12. CASE envelope = "desync"
  BY <1>12, BodiesFollow DEF Read
<1>13. CASE envelope = "tick"
  BY <1>13, TickFollows DEF Read
<1> QED
  BY <1>9, <1>10, <1>11, <1>12, <1>13 DEF Envelopes

-----------------------------------------------------------------------------
\* What a receiver is given: bytes, as a message of some type.
Received == type \in Envelopes /\ bytes \in Seq(Byte)

\* The bytes received are bytes.
LEMMA ReceivedAlways == Spec => []Received
<1>1. Init => Received
  BY DEF Init, Received
<1>2. Received /\ [Next]_<<type, bytes>> => Received'
  <2> SUFFICES ASSUME Received, [Next]_<<type, bytes>> PROVE Received'
    OBVIOUS
  <2>1. CASE Next
    <3>1. PICK b \in Byte : bytes' = Append(bytes, b)
      BY <2>1 DEF Next, Byte
    <3> QED
      BY <2>1, <3>1 DEF Received, Next
  <2>2. CASE UNCHANGED <<type, bytes>>
    BY <2>2 DEF Received
  <2> QED
    BY <2>1, <2>2
<1> QED
  BY <1>1, <1>2, PTL DEF Spec

\* A pass begins with a cursor over all the bytes.
LEMMA CursorShape ==
  ASSUME NEW b \in Seq(Byte), NEW pass \in Passes
  PROVE  /\ Shaped(Cursor(b, pass)) /\ Ok(Cursor(b, pass)) /\ Cursor(b, pass).rest = b
         /\ Cursor(b, pass).made = 0 /\ Cursor(b, pass).pass = pass
BY DEF Cursor, Shaped, Ok, Passes

\* What a pass accepts, it has read to the end.
LEMMA PassReads ==
  ASSUME NEW envelope \in Envelopes, NEW b \in Seq(Byte), NEW pass \in Passes,
         NEW c, c = Read(envelope, Cursor(b, pass))
  PROVE  /\ Ok(Pass(envelope, b, pass)) <=> Ok(c) /\ c.rest = <<>>
         /\ Ok(Pass(envelope, b, pass)) => Pass(envelope, b, pass) = c
<1>1. Shaped(c) /\ ~Ok(Stop(c))
  BY CursorShape, ReadSpends, StopShape DEF Spends
<1>2. CASE Ok(c) /\ c.rest # <<>>
  BY <1>1, <1>2 DEF Pass, Exhausted
<1>3. CASE ~(Ok(c) /\ c.rest # <<>>)
  BY <1>3 DEF Pass, Exhausted
<1> QED
  BY <1>2, <1>3

\* Two passes, over bytes and over the same with more after them.
LEMMA PassesFollow ==
  ASSUME NEW envelope \in Envelopes, NEW b \in Seq(Byte), NEW x \in Seq(Byte),
         NEW pass \in Passes, NEW other \in Passes
  PROVE  Follows(Read(envelope, Cursor(b, pass)), Read(envelope, Cursor(b \o x, other)), x)
<1>1. PICK z : z = b \o x
  OBVIOUS
<1>2. z \in Seq(Byte)
  BY <1>1, ConcatProperties
<1>3. Follows(Cursor(b, pass), Cursor(z, other), x)
  BY <1>1, <1>2, CursorShape DEF Follows
<1> QED
  BY <1>1, <1>3, ReadFollows

\* Where the first pass succeeds the second does, over any bytes.
LEMMA SecondAccepts ==
  ASSUME NEW envelope \in Envelopes, NEW b \in Seq(Byte), NEW pass \in Passes,
         NEW other \in Passes, Ok(Pass(envelope, b, pass))
  PROVE  Ok(Pass(envelope, b, other))
<1>1. PICK c, d : c = Read(envelope, Cursor(b, pass)) /\ d = Read(envelope, Cursor(b, other))
  OBVIOUS
<1>2. b \o <<>> = b /\ <<>> \in Seq(Byte)
  BY ConcatEmptySeq
<1>3. Follows(c, d, <<>>)
  BY <1>1, <1>2, PassesFollow
<1>4. Ok(c) /\ c.rest = <<>>
  BY <1>1, PassReads
<1>5. Ok(d) /\ d.rest = <<>>
  BY <1>3, <1>4 DEF Follows
<1> QED
  BY <1>1, <1>5, PassReads

\* A decoder reserves nothing for what it will refuse, never fails after it began to, and
\* never reserves more elements than it was given bytes (protocol.rs, validated).
THEOREM MeasuredAlways == Spec => []MeasuredFirst
<1>1. Received => MeasuredFirst
  <2> SUFFICES ASSUME Received, Ok(Pass(type, bytes, "measure"))
               PROVE  /\ Ok(Pass(type, bytes, "materialize"))
                      /\ Pass(type, bytes, "measure").made = 0
                      /\ Pass(type, bytes, "materialize").made <= Len(bytes)
    BY DEF MeasuredFirst
  <2>1. "measure" \in Passes /\ "materialize" \in Passes
    BY DEF Passes
  <2>2. Ok(Pass(type, bytes, "materialize"))
    BY <2>1, SecondAccepts DEF Received
  <2>3. ASSUME NEW pass \in Passes, Ok(Pass(type, bytes, pass))
        PROVE  /\ Pass(type, bytes, pass).made <= Len(bytes)
               /\ pass = "measure" => Pass(type, bytes, pass).made = 0
    <3>1. PICK b, c : b = Cursor(bytes, pass) /\ c = Read(type, b)
      OBVIOUS
    <3>2. Pass(type, bytes, pass) = c /\ Ok(c)
      BY <2>3, <3>1, PassReads DEF Received
    <3>3. Shaped(b) /\ b.rest = bytes /\ b.made = 0 /\ b.pass = pass
      BY <3>1, CursorShape DEF Received
    <3>4. Spends(b, c, 0)
      BY <3>1, <3>3, ReadSpends DEF Received
    <3>5. c.made + Len(c.rest) + 0 <= 0 + Len(bytes) /\ (pass = "measure" => c.made = 0)
      BY <3>2, <3>3, <3>4 DEF Spends
    <3>6. Len(c.rest) \in Nat /\ Len(bytes) \in Nat /\ c.made \in Nat
      BY <3>4 DEF Spends, Shaped, Received
    <3> QED
      BY <3>2, <3>5, <3>6
  <2> QED
    BY <2>1, <2>2, <2>3
<1> QED
  BY <1>1, ReceivedAlways, PTL

\* A message that opens is the beginning of no other, and no beginning of it opens: what a
\* length inside it claims never moves where the next message starts, and a truncated or
\* extended message is refused (protocol.rs, validated).
THEOREM DelimitedAlways == Spec => []Delimited
<1>1. Received => Delimited
  <2> SUFFICES ASSUME Received, Opened(type, bytes) # Refused, NEW n \in 0..(Len(bytes) - 1)
               PROVE  Opened(type, SubSeq(bytes, 1, n)) = Refused
    BY DEF Delimited
  <2>1. PICK m : m = "measure"
    OBVIOUS
  <2>2. PICK p, x : p = SubSeq(bytes, 1, n) /\ x = SubSeq(bytes, n + 1, Len(bytes))
    OBVIOUS
  <2>3. p \in Seq(Byte) /\ x \in Seq(Byte) /\ bytes = p \o x /\ x # <<>>
    <3>1. bytes \in Seq(Byte) /\ Len(bytes) \in Nat
      BY DEF Received
    <3>2. p \in Seq(Byte) /\ p \o x = SubSeq(bytes, 1, Len(bytes))
      BY <2>2, <3>1, ConcatAdjacentSubSeq
    <3>3. x = After(bytes, n) /\ x \in Seq(Byte) /\ Len(x) = Len(bytes) - n
      BY <2>2, <3>1, AfterShape DEF After
    <3> QED
      BY <3>1, <3>2, <3>3, SubSeqFull
  <2>4. PICK c, d : c = Read(type, Cursor(p, m)) /\ d = Read(type, Cursor(bytes, m))
    OBVIOUS
  <2>5. Follows(c, d, x)
    BY <2>1, <2>3, <2>4, PassesFollow DEF Received, Passes
  <2>6. Ok(d) /\ d.rest = <<>>
    BY <2>1, <2>4, PassReads DEF Opened, Received, Passes
  <2>7. ~(Ok(c) /\ c.rest = <<>>)
    BY <2>3, <2>5, <2>6, ConcatEmptySeq DEF Follows
  <2>8. ~Ok(Pass(type, p, m))
    BY <2>1, <2>3, <2>4, <2>7, PassReads DEF Received, Passes
  <2> QED
    BY <2>1, <2>2, <2>8 DEF Opened
<1> QED
  BY <1>1, ReceivedAlways, PTL

-----------------------------------------------------------------------------
\* What is sent is what is read: the messages the program can build, and their bytes.

Payloads(allowed) == {p \in Seq(Byte) : Len(p) \in Byte /\ Len(p) \in allowed}
People   == {<<>>} \cup {<<id>> : id \in Byte}
Commands == [participant : People, payload : Payloads(0..MaxPayload)]
InputLists == {commands \in Seq(Commands) : Len(commands) \in Byte}
Ticks    == [tick : Byte, inputs : InputLists]
Hashes   == [tick : Byte, hash : Byte]

\* Every message of an envelope whose counts fit an integer.
Message(envelope) ==
  CASE envelope = "client" ->
         [variant : {"Input"}, body : Payloads(0..MaxPayload)]
           \cup [variant : {"Progress"}, body : [received_bytes : Byte, replayed_tick : Byte]]
           \cup [variant : {"Ready"}, body : Hashes]
    [] envelope = "server" ->
         [variant : {"Start"}, body : Hashes] \cup [variant : {"Tick"}, body : Ticks]
    [] envelope = "save" ->
         [variant : {"Begin"}, body : [total_bytes : Byte, tick : Byte, hash : Byte]]
           \cup [variant : {"Chunk"}, body : Payloads(1..MaxChunk)]
    [] envelope = "desync" -> Hashes
    [] envelope = "tick"   -> Ticks

\* A materializing cursor that still reads, over the bytes b.
At(c, b) == Shaped(c) /\ Ok(c) /\ c.pass = "materialize" /\ c.rest = b

\* It has just read v.
Yields(r, v, b) == At(r, b) /\ r.val = v

\* Bytes after bytes.
LEMMA Joined ==
  ASSUME NEW a \in Seq(Byte), NEW b \in Seq(Byte)
  PROVE  /\ a \o b \in Seq(Byte) /\ Len(a) \in Nat /\ Len(b) \in Nat
         /\ Len(a \o b) = Len(a) + Len(b)
BY ConcatProperties

\* Three pieces of bytes, in either grouping.
LEMMA Regrouped ==
  ASSUME NEW r \in Seq(Byte), NEW s \in Seq(Byte), NEW t \in Seq(Byte), NEW u, u = s \o t
  PROVE  (r \o s) \o t = r \o u
BY ConcatAssociative

\* No bytes are bytes too.
LEMMA NoBytes == <<>> \in Seq(Byte) /\ Len(<<>>) = 0
OBVIOUS

\* An integer is one byte, or two when it is too big for one.
LEMMA VarintShape ==
  ASSUME NEW v \in Byte
  PROVE  /\ Varint(v) \in Seq(Byte) /\ Len(Varint(v)) \in 1..2
         /\ v < Base - 1 => Varint(v) = <<v>>
<1>1. PICK h \in Byte : h = Base - 1
  BY BaseAssumption DEF Byte
<1>2. Varint(v) = IF v < h THEN <<v>> ELSE <<h, v>>
  BY <1>1 DEF Varint
<1>3. <<v>> \in Seq(Byte) /\ Len(<<v>>) = 1 /\ <<h, v>> \in Seq(Byte) /\ Len(<<h, v>>) = 2
  OBVIOUS
<1> QED
  BY <1>1, <1>2, <1>3

\* Giving a value yields it.
LEMMA GivesYields ==
  ASSUME NEW c, NEW b, At(c, b), NEW v
  PROVE  Yields(Gives(c, v), v, b)
BY GivesShape DEF At, Yields

\* Skipping the first part leaves the second.
LEMMA SkipYields ==
  ASSUME NEW p \in Seq(Byte), NEW y \in Seq(Byte), NEW c, At(c, p \o y)
  PROVE  At(Skip(c, Len(p)), y)
<1>1. PICK n : n = Len(p)
  OBVIOUS
<1>2. PICK z : z = p \o y
  OBVIOUS
<1>3. /\ z \in Seq(Byte) /\ Len(z) = n + Len(y) /\ n \in Nat /\ Len(y) \in Nat
      /\ \A i \in 1..n + Len(y) : z[i] = IF i <= n THEN p[i] ELSE y[i - n]
  BY <1>1, <1>2, ConcatProperties
<1>4. /\ After(z, n) \in Seq(Byte) /\ Len(After(z, n)) = Len(z) - n
      /\ \A i \in 1..Len(z) - n : After(z, n)[i] = z[n + i]
  <2>1. n \in 0..Len(z)
    BY <1>3
  <2> QED
    BY <1>3, <2>1, AfterShape
<1>5. PICK a : a = After(z, n)
  OBVIOUS
<1>6. Len(a) = Len(y)
  BY <1>3, <1>4, <1>5
<1>7. ASSUME NEW i \in 1..Len(a) PROVE a[i] = y[i]
  <2>1. i \in 1..Len(z) - n /\ n + i \in 1..n + Len(y) /\ ~(n + i <= n) /\ n + i - n = i
    BY <1>3, <1>6
  <2>2. a[i] = z[n + i]
    BY <1>4, <1>5, <2>1
  <2>3. z[n + i] = y[n + i - n]
    BY <1>3, <2>1
  <2> QED
    BY <2>1, <2>2, <2>3
<1>8. After(z, n) = y
  BY <1>4, <1>5, <1>6, <1>7, SeqEqual
<1>9. c.rest = z /\ Shaped(c) /\ n \in 0..Len(c.rest)
  BY <1>2, <1>3 DEF At
<1> QED
  BY <1>1, <1>8, <1>9, SkipShape DEF At

\* An integer sent is read.
LEMMA ScalarYields ==
  ASSUME NEW v \in Byte, NEW y \in Seq(Byte), NEW e, At(e, Varint(v) \o y)
  PROVE  Yields(Scalar(e), v, y)
<1>1. CASE v < Base - 1
  <2>1. Varint(v) = <<v>> /\ <<v>> \in Seq(Byte) /\ Len(<<v>>) = 1
    BY <1>1, VarintShape
  <2>2. At(e, <<v>> \o y) /\ Ok(e) /\ e.rest = <<v>> \o y
    BY <2>1 DEF At
  <2>3. e.rest[1] = v /\ e.rest # <<>>
    BY <2>2
  <2>4. Scalar(e) = Gives(Skip(e, 1), v)
    BY <1>1, <2>2, <2>3 DEF Scalar
  <2>5. At(Skip(e, 1), y)
    BY <2>1, <2>2, SkipYields
  <2> QED
    BY <2>4, <2>5, GivesYields
<1>2. CASE ~(v < Base - 1)
  <2>1. PICK h \in Byte : h = Base - 1
    BY BaseAssumption DEF Byte
  <2>2. Varint(v) = <<h, v>> /\ <<h, v>> \in Seq(Byte) /\ Len(<<h, v>>) = 2
    BY <1>2, <2>1 DEF Varint
  <2>3. At(e, <<h, v>> \o y) /\ Ok(e) /\ e.rest = <<h, v>> \o y
    BY <2>2 DEF At
  <2>4. e.rest[1] = h /\ e.rest[2] = v /\ Len(e.rest) = 2 + Len(y) /\ Len(y) \in Nat
    BY <2>2, <2>3
  <2>5. e.rest # <<>> /\ ~(Len(e.rest) < 2) /\ ~(e.rest[1] < Base - 1)
    BY <2>1, <2>4, BaseAssumption
  <2>6. Scalar(e) = Gives(Skip(e, 2), v)
    BY <2>3, <2>4, <2>5 DEF Scalar
  <2>7. At(Skip(e, 2), y)
    BY <2>2, <2>3, SkipYields
  <2> QED
    BY <2>6, <2>7, GivesYields
<1> QED
  BY <1>1, <1>2

\* So is a length, before as many bytes.
LEMMA LengthYields ==
  ASSUME NEW n \in Byte, NEW y \in Seq(Byte), n <= Len(y), NEW e, At(e, Varint(n) \o y)
  PROVE  Yields(Length(e), n, y)
<1>1. PICK s : s = Scalar(e)
  OBVIOUS
<1>2. Yields(s, n, y)
  BY <1>1, ScalarYields
<1>3. ~(s.val > Len(s.rest))
  BY <1>2, Bytes DEF Yields, At
<1>4. Length(e) = s
  BY <1>1, <1>3 DEF Length, Within
<1> QED
  BY <1>2, <1>4

\* Some bytes with their number before them.
LEMMA PrefixedShape ==
  ASSUME NEW p \in Seq(Byte), Len(p) \in Byte
  PROVE  /\ Prefixed(p) \in Seq(Byte) /\ Len(Prefixed(p)) = Len(Varint(Len(p))) + Len(p)
         /\ Len(Prefixed(p)) >= 1
<1>1. PICK v : v = Varint(Len(p))
  OBVIOUS
<1>2. v \in Seq(Byte) /\ Len(v) \in 1..2
  BY <1>1, VarintShape
<1>3. v \o p \in Seq(Byte) /\ Len(v \o p) = Len(v) + Len(p) /\ Len(p) \in Nat
  BY <1>2, ConcatProperties
<1>4. Prefixed(p) = v \o p
  BY <1>1 DEF Prefixed
<1>5. PICK a, b, s : a = Len(v) /\ b = Len(p) /\ s = Len(v \o p)
  OBVIOUS
<1>6. a \in 1..2 /\ b \in Nat /\ s = a + b
  BY <1>2, <1>3, <1>5
<1>7. s >= 1
  BY ONLY <1>6
<1> QED
  BY <1>1, <1>3, <1>4, <1>5, <1>7

\* Bytes sent with their number before them are read, if they are in their budget.
LEMMA PrefixedYields ==
  ASSUME NEW allowed, NEW p \in Payloads(allowed), NEW y \in Seq(Byte),
         NEW e, At(e, Prefixed(p) \o y)
  PROVE  Yields(TakeBytes(Length(e), allowed), p, y)
<1>1. PICK v, z, k : v = Varint(Len(p)) /\ z = p \o y /\ k = Len(p)
  OBVIOUS
<1>2. p \in Seq(Byte) /\ k \in Byte /\ k \in allowed /\ v \in Seq(Byte)
  BY <1>1, VarintShape DEF Payloads
<1>3. z \in Seq(Byte) /\ Len(z) = k + Len(y) /\ k \in Nat /\ Len(y) \in Nat
  BY <1>1, <1>2, ConcatProperties
<1>4. Prefixed(p) \o y = v \o z
  BY <1>1, <1>2, ConcatAssociative DEF Prefixed
<1>5. PICK n : n = Length(e)
  OBVIOUS
<1>6. Yields(n, k, z)
  <2>1. At(e, Varint(k) \o z) /\ k <= Len(z)
    BY <1>1, <1>3, <1>4
  <2> QED
    BY <1>2, <1>3, <1>5, <2>1, LengthYields
<1>7. TakeBytes(n, allowed) = Gives(Skip(Reserved(n), k), Kept(n))
  BY <1>2, <1>6 DEF TakeBytes, Yields, At
<1>8. At(Reserved(n), p \o y)
  BY <1>1, <1>2, <1>6, ReservedShape DEF Yields, At
<1>9. At(Skip(Reserved(n), k), y)
  BY <1>1, <1>2, <1>8, SkipYields
<1>10. Kept(n) = p
  <2>1. Kept(n) = SubSeq(z, 1, k)
    BY <1>6 DEF Kept, Yields, At
  <2>2. /\ \A i \in 1..k : z[i] = p[i]
        /\ \A i \in 1..k : z[i] \in Byte
    BY <1>1, <1>2, <1>3, ConcatProperties
  <2>3. /\ SubSeq(z, 1, k) \in Seq(Byte)
        /\ Len(SubSeq(z, 1, k)) = IF 1 <= k THEN k - 1 + 1 ELSE 0
        /\ \A i \in 1..k - 1 + 1 : SubSeq(z, 1, k)[i] = z[1 + i - 1]
    BY <1>3, <2>2, SubSeqProperties
  <2>4. PICK a : a = SubSeq(z, 1, k)
    OBVIOUS
  <2>5. a \in Seq(Byte) /\ Len(a) = k
    BY <1>3, <2>3, <2>4
  <2>6. ASSUME NEW i \in 1..Len(a) PROVE a[i] = p[i]
    BY <1>3, <2>2, <2>3, <2>4, <2>5
  <2> QED
    BY <1>1, <1>2, <2>1, <2>4, <2>5, <2>6, SeqEqual
<1> QED
  BY <1>5, <1>7, <1>9, <1>10, GivesYields

\* A participant and a command of a tick
LEMMA ParticipantShape ==
  ASSUME NEW who \in People
  PROVE  /\ ParticipantBytes(who) \in Seq(Byte) /\ Len(ParticipantBytes(who)) >= 1
         /\ who # <<>> => \E id \in Byte : /\ who = <<id>>
                                          /\ ParticipantBytes(who) = <<1>> \o Varint(id)
<1>1. 0 \in Byte /\ 1 \in Byte
  BY BaseAssumption DEF Byte
<1>2. CASE who = <<>>
  BY <1>1, <1>2 DEF ParticipantBytes
<1>3. CASE who # <<>>
  <2>1. PICK id \in Byte : who = <<id>>
    BY <1>3 DEF People
  <2>2. PICK v, t : v = Varint(id) /\ t = <<1>>
    OBVIOUS
  <2>3. v \in Seq(Byte) /\ Len(v) \in 1..2 /\ t \in Seq(Byte) /\ Len(t) = 1
    BY <1>1, <2>2, VarintShape
  <2>4. t \o v \in Seq(Byte) /\ Len(t \o v) = Len(t) + Len(v)
    BY <2>3, ConcatProperties
  <2>5. who[1] = id
    BY <2>1
  <2>6. ParticipantBytes(who) = t \o v
    BY <1>3, <2>2, <2>5 DEF ParticipantBytes
  <2> QED
    BY <2>1, <2>2, <2>3, <2>4, <2>6
<1> QED
  BY <1>2, <1>3

\* A participant sent is read.
LEMMA ParticipantYields ==
  ASSUME NEW who \in People, NEW y \in Seq(Byte), NEW e, At(e, ParticipantBytes(who) \o y)
  PROVE  Yields(Participant(e), who, y)
<1>1. /\ 0 \in Byte /\ 1 \in Byte /\ Varint(0) = <<0>> /\ Varint(1) = <<1>>
      /\ <<1>> \in Seq(Byte)
  <2>1. 0 \in Byte /\ 1 \in Byte /\ 0 < Base - 1 /\ 1 < Base - 1
    BY BaseAssumption DEF Byte
  <2> QED
    BY <2>1, VarintShape
<1>2. PICK t : t = Scalar(e)
  OBVIOUS
<1>3. CASE who = <<>>
  <2>1. At(e, Varint(0) \o y)
    BY <1>1, <1>3 DEF ParticipantBytes
  <2>2. Yields(t, 0, y)
    BY <1>1, <1>2, <2>1, ScalarYields
  <2>3. Participant(e) = Gives(t, <<>>)
    BY <1>2, <2>2 DEF Participant, ParticipantOf, Yields, At
  <2> QED
    BY <1>3, <2>2, <2>3, GivesYields DEF Yields
<1>4. CASE who # <<>>
  <2>1. PICK id \in Byte : who = <<id>> /\ ParticipantBytes(who) = <<1>> \o Varint(id)
    BY <1>4, ParticipantShape
  <2>2. PICK v, z : v = Varint(id) /\ z = v \o y
    OBVIOUS
  <2>3. v \in Seq(Byte) /\ z \in Seq(Byte)
    BY <2>2, VarintShape, ConcatProperties
  <2>4. (<<1>> \o v) \o y = <<1>> \o z
    BY <1>1, <2>2, <2>3, ConcatAssociative
  <2>5. At(e, Varint(1) \o z)
    BY <1>1, <2>1, <2>2, <2>4
  <2>6. Yields(t, 1, z)
    BY <1>1, <1>2, <2>3, <2>5, ScalarYields
  <2>7. Yields(Scalar(t), id, y)
    BY <2>2, <2>6, ScalarYields DEF Yields
  <2>8. Participant(e) = Gives(Scalar(t), <<Scalar(t).val>>)
    BY <1>2, <2>6 DEF Participant, ParticipantOf, Remote, Yields, At
  <2> QED
    BY <2>1, <2>7, <2>8, GivesYields DEF Yields
<1> QED
  BY <1>3, <1>4

\* A command is some bytes.
LEMMA CommandShape ==
  ASSUME NEW m \in Commands
  PROVE  CommandBytes(m) \in Seq(Byte) /\ Len(CommandBytes(m)) >= 1
<1>1. PICK a, b : a = ParticipantBytes(m.participant) /\ b = Prefixed(m.payload)
  OBVIOUS
<1>2. m.participant \in People /\ m.payload \in Seq(Byte) /\ Len(m.payload) \in Byte
  BY DEF Commands, Payloads
<1>3. a \in Seq(Byte) /\ Len(a) >= 1 /\ b \in Seq(Byte)
  BY <1>1, <1>2, ParticipantShape, PrefixedShape
<1>4. a \o b \in Seq(Byte) /\ Len(a \o b) = Len(a) + Len(b) /\ Len(a) \in Nat /\ Len(b) \in Nat
  BY <1>3, ConcatProperties
<1> QED
  BY <1>1, <1>3, <1>4 DEF CommandBytes

\* A command sent is read and kept.
LEMMA OneMoreYields ==
  ASSUME NEW m \in Commands, NEW y \in Seq(Byte), NEW e, At(e, CommandBytes(m) \o y)
  PROVE  Yields(OneMore(e), Append(e.val, m), y)
<1>1. PICK a, b, z : a = ParticipantBytes(m.participant) /\ b = Prefixed(m.payload) /\ z = b \o y
  OBVIOUS
<1>2. m.participant \in People /\ m.payload \in Payloads(0..MaxPayload)
  BY DEF Commands
<1>3. a \in Seq(Byte) /\ b \in Seq(Byte) /\ z \in Seq(Byte)
  BY <1>1, <1>2, ParticipantShape, PrefixedShape, ConcatProperties DEF Payloads
<1>4. CommandBytes(m) \o y = a \o z
  BY <1>1, <1>3, ConcatAssociative DEF CommandBytes
<1>5. PICK who : who = Participant(e)
  OBVIOUS
<1>6. Yields(who, m.participant, z)
  BY <1>1, <1>2, <1>3, <1>4, <1>5, ParticipantYields
<1>7. PICK q : q = Payload(who)
  OBVIOUS
<1>8. Yields(q, m.payload, y)
  <2>1. At(who, Prefixed(m.payload) \o y)
    BY <1>1, <1>6 DEF Yields
  <2> QED
    BY <1>2, <1>7, <2>1, PrefixedYields DEF Payload
<1>9. CommandAfter(who) = Gives(q, m)
  <2>1. [participant |-> m.participant, payload |-> m.payload] = m
    BY DEF Commands
  <2> QED
    BY <1>6, <1>7, <1>8, <2>1 DEF CommandAfter, WithPayload, Yields
<1>10. Yields(Gives(q, m), m, y)
  BY <1>8, GivesYields DEF Yields
<1>11. OneMore(e) = Gives(Gives(q, m), Append(e.val, m))
  BY <1>5, <1>9, <1>10 DEF OneMore, Push, At, Yields
<1> QED
  BY <1>10, <1>11, GivesYields DEF Yields

\* The commands of a tick, at least a byte each.
LEMMA PackedShape ==
  ASSUME NEW commands \in Seq(Commands)
  PROVE  Packed(commands) \in Seq(Byte) /\ Len(Packed(commands)) >= Len(commands)
<1>1. PICK n : n = Len(commands)
  OBVIOUS
<1>2. PICK f : /\ f[0] = <<>>
               /\ \A k \in 1..n : f[k] = CommandBytes(commands[n - k + 1]) \o f[k - 1]
               /\ Packed(commands) = f[n]
  BY <1>1, CommandsPacked
<1>3. n \in Nat
  BY <1>1
<1> DEFINE T == {k \in 0..n : f[k] \in Seq(Byte) /\ Len(f[k]) >= k}
<1>4. 0 \in T
  <2>1. 0 \in 0..n /\ f[0] \in Seq(Byte) /\ Len(f[0]) = 0
    BY <1>2, <1>3, NoBytes
  <2> QED
    BY <2>1
<1>5. ASSUME NEW k \in 1..n, k - 1 \in T PROVE k \in T
  <2>1. PICK i, a, b : i = n - k + 1 /\ a = CommandBytes(commands[i]) /\ b = f[k - 1]
    OBVIOUS
  <2>2. commands[i] \in Commands
    BY <1>1, <1>3, <2>1
  <2>3. a \in Seq(Byte) /\ Len(a) >= 1 /\ b \in Seq(Byte) /\ Len(b) >= k - 1
    BY <1>5, <2>1, <2>2, CommandShape
  <2>4. f[k] = a \o b
    BY <1>2, <2>1
  <2>5. f[k] \in Seq(Byte) /\ Len(f[k]) = Len(a) + Len(b) /\ Len(a) \in Nat /\ Len(b) \in Nat
    BY <2>3, <2>4, Joined
  <2>6. Len(f[k]) >= k
    BY <2>3, <2>5
  <2>7. k \in 0..n
    OBVIOUS
  <2> QED
    BY <2>5, <2>6, <2>7
<1> HIDE DEF T
<1>6. 0..n \subseteq T
  BY <1>3, <1>4, <1>5, UpTo
<1> QED
  BY <1>1, <1>2, <1>3, <1>6 DEF T

\* As many commands are read as were sent, in their order.
LEMMA CommandsYield ==
  ASSUME NEW commands \in Seq(Commands), NEW y \in Seq(Byte),
         NEW e, At(e, Packed(commands) \o y)
  PROVE  Yields(CommandsOf(e, Len(commands)), commands, y)
<1>1. PICK n \in Nat : n = Len(commands)
  OBVIOUS
<1>2. PICK f : /\ f[0] = <<>>
               /\ \A k \in 1..n : f[k] = CommandBytes(commands[n - k + 1]) \o f[k - 1]
               /\ Packed(commands) = f[n]
  BY <1>1, CommandsPacked
<1>3. PICK g : /\ g[0] = Gives(e, <<>>) /\ \A k \in 1..n : g[k] = OneMore(g[k - 1])
               /\ CommandsOf(e, n) = g[n]
  BY CommandsRead
<1>4. \A k \in 0..n : f[k] \in Seq(Byte)
  <2> DEFINE T == {k \in 0..n : f[k] \in Seq(Byte)}
  <2>1. 0 \in T
    <3>1. 0 \in 0..n /\ f[0] \in Seq(Byte)
      BY <1>2, NoBytes
    <3> QED
      BY <3>1
  <2>2. ASSUME NEW k \in 1..n, k - 1 \in T PROVE k \in T
    <3>1. PICK i, a, b : i = n - k + 1 /\ a = CommandBytes(commands[i]) /\ b = f[k - 1]
      OBVIOUS
    <3>2. commands[i] \in Commands
      BY <1>1, <3>1
    <3>3. a \in Seq(Byte) /\ b \in Seq(Byte) /\ f[k] = a \o b
      BY <1>2, <2>2, <3>1, <3>2, CommandShape
    <3>4. f[k] \in Seq(Byte) /\ k \in 0..n
      BY <3>3, Joined
    <3> QED
      BY <3>4
  <2> HIDE DEF T
  <2>3. 0..n \subseteq T
    BY <2>1, <2>2, UpTo
  <2> QED
    BY <2>3 DEF T
<1> DEFINE Good(k) == At(g[k], f[n - k] \o y) /\ g[k].val = SubSeq(commands, 1, k)
           T == {k \in 0..n : Good(k)}
<1>5. 0 \in T
  <2>1. At(e, f[n - 0] \o y)
    BY <1>2
  <2>2. SubSeq(commands, 1, 0) = <<>>
    BY SubSeqEmpty
  <2>3. Yields(g[0], <<>>, f[n - 0] \o y)
    BY <1>3, <2>1, GivesYields
  <2>4. Good(0)
    BY <2>2, <2>3 DEF Yields
  <2>5. 0 \in 0..n
    OBVIOUS
  <2> HIDE DEF Good
  <2> QED
    BY <2>4, <2>5
<1>6. ASSUME NEW k \in 1..n, k - 1 \in T PROVE k \in T
  <2>1. PICK i \in 0..n - 1 : i = k - 1
    OBVIOUS
  <2>2. PICK h, m, a, b, z : /\ h = g[i] /\ m = commands[k] /\ a = CommandBytes(m)
                             /\ b = f[n - k] /\ z = b \o y
    OBVIOUS
  <2>3. m \in Commands
    BY <1>1, <2>2
  <2>4. a \in Seq(Byte) /\ b \in Seq(Byte) /\ z \in Seq(Byte)
    BY <1>4, <2>2, <2>3, CommandShape, ConcatProperties
  <2>5. f[n - i] = a \o b
    <3>1. PICK j \in 1..n : j = n - i
      BY <2>1
    <3>2. j - 1 = n - k /\ n - j + 1 = k
      BY <2>1, <3>1
    <3>3. f[j] = CommandBytes(commands[n - j + 1]) \o f[j - 1]
      BY <1>2
    <3> QED
      BY <2>2, <3>1, <3>2, <3>3
  <2>6. At(h, (a \o b) \o y) /\ h.val = SubSeq(commands, 1, i)
    BY <1>6, <2>1, <2>2, <2>5
  <2>7. (a \o b) \o y = a \o z
    <3>1. a \in Seq(Byte) /\ b \in Seq(Byte) /\ y \in Seq(Byte) /\ z = b \o y
      BY <2>2, <2>4
    <3> QED
      BY <3>1, Regrouped
  <2>8. Yields(OneMore(h), Append(h.val, m), z)
    BY <2>2, <2>3, <2>4, <2>6, <2>7, OneMoreYields
  <2>9. Append(SubSeq(commands, 1, i), m) = SubSeq(commands, 1, k)
    <3>1. Append(SubSeq(commands, 1, i), commands[k]) = SubSeq(commands, 1, i) \o <<commands[k]>>
      <4>1. SubSeq(commands, 1, i) \in Seq(Commands)
        BY <1>1, <2>1
      <4> QED
        BY <2>2, <2>3, <4>1
    <3>2. 1 \in 1..Len(commands) /\ k \in 1..Len(commands) /\ k - 1 = i
      BY <1>1, <2>1
    <3>3. SubSeq(commands, 1, k) = SubSeq(commands, 1, k - 1) \o <<commands[k]>>
      BY <3>2, SubSeqRecursiveSecond
    <3> QED
      BY <2>2, <3>1, <3>2, <3>3
  <2>10. g[k] = OneMore(h)
    BY <1>3, <2>1, <2>2
  <2>11. At(g[k], f[n - k] \o y) /\ g[k].val = SubSeq(commands, 1, k)
    BY <2>2, <2>6, <2>8, <2>9, <2>10 DEF Yields
  <2>12. Good(k)
    BY <2>11
  <2>13. k \in 0..n
    OBVIOUS
  <2> HIDE DEF Good
  <2> QED
    BY <2>12, <2>13
<1> HIDE DEF T, Good
<1>7. 0..n \subseteq T
  BY <1>5, <1>6, UpTo
<1>8. Good(n)
  BY <1>7 DEF T
<1>9. f[n - n] \o y = y /\ SubSeq(commands, 1, n) = commands
  BY <1>1, <1>2, ConcatEmptySeq, SubSeqFull
<1> QED
  BY <1>1, <1>3, <1>8, <1>9 DEF Good, Yields

\* A tick is its number, the number of its commands, and these.
LEMMA TickShape ==
  ASSUME NEW t \in Ticks
  PROVE  /\ TickBytes(t) \in Seq(Byte)
         /\ Len(TickBytes(t)) =
              Len(Varint(t.tick)) + Len(Varint(Len(t.inputs))) + Len(Packed(t.inputs))
<1>1. PICK a, b, c : a = Varint(t.tick) /\ b = Varint(Len(t.inputs)) /\ c = Packed(t.inputs)
  OBVIOUS
<1>2. a \in Seq(Byte) /\ b \in Seq(Byte) /\ c \in Seq(Byte)
  BY <1>1, VarintShape, PackedShape DEF Ticks, InputLists
<1>3. PICK d : d = a \o b
  OBVIOUS
<1>4. d \in Seq(Byte) /\ Len(d) = Len(a) + Len(b)
  BY <1>2, <1>3, ConcatProperties
<1>5. d \o c \in Seq(Byte) /\ Len(d \o c) = Len(d) + Len(c)
  BY <1>2, <1>4, ConcatProperties
<1> QED
  BY <1>1, <1>3, <1>4, <1>5 DEF TickBytes

\* A tick sent is read.
LEMMA TickYields ==
  ASSUME NEW t \in Ticks, NEW y \in Seq(Byte), NEW e, At(e, TickBytes(t) \o y)
  PROVE  Yields(TickAdvance(e), t, y)
<1>1. PICK a, b, c, k : /\ a = Varint(t.tick) /\ k = Len(t.inputs) /\ b = Varint(k)
                        /\ c = Packed(t.inputs)
  OBVIOUS
<1>2. t.tick \in Byte /\ t.inputs \in Seq(Commands) /\ k \in Byte
  BY <1>1 DEF Ticks, InputLists
<1>3. a \in Seq(Byte) /\ b \in Seq(Byte) /\ c \in Seq(Byte) /\ Len(c) >= k
  BY <1>1, <1>2, VarintShape, PackedShape
<1>4. PICK z, w : z = c \o y /\ w = b \o z
  OBVIOUS
<1>5. z \in Seq(Byte) /\ Len(z) = Len(c) + Len(y) /\ Len(c) \in Nat /\ Len(y) \in Nat
  BY <1>3, <1>4, ConcatProperties
<1>6. w \in Seq(Byte)
  BY <1>3, <1>4, <1>5, ConcatProperties
<1>7. TickBytes(t) \o y = a \o w
  <2>1. PICK d : d = a \o b
    OBVIOUS
  <2>2. d \in Seq(Byte)
    BY <1>3, <2>1, ConcatProperties
  <2>3. (d \o c) \o y = d \o z
    BY <1>3, <1>4, <2>2, Regrouped
  <2>4. (a \o b) \o z = a \o w
    <3>1. a \in Seq(Byte) /\ b \in Seq(Byte) /\ z \in Seq(Byte) /\ w = b \o z
      BY <1>3, <1>4, <1>5
    <3> QED
      BY <3>1, Regrouped
  <2> QED
    BY <1>1, <2>1, <2>3, <2>4 DEF TickBytes
<1>8. PICK number, n : number = Scalar(e) /\ n = Length(number)
  OBVIOUS
<1>9. Yields(number, t.tick, w)
  BY <1>1, <1>2, <1>6, <1>7, <1>8, ScalarYields
<1>10. Yields(n, k, z)
  <2>1. At(number, Varint(k) \o z) /\ k <= Len(z)
    BY <1>1, <1>2, <1>3, <1>4, <1>5, <1>9, Bytes DEF Yields
  <2> QED
    BY <1>2, <1>5, <1>8, <2>1, LengthYields
<1>11. At(Reserved(n), c \o y) /\ Ok(n) /\ n.val = k
  BY <1>2, <1>4, <1>10, ReservedShape DEF Yields, At
<1>12. PICK p : p = Reserved(n)
  OBVIOUS
<1>13. Yields(CommandsOf(p, k), t.inputs, y)
  BY <1>1, <1>2, <1>11, <1>12, CommandsYield
<1>14. Inputs(n) = CommandsOf(p, k)
  BY <1>11, <1>12 DEF Inputs
<1>15. TickAdvance(e) = Gives(Inputs(n), [tick |-> t.tick, inputs |-> t.inputs])
  BY <1>8, <1>9, <1>13, <1>14 DEF TickAdvance, InputsAfter, WithInputs, Yields
<1>16. t = [tick |-> t.tick, inputs |-> t.inputs]
  BY DEF Ticks
<1> QED
  BY <1>13, <1>14, <1>15, <1>16, GivesYields DEF Yields

\* Two integers, one after the other, and the bodies made of integers.
LEMMA PairYields ==
  ASSUME NEW v \in Byte, NEW w \in Byte, NEW y \in Seq(Byte),
         NEW e, At(e, (Varint(v) \o Varint(w)) \o y)
  PROVE  /\ Yields(Scalar(e), v, Varint(w) \o y) /\ Yields(Scalar(Scalar(e)), w, y)
         /\ Varint(v) \o Varint(w) \in Seq(Byte)
<1>1. PICK a, b, z : a = Varint(v) /\ b = Varint(w) /\ z = b \o y
  OBVIOUS
<1>2. a \in Seq(Byte) /\ b \in Seq(Byte)
  BY <1>1, VarintShape
<1>3. z \in Seq(Byte) /\ a \o b \in Seq(Byte)
  BY <1>1, <1>2, Joined
<1>4. (a \o b) \o y = a \o z
  BY <1>1, <1>2, <1>3, Regrouped
<1>5. Yields(Scalar(e), v, z)
  BY <1>1, <1>3, <1>4, ScalarYields
<1>6. Yields(Scalar(Scalar(e)), w, y)
  BY <1>1, <1>5, ScalarYields DEF Yields
<1> QED
  BY <1>1, <1>3, <1>5, <1>6

\* A tick with its hash, and the progress of a transfer.
LEMMA HashYields ==
  ASSUME NEW v \in Byte, NEW w \in Byte, NEW y \in Seq(Byte),
         NEW e, At(e, (Varint(v) \o Varint(w)) \o y)
  PROVE  /\ Yields(TickHash(e), [tick |-> v, hash |-> w], y)
         /\ Yields(Progress(e), [received_bytes |-> v, replayed_tick |-> w], y)
<1>1. PICK s, t : s = Scalar(e) /\ t = Scalar(s)
  OBVIOUS
<1>2. s.val = v /\ t.val = w /\ At(t, y)
  BY <1>1, PairYields DEF Yields
<1>3. /\ TickHash(e) = Gives(t, [tick |-> v, hash |-> w])
      /\ Progress(e) = Gives(t, [received_bytes |-> v, replayed_tick |-> w])
  BY <1>1, <1>2 DEF TickHash, TickHashAfter, WithHash, Progress, ReplayedAfter, WithReplayed
<1> QED
  BY <1>2, <1>3, GivesYields

\* What a save is, before its chunks.
LEMMA MetadataYields ==
  ASSUME NEW n \in Byte, NEW v \in Byte, NEW w \in Byte,
         NEW e, At(e, Varint(n) \o (Varint(v) \o Varint(w)))
  PROVE  Yields(SaveMetadata(e), [total_bytes |-> n, tick |-> v, hash |-> w], <<>>)
<1>1. PICK s, b, r : s = Scalar(e) /\ b = Varint(v) \o Varint(w) /\ r = TickHash(s)
  OBVIOUS
<1>2. b \in Seq(Byte) /\ b \o <<>> = b
  BY <1>1, VarintShape, Joined, ConcatEmptySeq
<1>3. Yields(s, n, b)
  BY <1>1, <1>2, ScalarYields
<1>4. At(s, b \o <<>>)
  BY <1>2, <1>3 DEF Yields
<1>5. Yields(r, [tick |-> v, hash |-> w], <<>>)
  BY <1>1, <1>4, NoBytes, HashYields
<1>6. SaveMetadata(e) = Gives(r, [total_bytes |-> n, tick |-> v, hash |-> w])
  BY <1>1, <1>3, <1>5 DEF SaveMetadata, MetadataAfter, WithTickHash, Yields
<1> QED
  BY <1>5, <1>6, GivesYields DEF Yields

\* A message after its tag.
LEMMA TagYields ==
  ASSUME NEW tag \in 0..2, NEW p \in Seq(Byte), NEW e, At(e, << tag >> \o p)
  PROVE  Yields(Scalar(e), tag, p \o <<>>) /\ << tag >> \o p \in Seq(Byte)
<1>1. tag \in Byte /\ Varint(tag) = << tag >> /\ Varint(tag) \in Seq(Byte)
  <2>1. tag \in Byte /\ tag < Base - 1
    BY BaseAssumption DEF Byte
  <2> QED
    BY <2>1, VarintShape
<1>2. p \o <<>> = p
  BY ConcatEmptySeq
<1>3. At(e, Varint(tag) \o p)
  BY <1>1
<1>4. Yields(Scalar(e), tag, p)
  BY <1>1, <1>3, ScalarYields
<1> QED
  BY <1>1, <1>2, <1>4, Joined

\* A body read, with the name of its variant.
LEMMA NamedYields ==
  ASSUME NEW r, NEW v, NEW y, Yields(r, v, y), NEW variant
  PROVE  Yields(Named(r, variant), [variant |-> variant, body |-> v], y)
BY GivesYields DEF Yields, Named

\* The bytes after the tag of a message that has one.
BodyBytes(variant, body) ==
  CASE variant = "Input"    -> Prefixed(body)
    [] variant = "Progress" -> Varint(body.received_bytes) \o Varint(body.replayed_tick)
    [] variant = "Ready"    -> Varint(body.tick) \o Varint(body.hash)
    [] variant = "Start"    -> Varint(body.tick) \o Varint(body.hash)
    [] variant = "Tick"     -> TickBytes(body)
    [] variant = "Begin"    ->
         Varint(body.total_bytes) \o (Varint(body.tick) \o Varint(body.hash))
    [] variant = "Chunk"    -> Prefixed(body)

TagOf(variant) ==
  CASE variant \in {"Input", "Start", "Begin"}   -> 0
    [] variant \in {"Progress", "Tick", "Chunk"} -> 1
    [] variant = "Ready" -> 2

Variants(envelope) ==
  CASE envelope = "client" -> {"Input", "Progress", "Ready"}
    [] envelope = "server" -> {"Start", "Tick"}
    [] envelope = "save"   -> {"Begin", "Chunk"}

Bodies(variant) ==
  CASE variant = "Input"    -> Payloads(0..MaxPayload)
    [] variant = "Progress" -> [received_bytes : Byte, replayed_tick : Byte]
    [] variant = "Ready"    -> Hashes
    [] variant = "Start"    -> Hashes
    [] variant = "Tick"     -> Ticks
    [] variant = "Begin"    -> [total_bytes : Byte, tick : Byte, hash : Byte]
    [] variant = "Chunk"    -> Payloads(1..MaxChunk)

\* A message with a tag is a variant and a body of that variant.
LEMMA TaggedMessages ==
  ASSUME NEW envelope \in {"client", "server", "save"}, NEW m \in Message(envelope)
  PROVE  \E variant \in Variants(envelope) : \E body \in Bodies(variant) :
           m = [variant |-> variant, body |-> body]
<1>1. CASE envelope = "client"
  BY <1>1 DEF Message, Variants, Bodies
<1>2. CASE envelope = "server"
  BY <1>2 DEF Message, Variants, Bodies
<1>3. CASE envelope = "save"
  BY <1>3 DEF Message, Variants, Bodies
<1> QED
  BY <1>1, <1>2, <1>3

\* A body is sent as bytes.
LEMMA BodyShape ==
  ASSUME NEW envelope \in {"client", "server", "save"}, NEW variant \in Variants(envelope),
         NEW body \in Bodies(variant)
  PROVE  BodyBytes(variant, body) \in Seq(Byte)
<1>1. CASE variant \in {"Input", "Chunk"}
  <2>1. body \in Seq(Byte) /\ Len(body) \in Byte
    BY <1>1 DEF Bodies, Payloads
  <2> QED
    BY <1>1, <2>1, PrefixedShape DEF BodyBytes
<1>2. CASE variant = "Progress"
  <2>1. body.received_bytes \in Byte /\ body.replayed_tick \in Byte
    BY <1>2 DEF Bodies
  <2> QED
    BY <1>2, <2>1, VarintShape, Joined DEF BodyBytes
<1>3. CASE variant \in {"Ready", "Start"}
  <2>1. body.tick \in Byte /\ body.hash \in Byte
    BY <1>3 DEF Bodies, Hashes
  <2> QED
    BY <1>3, <2>1, VarintShape, Joined DEF BodyBytes
<1>4. CASE variant = "Tick"
  BY <1>4, TickShape DEF BodyBytes, Bodies
<1>5. CASE variant = "Begin"
  <2>1. body.total_bytes \in Byte /\ body.tick \in Byte /\ body.hash \in Byte
    BY <1>5 DEF Bodies
  <2>2. Varint(body.tick) \o Varint(body.hash) \in Seq(Byte)
    BY <2>1, VarintShape, Joined
  <2> QED
    BY <1>5, <2>1, <2>2, VarintShape, Joined DEF BodyBytes
<1> QED
  BY <1>1, <1>2, <1>3, <1>4, <1>5 DEF Variants

\* A message is sent as its tag and its body.
LEMMA SealedTagged ==
  ASSUME NEW envelope \in {"client", "server", "save"}, NEW variant \in Variants(envelope),
         NEW body \in Bodies(variant)
  PROVE  /\ TagOf(variant) \in 0..2
         /\ Sealed(envelope, [variant |-> variant, body |-> body])
              = << TagOf(variant) >> \o BodyBytes(variant, body)
<1>1. CASE variant # "Begin"
  BY <1>1 DEF Variants, Sealed, TagOf, BodyBytes
<1>2. CASE variant = "Begin"
  <2>1. body.total_bytes \in Byte /\ body.tick \in Byte /\ body.hash \in Byte
    BY <1>2 DEF Bodies
  <2>2. PICK a, b, c : /\ a = << 0 >> /\ b = Varint(body.total_bytes)
                       /\ c = Varint(body.tick) \o Varint(body.hash)
    OBVIOUS
  <2>3. 0 \in Byte
    BY BaseAssumption DEF Byte
  <2>4. a \in Seq(Byte) /\ b \in Seq(Byte) /\ c \in Seq(Byte)
    BY <2>1, <2>2, <2>3, VarintShape, Joined
  <2>5. (a \o b) \o c = a \o (b \o c)
    BY <2>4, ConcatAssociative
  <2>6. Sealed(envelope, [variant |-> variant, body |-> body]) = (a \o b) \o c
    BY <1>2, <2>2 DEF Sealed, Variants
  <2>7. BodyBytes(variant, body) = b \o c
    BY <1>2, <2>2 DEF BodyBytes
  <2>8. TagOf(variant) = 0 /\ 0 \in 0..2 /\ a = << TagOf(variant) >>
    BY <1>2, <2>2 DEF TagOf
  <2>9. Sealed(envelope, [variant |-> variant, body |-> body])
          = << TagOf(variant) >> \o BodyBytes(variant, body)
    BY <2>5, <2>6, <2>7, <2>8
  <2> QED
    BY <2>8, <2>9
<1> QED
  BY <1>1, <1>2

\* A message with a tag is read after it.
LEMMA TaggedYields ==
  ASSUME NEW envelope \in {"client", "server", "save"}, NEW variant \in Variants(envelope),
         NEW body \in Bodies(variant),
         NEW e, At(e, << TagOf(variant) >> \o BodyBytes(variant, body))
  PROVE  Yields(Read(envelope, e), [variant |-> variant, body |-> body], <<>>)
<1>1. PICK s, t, p : s = Scalar(e) /\ t = TagOf(variant) /\ p = BodyBytes(variant, body)
  OBVIOUS
<1>2. t \in 0..2 /\ p \in Seq(Byte)
  BY <1>1, SealedTagged, BodyShape
<1>3. Yields(s, t, p \o <<>>)
  BY <1>1, <1>2, TagYields
<1>4. At(s, p \o <<>>) /\ Ok(s) /\ s.val = t
  BY <1>3 DEF Yields, At
<1>5. CASE variant = "Input"
  <2>1. Read(envelope, e) = Named(TakeBytes(Length(s), 0..MaxPayload), variant)
    BY <1>1, <1>4, <1>5 DEF Read, ClientMessage, Variants, TagOf, Payload
  <2>2. Yields(TakeBytes(Length(s), 0..MaxPayload), body, <<>>)
    BY <1>1, <1>4, <1>5, NoBytes, PrefixedYields DEF Bodies, BodyBytes
  <2> QED
    BY <2>1, <2>2, NamedYields
<1>6. CASE variant = "Progress"
  <2>1. Read(envelope, e) = Named(Progress(s), variant)
    BY <1>1, <1>4, <1>6 DEF Read, ClientMessage, Variants, TagOf
  <2>2. PICK v \in Byte, w \in Byte : body = [received_bytes |-> v, replayed_tick |-> w]
    BY <1>6 DEF Bodies
  <2>3. p = Varint(v) \o Varint(w)
    BY <1>1, <1>6, <2>2 DEF BodyBytes
  <2>4. Yields(Progress(s), body, <<>>)
    BY <1>4, <2>2, <2>3, NoBytes, HashYields
  <2> QED
    BY <2>1, <2>4, NamedYields
<1>7. CASE variant \in {"Ready", "Start"}
  <2>1. Read(envelope, e) = Named(TickHash(s), variant)
    BY <1>1, <1>4, <1>7 DEF Read, ClientMessage, ServerMessage, Variants, TagOf
  <2>2. PICK v \in Byte, w \in Byte : body = [tick |-> v, hash |-> w]
    BY <1>7 DEF Bodies, Hashes
  <2>3. p = Varint(v) \o Varint(w)
    BY <1>1, <1>7, <2>2 DEF BodyBytes
  <2>4. Yields(TickHash(s), body, <<>>)
    BY <1>4, <2>2, <2>3, NoBytes, HashYields
  <2> QED
    BY <2>1, <2>4, NamedYields
<1>8. CASE variant = "Tick"
  <2>1. Read(envelope, e) = Named(TickAdvance(s), variant)
    BY <1>1, <1>4, <1>8 DEF Read, ServerMessage, Variants, TagOf
  <2>2. Yields(TickAdvance(s), body, <<>>)
    BY <1>1, <1>4, <1>8, NoBytes, TickYields DEF Bodies, BodyBytes
  <2> QED
    BY <2>1, <2>2, NamedYields
<1>9. CASE variant = "Begin"
  <2>1. Read(envelope, e) = Named(SaveMetadata(s), variant)
    BY <1>1, <1>4, <1>9 DEF Read, SaveMessage, Variants, TagOf
  <2>2. PICK n \in Byte, v \in Byte, w \in Byte :
          body = [total_bytes |-> n, tick |-> v, hash |-> w]
    BY <1>9 DEF Bodies
  <2>3. p = Varint(n) \o (Varint(v) \o Varint(w)) /\ p \o <<>> = p
    BY <1>1, <1>2, <1>9, <2>2, ConcatEmptySeq DEF BodyBytes
  <2>4. Yields(SaveMetadata(s), body, <<>>)
    BY <1>4, <2>2, <2>3, MetadataYields
  <2> QED
    BY <2>1, <2>4, NamedYields
<1>10. CASE variant = "Chunk"
  <2>1. Read(envelope, e) = Named(TakeBytes(Length(s), 1..MaxChunk), variant)
    BY <1>1, <1>4, <1>10 DEF Read, SaveMessage, Variants, TagOf, Chunk
  <2>2. Yields(TakeBytes(Length(s), 1..MaxChunk), body, <<>>)
    BY <1>1, <1>4, <1>10, NoBytes, PrefixedYields DEF Bodies, BodyBytes
  <2> QED
    BY <2>1, <2>2, NamedYields
<1> QED
  BY <1>5, <1>6, <1>7, <1>8, <1>9, <1>10 DEF Variants

\* A message is sent as bytes.
LEMMA SealedShape ==
  ASSUME NEW envelope \in Envelopes, NEW m \in Message(envelope)
  PROVE  Sealed(envelope, m) \in Seq(Byte)
<1>1. CASE envelope \in {"client", "server", "save"}
  <2>1. PICK variant \in Variants(envelope) : \E body \in Bodies(variant) :
          m = [variant |-> variant, body |-> body]
    BY <1>1, TaggedMessages
  <2>2. PICK body \in Bodies(variant) : m = [variant |-> variant, body |-> body]
    BY <2>1
  <2>3. PICK a, p : a = << TagOf(variant) >> /\ p = BodyBytes(variant, body)
    OBVIOUS
  <2>4. Sealed(envelope, m) = a \o p /\ TagOf(variant) \in 0..2
    BY <1>1, <2>2, <2>3, SealedTagged
  <2>5. a \in Seq(Byte) /\ p \in Seq(Byte)
    BY <1>1, <2>3, <2>4, BodyShape, BaseAssumption DEF Byte
  <2> QED
    BY <2>4, <2>5, Joined
<1>2. CASE envelope = "desync"
  <2>1. m.tick \in Byte /\ m.hash \in Byte
    BY <1>2 DEF Message, Hashes
  <2>2. Sealed(envelope, m) = Varint(m.tick) \o Varint(m.hash)
    BY <1>2 DEF Sealed
  <2> QED
    BY <2>1, <2>2, VarintShape, Joined
<1>3. CASE envelope = "tick"
  <2>1. m \in Ticks /\ Sealed(envelope, m) = TickBytes(m)
    BY <1>3 DEF Message, Sealed
  <2> QED
    BY <2>1, TickShape
<1> QED
  BY <1>1, <1>2, <1>3 DEF Envelopes

\* A message sent is read to its end.
LEMMA ReadYields ==
  ASSUME NEW envelope \in Envelopes, NEW m \in Message(envelope),
         NEW e, At(e, Sealed(envelope, m))
  PROVE  Yields(Read(envelope, e), m, <<>>)
<1>1. CASE envelope \in {"client", "server", "save"}
  <2>1. PICK variant \in Variants(envelope) : \E body \in Bodies(variant) :
          m = [variant |-> variant, body |-> body]
    BY <1>1, TaggedMessages
  <2>2. PICK body \in Bodies(variant) : m = [variant |-> variant, body |-> body]
    BY <2>1
  <2>3. At(e, << TagOf(variant) >> \o BodyBytes(variant, body))
    BY <1>1, <2>2, SealedTagged
  <2> QED
    BY <1>1, <2>2, <2>3, TaggedYields
<1>2. Sealed(envelope, m) \o <<>> = Sealed(envelope, m)
  BY SealedShape, ConcatEmptySeq
<1>3. CASE envelope = "desync"
  <2>1. PICK v \in Byte, w \in Byte : m = [tick |-> v, hash |-> w]
    BY <1>3 DEF Message, Hashes
  <2>2. Sealed(envelope, m) = Varint(v) \o Varint(w)
    BY <1>3, <2>1 DEF Sealed
  <2>3. At(e, (Varint(v) \o Varint(w)) \o <<>>)
    BY <1>2, <2>2
  <2>4. Read(envelope, e) = TickHash(e)
    BY <1>3 DEF Read
  <2> QED
    BY <2>1, <2>3, <2>4, NoBytes, HashYields
<1>4. CASE envelope = "tick"
  <2>1. m \in Ticks /\ Sealed(envelope, m) = TickBytes(m)
    BY <1>4 DEF Message, Sealed
  <2>2. At(e, TickBytes(m) \o <<>>)
    BY <1>2, <2>1
  <2>3. Read(envelope, e) = TickAdvance(e)
    BY <1>4 DEF Read
  <2> QED
    BY <2>1, <2>2, <2>3, NoBytes, TickYields
<1> QED
  BY <1>1, <1>3, <1>4 DEF Envelopes

\* What is sent is what is read: every message the program can build, of any number of
\* commands and any payloads in their budget, is opened again from its own bytes, if they
\* are no longer than a record may be (protocol.rs, encode and the decoders).
THEOREM SentIsOpened ==
  ASSUME NEW envelope \in Envelopes, NEW m \in Message(envelope),
         WithinRecord(envelope, Sealed(envelope, m))
  PROVE  Opened(envelope, Sealed(envelope, m)) = m
<1>1. PICK b : b = Sealed(envelope, m)
  OBVIOUS
<1>2. b \in Seq(Byte) /\ "measure" \in Passes /\ "materialize" \in Passes
  BY <1>1, SealedShape DEF Passes
<1>3. PICK e, c : e = Cursor(b, "materialize") /\ c = Read(envelope, e)
  OBVIOUS
<1>4. At(e, Sealed(envelope, m))
  BY <1>1, <1>2, <1>3, CursorShape DEF At
<1>5. Yields(c, m, <<>>)
  BY <1>3, <1>4, ReadYields
<1>6. Ok(c) /\ c.rest = <<>> /\ c.val = m
  BY <1>5 DEF Yields, At
<1>7. Ok(Pass(envelope, b, "materialize")) /\ Pass(envelope, b, "materialize") = c
  BY <1>2, <1>3, <1>6, PassReads
<1>8. Ok(Pass(envelope, b, "measure"))
  BY <1>2, <1>7, SecondAccepts
<1> QED
  BY <1>1, <1>6, <1>7, <1>8 DEF Opened, ValueOf

-----------------------------------------------------------------------------
\* What was read takes no more bytes to send than it took to read.

\* Reading went on from c to r, over at least n bytes if it got there.
Costs(c, r, n) ==
  /\ Shaped(c) /\ Shaped(r) /\ r.pass = c.pass
  /\ Ok(r) => Ok(c) /\ n \in Nat /\ n + Len(r.rest) <= Len(c.rest)

\* It gave one of V.
Sends(c, r, V, n) == Costs(c, r, n) /\ (Ok(r) => r.val \in V)

\* Reading on adds up.
LEMMA CostsTwice ==
  ASSUME NEW c, NEW r, NEW s, NEW i, NEW j, Costs(c, r, i), Costs(r, s, j)
  PROVE  Costs(c, s, i + j)
<1>1. /\ Shaped(c) /\ Shaped(s) /\ s.pass = c.pass
      /\ Ok(s) => Ok(r) /\ Ok(c)
  BY DEF Costs
<1>2. ASSUME Ok(s) PROVE i + j \in Nat /\ i + j + Len(s.rest) <= Len(c.rest)
  <2>1. PICK x, y, z : x = Len(c.rest) /\ y = Len(r.rest) /\ z = Len(s.rest)
    OBVIOUS
  <2>2. i \in Nat /\ j \in Nat /\ i + y <= x /\ j + z <= y
    BY <1>1, <1>2, <2>1 DEF Costs
  <2>3. x \in Nat /\ y \in Nat /\ z \in Nat
    BY <2>1 DEF Costs, Shaped
  <2>4. i + j \in Nat /\ i + j + z <= x
    BY ONLY <2>2, <2>3
  <2> QED
    BY <2>1, <2>4
<1> QED
  BY <1>1, <1>2 DEF Costs

\* The number matters only if reading got there.
LEMMA CostsSame ==
  ASSUME NEW c, NEW r, NEW i, NEW j, Costs(c, r, i), Ok(r) => i = j
  PROVE  Costs(c, r, j)
BY DEF Costs

\* Giving a value takes nothing.
LEMMA GivesCosts ==
  ASSUME NEW c, NEW r, NEW n, Costs(c, r, n), NEW v
  PROVE  Costs(c, Gives(r, v), n)
BY GivesShape DEF Costs

\* Reading that failed owes nothing.
LEMMA FailsCosts ==
  ASSUME NEW c, NEW r, Shaped(c), Shaped(r), r.pass = c.pass, ~Ok(r), NEW V, NEW n
  PROVE  Sends(c, r, V, n)
BY DEF Sends, Costs

\* An integer is sent in no more bytes than it came in.
LEMMA ScalarSends ==
  ASSUME NEW c, Shaped(c)
  PROVE  Sends(c, Scalar(c), Byte, Len(Varint(Scalar(c).val)))
<1>1. PICK s : s = Scalar(c)
  OBVIOUS
<1>2. /\ Shaped(s) /\ s.pass = c.pass
      /\ Ok(s) => Ok(c) /\ s.val \in Byte /\ Len(s.rest) + 1 <= Len(c.rest)
  BY <1>1, ScalarShape
<1>3. ASSUME Ok(s)
      PROVE  /\ Len(Varint(s.val)) \in Nat
             /\ Len(Varint(s.val)) + Len(s.rest) <= Len(c.rest)
  <2>1. PICK l, x, y : l = Len(Varint(s.val)) /\ x = Len(c.rest) /\ y = Len(s.rest)
    OBVIOUS
  <2>2. l \in 1..2 /\ (s.val < Base - 1 => l = 1) /\ x \in Nat /\ y \in Nat /\ y + 1 <= x
    <3>1. s.val \in Byte
      BY <1>2, <1>3
    <3>2. l \in 1..2
      BY <2>1, <3>1, VarintShape
    <3>3. ASSUME s.val < Base - 1 PROVE l = 1
      BY <2>1, <3>1, <3>3, VarintShape
    <3> QED
      BY <1>2, <1>3, <2>1, <3>2, <3>3 DEF Shaped
  <2>3. CASE s.val < Base - 1
    <3>1. l = 1
      BY <2>2, <2>3
    <3>2. l \in Nat /\ l + y <= x
      BY ONLY <2>2, <3>1
    <3> QED
      BY <2>1, <3>2
  <2>4. CASE ~(s.val < Base - 1)
    <3>1. Ok(c) /\ c.rest # <<>>
      BY <1>1, <1>3, StopShape DEF Scalar
    <3>2. ~(c.rest[1] < Base - 1)
      BY <1>1, <2>4, <3>1, GivesShape, SkipShape DEF Scalar
    <3>3. ~(Len(c.rest) < 2)
      BY <1>1, <1>3, <3>1, <3>2, StopShape DEF Scalar
    <3>4. s = Gives(Skip(c, 2), c.rest[2])
      BY <1>1, <3>1, <3>2, <3>3 DEF Scalar
    <3>5. 2 \in 0..Len(c.rest)
      BY <2>1, <2>2, <3>3
    <3>6. y = x - 2
      BY <2>1, <3>4, <3>5, SkipShape, GivesShape
    <3>7. l \in 1..2 /\ x \in Nat /\ y \in Nat
      BY <2>2
    <3>8. l \in Nat /\ l + y <= x
      BY ONLY <3>6, <3>7
    <3> QED
      BY <2>1, <3>8
  <2> QED
    BY <2>3, <2>4
<1> QED
  BY <1>1, <1>2, <1>3 DEF Sends, Costs

\* So is a length.
LEMMA LengthSends ==
  ASSUME NEW c, Shaped(c)
  PROVE  Sends(c, Length(c), Byte, Len(Varint(Length(c).val))) /\ Sized(Length(c))
<1>1. Sized(Length(c))
  BY LengthSpends
<1>2. PICK s, n : s = Scalar(c) /\ n = Length(c)
  OBVIOUS
<1>3. Sends(c, s, Byte, Len(Varint(s.val)))
  BY <1>2, ScalarSends
<1>4. n = s \/ n = Stop(s)
  BY <1>2 DEF Length, Within
<1>5. CASE n = s
  BY <1>1, <1>2, <1>3, <1>5
<1>6. CASE n = Stop(s)
  <2>1. Shaped(n) /\ n.pass = c.pass /\ ~Ok(n)
    BY <1>3, <1>6, StopShape DEF Sends, Costs
  <2>2. Sends(c, n, Byte, Len(Varint(n.val)))
    BY <2>1, FailsCosts
  <2> QED
    BY <1>1, <1>2, <2>2
<1> QED
  BY <1>4, <1>5, <1>6

\* Some bytes with their number before them.
LEMMA TakeBytesSends ==
  ASSUME NEW c, Shaped(c), c.pass = "materialize", NEW allowed
  PROVE  LET r == TakeBytes(Length(c), allowed)
         IN  Sends(c, r, Payloads(allowed), Len(Prefixed(r.val)))
<1>1. PICK n, r : n = Length(c) /\ r = TakeBytes(n, allowed)
  OBVIOUS
<1>2. Sends(c, n, Byte, Len(Varint(n.val))) /\ Sized(n)
  BY <1>1, LengthSends
<1>3. Shaped(n) /\ n.pass = "materialize"
  BY <1>2 DEF Sends, Costs
<1>4. CASE ~(Ok(n) /\ n.val \in allowed)
  <2>1. r = Stop(n)
    BY <1>1, <1>4 DEF TakeBytes
  <2> QED
    BY <1>1, <1>3, <2>1, StopShape, FailsCosts
<1>5. CASE Ok(n) /\ n.val \in allowed
  <2>1. PICK k : k = n.val
    OBVIOUS
  <2>2. k \in Byte /\ k \in Nat /\ k \in 0..Len(n.rest) /\ n.rest \in Seq(Byte)
    <3>1. k \in Byte /\ k <= Len(n.rest) /\ n.rest \in Seq(Byte)
      BY <1>2, <1>5, <2>1 DEF Sized, Shaped
    <3> QED
      BY <3>1, Bytes
  <2>3. PICK v, s, a : v = Kept(n) /\ s = Reserved(n) /\ a = Skip(s, k)
    OBVIOUS
  <2>4. Shaped(s) /\ s.rest = n.rest /\ s.pass = n.pass /\ Ok(s)
    BY <1>3, <1>5, <2>1, <2>2, <2>3, ReservedShape
  <2>5. Shaped(a) /\ Len(a.rest) = Len(n.rest) - k /\ a.pass = n.pass /\ Ok(a)
    BY <2>2, <2>3, <2>4, SkipShape
  <2>6. r = Gives(a, v)
    BY <1>1, <1>5, <2>1, <2>3 DEF TakeBytes
  <2>7. Shaped(r) /\ r.rest = a.rest /\ r.pass = a.pass /\ r.val = v /\ Ok(r)
    BY <2>5, <2>6, GivesShape
  <2>8. v = SubSeq(n.rest, 1, k)
    BY <1>3, <2>1, <2>3 DEF Kept
  <2>9. v \in Seq(Byte) /\ Len(v) = k
    <3>1. \A i \in 1..k : n.rest[i] \in Byte
      BY <2>2
    <3>2. /\ SubSeq(n.rest, 1, k) \in Seq(Byte)
          /\ Len(SubSeq(n.rest, 1, k)) = IF 1 <= k THEN k - 1 + 1 ELSE 0
      BY <2>2, <3>1, SubSeqProperties
    <3> QED
      BY <2>2, <2>8, <3>2
  <2>10. v \in Payloads(allowed)
    BY <1>5, <2>1, <2>2, <2>9 DEF Payloads
  <2>11. PICK p, l, x, y : /\ p = Len(Prefixed(v)) /\ l = Len(Varint(k)) /\ x = Len(c.rest)
                           /\ y = Len(n.rest)
    OBVIOUS
  <2>12. p = l + k
    BY <2>2, <2>9, <2>11, PrefixedShape
  <2>13. l \in Nat /\ l + y <= x /\ Ok(c) /\ Shaped(c)
    BY <1>2, <1>5, <2>1, <2>11 DEF Sends, Costs
  <2>14. Len(r.rest) = y - k /\ x \in Nat /\ y \in Nat
    BY <1>3, <2>5, <2>7, <2>11 DEF Shaped
  <2>15. p \in Nat /\ p + Len(r.rest) <= x
    BY <2>2, <2>12, <2>13, <2>14
  <2>16. Costs(c, r, p)
    BY <1>3, <2>5, <2>7, <2>11, <2>13, <2>15 DEF Costs
  <2> QED
    BY <1>1, <2>7, <2>10, <2>11, <2>16 DEF Sends
<1> QED
  BY <1>4, <1>5

\* A participant.
LEMMA ParticipantSends ==
  ASSUME NEW c, Shaped(c)
  PROVE  Sends(c, Participant(c), People, Len(ParticipantBytes(Participant(c).val)))
<1>1. PICK t, r : t = Scalar(c) /\ r = Participant(c)
  OBVIOUS
<1>2. Sends(c, t, Byte, Len(Varint(t.val)))
  BY <1>1, ScalarSends
<1>3. Shaped(t) /\ t.pass = c.pass
  BY <1>2 DEF Sends, Costs
<1>4. /\ 0 \in Byte /\ 1 \in Byte /\ Len(Varint(0)) = 1 /\ Len(Varint(1)) = 1
      /\ << 1 >> \in Seq(Byte) /\ Len(<< 1 >>) = 1 /\ Len(<< 0 >>) = 1
  <2>1. 0 \in Byte /\ 1 \in Byte /\ 0 < Base - 1 /\ 1 < Base - 1
    BY BaseAssumption DEF Byte
  <2>2. Varint(0) = << 0 >> /\ Varint(1) = << 1 >>
    BY <2>1, VarintShape
  <2> QED
    BY <2>1, <2>2
<1>5. ASSUME ~Ok(r), Shaped(r), r.pass = c.pass
      PROVE  Sends(c, r, People, Len(ParticipantBytes(r.val)))
  BY <1>5, FailsCosts
<1>6. CASE ~Ok(t)
  <2>1. r = t
    BY <1>1, <1>6 DEF Participant, ParticipantOf
  <2> QED
    BY <1>1, <1>3, <1>5, <1>6, <2>1
<1>7. CASE Ok(t) /\ t.val = 0
  <2>1. r = Gives(t, <<>>)
    BY <1>1, <1>7 DEF Participant, ParticipantOf
  <2>2. r.val = <<>> /\ <<>> \in People
    BY <1>3, <2>1, GivesShape DEF People
  <2>3. Len(ParticipantBytes(r.val)) = Len(Varint(t.val))
    BY <1>4, <1>7, <2>2 DEF ParticipantBytes
  <2>4. Costs(c, r, Len(ParticipantBytes(r.val)))
    BY <1>2, <2>1, <2>3, GivesCosts DEF Sends
  <2> QED
    BY <1>1, <2>2, <2>4 DEF Sends
<1>8. CASE Ok(t) /\ t.val = 1
  <2>1. PICK i, id : i = Scalar(t) /\ id = i.val
    OBVIOUS
  <2>2. r = Gives(i, << id >>)
    BY <1>1, <1>8, <2>1 DEF Participant, ParticipantOf, Remote
  <2>3. Sends(t, i, Byte, Len(Varint(id)))
    BY <1>3, <2>1, ScalarSends
  <2>4. Shaped(i) /\ i.pass = c.pass
    BY <1>3, <2>3 DEF Sends, Costs
  <2>5. Shaped(r) /\ r.pass = c.pass /\ r.val = << id >> /\ (Ok(r) <=> Ok(i))
    BY <2>2, <2>4, GivesShape
  <2>6. CASE ~Ok(i)
    BY <1>1, <1>5, <2>5, <2>6
  <2>7. CASE Ok(i)
    <3>1. id \in Byte
      BY <2>1, <2>3, <2>7 DEF Sends
    <3>2. r.val \in People /\ r.val # <<>> /\ r.val[1] = id
      BY <2>5, <3>1 DEF People
    <3>3. PICK o, v : o = << 1 >> /\ v = Varint(id)
      OBVIOUS
    <3>4. ParticipantBytes(r.val) = o \o v
      BY <3>2, <3>3 DEF ParticipantBytes
    <3>5. Len(o \o v) = Len(o) + Len(v)
      BY <1>4, <3>1, <3>3, VarintShape, Joined
    <3>6. Len(ParticipantBytes(r.val)) = Len(Varint(t.val)) + Len(v)
      BY <1>4, <1>8, <3>3, <3>4, <3>5
    <3>7. Costs(c, i, Len(Varint(t.val)) + Len(v))
      BY <1>2, <2>3, <3>3, CostsTwice DEF Sends
    <3>8. Costs(c, r, Len(ParticipantBytes(r.val)))
      BY <2>2, <3>6, <3>7, GivesCosts
    <3> QED
      BY <1>1, <3>2, <3>8 DEF Sends
  <2> QED
    BY <2>6, <2>7
<1>9. CASE Ok(t) /\ t.val # 0 /\ t.val # 1
  <2>1. r = Stop(t)
    BY <1>1, <1>9 DEF Participant, ParticipantOf
  <2> QED
    BY <1>1, <1>3, <1>5, <2>1, StopShape
<1> QED
  BY <1>6, <1>7, <1>8, <1>9

\* One command more of a tick.
LEMMA OneMoreSends ==
  ASSUME NEW c, Shaped(c), c.pass = "materialize", Ok(OneMore(c))
  PROVE  /\ Ok(c) /\ Shaped(OneMore(c)) /\ OneMore(c).pass = c.pass
         /\ \E m \in Commands : /\ OneMore(c).val = Append(c.val, m)
                                /\ Len(CommandBytes(m)) + Len(OneMore(c).rest) <= Len(c.rest)
<1>1. Ok(c) /\ Shaped(OneMore(c)) /\ OneMore(c).pass = c.pass
  BY OneMoreSpends DEF Spends
<1>2. PICK who, p, m : /\ who = Participant(c) /\ p = TakeBytes(Length(who), 0..MaxPayload)
                       /\ m = [participant |-> who.val, payload |-> p.val]
  OBVIOUS
<1>3. Sends(c, who, People, Len(ParticipantBytes(who.val)))
  BY <1>2, ParticipantSends
<1>4. Shaped(who) /\ who.pass = "materialize"
  BY <1>3 DEF Sends, Costs
<1>5. Sends(who, p, Payloads(0..MaxPayload), Len(Prefixed(p.val)))
  BY <1>2, <1>4, TakeBytesSends
<1>6. PICK q : q = Gives(p, m)
  OBVIOUS
<1>7. Shaped(p) /\ p.pass = c.pass
  BY <1>4, <1>5 DEF Sends, Costs
<1>8. Shaped(q) /\ q.pass = c.pass /\ q.val = m /\ q.rest = p.rest /\ (Ok(q) <=> Ok(p))
  BY <1>6, <1>7, GivesShape
<1>9. OneMore(c) = Gives(q, Append(c.val, m))
  BY <1>1, <1>2, <1>6, <1>8 DEF OneMore, Push, CommandAfter, WithPayload, Payload
<1>10. OneMore(c).val = Append(c.val, m) /\ OneMore(c).rest = p.rest /\ Ok(p)
  <2>1. PICK r, w : r = OneMore(c) /\ w = Append(c.val, m)
    OBVIOUS
  <2>2. r = Gives(q, w) /\ Ok(r)
    BY <1>9, <2>1
  <2>3. r.val = w /\ r.rest = q.rest /\ Ok(q)
    BY <1>8, <2>2, GivesShape
  <2> QED
    BY <1>8, <2>1, <2>3
<1>11. who.val \in People /\ p.val \in Payloads(0..MaxPayload)
  BY <1>3, <1>5, <1>10 DEF Sends, Costs
<1>12. m \in Commands /\ m.participant = who.val /\ m.payload = p.val
  BY <1>2, <1>11 DEF Commands
<1>13. Costs(c, p, Len(ParticipantBytes(who.val)) + Len(Prefixed(p.val)))
  BY <1>3, <1>5, CostsTwice DEF Sends
<1>14. Len(CommandBytes(m)) = Len(ParticipantBytes(who.val)) + Len(Prefixed(p.val))
  <2>1. PICK a, b : a = ParticipantBytes(who.val) /\ b = Prefixed(p.val)
    OBVIOUS
  <2>2. a \in Seq(Byte) /\ b \in Seq(Byte)
    BY <1>11, <2>1, ParticipantShape, PrefixedShape DEF Payloads
  <2>3. CommandBytes(m) = a \o b
    BY <1>12, <2>1 DEF CommandBytes
  <2> QED
    BY <2>1, <2>2, <2>3, Joined
<1>15. Len(CommandBytes(m)) + Len(p.rest) <= Len(c.rest)
  BY <1>10, <1>13, <1>14 DEF Costs
<1> QED
  BY <1>1, <1>10, <1>12, <1>15

\* A command more takes its own bytes more.
LEMMA PackedAppend ==
  ASSUME NEW commands \in Seq(Commands), NEW m \in Commands
  PROVE  Len(Packed(Append(commands, m))) = Len(Packed(commands)) + Len(CommandBytes(m))
<1>1. PICK n \in Nat : n = Len(commands)
  OBVIOUS
<1>2. PICK more : n = Len(commands) /\ more = Append(commands, m)
  BY <1>1
<1>3. /\ more \in Seq(Commands) /\ Len(more) = n + 1 /\ more[n + 1] = m
      /\ \A i \in 1..n : more[i] = commands[i]
  BY <1>2
<1>4. PICK f : /\ f[0] = <<>>
               /\ \A k \in 1..Len(commands) :
                    f[k] = CommandBytes(commands[Len(commands) - k + 1]) \o f[k - 1]
               /\ Packed(commands) = f[Len(commands)]
  BY CommandsPacked
<1>5. PICK g : /\ g[0] = <<>>
               /\ \A k \in 1..Len(more) :
                    g[k] = CommandBytes(more[Len(more) - k + 1]) \o g[k - 1]
               /\ Packed(more) = g[Len(more)]
  BY <1>3, CommandsPacked
<1>6. PICK z : z = Len(CommandBytes(m))
  OBVIOUS
<1> DEFINE Good(k) == /\ f[k] \in Seq(Byte) /\ g[k + 1] \in Seq(Byte)
                      /\ Len(g[k + 1]) = Len(f[k]) + z
           T == {k \in 0..n : Good(k)}
<1>7. 0 \in T
  <2>1. CommandBytes(m) \in Seq(Byte)
    BY CommandShape
  <2>2. g[1] = CommandBytes(m) \o <<>>
    <3>1. 1 \in 1..Len(more) /\ Len(more) - 1 + 1 = n + 1 /\ 1 - 1 = 0
      BY <1>3
    <3>2. g[1] = CommandBytes(more[Len(more) - 1 + 1]) \o g[1 - 1]
      BY <1>5, <3>1
    <3> QED
      BY <1>3, <1>5, <3>1, <3>2
  <2>3. g[1] = CommandBytes(m)
    BY <2>1, <2>2, ConcatEmptySeq
  <2>4. f[0] \in Seq(Byte) /\ Len(f[0]) = 0 /\ z \in Nat
    BY <1>4, <1>6, <2>1, NoBytes
  <2>5. Len(g[1]) = Len(f[0]) + z
    BY <1>6, <2>3, <2>4
  <2>6. 0 + 1 = 1 /\ 0 \in 0..n
    OBVIOUS
  <2>7. Good(0)
    BY <2>1, <2>3, <2>4, <2>5, <2>6
  <2> HIDE DEF Good
  <2> QED
    BY <2>6, <2>7
<1>8. ASSUME NEW k \in 1..n, k - 1 \in T PROVE k \in T
  <2>1. Good(k - 1)
    BY <1>8
  <2>2. PICK i, j : i = n - k + 1 /\ j = k - 1
    OBVIOUS
  <2>3. i \in 1..n /\ j + 1 = k /\ k + 1 \in 1..Len(more) /\ Len(more) - (k + 1) + 1 = i
        /\ k + 1 - 1 = k /\ k \in 1..Len(commands) /\ Len(commands) - k + 1 = i
    BY <1>2, <1>3, <2>2
  <2>4. PICK a : a = CommandBytes(commands[i])
    OBVIOUS
  <2>5. f[k] = a \o f[j]
    <3>1. f[k] = CommandBytes(commands[Len(commands) - k + 1]) \o f[k - 1]
      BY <1>4, <2>3
    <3> QED
      BY <2>2, <2>3, <2>4, <3>1
  <2>6. g[k + 1] = a \o g[k]
    <3>1. PICK l \in 1..Len(more) : l = k + 1
      BY <2>3
    <3>2. g[l] = CommandBytes(more[Len(more) - l + 1]) \o g[l - 1]
      BY <1>5
    <3>3. Len(more) - l + 1 = i /\ l - 1 = k
      BY <2>3, <3>1
    <3>4. more[i] = commands[i]
      BY <1>3, <2>3
    <3> QED
      BY <2>4, <3>1, <3>2, <3>3, <3>4
  <2>7. f[j] \in Seq(Byte) /\ g[k] \in Seq(Byte) /\ Len(g[k]) = Len(f[j]) + z
    BY <2>1, <2>2, <2>3
  <2>8. a \in Seq(Byte)
    <3>1. commands[i] \in Commands
      BY <1>2, <2>3
    <3> QED
      BY <2>4, <3>1, CommandShape
  <2>9. /\ f[k] \in Seq(Byte) /\ Len(f[k]) = Len(a) + Len(f[j])
        /\ g[k + 1] \in Seq(Byte) /\ Len(g[k + 1]) = Len(a) + Len(g[k])
        /\ Len(a) \in Nat /\ Len(f[j]) \in Nat
    BY <2>5, <2>6, <2>7, <2>8, Joined
  <2>10. Len(g[k + 1]) = Len(f[k]) + z
    <3>1. PICK p, q, r, s, t : /\ p = Len(a) /\ q = Len(f[j]) /\ r = Len(g[k])
                               /\ s = Len(f[k]) /\ t = Len(g[k + 1])
      OBVIOUS
    <3>2. z \in Nat
      BY <1>6, CommandShape
    <3>3. p \in Nat /\ q \in Nat /\ r = q + z /\ s = p + q /\ t = p + r
      BY <2>7, <2>9, <3>1
    <3>4. t = s + z
      BY ONLY <3>2, <3>3
    <3> QED
      BY <3>1, <3>4
  <2>11. Good(k)
    BY <2>9, <2>10
  <2>12. k \in 0..n
    OBVIOUS
  <2> HIDE DEF Good
  <2> QED
    BY <2>11, <2>12
<1> HIDE DEF T, Good
<1>9. 0..n \subseteq T
  BY <1>7, <1>8, UpTo
<1>10. Good(n)
  BY <1>9 DEF T
<1>11. Len(g[n + 1]) = Len(f[n]) + z
  BY <1>10 DEF Good
<1> QED
  BY <1>2, <1>3, <1>4, <1>5, <1>6, <1>11

\* The commands read so far, from c on.
Wrote(c, r, k) ==
  /\ r.val \in Seq(Commands) /\ Len(r.val) = k
  /\ Costs(c, r, Len(Packed(r.val)))

\* Commands, one by one.
LEMMA CommandsSend ==
  ASSUME NEW c, Shaped(c), c.pass = "materialize", NEW count \in Nat, NEW r,
         r = CommandsOf(c, count), Ok(r)
  PROVE  Wrote(c, r, count)
<1>1. PICK g : /\ g[0] = Gives(c, <<>>) /\ \A k \in 1..count : g[k] = OneMore(g[k - 1])
               /\ CommandsOf(c, count) = g[count]
  BY CommandsRead
<1> DEFINE Good(k) == /\ Shaped(g[k]) /\ g[k].pass = "materialize"
                      /\ Ok(g[k]) => Wrote(c, g[k], k)
           T == {k \in 0..count : Good(k)}
<1>2. 0 \in T
  <2>1. PICK d : d = g[0]
    OBVIOUS
  <2>2. Shaped(d) /\ d.pass = c.pass /\ d.val = <<>> /\ d.rest = c.rest /\ (Ok(d) <=> Ok(c))
    BY <1>1, <2>1, GivesShape
  <2>3. <<>> \in Seq(Commands) /\ Len(<<>>) = 0 /\ Len(Packed(<<>>)) = 0
    <3>1. <<>> \in Seq(Commands) /\ Len(<<>>) = 0
      OBVIOUS
    <3>2. PICK f : f[0] = <<>> /\ Packed(<<>>) = f[Len(<<>>)]
      BY <3>1, CommandsPacked
    <3> QED
      BY <3>1, <3>2
  <2>4. Len(c.rest) \in Nat
    BY DEF Shaped
  <2>5. 0 \in Nat /\ 0 + Len(d.rest) <= Len(c.rest)
    BY <2>2, <2>4
  <2>6. Wrote(c, d, 0)
    BY <2>2, <2>3, <2>5 DEF Wrote, Costs
  <2>7. Good(0) /\ 0 \in 0..count
    BY <2>1, <2>2, <2>6
  <2> HIDE DEF Good
  <2> QED
    BY <2>7
<1>3. ASSUME NEW k \in 1..count, k - 1 \in T PROVE k \in T
  <2>1. PICK i, d, e : i = k - 1 /\ d = g[i] /\ e = g[k]
    OBVIOUS
  <2>2. Shaped(d) /\ d.pass = "materialize" /\ (Ok(d) => Wrote(c, d, i)) /\ e = OneMore(d)
    BY <1>1, <1>3, <2>1
  <2>3. Shaped(e) /\ e.pass = "materialize"
    BY <2>2, OneMoreSpends DEF Spends
  <2>4. ASSUME Ok(e) PROVE Wrote(c, e, k)
    <3>1. Ok(d) /\ \E m \in Commands : /\ e.val = Append(d.val, m)
                                       /\ Len(CommandBytes(m)) + Len(e.rest) <= Len(d.rest)
      BY <2>2, <2>4, OneMoreSends
    <3>2. PICK m \in Commands : /\ e.val = Append(d.val, m)
                                /\ Len(CommandBytes(m)) + Len(e.rest) <= Len(d.rest)
      BY <3>1
    <3>3. /\ d.val \in Seq(Commands) /\ Len(d.val) = i
          /\ Costs(c, d, Len(Packed(d.val)))
      BY <2>2, <3>1 DEF Wrote
    <3>4. e.val \in Seq(Commands) /\ Len(e.val) = k
      BY <2>1, <3>2, <3>3
    <3>5. Costs(d, e, Len(CommandBytes(m)))
      <4>1. Len(CommandBytes(m)) \in Nat
        BY CommandShape
      <4> QED
        BY <2>2, <2>3, <3>1, <3>2, <4>1 DEF Costs
    <3>6. Costs(c, e, Len(Packed(d.val)) + Len(CommandBytes(m)))
      BY <3>3, <3>5, CostsTwice
    <3>7. Len(Packed(e.val)) = Len(Packed(d.val)) + Len(CommandBytes(m))
      BY <3>2, <3>3, PackedAppend
    <3> QED
      BY <3>4, <3>6, <3>7 DEF Wrote
  <2>5. Good(k)
    BY <2>1, <2>3, <2>4
  <2>6. k \in 0..count
    OBVIOUS
  <2> HIDE DEF Good
  <2> QED
    BY <2>5, <2>6
<1> HIDE DEF T, Good
<1>4. 0..count \subseteq T
  BY <1>2, <1>3, UpTo
<1>5. Good(count)
  BY <1>4 DEF T
<1> QED
  BY <1>1, <1>5 DEF Good

\* A tick.
LEMMA TickSends ==
  ASSUME NEW c, Shaped(c), c.pass = "materialize"
  PROVE  Sends(c, TickAdvance(c), Ticks, Len(TickBytes(TickAdvance(c).val)))
<1>1. PICK number, n, r : number = Scalar(c) /\ n = Length(number) /\ r = TickAdvance(c)
  OBVIOUS
<1>2. PICK s, v, m : /\ s = Inputs(n) /\ m = [tick |-> number.val, inputs |-> s.val]
                     /\ v = Len(Varint(number.val))
  OBVIOUS
<1>3. Sends(c, number, Byte, v)
  BY <1>1, <1>2, ScalarSends
<1>4. Shaped(number) /\ number.pass = "materialize"
  BY <1>3 DEF Sends, Costs
<1>5. Sends(number, n, Byte, Len(Varint(n.val))) /\ Sized(n)
  BY <1>1, <1>4, LengthSends
<1>6. Shaped(n) /\ n.pass = "materialize"
  BY <1>4, <1>5 DEF Sends, Costs
<1>7. Spends(n, s, 0)
  BY <1>2, <1>5, InputsSpend
<1>8. r = Gives(s, m)
  BY <1>1, <1>2 DEF TickAdvance, InputsAfter, WithInputs
<1>9. Shaped(s) /\ s.pass = "materialize"
  BY <1>6, <1>7 DEF Spends
<1>10. Shaped(r) /\ r.pass = c.pass /\ r.val = m /\ r.rest = s.rest /\ (Ok(r) <=> Ok(s))
  BY <1>8, <1>9, GivesShape
<1>11. CASE ~Ok(s)
  BY <1>1, <1>10, <1>11, FailsCosts
<1>12. CASE Ok(s)
  <2>1. Ok(n) /\ Ok(number)
    BY <1>5, <1>7, <1>12 DEF Spends, Sends, Costs
  <2>2. PICK k, p : k = n.val /\ p = Reserved(n)
    OBVIOUS
  <2>3. k \in Byte /\ k \in Nat /\ number.val \in Byte
    BY <1>3, <1>5, <2>1, <2>2, Bytes DEF Sends
  <2>4. Shaped(p) /\ p.rest = n.rest /\ p.pass = "materialize"
    BY <1>6, <2>2, <2>3, ReservedShape
  <2>5. s = CommandsOf(p, k)
    BY <1>2, <2>1, <2>2 DEF Inputs
  <2>6. Wrote(p, s, k)
    BY <1>12, <2>3, <2>4, <2>5, CommandsSend
  <2>7. s.val \in Seq(Commands) /\ Len(s.val) = k /\ Costs(n, s, Len(Packed(s.val)))
    BY <1>6, <2>1, <2>4, <2>6 DEF Wrote, Costs
  <2>8. m \in Ticks /\ m.tick = number.val /\ m.inputs = s.val
    BY <1>2, <2>3, <2>7 DEF Ticks, InputLists
  <2>9. PICK w, x, y : w = Len(Varint(k)) /\ x = Len(Packed(s.val)) /\ y = Len(TickBytes(m))
    OBVIOUS
  <2>10. Costs(c, n, v + w)
    BY <1>3, <1>5, <2>2, <2>9, CostsTwice DEF Sends
  <2>11. Costs(c, s, v + w + x)
    BY <2>7, <2>9, <2>10, CostsTwice
  <2>12. y = v + w + x
    BY <1>2, <2>7, <2>8, <2>9, TickShape
  <2>13. Costs(c, r, y)
    BY <1>8, <2>11, <2>12, GivesCosts
  <2> QED
    BY <1>1, <1>10, <2>8, <2>9, <2>13 DEF Sends
<1> QED
  BY <1>11, <1>12

\* The bodies made of integers.
LEMMA PairSends ==
  ASSUME NEW c, Shaped(c), NEW s, s = Scalar(c), NEW t, t = Scalar(s)
  PROVE  /\ Costs(c, t, Len(Varint(s.val) \o Varint(t.val)))
         /\ Ok(t) => s.val \in Byte /\ t.val \in Byte
<1>1. Sends(c, s, Byte, Len(Varint(s.val)))
  BY ScalarSends
<1>2. Sends(s, t, Byte, Len(Varint(t.val)))
  BY <1>1, ScalarSends DEF Sends, Costs
<1>3. Ok(t) => Ok(s) /\ s.val \in Byte /\ t.val \in Byte
  BY <1>1, <1>2 DEF Sends, Costs
<1>4. Costs(c, t, Len(Varint(s.val)) + Len(Varint(t.val)))
  BY <1>1, <1>2, CostsTwice DEF Sends
<1>5. Ok(t) => Len(Varint(s.val)) + Len(Varint(t.val)) = Len(Varint(s.val) \o Varint(t.val))
  BY <1>3, VarintShape, Joined
<1> QED
  BY <1>3, <1>4, <1>5, CostsSame

\* A tick with its hash.
LEMMA HashSends ==
  ASSUME NEW c, Shaped(c), NEW r, r = TickHash(c)
  PROVE  Sends(c, r, Hashes, Len(Varint(r.val.tick) \o Varint(r.val.hash)))
<1>1. PICK s, t : s = Scalar(c) /\ t = Scalar(s)
  OBVIOUS
<1>2. PICK m, l : /\ m = [tick |-> s.val, hash |-> t.val]
                  /\ l = Len(Varint(s.val) \o Varint(t.val))
  OBVIOUS
<1>3. Costs(c, t, l) /\ (Ok(t) => s.val \in Byte /\ t.val \in Byte)
  BY <1>1, <1>2, PairSends
<1>4. r = Gives(t, m)
  BY <1>1, <1>2 DEF TickHash, TickHashAfter, WithHash
<1>5. Costs(c, r, l) /\ r.val = m /\ (Ok(r) => Ok(t))
  BY <1>3, <1>4, GivesCosts, GivesShape DEF Costs
<1>6. Ok(r) => m \in Hashes
  BY <1>2, <1>3, <1>5 DEF Hashes
<1>7. m.tick = s.val /\ m.hash = t.val
  BY <1>2
<1>8. Len(Varint(r.val.tick) \o Varint(r.val.hash)) = l
  BY <1>2, <1>5, <1>7
<1> QED
  BY <1>5, <1>6, <1>8 DEF Sends

\* The progress of a transfer.
LEMMA ProgressSends ==
  ASSUME NEW c, Shaped(c), NEW r, r = Progress(c)
  PROVE  Sends(c, r, [received_bytes : Byte, replayed_tick : Byte],
               Len(Varint(r.val.received_bytes) \o Varint(r.val.replayed_tick)))
<1>1. PICK s, t : s = Scalar(c) /\ t = Scalar(s)
  OBVIOUS
<1>2. PICK m, l : /\ m = [received_bytes |-> s.val, replayed_tick |-> t.val]
                  /\ l = Len(Varint(s.val) \o Varint(t.val))
  OBVIOUS
<1>3. Costs(c, t, l) /\ (Ok(t) => s.val \in Byte /\ t.val \in Byte)
  BY <1>1, <1>2, PairSends
<1>4. r = Gives(t, m)
  BY <1>1, <1>2 DEF Progress, ReplayedAfter, WithReplayed
<1>5. Costs(c, r, l) /\ r.val = m /\ (Ok(r) => Ok(t))
  BY <1>3, <1>4, GivesCosts, GivesShape DEF Costs
<1>6. Ok(r) => m \in [received_bytes : Byte, replayed_tick : Byte]
  BY <1>2, <1>3, <1>5
<1>7. m.received_bytes = s.val /\ m.replayed_tick = t.val
  BY <1>2
<1>8. Len(Varint(r.val.received_bytes) \o Varint(r.val.replayed_tick)) = l
  BY <1>2, <1>5, <1>7
<1> QED
  BY <1>5, <1>6, <1>8 DEF Sends

\* What a save is.
LEMMA MetadataSends ==
  ASSUME NEW c, Shaped(c), NEW r, r = SaveMetadata(c)
  PROVE  Sends(c, r, [total_bytes : Byte, tick : Byte, hash : Byte],
               Len(Varint(r.val.total_bytes)
                     \o (Varint(r.val.tick) \o Varint(r.val.hash))))
<1>1. PICK s, t : s = Scalar(c) /\ t = TickHash(s)
  OBVIOUS
<1>2. PICK m, a, b : /\ m = [total_bytes |-> s.val, tick |-> t.val.tick, hash |-> t.val.hash]
                     /\ a = Varint(s.val) /\ b = Varint(t.val.tick) \o Varint(t.val.hash)
  OBVIOUS
<1>3. Sends(c, s, Byte, Len(a))
  BY <1>1, <1>2, ScalarSends
<1>4. Sends(s, t, Hashes, Len(b))
  BY <1>1, <1>2, <1>3, HashSends DEF Sends, Costs
<1>5. r = Gives(t, m)
  BY <1>1, <1>2 DEF SaveMetadata, MetadataAfter, WithTickHash
<1>6. Costs(c, t, Len(a) + Len(b))
  BY <1>3, <1>4, CostsTwice DEF Sends
<1>7. Ok(t) => s.val \in Byte /\ t.val.tick \in Byte /\ t.val.hash \in Byte
  BY <1>3, <1>4 DEF Sends, Costs, Hashes
<1>8. ASSUME Ok(t) PROVE Len(a) + Len(b) = Len(a \o b)
  <2>1. a \in Seq(Byte) /\ b \in Seq(Byte)
    BY <1>2, <1>7, <1>8, VarintShape, Joined
  <2> QED
    BY <2>1, Joined
<1>9. Costs(c, t, Len(a \o b))
  BY <1>6, <1>8, CostsSame
<1>10. Costs(c, r, Len(a \o b)) /\ r.val = m /\ (Ok(r) => Ok(t))
  <2>1. PICK l : l = Len(a \o b)
    OBVIOUS
  <2>2. Shaped(t) /\ Costs(c, r, l)
    <3>1. Costs(c, t, l)
      BY <1>9, <2>1
    <3>2. Costs(c, r, l)
      BY <1>5, <3>1, GivesCosts
    <3> QED
      BY <3>1, <3>2 DEF Costs
  <2>3. r.val = m /\ (Ok(r) => Ok(t))
    BY <1>5, <2>2, GivesShape
  <2> QED
    BY <2>1, <2>2, <2>3
<1>11. Ok(r) => m \in [total_bytes : Byte, tick : Byte, hash : Byte]
  BY <1>2, <1>7, <1>10
<1>12. m.total_bytes = s.val /\ m.tick = t.val.tick /\ m.hash = t.val.hash
  BY <1>2
<1>13. Varint(r.val.total_bytes) \o (Varint(r.val.tick) \o Varint(r.val.hash)) = a \o b
  BY <1>2, <1>10, <1>12
<1> QED
  BY <1>10, <1>11, <1>13 DEF Sends

\* A message with a tag.
LEMMA NamedSends ==
  ASSUME NEW envelope \in {"client", "server", "save"}, NEW variant \in Variants(envelope),
         NEW c, Shaped(c), NEW s, s = Scalar(c), Ok(s), s.val = TagOf(variant),
         NEW q, Sends(s, q, Bodies(variant), Len(BodyBytes(variant, q.val))),
         NEW r, r = Named(q, variant)
  PROVE  Sends(c, r, Message(envelope), Len(Sealed(envelope, r.val)))
<1>1. PICK m, l, b : /\ m = [variant |-> variant, body |-> q.val]
                     /\ l = Len(BodyBytes(variant, q.val)) /\ b = Len(Sealed(envelope, m))
  OBVIOUS
<1>2. Shaped(q) /\ q.pass = s.pass /\ Costs(s, q, l)
  BY <1>1 DEF Sends, Costs
<1>3. r = Gives(q, m)
  BY <1>1 DEF Named
<1>4. Shaped(r) /\ r.val = m /\ r.rest = q.rest /\ r.pass = q.pass /\ (Ok(r) <=> Ok(q))
  BY <1>2, <1>3, GivesShape
<1>5. CASE ~Ok(q)
  <2>1. r.pass = c.pass
    BY <1>2, <1>4, ScalarShape
  <2> QED
    BY <1>4, <1>5, <2>1, FailsCosts
<1>6. CASE Ok(q)
  <2>1. q.val \in Bodies(variant)
    BY <1>6 DEF Sends
  <2>2. m \in Message(envelope)
    <3>1. CASE envelope = "client"
      BY <1>1, <2>1, <3>1 DEF Message, Variants, Bodies
    <3>2. CASE envelope = "server"
      BY <1>1, <2>1, <3>2 DEF Message, Variants, Bodies
    <3>3. CASE envelope = "save"
      BY <1>1, <2>1, <3>3 DEF Message, Variants, Bodies
    <3> QED
      BY <3>1, <3>2, <3>3
  <2>3. PICK a, p, t : a = << t >> /\ p = BodyBytes(variant, q.val) /\ t = TagOf(variant)
    OBVIOUS
  <2>4. Sealed(envelope, m) = a \o p /\ t \in 0..2
    BY <1>1, <2>1, <2>3, SealedTagged
  <2>5. t \in Byte /\ t < Base - 1
    BY <2>4, BaseAssumption DEF Byte
  <2>6. Varint(t) = a /\ a \in Seq(Byte) /\ Len(a) = 1
    BY <2>3, <2>5, VarintShape
  <2>7. p \in Seq(Byte)
    BY <2>1, <2>3, BodyShape
  <2>8. b = Len(Varint(s.val)) + l
    BY <1>1, <2>3, <2>4, <2>6, <2>7, Joined
  <2>9. Sends(c, s, Byte, Len(Varint(s.val)))
    BY ScalarSends
  <2>10. Costs(c, q, b)
    BY <1>2, <2>8, <2>9, CostsTwice DEF Sends
  <2>11. Costs(c, r, b)
    BY <1>3, <2>10, GivesCosts
  <2> QED
    BY <1>1, <1>4, <2>2, <2>11 DEF Sends
<1> QED
  BY <1>5, <1>6

\* A client's message.
LEMMA ClientSends ==
  ASSUME NEW c, Shaped(c), c.pass = "materialize", NEW r, r = Read("client", c)
  PROVE  Sends(c, r, Message("client"), Len(Sealed("client", r.val)))
<1>1. PICK s : s = Scalar(c)
  OBVIOUS
<1>2. Shaped(s) /\ s.pass = c.pass
  BY <1>1, ScalarShape
<1>3. r = ClientMessage(s)
  BY <1>1 DEF Read
<1>4. CASE ~Ok(s)
  <2>1. r = s
    BY <1>3, <1>4 DEF ClientMessage
  <2> QED
    BY <1>2, <1>4, <2>1, FailsCosts
<1>5. CASE Ok(s) /\ s.val \notin 0..2
  <2>1. r = Stop(s)
    BY <1>3, <1>5 DEF ClientMessage
  <2> QED
    BY <1>2, <2>1, StopShape, FailsCosts
<1>6. CASE Ok(s) /\ s.val = 0
  <2>1. PICK q : q = TakeBytes(Length(s), 0..MaxPayload)
    OBVIOUS
  <2>2. r = Named(q, "Input")
    BY <1>3, <1>6, <2>1 DEF ClientMessage, Payload
  <2>3. Sends(s, q, Payloads(0..MaxPayload), Len(Prefixed(q.val)))
    BY <1>2, <2>1, TakeBytesSends
  <2>4. /\ "Input" \in Variants("client") /\ TagOf("Input") = 0
        /\ Sends(s, q, Bodies("Input"), Len(BodyBytes("Input", q.val)))
    BY <2>3 DEF Variants, TagOf, Bodies, BodyBytes
  <2> QED
    BY <1>1, <1>6, <2>2, <2>4, NamedSends
<1>7. CASE Ok(s) /\ s.val = 1
  <2>1. PICK q : q = Progress(s)
    OBVIOUS
  <2>2. r = Named(q, "Progress")
    BY <1>3, <1>7, <2>1 DEF ClientMessage
  <2>3. Sends(s, q, [received_bytes : Byte, replayed_tick : Byte],
              Len(Varint(q.val.received_bytes) \o Varint(q.val.replayed_tick)))
    BY <1>2, <2>1, ProgressSends
  <2>4. /\ "Progress" \in Variants("client") /\ TagOf("Progress") = 1
        /\ Sends(s, q, Bodies("Progress"), Len(BodyBytes("Progress", q.val)))
    BY <2>3 DEF Variants, TagOf, Bodies, BodyBytes
  <2> QED
    BY <1>1, <1>7, <2>2, <2>4, NamedSends
<1>8. CASE Ok(s) /\ s.val = 2
  <2>1. PICK q : q = TickHash(s)
    OBVIOUS
  <2>2. r = Named(q, "Ready")
    BY <1>3, <1>8, <2>1 DEF ClientMessage
  <2>3. Sends(s, q, Hashes, Len(Varint(q.val.tick) \o Varint(q.val.hash)))
    BY <1>2, <2>1, HashSends
  <2>4. /\ "Ready" \in Variants("client") /\ TagOf("Ready") = 2
        /\ Sends(s, q, Bodies("Ready"), Len(BodyBytes("Ready", q.val)))
    BY <2>3 DEF Variants, TagOf, Bodies, BodyBytes
  <2> QED
    BY <1>1, <1>8, <2>2, <2>4, NamedSends
<1> QED
  BY <1>4, <1>5, <1>6, <1>7, <1>8

\* A server's message.
LEMMA ServerSends ==
  ASSUME NEW c, Shaped(c), c.pass = "materialize", NEW r, r = Read("server", c)
  PROVE  Sends(c, r, Message("server"), Len(Sealed("server", r.val)))
<1>1. PICK s : s = Scalar(c)
  OBVIOUS
<1>2. Shaped(s) /\ s.pass = c.pass
  BY <1>1, ScalarShape
<1>3. r = ServerMessage(s)
  BY <1>1 DEF Read
<1>4. CASE ~Ok(s)
  <2>1. r = s
    BY <1>3, <1>4 DEF ServerMessage
  <2> QED
    BY <1>2, <1>4, <2>1, FailsCosts
<1>5. CASE Ok(s) /\ s.val \notin 0..1
  <2>1. r = Stop(s)
    BY <1>3, <1>5 DEF ServerMessage
  <2> QED
    BY <1>2, <2>1, StopShape, FailsCosts
<1>6. CASE Ok(s) /\ s.val = 0
  <2>1. PICK q : q = TickHash(s)
    OBVIOUS
  <2>2. r = Named(q, "Start")
    BY <1>3, <1>6, <2>1 DEF ServerMessage
  <2>3. Sends(s, q, Hashes, Len(Varint(q.val.tick) \o Varint(q.val.hash)))
    BY <1>2, <2>1, HashSends
  <2>4. /\ "Start" \in Variants("server") /\ TagOf("Start") = 0
        /\ Sends(s, q, Bodies("Start"), Len(BodyBytes("Start", q.val)))
    BY <2>3 DEF Variants, TagOf, Bodies, BodyBytes
  <2> QED
    BY <1>1, <1>6, <2>2, <2>4, NamedSends
<1>7. CASE Ok(s) /\ s.val = 1
  <2>1. PICK q : q = TickAdvance(s)
    OBVIOUS
  <2>2. r = Named(q, "Tick")
    BY <1>3, <1>7, <2>1 DEF ServerMessage
  <2>3. Sends(s, q, Ticks, Len(TickBytes(q.val)))
    BY <1>2, <2>1, TickSends
  <2>4. /\ "Tick" \in Variants("server") /\ TagOf("Tick") = 1
        /\ Sends(s, q, Bodies("Tick"), Len(BodyBytes("Tick", q.val)))
    BY <2>3 DEF Variants, TagOf, Bodies, BodyBytes
  <2> QED
    BY <1>1, <1>7, <2>2, <2>4, NamedSends
<1> QED
  BY <1>4, <1>5, <1>6, <1>7

\* A message of a save.
LEMMA SaveSends ==
  ASSUME NEW c, Shaped(c), c.pass = "materialize", NEW r, r = Read("save", c)
  PROVE  Sends(c, r, Message("save"), Len(Sealed("save", r.val)))
<1>1. PICK s : s = Scalar(c)
  OBVIOUS
<1>2. Shaped(s) /\ s.pass = c.pass
  BY <1>1, ScalarShape
<1>3. r = SaveMessage(s)
  BY <1>1 DEF Read
<1>4. CASE ~Ok(s)
  <2>1. r = s
    BY <1>3, <1>4 DEF SaveMessage
  <2> QED
    BY <1>2, <1>4, <2>1, FailsCosts
<1>5. CASE Ok(s) /\ s.val \notin 0..1
  <2>1. r = Stop(s)
    BY <1>3, <1>5 DEF SaveMessage
  <2> QED
    BY <1>2, <2>1, StopShape, FailsCosts
<1>6. CASE Ok(s) /\ s.val = 0
  <2>1. PICK q : q = SaveMetadata(s)
    OBVIOUS
  <2>2. r = Named(q, "Begin")
    BY <1>3, <1>6, <2>1 DEF SaveMessage
  <2>3. Sends(s, q, [total_bytes : Byte, tick : Byte, hash : Byte],
              Len(Varint(q.val.total_bytes)
                    \o (Varint(q.val.tick) \o Varint(q.val.hash))))
    BY <1>2, <2>1, MetadataSends
  <2>4. /\ "Begin" \in Variants("save") /\ TagOf("Begin") = 0
        /\ Sends(s, q, Bodies("Begin"), Len(BodyBytes("Begin", q.val)))
    BY <2>3 DEF Variants, TagOf, Bodies, BodyBytes
  <2> QED
    BY <1>1, <1>6, <2>2, <2>4, NamedSends
<1>7. CASE Ok(s) /\ s.val = 1
  <2>1. PICK q : q = TakeBytes(Length(s), 1..MaxChunk)
    OBVIOUS
  <2>2. r = Named(q, "Chunk")
    BY <1>3, <1>7, <2>1 DEF SaveMessage, Chunk
  <2>3. Sends(s, q, Payloads(1..MaxChunk), Len(Prefixed(q.val)))
    BY <1>2, <2>1, TakeBytesSends
  <2>4. /\ "Chunk" \in Variants("save") /\ TagOf("Chunk") = 1
        /\ Sends(s, q, Bodies("Chunk"), Len(BodyBytes("Chunk", q.val)))
    BY <2>3 DEF Variants, TagOf, Bodies, BodyBytes
  <2> QED
    BY <1>1, <1>7, <2>2, <2>4, NamedSends
<1> QED
  BY <1>4, <1>5, <1>6, <1>7

\* Any message is sent in no more bytes than it came in.
LEMMA ReadSends ==
  ASSUME NEW envelope \in Envelopes, NEW c, Shaped(c), c.pass = "materialize",
         NEW r, r = Read(envelope, c)
  PROVE  Sends(c, r, Message(envelope), Len(Sealed(envelope, r.val)))
<1>1. CASE envelope \in {"client", "server", "save"}
  BY <1>1, ClientSends, ServerSends, SaveSends
<1>2. CASE envelope = "desync"
  <2>1. r = TickHash(c) /\ Message(envelope) = Hashes
    BY <1>2 DEF Read, Message
  <2>2. Sealed(envelope, r.val) = Varint(r.val.tick) \o Varint(r.val.hash)
    BY <1>2 DEF Sealed
  <2> QED
    BY <2>1, <2>2, HashSends
<1>3. CASE envelope = "tick"
  <2>1. /\ r = TickAdvance(c) /\ Message(envelope) = Ticks
        /\ Sealed(envelope, r.val) = TickBytes(r.val)
    BY <1>3 DEF Read, Message, Sealed
  <2> QED
    BY <2>1, TickSends
<1> QED
  BY <1>1, <1>2, <1>3 DEF Envelopes

\* Peers and recordings agree on what was sent: whatever bytes a message was read from, the
\* program that sends it on sends bytes that are read as the same message, for they are no
\* longer than those it came in (protocol.rs, encode and the decoders).
THEOREM OneMeaningAlways == Spec => []OneMeaning
<1>1. Received => OneMeaning
  <2> SUFFICES ASSUME Received, NEW m, m = Opened(type, bytes), m # Refused
               PROVE  Opened(type, Sealed(type, m)) = m
    BY DEF OneMeaning
  <2>1. /\ type \in Envelopes /\ bytes \in Seq(Byte)
        /\ "measure" \in Passes /\ "materialize" \in Passes
    BY DEF Received, Passes
  <2>2. /\ WithinRecord(type, bytes) /\ Ok(Pass(type, bytes, "measure"))
        /\ m = ValueOf(Pass(type, bytes, "materialize"))
    BY DEF Opened
  <2>3. Ok(Pass(type, bytes, "materialize"))
    BY <2>1, <2>2, SecondAccepts
  <2>4. PICK e, c : e = Cursor(bytes, "materialize") /\ c = Read(type, e)
    OBVIOUS
  <2>5. Ok(c) /\ Pass(type, bytes, "materialize") = c /\ c.val = m
    BY <2>1, <2>2, <2>3, <2>4, PassReads DEF ValueOf
  <2>6. Shaped(e) /\ e.rest = bytes /\ e.pass = "materialize"
    BY <2>1, <2>4, CursorShape
  <2>7. PICK b : b = Sealed(type, m)
    OBVIOUS
  <2>8. Sends(e, c, Message(type), Len(b))
    BY <2>1, <2>4, <2>5, <2>6, <2>7, ReadSends
  <2>9. m \in Message(type) /\ Len(b) \in Nat /\ Len(b) + Len(c.rest) <= Len(bytes)
    BY <2>5, <2>6, <2>8 DEF Sends, Costs
  <2>10. WithinRecord(type, b)
    <3>1. PICK x, y, z : x = Len(b) /\ y = Len(c.rest) /\ z = Len(bytes)
      OBVIOUS
    <3>2. x \in Nat /\ y \in Nat /\ z \in Nat /\ x + y <= z
      BY <2>1, <2>8, <2>9, <3>1 DEF Sends, Costs, Shaped
    <3>3. MaxRecord \in Nat /\ (type \in {"server", "tick"} => z <= MaxRecord)
      BY <2>2, <3>1, BudgetAssumption DEF WithinRecord
    <3>4. type \in {"server", "tick"} => x <= MaxRecord
      BY ONLY <3>2, <3>3
    <3> QED
      BY <3>1, <3>4 DEF WithinRecord
  <2> QED
    BY <2>1, <2>7, <2>9, <2>10, SentIsOpened
<1> QED
  BY <1>1, ReceivedAlways, PTL

\* In every state of Messages, for budgets of any size and bytes of any length, sender
\* and receiver agree where a message ends and what it says (protocol.rs).
THEOREM UnambiguousAlways == Spec => []Unambiguous
<1>1. OneMeaning /\ Delimited => Unambiguous
  BY DEF Unambiguous
<1> QED
  BY <1>1, OneMeaningAlways, DelimitedAlways, PTL
=============================================================================
