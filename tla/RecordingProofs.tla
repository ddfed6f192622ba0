-------------------------- MODULE RecordingProofs --------------------------
(***************************************************************************)
(* Theorems about Recording, for every set of files, games and commands,   *)
(* every flush interval and every sequence of sessions: a recording is the *)
(* history of its session whatever interrupts it, no reader takes a part   *)
(* of it for the whole, the clients are served what the authority          *)
(* replayed, and a process failure costs one interval at most.             *)
(***************************************************************************)
EXTENDS Recording, TLAPS

-----------------------------------------------------------------------------
\* Sequences

\* Two sequences joined, element by element.
LEMMA JoinShape ==
  ASSUME NEW S, NEW s \in Seq(S), NEW t \in Seq(S)
  PROVE  /\ s \o t \in Seq(S) /\ Len(s \o t) = Len(s) + Len(t)
         /\ \A i \in 1 .. Len(s) + Len(t) :
              (s \o t)[i] = IF i <= Len(s) THEN s[i] ELSE t[i - Len(s)]
  OBVIOUS

\* Sequences are equal when their elements are.
LEMMA SameElements ==
  ASSUME NEW S, NEW s \in Seq(S), NEW t \in Seq(S), Len(s) = Len(t),
         \A i \in 1 .. Len(s) : s[i] = t[i]
  PROVE  s = t
  OBVIOUS

\* The first n elements.
LEMMA CutShape ==
  ASSUME NEW S, NEW s \in Seq(S), NEW n \in 0 .. Len(s)
  PROVE  /\ SubSeq(s, 1, n) \in Seq(S) /\ Len(SubSeq(s, 1, n)) = n
         /\ \A i \in 1 .. n : SubSeq(s, 1, n)[i] = s[i]
  OBVIOUS

\* What is left without them.
LEMMA RestShape ==
  ASSUME NEW S, NEW s \in Seq(S), NEW n \in 0 .. Len(s)
  PROVE  /\ SubSeq(s, n + 1, Len(s)) \in Seq(S)
         /\ Len(SubSeq(s, n + 1, Len(s))) = Len(s) - n
         /\ \A i \in 1 .. Len(s) - n : SubSeq(s, n + 1, Len(s))[i] = s[n + i]
  OBVIOUS

\* A prefix, element by element.
LEMMA PrefixShape ==
  ASSUME NEW S, NEW s \in Seq(S), NEW t \in Seq(S)
  PROVE  IsPrefix(s, t) <=> Len(s) <= Len(t) /\ \A i \in 1 .. Len(s) : s[i] = t[i]
<1>1. ASSUME IsPrefix(s, t), NEW i \in 1 .. Len(s) PROVE s[i] = t[i]
  <2>1. SubSeq(s, 1, Len(s)) = SubSeq(t, 1, Len(s)) /\ Len(s) <= Len(t) /\ Len(s) \in Nat
    BY <1>1 DEF IsPrefix
  <2>2. SubSeq(s, 1, Len(s))[i] = s[i] /\ SubSeq(t, 1, Len(s))[i] = t[i]
    BY <2>1, CutShape
  <2> QED
    BY <2>1, <2>2
<1>2. ASSUME Len(s) <= Len(t), \A i \in 1 .. Len(s) : s[i] = t[i] PROVE IsPrefix(s, t)
  <2>1. SubSeq(s, 1, Len(s)) = SubSeq(t, 1, Len(s))
    BY <1>2, CutShape, SameElements
  <2> QED
    BY <1>2, <2>1 DEF IsPrefix
<1> QED
  BY <1>1, <1>2 DEF IsPrefix

\* Joined sequences: in any grouping, with nothing, and taken apart again.
LEMMA JoinAgain ==
  ASSUME NEW S, NEW s \in Seq(S), NEW t \in Seq(S), NEW u \in Seq(S)
  PROVE  (s \o t) \o u = s \o (t \o u)
<1>1. /\ (s \o t) \o u \in Seq(S) /\ s \o (t \o u) \in Seq(S)
      /\ Len((s \o t) \o u) = Len(s) + Len(t) + Len(u)
      /\ Len(s \o (t \o u)) = Len(s) + Len(t) + Len(u)
      /\ Len(s) \in Nat /\ Len(t) \in Nat /\ Len(u) \in Nat
  OBVIOUS
<1>2. ASSUME NEW i \in 1 .. Len((s \o t) \o u) PROVE ((s \o t) \o u)[i] = (s \o (t \o u))[i]
  <2>1. ((s \o t) \o u)[i] = IF i <= Len(s) + Len(t) THEN (s \o t)[i] ELSE u[i - (Len(s) + Len(t))]
    BY <1>1, JoinShape
  <2>2. (s \o (t \o u))[i] = IF i <= Len(s) THEN s[i] ELSE (t \o u)[i - Len(s)]
    BY <1>1, JoinShape
  <2>3. i <= Len(s) + Len(t) => (s \o t)[i] = IF i <= Len(s) THEN s[i] ELSE t[i - Len(s)]
    BY <1>1, JoinShape
  <2>4. i > Len(s) => (t \o u)[i - Len(s)] = IF i - Len(s) <= Len(t) THEN t[i - Len(s)]
                                             ELSE u[i - Len(s) - Len(t)]
    BY <1>1, JoinShape
  <2> QED
    BY <1>1, <2>1, <2>2, <2>3, <2>4
<1> QED
  BY <1>1, <1>2, SameElements

\* Joining three sequences of cells.
LEMMA JoinCells ==
  ASSUME NEW s \in Seq(Cell), NEW t \in Seq(Cell), NEW u \in Seq(Cell)
  PROVE  (s \o t) \o u = s \o (t \o u)
BY JoinAgain

\* Joining nothing.
LEMMA JoinEmpty == ASSUME NEW S, NEW s \in Seq(S) PROVE s \o <<>> = s /\ <<>> \o s = s
  OBVIOUS

\* The first n elements and the rest are the sequence.
LEMMA CutRest ==
  ASSUME NEW S, NEW s \in Seq(S), NEW n \in 0 .. Len(s)
  PROVE  SubSeq(s, 1, n) \o SubSeq(s, n + 1, Len(s)) = s
<1> DEFINE a == SubSeq(s, 1, n)
           b == SubSeq(s, n + 1, Len(s))
<1>1. /\ a \in Seq(S) /\ Len(a) = n /\ \A i \in 1 .. n : a[i] = s[i]
      /\ b \in Seq(S) /\ Len(b) = Len(s) - n /\ \A i \in 1 .. Len(s) - n : b[i] = s[n + i]
      /\ Len(s) \in Nat
  <2>1. a \in Seq(S) /\ Len(a) = n /\ \A i \in 1 .. n : a[i] = s[i]
    BY CutShape
  <2>2. b \in Seq(S) /\ Len(b) = Len(s) - n /\ \A i \in 1 .. Len(s) - n : b[i] = s[n + i]
    BY RestShape
  <2>3. Len(s) \in Nat
    OBVIOUS
  <2> QED
    BY ONLY <2>1, <2>2, <2>3
<1> HIDE DEF a, b
<1>2. /\ a \o b \in Seq(S) /\ Len(a \o b) = Len(s)
      /\ \A i \in 1 .. Len(s) : (a \o b)[i] = IF i <= n THEN a[i] ELSE b[i - n]
  BY <1>1, JoinShape
<1>3. \A i \in 1 .. Len(s) : (a \o b)[i] = s[i]
  BY <1>1, <1>2
<1>4. a \o b = s
  BY <1>2, <1>3, SameElements
<1> QED
  BY <1>4 DEF a, b

\* Of s and what follows it, s and the first elements of the rest are a prefix.
LEMMA PrefixOfJoin ==
  ASSUME NEW S, NEW s \in Seq(S), NEW t \in Seq(S), NEW n \in 0 .. Len(t)
  PROVE  IsPrefix(s \o SubSeq(t, 1, n), s \o t) /\ IsPrefix(s, s \o t)
<1>1. /\ SubSeq(t, 1, n) \in Seq(S) /\ Len(SubSeq(t, 1, n)) = n
      /\ \A i \in 1 .. n : SubSeq(t, 1, n)[i] = t[i]
      /\ Len(s) \in Nat /\ Len(t) \in Nat
  BY CutShape
<1> DEFINE a == SubSeq(t, 1, n)
<1> HIDE DEF a
<1>2. /\ a \in Seq(S) /\ Len(a) = n /\ \A i \in 1 .. n : a[i] = t[i]
  BY <1>1 DEF a
<1>3. /\ s \o a \in Seq(S) /\ Len(s \o a) = Len(s) + n
      /\ \A i \in 1 .. Len(s) + n : (s \o a)[i] = IF i <= Len(s) THEN s[i] ELSE a[i - Len(s)]
  BY <1>2, JoinShape
<1>4. /\ s \o t \in Seq(S) /\ Len(s \o t) = Len(s) + Len(t)
      /\ \A i \in 1 .. Len(s) + Len(t) : (s \o t)[i] = IF i <= Len(s) THEN s[i] ELSE t[i - Len(s)]
  BY JoinShape
<1>5. Len(s \o a) <= Len(s \o t) /\ \A i \in 1 .. Len(s \o a) : (s \o a)[i] = (s \o t)[i]
  BY <1>1, <1>2, <1>3, <1>4
<1>6. IsPrefix(s \o a, s \o t)
  <2>1. s \o a \in Seq(S) /\ s \o t \in Seq(S)
    BY <1>3, <1>4
  <2> QED
    BY ONLY <2>1, <1>5, PrefixShape, Zenon
<1>7. Len(s) <= Len(s \o t) /\ \A i \in 1 .. Len(s) : s[i] = (s \o t)[i]
  BY <1>1, <1>4
<1>8. IsPrefix(s, s \o t)
  <2>1. s \in Seq(S) /\ s \o t \in Seq(S)
    BY <1>4
  <2> QED
    BY ONLY <2>1, <1>7, PrefixShape, Zenon
<1> QED
  BY <1>6, <1>8 DEF a

\* A prefix of a prefix.
LEMMA PrefixTransitive ==
  ASSUME NEW S, NEW s \in Seq(S), NEW t \in Seq(S), NEW u \in Seq(S), IsPrefix(s, t), IsPrefix(t, u)
  PROVE  IsPrefix(s, u)
<1>1. Len(s) <= Len(t) /\ \A i \in 1 .. Len(s) : s[i] = t[i]
  BY PrefixShape
<1>2. Len(t) <= Len(u) /\ \A i \in 1 .. Len(t) : t[i] = u[i]
  BY PrefixShape
<1>3. Len(s) <= Len(u) /\ \A i \in 1 .. Len(s) : s[i] = u[i]
  BY <1>1, <1>2
<1> QED
  BY <1>3, PrefixShape

-----------------------------------------------------------------------------
\* The file format

\* The two cells of the record k of a file.
LEMMA PlaceOfHalves ==
  ASSUME NEW k \in Nat
  PROVE  /\ (2 * k + 1 - 1) \div 2 = k /\ Half(2 * k + 1) = 1 /\ (2 * k + 1) % 2 = 1
         /\ (2 * k + 2 - 1) \div 2 = k /\ Half(2 * k + 2) = 2 /\ (2 * k + 2) % 2 = 0
  BY DEF Half

\* Every cell is of the header or of some record.
LEMMA CellPlace ==
  ASSUME NEW n \in Nat, NEW i \in 1 .. 2 + 2 * n
  PROVE  i = 1 \/ i = 2 \/ \E k \in 1 .. n : i = 2 * k + 1 \/ i = 2 * k + 2
<1>1. CASE i > 2
  <2>1. /\ (i - 1) \div 2 \in 1 .. n
        /\ i = 2 * ((i - 1) \div 2) + 1 \/ i = 2 * ((i - 1) \div 2) + 2
    BY <1>1
  <2> QED
    BY <2>1
<1> QED
  BY <1>1

\* The cells are a header of the game and two cells for each of the records.
Spells(es, g, rs) ==
  /\ Len(rs) \in Nat /\ es \in Seq(Cell) /\ Len(es) = 2 + 2 * Len(rs)
  /\ es[1] = [part |-> 1, game |-> g] /\ es[2] = [part |-> 2, game |-> g]
  /\ \A k \in 1 .. Len(rs) :
       /\ es[2 * k + 1] = [part |-> 1, tick |-> rs[k].tick, inputs |-> rs[k].inputs]
       /\ es[2 * k + 2] = [part |-> 2, tick |-> rs[k].tick, inputs |-> rs[k].inputs]

\* That is what an encoding is.
LEMMA EncodeShape ==
  ASSUME NEW g \in Games, NEW rs \in Seq(Record)
  PROVE  Spells(Encode(g, rs), g, rs)
<1> DEFINE n  == Len(rs)
           es == Encode(g, rs)
<1>1. n \in Nat /\ DOMAIN es = 1 .. 2 + 2 * n
  BY DEF Encode
<1>2. es[1] = [part |-> 1, game |-> g] /\ es[2] = [part |-> 2, game |-> g]
  <2>1. 1 \in 1 .. 2 + 2 * n /\ 2 \in 1 .. 2 + 2 * n
    BY <1>1
  <2> QED
    BY <2>1 DEF Encode, Half
<1>3. ASSUME NEW k \in 1 .. n
      PROVE  /\ es[2 * k + 1] = [part |-> 1, tick |-> rs[k].tick, inputs |-> rs[k].inputs]
             /\ es[2 * k + 2] = [part |-> 2, tick |-> rs[k].tick, inputs |-> rs[k].inputs]
  <2>1. /\ k \in Nat /\ 2 * k + 1 \in 1 .. 2 + 2 * n /\ 2 * k + 2 \in 1 .. 2 + 2 * n
        /\ ~(2 * k + 1 <= 2) /\ ~(2 * k + 2 <= 2)
    BY <1>1
  <2> DEFINE Odd == 2 * k + 1
             Even == 2 * k + 2
  <2>2. /\ (Odd - 1) \div 2 = k /\ Half(Odd) = 1 /\ (Even - 1) \div 2 = k /\ Half(Even) = 2
        /\ Odd \in 1 .. 2 + 2 * Len(rs) /\ Even \in 1 .. 2 + 2 * Len(rs) /\ ~(Odd <= 2) /\ ~(Even <= 2)
    BY <2>1, PlaceOfHalves
  <2> HIDE DEF Odd, Even
  <2>3. /\ es[Odd] = [part |-> 1, tick |-> rs[k].tick, inputs |-> rs[k].inputs]
        /\ es[Even] = [part |-> 2, tick |-> rs[k].tick, inputs |-> rs[k].inputs]
    BY <2>2 DEF Encode
  <2> QED
    BY <2>3 DEF Odd, Even
<1>4. ASSUME NEW i \in 1 .. 2 + 2 * n PROVE es[i] \in Cell
  <2>1. CASE i = 1 \/ i = 2
    BY <1>2, <2>1 DEF Cell, HeaderCell
  <2>2. ASSUME NEW k \in 1 .. n, i = 2 * k + 1 \/ i = 2 * k + 2 PROVE es[i] \in Cell
    <3>1. rs[k] \in Record
      BY <2>2
    <3>2. PICK half \in {1, 2} : es[i] = [part |-> half, tick |-> rs[k].tick, inputs |-> rs[k].inputs]
      BY <1>3, <2>2
    <3> QED
      BY <3>1, <3>2 DEF Cell, RecordCell, Record
  <2> QED
    BY <1>1, <2>1, <2>2, CellPlace
<1>5. es \in Seq(Cell) /\ Len(es) = 2 + 2 * n
  <2>1. es = [i \in 1 .. 2 + 2 * n |-> es[i]]
    BY DEF Encode
  <2>2. es \in [1 .. 2 + 2 * n -> Cell]
    BY <1>4, <2>1
  <2> QED
    BY <1>1, <2>2
<1> HIDE DEF es
<1>6. Spells(es, g, rs)
  BY <1>1, <1>2, <1>3, <1>5 DEF Spells
<1> QED
  BY <1>6 DEF es

\* A new recording holds the header alone.
LEMMA EncodeEmpty ==
  ASSUME NEW g \in Games
  PROVE  Encode(g, <<>>) = Header(g) /\ Header(g) \in Seq(Cell) /\ Len(Header(g)) = 2
<1>1. PICK rs \in Seq(Record) : rs = <<>> /\ Len(rs) = 0
  <2>1. <<>> \in Seq(Record) /\ Len(<<>>) = 0
    OBVIOUS
  <2> QED
    BY <2>1
<1>2. PICK es : es = Encode(g, rs)
  OBVIOUS
<1>3. Spells(es, g, rs)
  BY <1>2, EncodeShape
<1>4. PICK hs : hs = Header(g)
  OBVIOUS
<1>5. /\ hs \in Seq(Cell) /\ Len(hs) = 2
      /\ hs[1] = [part |-> 1, game |-> g] /\ hs[2] = [part |-> 2, game |-> g]
  <2>1. [part |-> 1, game |-> g] \in Cell /\ [part |-> 2, game |-> g] \in Cell
    BY DEF Cell, HeaderCell
  <2> QED
    BY <1>4, <2>1 DEF Header
<1>6. es \in Seq(Cell) /\ Len(es) = 2 /\ \A i \in 1 .. Len(es) : es[i] = hs[i]
  <2>1. es \in Seq(Cell) /\ Len(es) = 2 /\ es[1] = hs[1] /\ es[2] = hs[2]
    BY <1>1, <1>3, <1>5 DEF Spells
  <2>2. \A i \in 1 .. 2 : i = 1 \/ i = 2
    OBVIOUS
  <2> QED
    BY <2>1, <2>2
<1>7. es = hs
  BY <1>5, <1>6, SameElements
<1> QED
  BY <1>1, <1>2, <1>4, <1>5, <1>7

\* The cells of a record, and the first of them.
LEMMA CellsShape ==
  ASSUME NEW r \in Record, NEW cs, cs = Cells(r)
  PROVE  /\ cs \in Seq(Cell) /\ Len(cs) = 2
         /\ cs[1] = [part |-> 1, tick |-> r.tick, inputs |-> r.inputs]
         /\ cs[2] = [part |-> 2, tick |-> r.tick, inputs |-> r.inputs]
<1>1. /\ [part |-> 1, tick |-> r.tick, inputs |-> r.inputs] \in Cell
      /\ [part |-> 2, tick |-> r.tick, inputs |-> r.inputs] \in Cell
  BY DEF Cell, RecordCell, Record
<1> QED
  BY <1>1 DEF Cells

\* The first element of a sequence that has one.
LEMMA FirstCell ==
  ASSUME NEW S, NEW s \in Seq(S), Len(s) > 0
  PROVE  s[1] \in S /\ SubSeq(s, 1, 1) = <<s[1]>>
<1>1. 1 \in 0 .. Len(s) /\ s[1] \in S
  OBVIOUS
<1>2. /\ SubSeq(s, 1, 1) \in Seq(S) /\ Len(SubSeq(s, 1, 1)) = 1
      /\ SubSeq(s, 1, 1)[1] = s[1]
  BY <1>1, CutShape
<1>3. PICK t \in Seq(S) : t = <<s[1]>> /\ Len(t) = 1 /\ t[1] = s[1]
  <2>1. <<s[1]>> \in Seq(S) /\ Len(<<s[1]>>) = 1 /\ <<s[1]>>[1] = s[1]
    BY ONLY <1>1
  <2> QED
    BY ONLY <2>1
<1>4. \A i \in 1 .. 1 : i = 1
  OBVIOUS
<1>5. SubSeq(s, 1, 1) = t
  BY <1>2, <1>3, <1>4, SameElements
<1> QED
  BY <1>1, <1>3, <1>5

\* One record more is two cells more.
Lengthens(more, rs, r) ==
  /\ Len(rs) \in Nat /\ Len(more) = Len(rs) + 1
  /\ \A k \in 1 .. Len(rs) : more[k] = rs[k]
  /\ more[Len(rs) + 1] = r

Pair(cs, r) ==
  /\ cs \in Seq(Cell) /\ Len(cs) = 2
  /\ cs[1] = [part |-> 1, tick |-> r.tick, inputs |-> r.inputs]
  /\ cs[2] = [part |-> 2, tick |-> r.tick, inputs |-> r.inputs]

\* What spells one record more is longer by the cells of that record.
LEMMA SpellsMore ==
  ASSUME NEW g, NEW rs, NEW more, NEW r, NEW es, NEW fs, NEW cs,
         Lengthens(more, rs, r), Spells(es, g, rs), Spells(fs, g, more), Pair(cs, r)
  PROVE  fs = es \o cs
<1>1. PICK n \in Nat : n = Len(rs) /\ Len(more) = n + 1
  BY DEF Lengthens
<1>2. /\ es \in Seq(Cell) /\ fs \in Seq(Cell) /\ cs \in Seq(Cell)
      /\ Len(es) = 2 + 2 * n /\ Len(fs) = 2 + 2 * (n + 1) /\ Len(cs) = 2
  BY <1>1 DEF Spells, Pair
<1>3. PICK m \in Nat : m = Len(es) /\ Len(fs) = m + 2 /\ m = 2 + 2 * n
  BY <1>2
<1>4. PICK js \in Seq(Cell) :
        /\ js = es \o cs /\ Len(js) = m + 2
        /\ \A i \in 1 .. m + 2 : js[i] = IF i <= m THEN es[i] ELSE cs[i - m]
  <2>1. /\ es \o cs \in Seq(Cell) /\ Len(es \o cs) = Len(es) + Len(cs)
        /\ \A i \in 1 .. Len(es) + Len(cs) :
             (es \o cs)[i] = IF i <= Len(es) THEN es[i] ELSE cs[i - Len(es)]
    <3>1. es \in Seq(Cell) /\ cs \in Seq(Cell)
      BY <1>2
    <3> QED
      BY ONLY <3>1, JoinShape
  <2>2. Len(es) = m /\ Len(cs) = 2
    BY <1>2, <1>3
  <2> QED
    BY ONLY <2>1, <2>2
<1>5. fs[1] = es[1] /\ fs[2] = es[2]
  BY DEF Spells
<1>6. ASSUME NEW k \in 1 .. n PROVE fs[2 * k + 1] = es[2 * k + 1] /\ fs[2 * k + 2] = es[2 * k + 2]
  <2>1. k \in 1 .. Len(rs) /\ k \in 1 .. Len(more) /\ more[k] = rs[k]
    BY <1>1 DEF Lengthens
  <2>2. /\ es[2 * k + 1] = [part |-> 1, tick |-> rs[k].tick, inputs |-> rs[k].inputs]
        /\ es[2 * k + 2] = [part |-> 2, tick |-> rs[k].tick, inputs |-> rs[k].inputs]
    BY <2>1 DEF Spells
  <2>3. /\ fs[2 * k + 1] = [part |-> 1, tick |-> more[k].tick, inputs |-> more[k].inputs]
        /\ fs[2 * k + 2] = [part |-> 2, tick |-> more[k].tick, inputs |-> more[k].inputs]
    BY <2>1 DEF Spells
  <2> QED
    BY ONLY <2>1, <2>2, <2>3
<1>7. ASSUME NEW i \in 1 .. m PROVE fs[i] = es[i]
  <2>1. i \in 1 .. 2 + 2 * n
    BY <1>3
  <2>2. i = 1 \/ i = 2 \/ \E k \in 1 .. n : i = 2 * k + 1 \/ i = 2 * k + 2
    BY ONLY <2>1, n \in Nat, CellPlace
  <2> QED
    BY ONLY <1>5, <1>6, <2>2
<1>8. fs[m + 1] = cs[1] /\ fs[m + 2] = cs[2]
  <2>1. n + 1 \in 1 .. Len(more) /\ more[n + 1] = r
    BY <1>1 DEF Lengthens
  <2>2. /\ fs[2 * (n + 1) + 1] = [part |-> 1, tick |-> r.tick, inputs |-> r.inputs]
        /\ fs[2 * (n + 1) + 2] = [part |-> 2, tick |-> r.tick, inputs |-> r.inputs]
    BY <2>1 DEF Spells
  <2>3. m + 1 = 2 * (n + 1) + 1 /\ m + 2 = 2 * (n + 1) + 2
    BY <1>3
  <2> QED
    BY <2>2, <2>3 DEF Pair
<1>9. ASSUME NEW i \in 1 .. m + 2 PROVE fs[i] = js[i]
  <2>1. CASE i \in 1 .. m
    BY <1>4, <1>7, <2>1
  <2>2. CASE i = m + 1
    BY <1>4, <1>8, <2>2
  <2>3. CASE i = m + 2
    BY <1>4, <1>8, <2>3
  <2>4. i \in 1 .. m \/ i = m + 1 \/ i = m + 2
    BY ONLY <1>9, m \in Nat
  <2> QED
    BY <2>1, <2>2, <2>3, <2>4
<1> QED
  BY <1>2, <1>3, <1>4, <1>9, SameElements

\* A recording with one record more is longer by the cells of that record.
LEMMA EncodeAppend ==
  ASSUME NEW g \in Games, NEW rs \in Seq(Record), NEW r \in Record
  PROVE  Encode(g, Append(rs, r)) = Encode(g, rs) \o Cells(r)
<1>1. Append(rs, r) \in Seq(Record)
  OBVIOUS
<1>2. Lengthens(Append(rs, r), rs, r)
  BY DEF Lengthens
<1>3. Spells(Encode(g, rs), g, rs) /\ Spells(Encode(g, Append(rs, r)), g, Append(rs, r))
  BY <1>1, EncodeShape
<1>4. Pair(Cells(r), r)
  BY CellsShape DEF Pair
<1> QED
  BY ONLY <1>2, <1>3, <1>4, SpellsMore

\* A log cut short is a log.
LEMMA PrefixIsLog ==
  ASSUME NEW s \in Seq(Cell), NEW t \in Seq(Cell), IsLog(t), IsPrefix(s, t)
  PROVE  IsLog(s)
<1>1. Len(s) <= Len(t) /\ (\A i \in 1 .. Len(s) : s[i] = t[i]) /\ Len(s) \in Nat /\ Len(t) \in Nat
  BY PrefixShape
<1>2. DOMAIN s = 1 .. Len(s) /\ DOMAIN t = 1 .. Len(t)
  OBVIOUS
<1>3. ASSUME NEW i \in DOMAIN s
      PROVE  /\ s[i] \in IF i <= 2 THEN HeaderCell ELSE RecordCell
             /\ s[i].part = Half(i)
             /\ i % 2 = 0 => s[i] = [s[i - 1] EXCEPT !.part = 2]
  <2>1. i \in DOMAIN t /\ s[i] = t[i]
    BY <1>1, <1>2
  <2>2. i % 2 = 0 => i - 1 \in 1 .. Len(s)
    BY <1>1, <1>2
  <2>3. i % 2 = 0 => s[i - 1] = t[i - 1]
    BY <1>1, <2>2
  <2> QED
    BY <2>1, <2>3 DEF IsLog
<1> QED
  BY <1>3 DEF IsLog

\* What a session writes is a log.
LEMMA SpelledIsLog ==
  ASSUME NEW g \in Games, NEW rs \in Seq(Record), NEW es, Spells(es, g, rs)
  PROVE  IsLog(es)
<1>1. /\ Len(rs) \in Nat /\ es \in Seq(Cell) /\ Len(es) = 2 + 2 * Len(rs)
      /\ es[1] = [part |-> 1, game |-> g] /\ es[2] = [part |-> 2, game |-> g]
  BY DEF Spells
<1>2. \A k \in 1 .. Len(rs) :
        /\ es[2 * k + 1] = [part |-> 1, tick |-> rs[k].tick, inputs |-> rs[k].inputs]
        /\ es[2 * k + 2] = [part |-> 2, tick |-> rs[k].tick, inputs |-> rs[k].inputs]
  BY DEF Spells
<1>3. ASSUME NEW i \in DOMAIN es
      PROVE  /\ es[i] \in IF i <= 2 THEN HeaderCell ELSE RecordCell
             /\ es[i].part = Half(i)
             /\ i % 2 = 0 => es[i] = [es[i - 1] EXCEPT !.part = 2]
  <2>1. CASE i = 1
    BY <1>1, <2>1 DEF HeaderCell, Half
  <2>2. CASE i = 2
    BY <1>1, <2>2 DEF HeaderCell, Half
  <2>3. ASSUME NEW k \in 1 .. Len(rs), i = 2 * k + 1
        PROVE  es[i] \in RecordCell /\ es[i].part = Half(i) /\ i % 2 = 1 /\ ~(i <= 2)
    <3>1. rs[k] \in Record /\ k \in Nat /\ k > 0
      BY <1>1
    <3>2. es[i] = [part |-> 1, tick |-> rs[k].tick, inputs |-> rs[k].inputs]
      BY <1>2, <2>3
    <3>3. i % 2 = 1 /\ Half(i) = 1 /\ ~(i <= 2)
      BY <2>3, <3>1, PlaceOfHalves
    <3> QED
      BY <3>1, <3>2, <3>3 DEF RecordCell, Record
  <2>4. ASSUME NEW k \in 1 .. Len(rs), i = 2 * k + 2
        PROVE  /\ es[i] \in RecordCell /\ es[i].part = Half(i) /\ ~(i <= 2)
               /\ es[i] = [es[i - 1] EXCEPT !.part = 2]
    <3>1. rs[k] \in Record /\ k \in Nat /\ k > 0
      BY <1>1
    <3>2. es[i] = [part |-> 2, tick |-> rs[k].tick, inputs |-> rs[k].inputs]
      BY <1>2, <2>4
    <3>3. es[i - 1] = [part |-> 1, tick |-> rs[k].tick, inputs |-> rs[k].inputs]
      <4>1. i - 1 = 2 * k + 1
        BY <2>4, <3>1
      <4> QED
        BY <1>2, <4>1
    <3>4. Half(i) = 2 /\ ~(i <= 2)
      BY <2>4, <3>1, PlaceOfHalves
    <3> QED
      BY <3>1, <3>2, <3>3, <3>4 DEF RecordCell, Record
  <2>5. i \in 1 .. 2 + 2 * Len(rs)
    BY <1>1
  <2> QED
    BY <1>1, <2>1, <2>2, <2>3, <2>4, <2>5, CellPlace
<1> QED
  BY <1>1, <1>3 DEF IsLog

\* A whole recording has the shape of a log.
LEMMA EncodeIsLog ==
  ASSUME NEW g \in Games, NEW rs \in Seq(Record)
  PROVE  IsLog(Encode(g, rs))
BY EncodeShape, SpelledIsLog

\* The header of a log.
LEMMA HeaderRead ==
  ASSUME NEW cells, IsLog(cells), Len(cells) >= 2
  PROVE  /\ cells[1].game \in Games
         /\ SubSeq(cells, 1, 2) = Encode(cells[1].game, <<>>)
<1>1. cells \in Seq(Cell) /\ 1 \in DOMAIN cells /\ 2 \in DOMAIN cells /\ 2 \in 0 .. Len(cells)
  BY DEF IsLog
<1>2. /\ cells[1] \in HeaderCell /\ cells[1].part = 1
      /\ cells[2] = [cells[1] EXCEPT !.part = 2]
  <2>1. Half(1) = 1 /\ 2 % 2 = 0 /\ 2 - 1 = 1
    BY DEF Half
  <2> QED
    BY <1>1, <2>1 DEF IsLog
<1>3. PICK g \in Games : g = cells[1].game
  BY <1>2 DEF HeaderCell
<1>4. cells[1] = [part |-> 1, game |-> g] /\ cells[2] = [part |-> 2, game |-> g]
  BY <1>2, <1>3 DEF HeaderCell
<1>5. PICK hs \in Seq(Cell) : hs = Header(g) /\ Len(hs) = 2 /\ hs[1] = cells[1] /\ hs[2] = cells[2]
  <2>1. Header(g) \in Seq(Cell) /\ Len(Header(g)) = 2
    BY EncodeEmpty
  <2> QED
    BY <1>4, <2>1 DEF Header
<1>6. PICK cut \in Seq(Cell) : cut = SubSeq(cells, 1, 2) /\ Len(cut) = 2 /\ \A i \in 1 .. 2 : cut[i] = cells[i]
  <2>1. /\ SubSeq(cells, 1, 2) \in Seq(Cell) /\ Len(SubSeq(cells, 1, 2)) = 2
        /\ \A i \in 1 .. 2 : SubSeq(cells, 1, 2)[i] = cells[i]
    BY ONLY <1>1, CutShape
  <2> QED
    BY ONLY <2>1
<1>7. \A i \in 1 .. 2 : i = 1 \/ i = 2
  OBVIOUS
<1>8. cut = hs
  BY <1>5, <1>6, <1>7, SameElements
<1> QED
  BY <1>3, <1>5, <1>6, <1>8, EncodeEmpty

\* A cell past the header holds a record.
LEMMA RecordOfLog ==
  ASSUME NEW cells, IsLog(cells), NEW i \in 3 .. Len(cells)
  PROVE  RecordAt(cells, i) \in Record /\ cells[i] \in RecordCell /\ cells[i].part = Half(i)
<1>1. i \in DOMAIN cells /\ ~(i <= 2)
  BY DEF IsLog
<1> QED
  BY <1>1 DEF IsLog, RecordAt, Record, RecordCell

\* Reading one record more is reading its two cells more.
LEMMA ReadOne ==
  ASSUME NEW cells, IsLog(cells), NEW n \in Nat, NEW p, p = 2 * n + 2, p + 2 <= Len(cells)
  PROVE  SubSeq(cells, 1, p + 2) = SubSeq(cells, 1, p) \o Cells(RecordAt(cells, p + 1))
<1>1. cells \in Seq(Cell) /\ Len(cells) \in Nat /\ p \in Nat /\ p >= 2
  BY DEF IsLog
<1>2. p \in 0 .. Len(cells) /\ p + 2 \in 0 .. Len(cells) /\ p + 1 \in 3 .. Len(cells)
      /\ p + 2 \in DOMAIN cells /\ ~(p + 2 <= 2)
  BY <1>1
<1>3. PICK r \in Record : r = RecordAt(cells, p + 1)
  BY <1>2, RecordOfLog
<1>4. Half(p + 1) = 1 /\ (p + 2) % 2 = 0 /\ (p + 2) - 1 = p + 1
  <2>1. n + 1 \in Nat /\ p + 1 = 2 * (n + 1) + 1
    OBVIOUS
  <2>2. (2 * n + 2) % 2 = 0
    BY PlaceOfHalves
  <2>3. Half(2 * (n + 1) + 1) = 1
    BY ONLY <2>1, PlaceOfHalves
  <2> QED
    BY ONLY <2>1, <2>2, <2>3, <1>1, p = 2 * n + 2
<1>5. /\ cells[p + 1] \in RecordCell /\ cells[p + 1].part = 1
      /\ cells[p + 2] = [cells[p + 1] EXCEPT !.part = 2]
  BY <1>2, <1>4, RecordOfLog DEF IsLog
<1>6. PICK cs \in Seq(Cell) : /\ cs = Cells(r) /\ Len(cs) = 2
                              /\ cs[1] = cells[p + 1] /\ cs[2] = cells[p + 2]
  <2>1. /\ Cells(r) \in Seq(Cell) /\ Len(Cells(r)) = 2
        /\ Cells(r)[1] = [part |-> 1, tick |-> r.tick, inputs |-> r.inputs]
        /\ Cells(r)[2] = [part |-> 2, tick |-> r.tick, inputs |-> r.inputs]
    BY CellsShape
  <2>2. /\ cells[p + 1] = [part |-> 1, tick |-> r.tick, inputs |-> r.inputs]
        /\ cells[p + 2] = [part |-> 2, tick |-> r.tick, inputs |-> r.inputs]
    BY <1>3, <1>5 DEF RecordAt, RecordCell
  <2> QED
    BY <2>1, <2>2
<1>7. PICK a \in Seq(Cell) : a = SubSeq(cells, 1, p) /\ Len(a) = p /\ \A i \in 1 .. p : a[i] = cells[i]
  <2>1. /\ SubSeq(cells, 1, p) \in Seq(Cell) /\ Len(SubSeq(cells, 1, p)) = p
        /\ \A i \in 1 .. p : SubSeq(cells, 1, p)[i] = cells[i]
    BY ONLY <1>1, <1>2, CutShape
  <2> QED
    BY ONLY <2>1
<1>8. PICK b \in Seq(Cell) : /\ b = SubSeq(cells, 1, p + 2) /\ Len(b) = p + 2
                             /\ \A i \in 1 .. p + 2 : b[i] = cells[i]
  <2>1. /\ SubSeq(cells, 1, p + 2) \in Seq(Cell) /\ Len(SubSeq(cells, 1, p + 2)) = p + 2
        /\ \A i \in 1 .. p + 2 : SubSeq(cells, 1, p + 2)[i] = cells[i]
    BY ONLY <1>1, <1>2, CutShape
  <2> QED
    BY ONLY <2>1
<1>9. PICK js \in Seq(Cell) : /\ js = a \o cs /\ Len(js) = p + 2
                              /\ \A i \in 1 .. p + 2 : js[i] = IF i <= p THEN a[i] ELSE cs[i - p]
  <2>1. /\ a \o cs \in Seq(Cell) /\ Len(a \o cs) = Len(a) + Len(cs)
        /\ \A i \in 1 .. Len(a) + Len(cs) : (a \o cs)[i] = IF i <= Len(a) THEN a[i] ELSE cs[i - Len(a)]
    <3>1. a \in Seq(Cell) /\ cs \in Seq(Cell)
      OBVIOUS
    <3> QED
      BY ONLY <3>1, JoinShape
  <2>2. Len(a) = p /\ Len(cs) = 2
    BY <1>6, <1>7
  <2> QED
    BY ONLY <2>1, <2>2
<1>10. ASSUME NEW i \in 1 .. p + 2 PROVE b[i] = js[i]
  <2>1. i <= p \/ i = p + 1 \/ i = p + 2
    BY <1>1
  <2>2. i <= p => i \in 1 .. p
    BY <1>1
  <2> QED
    BY <1>1, <1>6, <1>7, <1>8, <1>9, <2>1, <2>2
<1>11. b = js
  BY <1>8, <1>9, <1>10, SameElements
<1> QED
  BY <1>3, <1>6, <1>7, <1>8, <1>9, <1>11

\* The length of what can be read of a file, and what can be read of an encoding.
LEMMA ReadableLength ==
  ASSUME NEW cells \in Seq(Cell)
  PROVE  /\ Len(Readable(cells)) = IF Len(cells) < 2 THEN 0 ELSE (Len(cells) - 2) \div 2
         /\ Len(Readable(cells)) \in Nat
<1>1. CASE Len(cells) < 2
  BY <1>1 DEF Readable
<1>2. CASE ~(Len(cells) < 2)
  <2>1. PICK k \in Nat : k = (Len(cells) - 2) \div 2
    BY <1>2
  <2>2. Readable(cells) = [i \in 1 .. k |-> RecordAt(cells, 2 * i + 1)]
    BY <1>2, <2>1 DEF Readable
  <2>3. Len(Readable(cells)) = k
    BY <2>1, <2>2
  <2> QED
    BY <1>2, <2>1, <2>3
<1> QED
  BY <1>1, <1>2

\* No fewer records are readable in more cells.
LEMMA ReadableGrows ==
  ASSUME NEW s \in Seq(Cell), NEW t \in Seq(Cell), Len(s) <= Len(t)
  PROVE  Len(Readable(s)) <= Len(Readable(t))
<1>1. PICK m \in Nat, n \in Nat : m = Len(s) /\ n = Len(t) /\ m <= n
  OBVIOUS
<1>2. /\ Len(Readable(s)) = IF m < 2 THEN 0 ELSE (m - 2) \div 2
      /\ Len(Readable(t)) = IF n < 2 THEN 0 ELSE (n - 2) \div 2
  BY <1>1, ReadableLength
<1>3. ~(m < 2) => (m - 2) \div 2 <= (n - 2) \div 2 /\ ~(n < 2)
  BY ONLY <1>1
<1>4. ~(n < 2) => 0 <= (n - 2) \div 2
  BY ONLY <1>1
<1> QED
  BY ONLY <1>2, <1>3, <1>4

\* All records of a whole recording are readable.
LEMMA ReadableOfEncode ==
  ASSUME NEW g \in Games, NEW rs \in Seq(Record)
  PROVE  Len(Readable(Encode(g, rs))) = Len(rs)
<1>1. PICK n \in Nat : n = Len(rs)
  OBVIOUS
<1>2. PICK es \in Seq(Cell) : es = Encode(g, rs) /\ Len(es) = 2 + 2 * n
  BY <1>1, EncodeShape DEF Spells
<1>3. ~(2 + 2 * n < 2) /\ (2 + 2 * n - 2) \div 2 = n
  BY <1>1
<1> QED
  BY <1>1, <1>2, <1>3, ReadableLength

\* What another recorder appends to a log leaves a log.
LEMMA ExtendedIsLog ==
  ASSUME NEW cells, IsLog(cells), Len(cells) >= 2, NEW next \in Nat,
         NEW cell \in IF Len(cells) % 2 = 1 THEN {[cells[Len(cells)] EXCEPT !.part = 2]}
                       ELSE [part : {1}, tick : {next}, inputs : Inputs]
  PROVE  /\ Append(cells, cell) \in Seq(Cell) /\ IsLog(Append(cells, cell))
         /\ Len(Append(cells, cell)) = Len(cells) + 1
         /\ \A i \in 1 .. Len(cells) : Append(cells, cell)[i] = cells[i]
<1>1. PICK n \in Nat : n = Len(cells) /\ n >= 2 /\ cells \in Seq(Cell) /\ DOMAIN cells = 1 .. n
  BY DEF IsLog
<1>2. /\ cell \in RecordCell /\ cell.part = Half(n + 1) /\ ~(n + 1 <= 2)
      /\ (n + 1) % 2 = 0 => cell = [cells[n] EXCEPT !.part = 2]
  <2>1. CASE n % 2 = 1
    <3>1. n >= 3 /\ n \in 3 .. Len(cells) /\ Half(n) = 1 /\ Half(n + 1) = 2
      BY <1>1, <2>1 DEF Half
    <3>2. cells[n] \in RecordCell
      BY <3>1, RecordOfLog
    <3>3. cell = [cells[n] EXCEPT !.part = 2]
      BY <1>1, <2>1
    <3> QED
      BY <1>1, <3>1, <3>2, <3>3 DEF RecordCell
  <2>2. CASE ~(n % 2 = 1)
    <3>1. (n + 1) % 2 = 1 /\ Half(n + 1) = 1
      BY <1>1, <2>2 DEF Half
    <3>2. cell \in [part : {1}, tick : {next}, inputs : Inputs]
      BY <1>1, <2>2
    <3> QED
      BY <1>1, <3>1, <3>2 DEF RecordCell
  <2> QED
    BY <2>1, <2>2
<1> DEFINE more == Append(cells, cell)
<1>3. /\ more \in Seq(Cell) /\ Len(more) = n + 1 /\ more[n + 1] = cell
      /\ \A i \in 1 .. n : more[i] = cells[i]
  <2>1. cell \in Cell
    BY <1>2 DEF Cell
  <2> QED
    BY <1>1, <2>1
<1> HIDE DEF more
<1>4. ASSUME NEW i \in DOMAIN more
      PROVE  /\ more[i] \in IF i <= 2 THEN HeaderCell ELSE RecordCell
             /\ more[i].part = Half(i)
             /\ i % 2 = 0 => more[i] = [more[i - 1] EXCEPT !.part = 2]
  <2>1. CASE i = n + 1
    <3>1. i - 1 = n /\ more[n] = cells[n] /\ more[i] = cell /\ ~(i <= 2)
      BY <1>1, <1>2, <1>3, <2>1
    <3>2. i % 2 = 0 => cell = [cells[n] EXCEPT !.part = 2]
      BY <1>2, <2>1
    <3>3. cell \in RecordCell /\ cell.part = Half(i)
      BY <1>2, <2>1
    <3> QED
      BY ONLY <3>1, <3>2, <3>3
  <2>2. CASE i \in 1 .. n
    <3>1. i \in DOMAIN cells /\ more[i] = cells[i] /\ (i % 2 = 0 => i - 1 \in 1 .. n)
      BY <1>1, <1>3, <2>2
    <3>2. i % 2 = 0 => more[i - 1] = cells[i - 1]
      BY <1>3, <3>1
    <3> QED
      BY <3>1, <3>2 DEF IsLog
  <2> QED
    BY <1>1, <1>3, <2>1, <2>2
<1>5. IsLog(more)
  BY <1>3, <1>4 DEF IsLog
<1> QED
  BY <1>1, <1>3, <1>5 DEF more

\* One element more leaves what came before as it was.
LEMMA CutOfAppend ==
  ASSUME NEW S, NEW s \in Seq(S), NEW e \in S, NEW n \in 0 .. Len(s)
  PROVE  SubSeq(Append(s, e), 1, n) = SubSeq(s, 1, n)
<1>1. /\ Append(s, e) \in Seq(S) /\ n \in 0 .. Len(Append(s, e))
      /\ \A i \in 1 .. n : Append(s, e)[i] = s[i]
  OBVIOUS
<1> DEFINE more == Append(s, e)
<1> HIDE DEF more
<1>2. more \in Seq(S) /\ n \in 0 .. Len(more) /\ \A i \in 1 .. n : more[i] = s[i]
  BY <1>1 DEF more
<1>3. /\ SubSeq(more, 1, n) \in Seq(S) /\ Len(SubSeq(more, 1, n)) = n
      /\ \A i \in 1 .. n : SubSeq(more, 1, n)[i] = more[i]
  BY ONLY <1>2, CutShape
<1>4. /\ SubSeq(s, 1, n) \in Seq(S) /\ Len(SubSeq(s, 1, n)) = n
      /\ \A i \in 1 .. n : SubSeq(s, 1, n)[i] = s[i]
  BY CutShape
<1>5. SubSeq(more, 1, n) = SubSeq(s, 1, n)
  BY <1>2, <1>3, <1>4, SameElements
<1> QED
  BY <1>5 DEF more

\* A sequence is a prefix of itself.
LEMMA WholeCut ==
  ASSUME NEW S, NEW s \in Seq(S)
  PROVE  SubSeq(s, 1, Len(s)) = s /\ IsPrefix(s, s)
<1>1. /\ SubSeq(s, 1, Len(s)) \in Seq(S) /\ Len(SubSeq(s, 1, Len(s))) = Len(s)
      /\ \A i \in 1 .. Len(s) : SubSeq(s, 1, Len(s))[i] = s[i]
  BY CutShape
<1> QED
  BY <1>1, SameElements, PrefixShape

\* A prefix stays one when the sequence grows.
LEMMA PrefixOfAppend ==
  ASSUME NEW S, NEW s \in Seq(S), NEW e \in S, NEW u \in Seq(S), IsPrefix(u, s)
  PROVE  IsPrefix(u, Append(s, e)) /\ IsPrefix(s, Append(s, e))
<1>1. IsPrefix(s, Append(s, e)) /\ Append(s, e) \in Seq(S)
  <2>1. /\ Append(s, e) \in Seq(S) /\ Len(s) <= Len(Append(s, e))
        /\ \A i \in 1 .. Len(s) : s[i] = Append(s, e)[i]
    OBVIOUS
  <2> QED
    BY <2>1, PrefixShape
<1> QED
  BY <1>1, PrefixTransitive

-----------------------------------------------------------------------------
\* The inductive invariant

\* The places of a session at which nothing has gone wrong with it yet.
Underway == {"loading", "loaded", "waiting", "live", "flush", "replaying", "replayed"}

\* What is in the file system are logs. The file a session reads and the one it writes
\* are there, and they are two.
FilesInv ==
  /\ \A p \in Paths : files[p] # Absent => IsLog(files[p])
  /\ load # NoPath => files[load] # Absent /\ Len(files[load]) >= 2
                      /\ game = files[load][1].game
  /\ record # NoPath => files[record] # Absent /\ record # load
  /\ pc \in {"loading", "replaying", "replayed"} => load # NoPath
  /\ pc \in {"replaying", "replayed"} => record = NoPath
  /\ outcome \in {"complete", "crashed"} => pc = "idle"

\* The simulation has advanced through all that was appended, and all that was
\* appended is in the file or the buffer, until something goes wrong with the last.
HistoryInv ==
  /\ \A i \in DOMAIN attempted : attempted[i].tick = i
  /\ pc \in Underway => attempted = log
  /\ attempted = log \/ \E r \in Record : attempted = Append(log, r)
  /\ record # NoPath => IsPrefix(Written, Encode(game, attempted))
  /\ record # NoPath /\ pc \in Underway => Written = Encode(game, attempted)

\* What the reader has consumed is the encoding of the ticks loaded.
ReadInv ==
  /\ pc \in Underway =>
       /\ base <= Len(log)
       /\ load # NoPath => /\ pos <= Len(files[load])
                           /\ SubSeq(files[load], 1, pos) = Encode(game, SubSeq(log, 1, base))
       /\ pc \notin {"live", "flush"} => base = Len(log)
       /\ load # NoPath /\ ~grown =>
            /\ pc \in {"loaded", "waiting", "live", "flush"} => pos = Len(files[load])
            /\ pc = "replayed" => cancelled \/ pos = Len(files[load])
       /\ load = NoPath => base = 0
  /\ outcome = "complete" => load # NoPath
  /\ CompleteIsComplete

\* What the clients are served, and what they hold once they are released.
ServedInv ==
  /\ ServedAgree
  /\ pc \in {"loading", "loaded", "replaying", "replayed"} => ~joined

\* The records a later session finds in the recording.
Durable == Len(Readable(files[record]))

\* Once the save was served no more than an interval of the recording is not in the
\* file: what was appended since the last multiple of the interval, or since the start.
LossInv ==
  /\ pc \in {"loading", "loaded", "replaying", "replayed"} => save = <<>>
  /\ pc \in {"waiting", "live", "flush"} => save # <<>>
  /\ record # NoPath /\ save # <<>> =>
       /\ base <= Durable /\ Len(attempted) - Durable <= Interval
       /\ pc = "waiting" => Len(log) <= Durable
       /\ pc = "live" => Len(log) - Durable <= Len(log) % Interval

RecInv == FilesInv /\ HistoryInv /\ ReadInv /\ ServedInv /\ LossInv

-----------------------------------------------------------------------------
\* What the invariant says of one state

\* A file that is there is a log.
LEMMA FileThere ==
  ASSUME TypeOK, FilesInv, NEW p \in Paths, files[p] # Absent
  PROVE  files[p] \in Seq(Cell) /\ IsLog(files[p])
BY DEF TypeOK, FilesInv

\* The recording and what is still to be written of it.
LEMMA WrittenShape ==
  ASSUME TypeOK, FilesInv, record # NoPath
  PROVE  /\ record \in Paths /\ files[record] # Absent
         /\ files[record] \in Seq(Cell) /\ buffer \in Seq(Cell) /\ Written \in Seq(Cell)
<1>1. record \in Paths /\ files[record] # Absent /\ buffer \in Seq(Cell)
  BY DEF TypeOK, FilesInv
<1>2. files[record] \in Seq(Cell)
  BY <1>1, FileThere
<1> QED
  BY <1>1, <1>2 DEF Written

\* A session that can start has a header of the right type.
LEMMA HeaderThere ==
  ASSUME TypeOK, FilesInv, NEW l \in Paths \cup {NoPath}, NEW r \in Paths \cup {NoPath}, Startable(l, r)
  PROVE  /\ HeaderOf(l) \in Games
         /\ l # NoPath => /\ files[l] \in Seq(Cell) /\ IsLog(files[l]) /\ Len(files[l]) >= 2
                          /\ files[l] # Absent /\ l # r /\ HeaderOf(l) = files[l][1].game
         /\ r # NoPath => files[r] = Absent
<1>1. r # NoPath => files[r] = Absent
  BY DEF Startable, Creatable
<1>2. CASE l = NoPath
  BY <1>1, <1>2, NamesAssumption DEF HeaderOf
<1>3. CASE l # NoPath
  <2>1. l \in Paths /\ files[l] # Absent /\ Len(files[l]) >= 2 /\ l # r
    BY <1>1, <1>3 DEF Startable
  <2>2. files[l] \in Seq(Cell) /\ IsLog(files[l])
    BY <2>1, FileThere
  <2>3. HeaderOf(l) = files[l][1].game
    BY <1>3 DEF HeaderOf
  <2> QED
    BY <1>1, <2>1, <2>2, <2>3, HeaderRead
<1> QED
  BY <1>2, <1>3

\* The reader stands behind the header and the records it has loaded.
LEMMA ReaderPlace ==
  ASSUME TypeOK, FilesInv, ReadInv, pc \in Underway, load # NoPath
  PROVE  /\ load \in Paths /\ files[load] # Absent
         /\ files[load] \in Seq(Cell) /\ IsLog(files[load]) /\ Len(files[load]) >= 2
         /\ base \in 0 .. Len(log) /\ SubSeq(log, 1, base) \in Seq(Record)
         /\ pos = 2 * base + 2 /\ pos <= Len(files[load])
         /\ SubSeq(files[load], 1, pos) = Encode(game, SubSeq(log, 1, base))
<1>1. load \in Paths /\ files[load] # Absent /\ Len(files[load]) >= 2
  BY DEF TypeOK, FilesInv
<1>2. files[load] \in Seq(Cell) /\ IsLog(files[load])
  BY <1>1, FileThere
<1>3. /\ base \in 0 .. Len(log) /\ pos \in 0 .. Len(files[load]) /\ log \in Seq(Record) /\ game \in Games
      /\ SubSeq(files[load], 1, pos) = Encode(game, SubSeq(log, 1, base))
  <2>1. base \in Nat /\ pos \in Nat /\ log \in Seq(Record) /\ game \in Games
    BY DEF TypeOK
  <2>2. /\ base <= Len(log) /\ pos <= Len(files[load])
        /\ SubSeq(files[load], 1, pos) = Encode(game, SubSeq(log, 1, base))
    BY DEF ReadInv
  <2>3. Len(log) \in Nat /\ Len(files[load]) \in Nat
    BY ONLY <1>2, <2>1
  <2> QED
    BY ONLY <2>1, <2>2, <2>3
<1>4. PICK rs \in Seq(Record) : rs = SubSeq(log, 1, base) /\ Len(rs) = base
  <2>1. SubSeq(log, 1, base) \in Seq(Record) /\ Len(SubSeq(log, 1, base)) = base
    BY ONLY <1>3, CutShape
  <2> QED
    BY ONLY <2>1
<1>5. Len(Encode(game, rs)) = 2 + 2 * base
  BY ONLY <1>3, <1>4, rs \in Seq(Record), EncodeShape DEF Spells
<1>6. Len(SubSeq(files[load], 1, pos)) = pos
  BY ONLY <1>2, <1>3, CutShape
<1>7. pos = 2 * base + 2
  BY ONLY <1>3, <1>4, <1>5, <1>6
<1> QED
  BY <1>1, <1>2, <1>3, <1>4, <1>7

\* The record it reads next.
LEMMA NextRead ==
  ASSUME TypeOK, FilesInv, ReadInv, pc \in {"loading", "replaying"}, pos + 2 <= Len(files[load]),
         NEW r, r = RecordAt(files[load], pos + 1)
  PROVE  /\ r \in Record
         /\ SubSeq(files[load], 1, pos + 2) = Encode(game, SubSeq(log, 1, base)) \o Cells(r)
<1>1. pc \in Underway /\ load # NoPath
  BY DEF Underway, FilesInv
<1>2. /\ IsLog(files[load]) /\ base \in Nat /\ pos = 2 * base + 2
      /\ SubSeq(files[load], 1, pos) = Encode(game, SubSeq(log, 1, base))
  BY <1>1, ReaderPlace DEF TypeOK
<1>3. pos + 1 \in 3 .. Len(files[load])
  BY <1>2 DEF IsLog
<1>4. r \in Record
  BY <1>2, <1>3, RecordOfLog
<1>5. SubSeq(files[load], 1, pos + 2) = SubSeq(files[load], 1, pos) \o Cells(RecordAt(files[load], pos + 1))
  BY ONLY <1>2, pos + 2 <= Len(files[load]), ReadOne
<1> QED
  BY <1>2, <1>4, <1>5

-----------------------------------------------------------------------------
\* Type correctness

\* A sequence may be empty.
LEMMA EmptyIs == ASSUME NEW S PROVE <<>> \in Seq(S) /\ Len(<<>>) = 0
  OBVIOUS

\* The initial state.
LEMMA TypeInit == Init => TypeOK /\ RecInv
<1> SUFFICES ASSUME Init PROVE TypeOK /\ RecInv
  OBVIOUS
<1>1. \A p \in Paths : files[p] # Absent => IsLog(files[p])
  BY FilesAssumption DEF Init
<1>2. TypeOK
  <2>1. files \in [Paths -> Seq(Cell) \cup {Absent}]
    BY FilesAssumption DEF Init
  <2>2. OwnGame \in Games
    BY NamesAssumption
  <2>3. log \in Seq(Record) /\ attempted \in Seq(Record) /\ buffer \in Seq(Cell) /\ save \in Seq(Cell)
    BY EmptyIs DEF Init
  <2> QED
    BY ONLY <2>1, <2>2, <2>3, Init DEF Init, TypeOK
<1>3. FilesInv
  BY <1>1 DEF Init, FilesInv
<1>4. HistoryInv
  BY DEF Init, HistoryInv, Underway
<1>5. ReadInv
  BY DEF Init, ReadInv, Underway, CompleteIsComplete
<1>6. ServedInv
  BY DEF Init, ServedInv, ServedAgree, ServedIsReplayed, ReleasedAgree
<1>7. LossInv
  BY DEF Init, LossInv
<1> QED
  BY <1>2, <1>3, <1>4, <1>5, <1>6, <1>7 DEF RecInv

\* A session starts, is refused, or replays a file.
LEMMA TypeStart ==
  ASSUME TypeOK, FilesInv, NEW l \in Paths \cup {NoPath}, NEW r \in Paths \cup {NoPath},
         StartSession(l, r) \/ Refuse(l, r)
  PROVE  TypeOK'
<1>1. CASE StartSession(l, r)
  <2>1. Startable(l, r) /\ game' \in Games /\ game' = HeaderOf(l)
    BY <1>1, HeaderThere DEF StartSession
  <2>2. Header(game') \in Seq(Cell)
    BY <2>1, EncodeEmpty
  <2>3. files' \in [Paths -> Seq(Cell) \cup {Absent}]
    BY <1>1 DEF StartSession, TypeOK
  <2>4. buffer' \in Seq(Cell)
    BY <1>1, <2>2 DEF StartSession
  <2>5. log' \in Seq(Record) /\ attempted' \in Seq(Record) /\ save' \in Seq(Cell)
    BY <1>1, EmptyIs DEF StartSession
  <2>6. /\ pc' \in {"loaded", "loading"} /\ load' = l /\ record' = r /\ pos' \in Nat /\ base' = 0
        /\ outcome' = "none" /\ sessions' = sessions + 1 /\ growth' = growth
    BY <1>1 DEF StartSession
  <2>8. grown' \in BOOLEAN /\ cancelled' \in BOOLEAN /\ joined' \in BOOLEAN
    BY <1>1 DEF StartSession
  <2>7. sessions \in Nat /\ growth \in Nat
    BY DEF TypeOK
  <2> QED
    BY ONLY <2>1, <2>3, <2>4, <2>5, <2>6, <2>7, <2>8, l \in Paths \cup {NoPath}, r \in Paths \cup {NoPath}
       DEF TypeOK
<1>2. CASE Refuse(l, r)
  <2>1. files' \in [Paths -> Seq(Cell) \cup {Absent}]
    <3>1. ASSUME Startable(l, r), NEW n \in 0 .. 1,
                 files' = [files EXCEPT ![r] = SubSeq(Header(HeaderOf(l)), 1, n)]
          PROVE  files' \in [Paths -> Seq(Cell) \cup {Absent}]
      <4>1. HeaderOf(l) \in Games
        BY <3>1, HeaderThere
      <4>2. Header(HeaderOf(l)) \in Seq(Cell) /\ n \in 0 .. Len(Header(HeaderOf(l)))
        BY <4>1, EncodeEmpty
      <4>3. SubSeq(Header(HeaderOf(l)), 1, n) \in Seq(Cell)
        BY <4>2, CutShape
      <4> QED
        BY <3>1, <4>3 DEF TypeOK
    <3> QED
      BY <1>2, <3>1 DEF Refuse, TypeOK
  <2> QED
    BY <1>2, <2>1 DEF Refuse, TypeOK, reader
<1> QED
  BY <1>1, <1>2

\* The types, when a replay starts.
LEMMA TypeReplay ==
  ASSUME TypeOK, FilesInv, NEW l \in Paths, StartReplay(l)
  PROVE  TypeOK'
<1>1. Startable(l, NoPath) /\ game' = HeaderOf(l)
  BY DEF StartReplay
<1>2. game' \in Games
  BY <1>1, HeaderThere
<1>3. log' \in Seq(Record) /\ attempted' \in Seq(Record) /\ save' \in Seq(Cell)
  BY EmptyIs DEF StartReplay
<1>4. /\ pc' = "replaying" /\ load' = l /\ record' = NoPath /\ pos' = 2 /\ base' = 0
      /\ outcome' = "none"
      /\ sessions' = sessions + 1 /\ growth' = growth /\ files' = files /\ buffer' = buffer
  BY DEF StartReplay
<1>5. /\ sessions \in Nat /\ growth \in Nat /\ buffer \in Seq(Cell)
      /\ files \in [Paths -> Seq(Cell) \cup {Absent}]
  BY DEF TypeOK
<1>6. grown' \in BOOLEAN /\ cancelled' \in BOOLEAN /\ joined' \in BOOLEAN
  BY DEF StartReplay
<1> QED
  BY ONLY <1>2, <1>3, <1>4, <1>5, <1>6, l \in Paths DEF TypeOK

\* A record is loaded, a tick run: what is appended is a record.
LEMMA TypeAppend ==
  ASSUME TypeOK, NEW r \in Record, AppendRecord(r)
  PROVE  attempted' \in Seq(Record) /\ buffer' \in Seq(Cell) /\ Append(log, r) \in Seq(Record)
<1>1. Cells(r) \in Seq(Cell)
  BY CellsShape
<1> QED
  BY <1>1 DEF AppendRecord, TypeOK

\* The types, when a record is replayed.
LEMMA TypeLoad ==
  ASSUME TypeOK, FilesInv, ReadInv, ReplayRecord
  PROVE  TypeOK'
<1>1. CASE AtEnd
  BY <1>1 DEF ReplayRecord, TypeOK, config, bounds
<1>2. CASE ~AtEnd /\ pos + 2 > Len(files[load])
  BY <1>2 DEF ReplayRecord, Return, TypeOK, config, bounds
<1>3. CASE ~AtEnd /\ ~(pos + 2 > Len(files[load]))
  <2>1. PICK r : r = RecordAt(files[load], pos + 1)
    OBVIOUS
  <2>2. pc \in {"loading", "replaying"} /\ pos + 2 <= Len(files[load]) /\ load # NoPath
    <3>1. pc \in {"loading", "replaying"} /\ load # NoPath
      BY DEF ReplayRecord, FilesInv
    <3>2. pos \in Nat /\ Len(files[load]) \in Nat
      BY <3>1, ReaderPlace DEF Underway, TypeOK
    <3> QED
      BY <1>3, <3>1, <3>2
  <2>3. r \in Record
    BY <2>1, <2>2, NextRead
  <2>4. \/ /\ UNCHANGED <<buffer, attempted>> /\ Return("disordered") /\ UNCHANGED <<base, log>>
        \/ /\ AppendRecord(r)
           /\ \/ log' = Append(log, r) /\ base' = base + 1 /\ UNCHANGED <<pc, outcome>>
              \/ Return("simulation") /\ UNCHANGED <<base, log>>
    BY <1>3, <2>1 DEF ReplayRecord, Rejected
  <2>5. pos' = pos + 2 /\ UNCHANGED <<files, config, cancelled, grown, save, joined, bounds>>
    BY <1>3 DEF ReplayRecord
  <2>6. /\ attempted' \in Seq(Record) /\ buffer' \in Seq(Cell) /\ log' \in Seq(Record) /\ base' \in Nat
        /\ pc' \in {"loading", "replaying", "ending"}
        /\ outcome' \in {"disordered", "simulation", outcome}
    <3>1. CASE UNCHANGED <<buffer, attempted>> /\ Return("disordered") /\ UNCHANGED <<base, log>>
      BY <3>1 DEF TypeOK, Return
    <3>2. CASE AppendRecord(r)
      <4>1. attempted' \in Seq(Record) /\ buffer' \in Seq(Cell) /\ Append(log, r) \in Seq(Record)
        BY <2>3, <3>2, TypeAppend
      <4>2. log' \in {log, Append(log, r)} /\ base' \in {base, base + 1}
        BY <2>4
      <4>3. base \in Nat /\ log \in Seq(Record)
        BY DEF TypeOK
      <4>4. pc' \in {pc, "ending"} /\ outcome' \in {"disordered", "simulation", outcome}
        BY <2>4 DEF Return
      <4>5. log' \in Seq(Record) /\ base' \in Nat
        <5>1. log' = log \/ log' = Append(log, r)
          BY ONLY <4>2
        <5>2. base' = base \/ base' = base + 1
          BY ONLY <4>2
        <5>3. log' \in Seq(Record)
          BY ONLY <4>1, <4>3, <5>1
        <5>4. base' \in Nat
          BY ONLY <4>3, <5>2
        <5> QED
          BY ONLY <5>3, <5>4
      <4> QED
        BY ONLY <2>2, <4>1, <4>4, <4>5
    <3> QED
      BY <2>4, <3>1, <3>2
  <2> QED
    BY <2>5, <2>6 DEF TypeOK, config, bounds
<1> QED
  BY <1>1, <1>2, <1>3

\* The types, when a live tick is recorded.
LEMMA TypeTick ==
  ASSUME TypeOK, NEW i \in Inputs, LiveTick(i)
  PROVE  TypeOK'
<1>1. PICK r \in Record : r = [tick |-> Len(log) + 1, inputs |-> i]
  <2>1. [tick |-> Len(log) + 1, inputs |-> i] \in Record
    BY DEF Record, TypeOK
  <2> QED
    BY <2>1
<1>2. /\ AppendRecord(r)
      /\ \/ /\ log' = Append(log, r) /\ pc' \in {"flush", "live"} /\ UNCHANGED outcome
         \/ Return("simulation") /\ UNCHANGED log
      /\ UNCHANGED <<files, config, reader, cancelled, save, joined, bounds>>
  BY <1>1 DEF LiveTick
<1>3. attempted' \in Seq(Record) /\ buffer' \in Seq(Cell) /\ log' \in Seq(Record)
  BY <1>2, TypeAppend DEF TypeOK
<1> QED
  BY <1>2, <1>3 DEF TypeOK, Return, config, reader, bounds

\* The types, when the buffer is written, in part or whole.
LEMMA TypeWrite ==
  ASSUME TypeOK, FilesInv, ReadInv, ServeSave \/ FlushTick \/ Spill \/ EndSession
  PROVE  TypeOK'
<1>1. record # NoPath => /\ record \in Paths /\ Written \in Seq(Cell)
                         /\ files[record] \in Seq(Cell) /\ buffer \in Seq(Cell)
  BY WrittenShape
<1>2. \A n \in 0 .. Len(buffer) :
        /\ record # NoPath => files[record] \o SubSeq(buffer, 1, n) \in Seq(Cell)
        /\ SubSeq(buffer, n + 1, Len(buffer)) \in Seq(Cell)
  <2> SUFFICES ASSUME NEW n \in 0 .. Len(buffer)
               PROVE  /\ record # NoPath => files[record] \o SubSeq(buffer, 1, n) \in Seq(Cell)
                      /\ SubSeq(buffer, n + 1, Len(buffer)) \in Seq(Cell)
    OBVIOUS
  <2>1. buffer \in Seq(Cell)
    BY DEF TypeOK
  <2>2. SubSeq(buffer, 1, n) \in Seq(Cell) /\ SubSeq(buffer, n + 1, Len(buffer)) \in Seq(Cell)
    BY ONLY <2>1, n \in 0 .. Len(buffer), CutShape, RestShape
  <2> QED
    BY <1>1, <2>2
<1>3. CASE ServeSave
  <2>1. files' \in [Paths -> Seq(Cell) \cup {Absent}]
    BY <1>1, <1>3 DEF ServeSave, TypeOK
  <2>2. save' \in Seq(Cell)
    <3>1. record # NoPath => save' = Written
      BY <1>1, <1>3 DEF ServeSave, TypeOK
    <3>2. record = NoPath /\ load # NoPath => save' = files[load] /\ load \in Paths /\ files[load] # Absent
      BY <1>3 DEF ServeSave, TypeOK, FilesInv
    <3>3. record = NoPath /\ load = NoPath => save' = Header(game) /\ game \in Games
      BY <1>3 DEF ServeSave, TypeOK
    <3> QED
      BY <1>1, <3>1, <3>2, <3>3, FileThere, EncodeEmpty
  <2> QED
    BY <1>3, <2>1, <2>2 DEF ServeSave, TypeOK, config, reader, bounds
<1>4. CASE FlushTick
  <2>1. files' \in [Paths -> Seq(Cell) \cup {Absent}]
    BY <1>1, <1>4 DEF FlushTick, TypeOK
  <2> QED
    BY <1>4, <2>1 DEF FlushTick, TypeOK, config, reader, bounds
<1>5. CASE Spill
  <2>1. PICK n \in 1 .. Len(buffer) :
          /\ files' = [files EXCEPT ![record] = @ \o SubSeq(buffer, 1, n)]
          /\ buffer' = SubSeq(buffer, n + 1, Len(buffer))
    BY <1>5 DEF Spill
  <2>2. n \in 0 .. Len(buffer) /\ record # NoPath
    BY <1>5 DEF Spill
  <2>3. files' \in [Paths -> Seq(Cell) \cup {Absent}] /\ buffer' \in Seq(Cell)
    BY <1>1, <1>2, <2>1, <2>2 DEF TypeOK
  <2> QED
    BY <1>5, <2>3 DEF Spill, TypeOK, config, reader, bounds
<1>6. CASE EndSession
  <2>1. PICK n \in 0 .. Len(buffer) :
          /\ files' = IF record = NoPath THEN files
                      ELSE [files EXCEPT ![record] = @ \o SubSeq(buffer, 1, n)]
          /\ outcome' = IF n < Len(buffer) THEN "io" ELSE outcome
    BY <1>6 DEF EndSession
  <2>2. files' \in [Paths -> Seq(Cell) \cup {Absent}]
    BY <1>1, <1>2, <2>1 DEF TypeOK
  <2>3. outcome' \in {"io", outcome} /\ pc' = "idle" /\ buffer' = <<>>
    BY <1>6, <2>1 DEF EndSession
  <2>4. UNCHANGED <<config, reader, log, attempted, cancelled, save, joined, bounds>>
    BY <1>6 DEF EndSession
  <2> QED
    BY ONLY <2>2, <2>3, <2>4, TypeOK DEF TypeOK, config, reader, bounds
<1> QED
  BY <1>3, <1>4, <1>5, <1>6

\* The rest: the session's own control, and the other process.
LEMMA TypeControl ==
  ASSUME TypeOK, FilesInv,
         \/ ReportReplay \/ CancelSeen \/ GoLive \/ SessionFails \/ Crash \/ RequestCancel \/ Done
  PROVE  TypeOK'
<1>1. CASE ReportReplay
  BY <1>1 DEF ReportReplay, ReplayVerdict, TypeOK, config, reader, bounds
<1>2. CASE CancelSeen
  BY <1>2 DEF CancelSeen, Return, TypeOK, config, reader, bounds
<1>3. CASE GoLive
  BY <1>3 DEF GoLive, TypeOK, config, reader, bounds
<1>4. CASE SessionFails
  BY <1>4 DEF SessionFails, Return, TypeOK, config, reader, bounds
<1>5. CASE Crash
  BY <1>5 DEF Crash, TypeOK, config, reader, bounds
<1>6. CASE RequestCancel
  BY <1>6 DEF RequestCancel, TypeOK, config, reader, bounds
<1>7. CASE Done
  BY <1>7 DEF Done, vars, TypeOK, config, reader, bounds
<1> QED
  BY <1>1, <1>2, <1>3, <1>4, <1>5, <1>6, <1>7

\* The types, when a write fails.
LEMMA TypeWriteFails ==
  ASSUME TypeOK, FilesInv, ReadInv, WriteFails
  PROVE  TypeOK'
<1>1. attempted' \in Seq(Record) /\ buffer' \in Seq(Cell)
  <2>1. ASSUME NEW r \in Record, attempted' = Append(attempted, r),
               buffer' \in {buffer, Append(buffer, Cells(r)[1])}
        PROVE  attempted' \in Seq(Record) /\ buffer' \in Seq(Cell)
    <3>1. Cells(r) \in Seq(Cell) /\ Len(Cells(r)) = 2
      BY CellsShape
    <3>2. Cells(r)[1] \in Cell
      BY <3>1
    <3>3. attempted \in Seq(Record) /\ buffer \in Seq(Cell)
      BY DEF TypeOK
    <3>4. Append(attempted, r) \in Seq(Record) /\ Append(buffer, Cells(r)[1]) \in Seq(Cell)
      BY ONLY <3>2, <3>3, r \in Record
    <3> QED
      BY ONLY <2>1, <3>3, <3>4
  <2>2. ASSUME NEW i \in Inputs, attempted' = Append(attempted, [tick |-> Len(log) + 1, inputs |-> i]),
               buffer' \in {buffer, Append(buffer, Cells([tick |-> Len(log) + 1, inputs |-> i])[1])}
        PROVE  attempted' \in Seq(Record) /\ buffer' \in Seq(Cell)
    <3>1. [tick |-> Len(log) + 1, inputs |-> i] \in Record
      BY DEF TypeOK, Record
    <3> QED
      BY <2>1, <2>2, <3>1
  <2>3. ASSUME pc = "loading", pos + 2 <= Len(files[load]),
               attempted' = Append(attempted, RecordAt(files[load], pos + 1)),
               buffer' \in {buffer, Append(buffer, Cells(RecordAt(files[load], pos + 1))[1])}
        PROVE  attempted' \in Seq(Record) /\ buffer' \in Seq(Cell)
    <3>1. RecordAt(files[load], pos + 1) \in Record
      BY <2>3, NextRead
    <3> QED
      BY <2>1, <2>3, <3>1
  <2>4. CASE UNCHANGED <<buffer, attempted>>
    BY <2>4 DEF TypeOK
  <2> QED
    BY <2>2, <2>3, <2>4 DEF WriteFails
<1>2. pc' = "ending" /\ outcome' = "io"
      /\ UNCHANGED <<files, config, reader, log, cancelled, save, joined, bounds>>
  BY DEF WriteFails, Return
<1> QED
  BY ONLY <1>1, <1>2, TypeOK DEF TypeOK, config, reader, bounds

\* What another process makes of the file that is loaded.
LEMMA Extended ==
  ASSUME TypeOK, FilesInv, OtherRecorder
  PROVE  /\ load \in Paths /\ files' \in [Paths -> Seq(Cell) \cup {Absent}]
         /\ \A p \in Paths : p # load => files'[p] = files[p]
         /\ files[load] \in Seq(Cell) /\ files'[load] # Absent
         /\ \E cell \in Cell : files'[load] = Append(files[load], cell)
         /\ files'[load] \in Seq(Cell) /\ IsLog(files'[load])
         /\ Len(files[load]) >= 2 /\ Len(files'[load]) = Len(files[load]) + 1
         /\ \A i \in 1 .. Len(files[load]) : files'[load][i] = files[load][i]
<1>1. load \in Paths /\ files[load] # Absent /\ Len(files[load]) >= 2
  BY DEF OtherRecorder, TypeOK, FilesInv
<1>2. files[load] \in Seq(Cell) /\ IsLog(files[load])
  BY <1>1, FileThere
<1>3. PICK next \in Nat : next = Len(Readable(files[load])) + 1
  <2>1. Len(Readable(files[load])) \in Nat
    BY <1>2, ReadableLength
  <2> QED
    BY <2>1
<1>4. PICK cell \in IF Len(files[load]) % 2 = 1 THEN {[files[load][Len(files[load])] EXCEPT !.part = 2]}
                     ELSE [part : {1}, tick : {next}, inputs : Inputs] :
        files' = [files EXCEPT ![load] = Append(@, cell)]
  BY <1>3 DEF OtherRecorder
<1>5. PICK more : more = Append(files[load], cell)
  OBVIOUS
<1>6. /\ more \in Seq(Cell) /\ IsLog(more) /\ Len(more) = Len(files[load]) + 1
      /\ \A i \in 1 .. Len(files[load]) : more[i] = files[load][i]
  BY <1>1, <1>2, <1>4, <1>5, ExtendedIsLog
<1>7. cell \in Cell
  <2>1. more[Len(files[load]) + 1] = cell /\ Len(files[load]) + 1 \in 1 .. Len(more)
    BY <1>2, <1>5, <1>6
  <2> QED
    BY <1>6, <2>1
<1>8. /\ files'[load] = more /\ (\A p \in Paths : p # load => files'[p] = files[p])
      /\ files' \in [Paths -> Seq(Cell) \cup {Absent}]
  BY <1>1, <1>4, <1>5, <1>6 DEF TypeOK
<1>9. more # Absent
  BY <1>6, FilesAssumption
<1> QED
  BY ONLY <1>1, <1>2, <1>5, <1>6, <1>7, <1>8, <1>9

\* The types, when another session writes the file being read.
LEMMA TypeOther ==
  ASSUME TypeOK, FilesInv, OtherRecorder
  PROVE  TypeOK'
<1>1. files' \in [Paths -> Seq(Cell) \cup {Absent}]
  BY Extended
<1> QED
  BY <1>1 DEF OtherRecorder, TypeOK, config

\* Every step.
LEMMA TypeStep ==
  ASSUME TypeOK, FilesInv, ReadInv, [Next]_vars
  PROVE  TypeOK'
<1>1. CASE UNCHANGED vars
  BY <1>1 DEF vars, TypeOK, config, reader, bounds
<1>2. ASSUME NEW l \in Paths \cup {NoPath}, NEW r \in Paths \cup {NoPath},
             StartSession(l, r) \/ Refuse(l, r)
      PROVE  TypeOK'
  BY <1>2, TypeStart
<1>3. ASSUME NEW l \in Paths, StartReplay(l) PROVE TypeOK'
  BY <1>3, TypeReplay
<1>4. CASE ReplayRecord
  BY <1>4, TypeLoad
<1>5. ASSUME NEW i \in Inputs, LiveTick(i) PROVE TypeOK'
  BY <1>5, TypeTick
<1>6. CASE ServeSave \/ FlushTick \/ Spill \/ EndSession
  BY <1>6, TypeWrite
<1>7. CASE ReportReplay \/ CancelSeen \/ GoLive \/ SessionFails \/ Crash \/ RequestCancel \/ Done
  BY <1>7, TypeControl
<1>8. CASE WriteFails
  BY <1>8, TypeWriteFails
<1>9. CASE OtherRecorder
  BY <1>9, TypeOther
<1> QED
  BY <1>1, <1>2, <1>3, <1>4, <1>5, <1>6, <1>7, <1>8, <1>9 DEF Next

-----------------------------------------------------------------------------
\* The file system and the recording

\* Some of the buffer goes to the file: what is written stays what it was.
LEMMA PutCells ==
  ASSUME TypeOK, FilesInv, HistoryInv, record # NoPath, NEW n \in 0 .. Len(buffer),
         NEW t, t = files[record] \o SubSeq(buffer, 1, n)
  PROVE  /\ t \in Seq(Cell) /\ t # Absent /\ IsLog(t)
         /\ IsPrefix(files[record], t) /\ IsPrefix(t, Written)
         /\ t \o SubSeq(buffer, n + 1, Len(buffer)) = Written
         /\ t \o <<>> = t
<1>1. files[record] \in Seq(Cell) /\ buffer \in Seq(Cell) /\ Written \in Seq(Cell)
  BY WrittenShape
<1>2. SubSeq(buffer, 1, n) \in Seq(Cell) /\ SubSeq(buffer, n + 1, Len(buffer)) \in Seq(Cell)
  BY ONLY <1>1, n \in 0 .. Len(buffer), CutShape, RestShape
<1>3. t \in Seq(Cell) /\ t \o <<>> = t
  <2>1. t \in Seq(Cell)
    BY <1>1, <1>2
  <2> QED
    BY ONLY <2>1, JoinEmpty
<1>4. t # Absent
  BY <1>3, FilesAssumption
<1>5. IsPrefix(files[record], t)
  <2>1. IsPrefix(files[record], files[record] \o SubSeq(buffer, 1, n))
    <3>1. 0 \in 0 .. Len(SubSeq(buffer, 1, n))
      BY ONLY <1>2
    <3> QED
      BY ONLY <1>1, <1>2, <3>1, PrefixOfJoin, Zenon
  <2> QED
    BY <2>1
<1>6. IsPrefix(t, Written)
  <2>1. IsPrefix(files[record] \o SubSeq(buffer, 1, n), files[record] \o buffer)
    BY ONLY <1>1, n \in 0 .. Len(buffer), PrefixOfJoin
  <2> QED
    BY <2>1 DEF Written
<1>7. IsLog(t)
  <2>1. attempted \in Seq(Record) /\ game \in Games
    BY DEF TypeOK
  <2>2. IsPrefix(Written, Encode(game, attempted))
    BY DEF HistoryInv
  <2>3. IsLog(Encode(game, attempted)) /\ Encode(game, attempted) \in Seq(Cell)
    BY <2>1, EncodeIsLog DEF IsLog
  <2>4. IsPrefix(t, Encode(game, attempted))
    BY ONLY <1>1, <1>3, <1>6, <2>2, <2>3, PrefixTransitive
  <2> QED
    BY ONLY <1>3, <2>3, <2>4, PrefixIsLog
<1>8. t \o SubSeq(buffer, n + 1, Len(buffer)) = Written
  <2>1. t \o SubSeq(buffer, n + 1, Len(buffer))
          = files[record] \o (SubSeq(buffer, 1, n) \o SubSeq(buffer, n + 1, Len(buffer)))
    <3>1. (files[record] \o SubSeq(buffer, 1, n)) \o SubSeq(buffer, n + 1, Len(buffer))
            = files[record] \o (SubSeq(buffer, 1, n) \o SubSeq(buffer, n + 1, Len(buffer)))
      <4>1. files[record] \in Seq(Cell)
        BY <1>1
      <4> QED
        BY ONLY <1>2, <4>1, JoinCells, Zenon
    <3> QED
      BY ONLY <3>1, t = files[record] \o SubSeq(buffer, 1, n)
  <2>2. SubSeq(buffer, 1, n) \o SubSeq(buffer, n + 1, Len(buffer)) = buffer
    BY ONLY <1>1, n \in 0 .. Len(buffer), CutRest
  <2> QED
    BY <2>1, <2>2 DEF Written
<1> QED
  BY <1>3, <1>4, <1>5, <1>6, <1>7, <1>8

\* The steps that write to the recording.
Writes == ServeSave \/ FlushTick \/ Spill \/ EndSession

\* Writing makes the file longer and takes nothing from what was appended.
LEMMA WriteStep ==
  ASSUME TypeOK, FilesInv, HistoryInv, Writes
  PROVE  /\ UNCHANGED <<load, record, game, pos, base, grown, log, attempted, cancelled, joined>>
         /\ \A p \in Paths : p # record => files'[p] = files[p]
         /\ record # NoPath =>
              /\ files'[record] \in Seq(Cell) /\ files'[record] # Absent /\ IsLog(files'[record])
              /\ IsPrefix(files[record], files'[record])
              /\ Written' \in Seq(Cell) /\ IsPrefix(Written', Written)
              /\ ServeSave \/ FlushTick \/ Spill => Written' = Written
              /\ ServeSave \/ FlushTick => files'[record] = Written
<1>1. UNCHANGED <<load, record, game, pos, base, grown, log, attempted, cancelled, joined>>
  BY DEF Writes, ServeSave, FlushTick, Spill, EndSession, config, reader
<1>2. CASE record = NoPath
  BY <1>1, <1>2 DEF Writes, ServeSave, FlushTick, Spill, EndSession
<1>3. CASE record # NoPath
  <2>1. record \in Paths /\ files[record] \in Seq(Cell) /\ buffer \in Seq(Cell) /\ Written \in Seq(Cell)
        /\ Len(buffer) \in Nat
    BY <1>3, WrittenShape
  <2>2. PICK n \in 0 .. Len(buffer) :
          /\ files' = [files EXCEPT ![record] = files[record] \o SubSeq(buffer, 1, n)]
          /\ \/ buffer' = SubSeq(buffer, n + 1, Len(buffer)) /\ ~ServeSave /\ ~FlushTick
             \/ buffer' = <<>> /\ (n = Len(buffer) \/ ~(ServeSave \/ FlushTick \/ Spill))
    <3>1. CASE ServeSave \/ FlushTick
      <4>1. files' = [files EXCEPT ![record] = Written] /\ buffer' = <<>>
        BY <1>3, <3>1 DEF ServeSave, FlushTick
      <4>2. SubSeq(buffer, 1, Len(buffer)) = buffer /\ Len(buffer) \in 0 .. Len(buffer)
        BY <2>1, WholeCut
      <4> QED
        BY <4>1, <4>2 DEF Written
    <3>2. CASE Spill /\ ~(ServeSave \/ FlushTick)
      <4>1. PICK n \in 1 .. Len(buffer) :
              /\ files' = [files EXCEPT ![record] = @ \o SubSeq(buffer, 1, n)]
              /\ buffer' = SubSeq(buffer, n + 1, Len(buffer))
        BY <3>2 DEF Spill
      <4>2. n \in 0 .. Len(buffer)
        BY <2>1
      <4> QED
        BY <3>2, <4>1, <4>2
    <3>3. CASE EndSession /\ ~(ServeSave \/ FlushTick \/ Spill)
      <4>1. PICK n \in 0 .. Len(buffer) :
              files' = [files EXCEPT ![record] = @ \o SubSeq(buffer, 1, n)]
        BY <1>3, <3>3 DEF EndSession
      <4>2. buffer' = <<>>
        BY <3>3 DEF EndSession
      <4> QED
        BY <3>3, <4>1, <4>2
    <3> QED
      BY <3>1, <3>2, <3>3 DEF Writes
  <2>3. PICK t : t = files[record] \o SubSeq(buffer, 1, n)
    OBVIOUS
  <2>4. /\ t \in Seq(Cell) /\ t # Absent /\ IsLog(t)
        /\ IsPrefix(files[record], t) /\ IsPrefix(t, Written)
        /\ t \o SubSeq(buffer, n + 1, Len(buffer)) = Written
        /\ t \o <<>> = t
    BY <1>3, <2>3, PutCells
  <2>5. files'[record] = t /\ \A p \in Paths : p # record => files'[p] = files[p]
    BY <2>1, <2>2, <2>3 DEF TypeOK
  <2>6. Written' = t \o buffer'
    BY <1>1, <2>5 DEF Written
  <2>7. n = Len(buffer) => t = Written
    <3>1. SubSeq(buffer, 1, Len(buffer)) = buffer
      BY ONLY <2>1, WholeCut
    <3> QED
      BY <2>3, <3>1 DEF Written
  <2>8. IsPrefix(Written, Written)
    BY ONLY <2>1, WholeCut
  <2>9. CASE buffer' = SubSeq(buffer, n + 1, Len(buffer)) /\ ~ServeSave /\ ~FlushTick
    <3>1. Written' = Written
      BY <2>4, <2>6, <2>9
    <3> QED
      BY ONLY <1>1, <2>1, <2>4, <2>5, <2>8, <2>9, <3>1
  <2>10. CASE buffer' = <<>> /\ (n = Len(buffer) \/ ~(ServeSave \/ FlushTick \/ Spill))
    <3>1. Written' = t
      BY <2>4, <2>6, <2>10
    <3> QED
      BY ONLY <1>1, <2>1, <2>4, <2>5, <2>7, <2>10, <3>1
  <2> QED
    BY <2>2, <2>9, <2>10
<1> QED
  BY <1>2, <1>3

\* Steps that leave the names and the other files alone.
LEMMA FilesKept ==
  ASSUME TypeOK, FilesInv, UNCHANGED <<load, record, game>>,
         \A p \in Paths : p # record => files'[p] = files[p],
         record # NoPath => files'[record] # Absent /\ IsLog(files'[record]),
         pc' = "loading" => pc = "loading",
         pc' \in {"replaying", "replayed"} => pc \in {"replaying", "replayed"},
         outcome' \in {"complete", "crashed"} => pc' = "idle"
  PROVE  FilesInv'
<1>1. load \in Paths \cup {NoPath} /\ record \in Paths \cup {NoPath} /\ NoPath \notin Paths
  BY NamesAssumption DEF TypeOK
<1>2. \A p \in Paths : files'[p] # Absent => IsLog(files'[p])
  BY <1>1 DEF FilesInv
<1>3. load # NoPath => files'[load] = files[load]
  BY <1>1 DEF FilesInv
<1>4. load' # NoPath => files'[load'] # Absent /\ Len(files'[load']) >= 2 /\ game' = files'[load'][1].game
  BY <1>3 DEF FilesInv
<1>5. record' # NoPath => files'[record'] # Absent /\ record' # load'
  BY DEF FilesInv
<1>6. /\ pc' \in {"loading", "replaying", "replayed"} => load' # NoPath
      /\ pc' \in {"replaying", "replayed"} => record' = NoPath
  BY DEF FilesInv
<1> QED
  BY ONLY <1>2, <1>4, <1>5, <1>6, outcome' \in {"complete", "crashed"} => pc' = "idle" DEF FilesInv

\* The files a session starts from.
LEMMA FilesStart ==
  ASSUME TypeOK, FilesInv, NEW l \in Paths \cup {NoPath}, NEW r \in Paths \cup {NoPath}, StartSession(l, r)
  PROVE  FilesInv'
<1>1. /\ l # NoPath => /\ files[l] # Absent /\ l # r /\ Len(files[l]) >= 2
                       /\ HeaderOf(l) = files[l][1].game
      /\ r # NoPath => files[r] = Absent
  BY HeaderThere DEF StartSession
<1>2. /\ files' = IF r = NoPath THEN files ELSE [files EXCEPT ![r] = <<>>]
      /\ load' = l /\ record' = r /\ game' = HeaderOf(l) /\ outcome' = "none"
      /\ pc' = IF l = NoPath THEN "loaded" ELSE "loading"
  BY DEF StartSession
<1>3. IsLog(<<>>) /\ <<>> # Absent
  <2>1. <<>> \in Seq(Cell) /\ DOMAIN <<>> = {}
    BY EmptyIs
  <2> QED
    BY <2>1, FilesAssumption DEF IsLog
<1>4. \A p \in Paths : files'[p] = IF p = r THEN <<>> ELSE files[p]
  BY <1>2, NamesAssumption DEF TypeOK
<1>5. \A p \in Paths : files'[p] # Absent => IsLog(files'[p])
  BY <1>3, <1>4 DEF FilesInv
<1>6. l # NoPath => files'[l] = files[l]
  BY <1>1, <1>4
<1>7. r # NoPath => files'[r] # Absent
  BY <1>3, <1>4
<1> QED
  BY ONLY <1>1, <1>2, <1>5, <1>6, <1>7 DEF FilesInv

\* A refused session.
LEMMA FilesRefuse ==
  ASSUME TypeOK, FilesInv, NEW l \in Paths \cup {NoPath}, NEW r \in Paths \cup {NoPath}, Refuse(l, r)
  PROVE  FilesInv' /\ \A p \in Paths : files[p] # Absent => files'[p] = files[p]
<1>1. pc' = "idle" /\ outcome' = "refused" /\ record' = NoPath /\ UNCHANGED <<load, game>>
  BY DEF Refuse
<1>2. /\ \A p \in Paths : files'[p] # Absent => IsLog(files'[p])
      /\ \A p \in Paths : files[p] # Absent => files'[p] = files[p]
  <2>1. CASE UNCHANGED files
    BY <2>1 DEF FilesInv
  <2>2. ASSUME Startable(l, r), r # NoPath, NEW n \in 0 .. 1,
               files' = [files EXCEPT ![r] = SubSeq(Header(HeaderOf(l)), 1, n)]
        PROVE  /\ \A p \in Paths : files'[p] # Absent => IsLog(files'[p])
               /\ \A p \in Paths : files[p] # Absent => files'[p] = files[p]
    <3>1. HeaderOf(l) \in Games /\ r \in Paths /\ files[r] = Absent
      BY <2>2, HeaderThere
    <3>2. PICK hs \in Seq(Cell) : hs = Header(HeaderOf(l)) /\ Len(hs) = 2 /\ hs = Encode(HeaderOf(l), <<>>)
      BY <3>1, EncodeEmpty
    <3>3. IsLog(hs)
      BY <3>1, <3>2, EncodeIsLog, EmptyIs
    <3>4. SubSeq(hs, 1, n) \in Seq(Cell) /\ IsPrefix(SubSeq(hs, 1, n), hs)
      <4>1. /\ SubSeq(hs, 1, n) \in Seq(Cell) /\ Len(SubSeq(hs, 1, n)) = n /\ n <= 2
            /\ \A i \in 1 .. n : SubSeq(hs, 1, n)[i] = hs[i]
        BY <3>2, CutShape
      <4> QED
        BY <3>2, <4>1, PrefixShape
    <3>5. IsLog(SubSeq(hs, 1, n))
      BY <3>3, <3>4, PrefixIsLog
    <3>6. \A p \in Paths : files'[p] = IF p = r THEN SubSeq(hs, 1, n) ELSE files[p]
      BY <2>2, <3>1, <3>2 DEF TypeOK
    <3> QED
      BY <3>1, <3>5, <3>6 DEF FilesInv
  <2> QED
    BY <2>1, <2>2 DEF Refuse
<1>3. load # NoPath => load \in Paths /\ files[load] # Absent
  BY DEF FilesInv, TypeOK
<1>4. load # NoPath => files'[load] = files[load] /\ Len(files[load]) >= 2 /\ game = files[load][1].game
  BY <1>2, <1>3 DEF FilesInv
<1>5. FilesInv'
  BY ONLY <1>1, <1>2, <1>3, <1>4 DEF FilesInv
<1> QED
  BY <1>2, <1>5

\* The files stay logs, and those in use exist.
LEMMA FilesStep ==
  ASSUME TypeOK, FilesInv, HistoryInv, [Next]_vars
  PROVE  FilesInv'
<1> DEFINE NamesKept == UNCHANGED <<load, record, game>>
           Quiet     == /\ pc' = "loading" => pc = "loading"
                        /\ pc' \in {"replaying", "replayed"} => pc \in {"replaying", "replayed"}
                        /\ outcome' \in {"complete", "crashed"} => pc' = "idle"
<1>1. CASE UNCHANGED <<files, load, record, game>> /\ Quiet
  <2>1. \A p \in Paths : p # record => files'[p] = files[p]
    BY <1>1
  <2>2. record # NoPath => files'[record] # Absent /\ IsLog(files'[record])
    BY <1>1, WrittenShape, FileThere
  <2> QED
    BY ONLY <1>1, <2>1, <2>2, TypeOK, FilesInv, FilesKept
<1>2. CASE UNCHANGED vars
  <2>1. UNCHANGED <<files, load, record, game>> /\ Quiet
    BY <1>2 DEF vars, config, FilesInv
  <2> QED
    BY <1>1, <2>1
<1>3. ASSUME NEW l \in Paths \cup {NoPath}, NEW r \in Paths \cup {NoPath},
             StartSession(l, r) \/ Refuse(l, r)
      PROVE  FilesInv'
  BY <1>3, FilesStart, FilesRefuse
<1>4. ASSUME NEW l \in Paths, StartReplay(l) PROVE FilesInv'
  <2>1. files[l] # Absent /\ Len(files[l]) >= 2 /\ HeaderOf(l) = files[l][1].game
    <3>1. l \in Paths \cup {NoPath} /\ NoPath \in Paths \cup {NoPath} /\ l # NoPath /\ Startable(l, NoPath)
      BY <1>4, NamesAssumption DEF StartReplay
    <3> QED
      BY ONLY <3>1, TypeOK, FilesInv, HeaderThere
  <2>2. /\ files' = files /\ load' = l /\ record' = NoPath /\ game' = HeaderOf(l)
        /\ pc' = "replaying" /\ outcome' = "none"
    BY <1>4 DEF StartReplay
  <2>3. l # NoPath
    BY <1>4, NamesAssumption
  <2> QED
    BY ONLY <2>1, <2>2, <2>3, FilesInv DEF FilesInv
<1>5. CASE ReportReplay
  BY <1>1, <1>5 DEF ReportReplay, config
<1>6. CASE CancelSeen
  <2>1. Quiet
    BY <1>6 DEF CancelSeen, Return, FilesInv
  <2> QED
    BY <1>1, <1>6, <2>1 DEF CancelSeen, config
<1>7. CASE ReplayRecord
  <2>1. Quiet
    BY <1>7 DEF ReplayRecord, Return, FilesInv
  <2> QED
    BY <1>1, <1>7, <2>1 DEF ReplayRecord, config
<1>8. CASE GoLive
  <2>1. Quiet
    BY <1>8 DEF GoLive, FilesInv
  <2> QED
    BY <1>1, <1>8, <2>1 DEF GoLive, config
<1>9. CASE SessionFails
  <2>1. Quiet
    BY <1>9 DEF SessionFails, Return
  <2> QED
    BY <1>1, <1>9, <2>1 DEF SessionFails, config
<1>10. ASSUME NEW i \in Inputs, LiveTick(i) PROVE FilesInv'
  <2>1. Quiet
    BY <1>10 DEF LiveTick, Return, FilesInv
  <2> QED
    BY <1>1, <1>10, <2>1 DEF LiveTick, config
<1>11. CASE Writes
  <2>1. /\ NamesKept /\ \A p \in Paths : p # record => files'[p] = files[p]
        /\ record # NoPath => files'[record] # Absent /\ IsLog(files'[record])
    BY <1>11, WriteStep
  <2>2. Quiet
    BY <1>11 DEF Writes, ServeSave, FlushTick, Spill, EndSession, FilesInv
  <2> QED
    BY ONLY <2>1, <2>2, TypeOK, FilesInv, FilesKept
<1>12. CASE WriteFails
  <2>1. Quiet
    BY <1>12 DEF WriteFails, Return
  <2> QED
    BY <1>1, <1>12, <2>1 DEF WriteFails, config
<1>13. CASE Crash
  <2>1. Quiet
    BY <1>13 DEF Crash
  <2> QED
    BY <1>1, <1>13, <2>1 DEF Crash, config
<1>14. CASE RequestCancel
  <2>1. Quiet
    BY <1>14 DEF RequestCancel, FilesInv
  <2> QED
    BY <1>1, <1>14, <2>1 DEF RequestCancel, config
<1>15. CASE OtherRecorder
  <2>1. /\ load \in Paths /\ (\A p \in Paths : p # load => files'[p] = files[p])
        /\ files'[load] # Absent /\ IsLog(files'[load])
        /\ Len(files'[load]) >= 2 /\ files'[load][1] = files[load][1]
    <3>1. Len(files[load]) \in Nat /\ Len(files[load]) >= 2 => 1 \in 1 .. Len(files[load])
      OBVIOUS
    <3> QED
      BY <1>15, <3>1, Extended
  <2>2. UNCHANGED <<load, record, game, pc, outcome>> /\ pc # "idle"
    BY <1>15 DEF OtherRecorder, config
  <2>3. record # NoPath => record \in Paths /\ record # load
    BY DEF TypeOK, FilesInv
  <2>4. \A p \in Paths : files'[p] # Absent => IsLog(files'[p])
    BY <2>1 DEF FilesInv
  <2> QED
    BY <2>1, <2>2, <2>3, <2>4 DEF FilesInv
<1>16. CASE Done
  BY <1>2, <1>16 DEF Done
<1> QED
  BY <1>2, <1>3, <1>4, <1>5, <1>6, <1>7, <1>8, <1>9, <1>10, <1>11, <1>12, <1>13, <1>14, <1>15, <1>16
     DEF Next, Writes

-----------------------------------------------------------------------------
\* The recording is the history

\* Steps that append nothing.
LEMMA HistoryKept ==
  ASSUME TypeOK, FilesInv, HistoryInv, UNCHANGED <<attempted, log, record, game>>,
         pc' \in Underway => pc \in Underway,
         record # NoPath => /\ Written' \in Seq(Cell) /\ IsPrefix(Written', Written)
                            /\ pc' \in Underway => Written' = Written
  PROVE  HistoryInv'
<1>1. attempted \in Seq(Record) /\ game \in Games /\ Encode(game, attempted) \in Seq(Cell)
  <2>1. attempted \in Seq(Record) /\ game \in Games
    BY DEF TypeOK
  <2> QED
    BY <2>1, EncodeShape DEF Spells
<1>2. record # NoPath => IsPrefix(Written', Encode(game, attempted))
  <2> SUFFICES ASSUME record # NoPath PROVE IsPrefix(Written', Encode(game, attempted))
    OBVIOUS
  <2>1. Written \in Seq(Cell) /\ IsPrefix(Written, Encode(game, attempted))
    BY WrittenShape DEF HistoryInv
  <2>2. Written' \in Seq(Cell) /\ IsPrefix(Written', Written)
    OBVIOUS
  <2> QED
    BY ONLY <1>1, <2>1, <2>2, PrefixTransitive
<1>3. record # NoPath /\ pc' \in Underway => Written' = Encode(game, attempted)
  BY DEF HistoryInv
<1>4. /\ attempted' = attempted /\ log' = log /\ record' = record /\ game' = game
      /\ \A i \in DOMAIN attempted : attempted[i].tick = i
      /\ attempted = log \/ \E r \in Record : attempted = Append(log, r)
      /\ pc' \in Underway => attempted = log
  BY DEF HistoryInv
<1>5. Encode(game, attempted)' = Encode(game, attempted)
  BY <1>4
<1> QED
  BY ONLY <1>2, <1>3, <1>4, <1>5 DEF HistoryInv

\* Nothing changes of the recording.
LEMMA WrittenKept ==
  ASSUME TypeOK, FilesInv, record # NoPath, UNCHANGED <<files, record, buffer>>
  PROVE  Written' \in Seq(Cell) /\ IsPrefix(Written', Written) /\ Written' = Written
<1>1. Written' = Written /\ Written \in Seq(Cell)
  BY WrittenShape DEF Written
<1> QED
  BY <1>1, WholeCut

\* An element appended is a sequence of one joined.
LEMMA AppendIsJoin ==
  ASSUME NEW S, NEW s \in Seq(S), NEW e \in S
  PROVE  Append(s, e) = s \o <<e>>
  OBVIOUS

\* Appending to the second of two sequences.
LEMMA AppendAfter ==
  ASSUME NEW s \in Seq(Cell), NEW t \in Seq(Cell), NEW e \in Cell
  PROVE  s \o Append(t, e) = (s \o t) \o <<e>>
<1>1. Append(t, e) = t \o <<e>>
  BY AppendIsJoin
<1>2. << e >> \in Seq(Cell)
  OBVIOUS
<1>3. (s \o t) \o << e >> = s \o (t \o << e >>)
  BY ONLY <1>2, s \in Seq(Cell), t \in Seq(Cell), JoinCells, Zenon
<1> QED
  BY ONLY <1>1, <1>3

\* Steps that append a record: in full, or up to its length when the file refuses it.
LEMMA HistoryGrows ==
  ASSUME TypeOK, FilesInv, HistoryInv, pc \in Underway, NEW r \in Record, r.tick = Len(log) + 1,
         attempted' = Append(attempted, r), UNCHANGED <<files, record, game>>,
         \/ log' = Append(log, r)
         \/ log' = log /\ pc' \notin Underway,
         record # NoPath => \/ buffer' = buffer \o Cells(r)
                            \/ /\ buffer' \in {buffer, Append(buffer, Cells(r)[1])}
                               /\ pc' \notin Underway
  PROVE  HistoryInv'
<1>1. /\ attempted \in Seq(Record) /\ game \in Games /\ attempted = log
      /\ \A i \in DOMAIN attempted : attempted[i].tick = i
  BY DEF TypeOK, HistoryInv
<1>2. \A i \in DOMAIN attempted' : attempted'[i].tick = i
  <2>1. PICK more : more = Append(attempted, r)
    OBVIOUS
  <2>2. \A i \in DOMAIN more : IF i \in DOMAIN attempted THEN more[i] = attempted[i] ELSE i = Len(log) + 1 /\ more[i] = r
    BY ONLY <1>1, <2>1, r \in Record
  <2>3. \A i \in DOMAIN more : more[i].tick = i
    BY <1>1, <2>2
  <2> QED
    BY <2>1, <2>3
<1>3. attempted' = log' \/ (log' = log /\ attempted' = Append(log, r))
  BY <1>1
<1>4. pc' \in Underway => attempted' = log'
  BY <1>1
<1>5. ASSUME record # NoPath
      PROVE  IsPrefix(Written', Encode(game', attempted')) /\ (pc' \in Underway => Written' = Encode(game', attempted'))
  <2>1. /\ files[record] \in Seq(Cell) /\ buffer \in Seq(Cell) /\ Written \in Seq(Cell)
        /\ Written = files[record] \o buffer /\ Written' = files[record] \o buffer'
    BY <1>5, WrittenShape DEF Written
  <2>2. Written = Encode(game, attempted)
    BY <1>5 DEF HistoryInv
  <2>3. PICK cs \in Seq(Cell) : cs = Cells(r) /\ Len(cs) = 2
    BY CellsShape
  <2>4. PICK all \in Seq(Cell) : all = Encode(game', attempted') /\ all = Written \o cs
    <3>1. Encode(game, Append(attempted, r)) = Encode(game, attempted) \o Cells(r)
      BY ONLY <1>1, r \in Record, EncodeAppend
    <3>2. Written \o cs \in Seq(Cell)
      BY <2>1
    <3> QED
      BY <2>2, <2>3, <3>1, <3>2
  <2>5. CASE buffer' = buffer \o cs
    <3>1. Written' = all
      <4>1. (files[record] \o buffer) \o cs = files[record] \o (buffer \o cs)
        <5>1. files[record] \in Seq(Cell) /\ buffer \in Seq(Cell) /\ cs \in Seq(Cell)
          BY <2>1
        <5> QED
          BY ONLY <5>1, JoinCells
      <4> QED
        BY ONLY <2>1, <2>4, <2>5, <4>1
    <3>2. IsPrefix(all, all)
      BY ONLY all \in Seq(Cell), WholeCut
    <3> QED
      BY <2>4, <3>1, <3>2
  <2>6. CASE buffer' = buffer /\ pc' \notin Underway
    <3>1. IsPrefix(Written, Written \o cs)
      <4>1. 0 \in 0 .. Len(cs)
        BY <2>3
      <4> QED
        BY ONLY <2>1, <4>1, cs \in Seq(Cell), PrefixOfJoin, Zenon
    <3> QED
      BY <2>1, <2>4, <2>6, <3>1
  <2>7. CASE buffer' = Append(buffer, cs[1]) /\ pc' \notin Underway
    <3>1. SubSeq(cs, 1, 1) = << cs[1] >> /\ cs[1] \in Cell
      BY <2>3, FirstCell
    <3>2. files[record] \in Seq(Cell) /\ buffer \in Seq(Cell)
      BY <2>1
    <3>3. files[record] \o Append(buffer, cs[1]) = (files[record] \o buffer) \o << cs[1] >>
      BY ONLY <3>1, <3>2, AppendAfter, Zenon
    <3>5. Written' = Written \o SubSeq(cs, 1, 1)
      BY ONLY <2>1, <2>7, <3>1, <3>3
    <3>6. IsPrefix(Written \o SubSeq(cs, 1, 1), Written \o cs)
      <4>1. 1 \in 0 .. Len(cs)
        BY <2>3
      <4> QED
        BY ONLY <2>1, <4>1, cs \in Seq(Cell), PrefixOfJoin, Zenon
    <3> QED
      BY <2>4, <2>7, <3>5, <3>6
  <2> QED
    BY <1>5, <2>3, <2>5, <2>6, <2>7
<1>6. record' = record
  OBVIOUS
<1> QED
  BY ONLY <1>2, <1>3, <1>4, <1>5, <1>6, r \in Record DEF HistoryInv

\* A session begins with the header, and with nothing appended.
LEMMA HistoryStart ==
  ASSUME TypeOK, FilesInv, NEW l \in Paths \cup {NoPath}, NEW r \in Paths \cup {NoPath}, StartSession(l, r)
  PROVE  HistoryInv'
<1>1. game' = HeaderOf(l) /\ record' = r /\ attempted' = <<>> /\ log' = <<>> /\ Startable(l, r)
  BY DEF StartSession
<1>2. game' \in Games
  BY <1>1, HeaderThere
<1>3. r # NoPath => Written' = Encode(game', attempted')
  <2> SUFFICES ASSUME r # NoPath PROVE Written' = Encode(game', attempted')
    OBVIOUS
  <2>1. files' = [files EXCEPT ![r] = <<>>] /\ buffer' = Header(game') /\ r \in Paths
    BY NamesAssumption DEF StartSession
  <2>2. files'[r] = <<>>
    BY <2>1 DEF TypeOK
  <2>3. <<>> \o Header(game') = Header(game') /\ Encode(game', <<>>) = Header(game')
    BY <1>2, EncodeEmpty, JoinEmpty
  <2> QED
    BY <1>1, <2>1, <2>2, <2>3 DEF Written
<1>4. Encode(game', attempted') \in Seq(Cell)
  <2>1. <<>> \in Seq(Record)
    BY EmptyIs
  <2> QED
    BY <1>1, <1>2, <2>1, EncodeShape DEF Spells
<1>5. r # NoPath => IsPrefix(Written', Encode(game', attempted'))
  BY <1>3, <1>4, WholeCut
<1>6. DOMAIN <<>> = {}
  OBVIOUS
<1> QED
  BY ONLY <1>1, <1>3, <1>5, <1>6 DEF HistoryInv

\* The recording stays what the session went through.
LEMMA HistoryStep ==
  ASSUME TypeOK, FilesInv, HistoryInv, ReadInv, [Next]_vars
  PROVE  HistoryInv'
<1>1. CASE /\ UNCHANGED <<files, record, game, buffer, log, attempted>>
           /\ pc' \in Underway => pc \in Underway
  <2>1. record # NoPath => /\ Written' \in Seq(Cell) /\ IsPrefix(Written', Written)
                           /\ pc' \in Underway => Written' = Written
    BY <1>1, WrittenKept
  <2> QED
    BY ONLY <1>1, <2>1, TypeOK, FilesInv, HistoryInv, HistoryKept
<1>2. CASE UNCHANGED vars
  BY <1>1, <1>2 DEF vars, config
<1>3. ASSUME NEW l \in Paths \cup {NoPath}, NEW r \in Paths \cup {NoPath}, StartSession(l, r)
      PROVE  HistoryInv'
  BY <1>3, HistoryStart
<1>4. ASSUME NEW l \in Paths \cup {NoPath}, NEW r \in Paths \cup {NoPath}, Refuse(l, r)
      PROVE  HistoryInv'
  <2>1. record' = NoPath /\ pc' = "idle" /\ UNCHANGED <<attempted, log>>
    BY <1>4 DEF Refuse
  <2> QED
    BY <2>1 DEF HistoryInv, Underway
<1>5. ASSUME NEW l \in Paths, StartReplay(l) PROVE HistoryInv'
  <2>1. record' = NoPath /\ attempted' = <<>> /\ log' = <<>>
    BY <1>5 DEF StartReplay
  <2>2. DOMAIN <<>> = {}
    OBVIOUS
  <2> QED
    BY ONLY <2>1, <2>2 DEF HistoryInv
<1>6. CASE ReportReplay
  BY <1>1, <1>6 DEF ReportReplay, config, Underway
<1>7. CASE CancelSeen
  BY <1>1, <1>7 DEF CancelSeen, Return, config, Underway
<1>8. CASE GoLive
  BY <1>1, <1>8 DEF GoLive, config, Underway
<1>9. CASE SessionFails
  BY <1>1, <1>9 DEF SessionFails, Return, config, Underway
<1>10. CASE RequestCancel
  BY <1>1, <1>10 DEF RequestCancel, config
<1>11. CASE Done
  BY <1>2, <1>11 DEF Done
<1>12. CASE ReplayRecord
  <2>1. pc \in {"loading", "replaying"} /\ pc \in Underway /\ UNCHANGED <<files, record, game>>
    BY <1>12 DEF ReplayRecord, config, Underway
  <2>2. CASE AtEnd
    BY <1>1, <1>12, <2>1, <2>2 DEF ReplayRecord
  <2>3. CASE ~AtEnd /\ pos + 2 > Len(files[load])
    BY <1>1, <1>12, <2>1, <2>3 DEF ReplayRecord
  <2>4. CASE ~AtEnd /\ ~(pos + 2 > Len(files[load]))
    <3>1. PICK r : r = RecordAt(files[load], pos + 1)
      OBVIOUS
    <3>2. pos + 2 <= Len(files[load])
      <4>1. load # NoPath
        BY <2>1 DEF FilesInv
      <4>2. pos \in Nat /\ Len(files[load]) \in Nat
        BY <2>1, <4>1, ReaderPlace DEF TypeOK
      <4> QED
        BY <2>4, <4>2
    <3>3. r \in Record
      BY <2>1, <3>1, <3>2, NextRead
    <3>4. \/ UNCHANGED <<buffer, attempted, log>>
          \/ /\ r.tick = Len(log) + 1 /\ AppendRecord(r)
             /\ \/ log' = Append(log, r)
                \/ Return("simulation") /\ log' = log
      BY <1>12, <2>4, <3>1 DEF ReplayRecord, Rejected
    <3>5. CASE UNCHANGED <<buffer, attempted, log>>
      BY <1>1, <2>1, <3>5
    <3>6. CASE /\ r.tick = Len(log) + 1 /\ AppendRecord(r)
               /\ \/ log' = Append(log, r)
                  \/ Return("simulation") /\ log' = log
      <4>1. /\ attempted' = Append(attempted, r) /\ r.tick = Len(log) + 1
            /\ record # NoPath => buffer' = buffer \o Cells(r)
            /\ log' = Append(log, r) \/ (log' = log /\ pc' \notin Underway)
        BY <3>6 DEF AppendRecord, Return, Underway
      <4> QED
        BY ONLY <2>1, <3>3, <4>1, TypeOK, FilesInv, HistoryInv, HistoryGrows
    <3> QED
      BY <3>4, <3>5, <3>6
  <2> QED
    BY <2>2, <2>3, <2>4
<1>13. ASSUME NEW i \in Inputs, LiveTick(i) PROVE HistoryInv'
  <2>1. PICK r \in Record : r = [tick |-> Len(log) + 1, inputs |-> i]
    <3>1. [tick |-> Len(log) + 1, inputs |-> i] \in Record
      BY DEF Record, TypeOK
    <3> QED
      BY <3>1
  <2>2. /\ AppendRecord(r) /\ pc = "live"
        /\ log' = Append(log, r) \/ (Return("simulation") /\ log' = log)
        /\ UNCHANGED <<files, record, game>>
    BY <1>13, <2>1 DEF LiveTick, config
  <2>3. /\ attempted' = Append(attempted, r) /\ pc \in Underway /\ r.tick = Len(log) + 1
        /\ record # NoPath => buffer' = buffer \o Cells(r)
        /\ log' = Append(log, r) \/ (log' = log /\ pc' \notin Underway)
    BY <2>1, <2>2 DEF AppendRecord, Return, Underway
  <2> QED
    BY ONLY <2>2, <2>3, r \in Record, TypeOK, FilesInv, HistoryInv, HistoryGrows
<1>14. CASE Writes
  <2>1. /\ UNCHANGED <<attempted, log, record, game>>
        /\ record # NoPath => /\ Written' \in Seq(Cell) /\ IsPrefix(Written', Written)
                              /\ ServeSave \/ FlushTick \/ Spill => Written' = Written
    BY <1>14, WriteStep
  <2>2. /\ pc' \in Underway => pc \in Underway
        /\ pc' \in Underway => ServeSave \/ FlushTick \/ Spill
    BY <1>14 DEF Writes, ServeSave, FlushTick, Spill, EndSession, Underway
  <2>3. record # NoPath => /\ Written' \in Seq(Cell) /\ IsPrefix(Written', Written)
                           /\ pc' \in Underway => Written' = Written
    BY <2>1, <2>2
  <2> QED
    BY ONLY <2>1, <2>2, <2>3, TypeOK, FilesInv, HistoryInv, HistoryKept
<1>15. CASE WriteFails
  <2>1. pc' \notin Underway /\ pc \in Underway /\ UNCHANGED <<files, record, game, log>>
    BY <1>15 DEF WriteFails, Return, Underway, config
  <2>2. CASE UNCHANGED <<buffer, attempted>>
    BY <1>1, <2>1, <2>2
  <2>3. ASSUME NEW r \in Record, r.tick = Len(log) + 1, attempted' = Append(attempted, r),
               buffer' \in {buffer, Append(buffer, Cells(r)[1])}
        PROVE  HistoryInv'
    <3>1. pc \in Underway /\ UNCHANGED <<files, record, game>> /\ log' = log /\ pc' \notin Underway
      BY <2>1
    <3> QED
      BY ONLY <2>3, <3>1, TypeOK, FilesInv, HistoryInv, HistoryGrows
  <2>4. ASSUME NEW i \in Inputs, attempted' = Append(attempted, [tick |-> Len(log) + 1, inputs |-> i]),
               buffer' \in {buffer, Append(buffer, Cells([tick |-> Len(log) + 1, inputs |-> i])[1])}
        PROVE  HistoryInv'
    <3>1. [tick |-> Len(log) + 1, inputs |-> i] \in Record
      BY DEF TypeOK, Record
    <3> QED
      BY <2>3, <2>4, <3>1
  <2>5. ASSUME pc = "loading", pos + 2 <= Len(files[load]), RecordAt(files[load], pos + 1).tick = Len(log) + 1,
               attempted' = Append(attempted, RecordAt(files[load], pos + 1)),
               buffer' \in {buffer, Append(buffer, Cells(RecordAt(files[load], pos + 1))[1])}
        PROVE  HistoryInv'
    <3>1. RecordAt(files[load], pos + 1) \in Record
      BY <2>5, NextRead
    <3> QED
      BY <2>3, <2>5, <3>1
  <2> QED
    BY <1>15, <2>2, <2>4, <2>5 DEF WriteFails
<1>16. CASE Crash
  <2>1. UNCHANGED <<attempted, log, record, game, files>> /\ buffer' = <<>> /\ pc' \notin Underway
    BY <1>16 DEF Crash, config, Underway
  <2>2. record # NoPath => Written' \in Seq(Cell) /\ IsPrefix(Written', Written)
    <3> SUFFICES ASSUME record # NoPath PROVE Written' \in Seq(Cell) /\ IsPrefix(Written', Written)
      OBVIOUS
    <3>1. PICK f \in Seq(Cell), b \in Seq(Cell) : f = files[record] /\ b = buffer
      BY WrittenShape
    <3>2. Written = f \o b /\ Written' = f \o <<>>
      BY <2>1, <3>1 DEF Written
    <3>3. f \o <<>> = f
      BY JoinEmpty
    <3>4. IsPrefix(f, f \o b)
      <4>1. 0 \in 0 .. Len(b)
        OBVIOUS
      <4> QED
        BY ONLY <4>1, f \in Seq(Cell), b \in Seq(Cell), PrefixOfJoin, Zenon
    <3> QED
      BY <3>2, <3>3, <3>4
  <2> QED
    BY ONLY <2>1, <2>2, TypeOK, FilesInv, HistoryInv, HistoryKept
<1>17. CASE OtherRecorder
  <2>1. UNCHANGED <<attempted, log, record, game, buffer, pc>>
    BY <1>17 DEF OtherRecorder, config
  <2>2. record # NoPath => files'[record] = files[record]
    BY <1>17, WrittenShape, Extended DEF FilesInv
  <2>3. record # NoPath => Written' = Written /\ Written \in Seq(Cell)
    BY <2>1, <2>2, WrittenShape DEF Written
  <2>4. record # NoPath => IsPrefix(Written', Written) /\ Written' \in Seq(Cell)
    BY <2>3, WholeCut
  <2> QED
    BY ONLY <2>1, <2>3, <2>4, TypeOK, FilesInv, HistoryInv, HistoryKept
<1> QED
  BY <1>2, <1>3, <1>4, <1>5, <1>6, <1>7, <1>8, <1>9, <1>10, <1>11, <1>12, <1>13, <1>14, <1>15, <1>16, <1>17
     DEF Next, Writes

-----------------------------------------------------------------------------
\* Nothing is taken for the whole

\* Read to its end, the file is the encoding of what was loaded.
LEMMA WholeRead ==
  ASSUME TypeOK, FilesInv, ReadInv, pc \in Underway, load # NoPath, pos = Len(files[load])
  PROVE  /\ files[load] = Encode(game, SubSeq(log, 1, base))
         /\ base = Len(log) => files[load] = Encode(game, log)
<1>1. /\ files[load] \in Seq(Cell) /\ SubSeq(files[load], 1, pos) = Encode(game, SubSeq(log, 1, base))
  BY ReaderPlace
<1>2. SubSeq(files[load], 1, Len(files[load])) = files[load]
  BY ONLY <1>1, WholeCut
<1>3. log \in Seq(Record)
  BY DEF TypeOK
<1>4. SubSeq(log, 1, Len(log)) = log
  BY ONLY <1>3, WholeCut
<1> QED
  BY <1>1, <1>2, <1>4

\* Steps that read nothing.
LEMMA ReadKept ==
  ASSUME TypeOK, FilesInv, ReadInv, UNCHANGED <<load, game, pos, base, grown>>,
         load # NoPath => files'[load] = files[load],
         pc' \in Underway => pc \in Underway /\ (log' = log \/ \E r \in Record : log' = Append(log, r)),
         pc' \in Underway \ {"live", "flush"} => pc \in Underway \ {"live", "flush"} /\ log' = log,
         pc' \in {"loaded", "waiting", "live", "flush"} =>
           pc \in {"loaded", "waiting", "live", "flush"} \/ pos = Len(files[load]) \/ load = NoPath,
         pc' = "replayed" => cancelled' \/ (pc = "replayed" /\ ~cancelled) \/ pos = Len(files[load]),
         outcome' = "complete" => log' = log /\ outcome = "complete" /\ pc = "idle"
  PROVE  ReadInv'
<1>1. ASSUME pc' \in Underway
      PROVE  /\ base <= Len(log')
             /\ load # NoPath => pos <= Len(files'[load])
             /\ load # NoPath => SubSeq(files'[load], 1, pos) = Encode(game, SubSeq(log', 1, base))
             /\ pc' \notin {"live", "flush"} => base = Len(log')
             /\ load = NoPath => base = 0
  <2>1. pc \in Underway /\ base \in Nat /\ log \in Seq(Record) /\ base <= Len(log)
    BY <1>1 DEF ReadInv, TypeOK
  <2>2. base <= Len(log') /\ SubSeq(log', 1, base) = SubSeq(log, 1, base)
    <3>1. ASSUME NEW r \in Record, log' = Append(log, r)
          PROVE  base <= Len(log') /\ SubSeq(log', 1, base) = SubSeq(log, 1, base)
      <4>1. base \in 0 .. Len(log)
        BY <2>1
      <4>2. SubSeq(Append(log, r), 1, base) = SubSeq(log, 1, base)
        BY ONLY <2>1, <3>1, <4>1, CutOfAppend
      <4>3. Len(log') = Len(log) + 1 /\ Len(log) \in Nat
        BY <2>1, <3>1
      <4> QED
        BY ONLY <2>1, <3>1, <4>2, <4>3
    <3> QED
      BY <1>1, <2>1, <3>1
  <2>3. load # NoPath => /\ pos <= Len(files[load])
                         /\ SubSeq(files[load], 1, pos) = Encode(game, SubSeq(log, 1, base))
    BY <2>1, ReaderPlace
  <2>4. pc' \notin {"live", "flush"} => base = Len(log')
    <3> SUFFICES ASSUME pc' \notin {"live", "flush"} PROVE base = Len(log')
      OBVIOUS
    <3>1. pc \in Underway /\ pc \notin {"live", "flush"} /\ log' = log
      BY <1>1
    <3> QED
      BY <3>1 DEF ReadInv
  <2>5. load = NoPath => base = 0
    BY <2>1 DEF ReadInv
  <2> QED
    BY <2>2, <2>3, <2>4, <2>5
<1>2. ASSUME pc' \in Underway, load # NoPath, ~grown
      PROVE  /\ pc' \in {"loaded", "waiting", "live", "flush"} => pos = Len(files'[load])
             /\ pc' = "replayed" => cancelled' \/ pos = Len(files'[load])
  <2>1. pc \in Underway /\ files'[load] = files[load]
    BY <1>2
  <2>2. pc \in {"loaded", "waiting", "live", "flush"} => pos = Len(files[load])
    BY <1>2, <2>1 DEF ReadInv
  <2>3. pc = "replayed" => cancelled \/ pos = Len(files[load])
    BY <1>2, <2>1 DEF ReadInv
  <2> QED
    BY <1>2, <2>1, <2>2, <2>3
<1>3. CompleteIsComplete'
  <2> SUFFICES ASSUME pc' = "idle", outcome' = "complete", ~grown'
               PROVE  (Encode(game, log) = files[load])'
    BY DEF CompleteIsComplete
  <2>1. log' = log /\ outcome = "complete" /\ pc = "idle" /\ ~grown
    OBVIOUS
  <2>2. Encode(game, log) = files[load]
    BY <2>1 DEF ReadInv, CompleteIsComplete
  <2>3. load # NoPath
    BY <2>1 DEF ReadInv
  <2> QED
    BY <2>1, <2>2, <2>3
<1>4. load' = load /\ game' = game /\ pos' = pos /\ base' = base /\ grown' = grown
  OBVIOUS
<1>5. outcome' = "complete" => load' # NoPath
  BY DEF ReadInv
<1> QED
  BY ONLY <1>1, <1>2, <1>3, <1>4, <1>5 DEF ReadInv

\* A session or a replay begins with the header read.
LEMMA ReadStart ==
  ASSUME TypeOK, FilesInv, NEW l \in Paths \cup {NoPath}, NEW r \in Paths \cup {NoPath}, StartSession(l, r)
  PROVE  ReadInv'
<1>1. /\ load' = l /\ game' = HeaderOf(l) /\ log' = <<>> /\ base' = 0 /\ Startable(l, r)
      /\ pos' = IF l = NoPath THEN 0 ELSE 2
      /\ pc' = IF l = NoPath THEN "loaded" ELSE "loading"
      /\ outcome' = "none"
  BY DEF StartSession
<1>2. l # NoPath => /\ l # r /\ files[l] \in Seq(Cell) /\ Len(files[l]) >= 2
                    /\ SubSeq(files[l], 1, 2) = Encode(HeaderOf(l), <<>>)
  BY <1>1, HeaderThere, HeaderRead
<1>3. l # NoPath => files'[l] = files[l]
  BY <1>2 DEF StartSession, TypeOK
<1>4. SubSeq(<<>>, 1, 0) = <<>> /\ Len(<<>>) = 0
  <2>1. <<>> \in Seq(Record) /\ Len(<<>>) = 0
    BY EmptyIs
  <2> QED
    BY <2>1, WholeCut
<1>5. /\ base' <= Len(log')
      /\ load' # NoPath => /\ pos' <= Len(files'[load'])
                           /\ SubSeq(files'[load'], 1, pos') = Encode(game', SubSeq(log', 1, base'))
      /\ base' = Len(log')
      /\ load' = NoPath => base' = 0
  <2>1. base' <= Len(log') /\ base' = Len(log') /\ base' = 0
    BY ONLY <1>1, <1>4
  <2>2. SubSeq(log', 1, base') = <<>>
    BY ONLY <1>1, <1>4
  <2>3. load' # NoPath => /\ pos' = 2 /\ files'[load'] = files[l] /\ Len(files[l]) >= 2
                          /\ SubSeq(files[l], 1, 2) = Encode(game', <<>>)
    BY ONLY <1>1, <1>2, <1>3
  <2> QED
    BY ONLY <2>1, <2>2, <2>3
<1>6. pc' \in {"loaded", "waiting", "live", "flush"} /\ load' # NoPath => FALSE
  BY <1>1
<1>7. pc' # "replayed" /\ pc' # "idle" /\ outcome' # "complete"
  BY <1>1
<1> QED
  BY ONLY <1>5, <1>6, <1>7 DEF ReadInv, CompleteIsComplete

\* The reader starts behind the header of the file.
LEMMA ReadReplay ==
  ASSUME TypeOK, FilesInv, NEW l \in Paths, StartReplay(l)
  PROVE  ReadInv'
<1>1. /\ load' = l /\ game' = HeaderOf(l) /\ log' = <<>> /\ base' = 0 /\ Startable(l, NoPath)
      /\ pos' = 2 /\ pc' = "replaying" /\ outcome' = "none" /\ files' = files
  BY DEF StartReplay
<1>2. /\ l # NoPath /\ files[l] \in Seq(Cell) /\ Len(files[l]) >= 2
      /\ SubSeq(files[l], 1, 2) = Encode(HeaderOf(l), <<>>)
  <2>1. l \in Paths \cup {NoPath} /\ NoPath \in Paths \cup {NoPath} /\ l # NoPath
    BY NamesAssumption
  <2> QED
    BY <1>1, <2>1, HeaderThere, HeaderRead
<1>4. SubSeq(<<>>, 1, 0) = <<>> /\ Len(<<>>) = 0
  <2>1. <<>> \in Seq(Record) /\ Len(<<>>) = 0
    BY EmptyIs
  <2> QED
    BY <2>1, WholeCut
<1>5. /\ base' <= Len(log') /\ load' # NoPath
      /\ pos' <= Len(files'[load'])
      /\ SubSeq(files'[load'], 1, pos') = Encode(game', SubSeq(log', 1, base'))
      /\ base' = Len(log')
  <2>1. base' <= Len(log') /\ base' = Len(log')
    BY ONLY <1>1, <1>4
  <2>2. SubSeq(log', 1, base') = <<>>
    BY ONLY <1>1, <1>4
  <2>3. /\ load' # NoPath /\ pos' = 2 /\ files'[load'] = files[l] /\ Len(files[l]) >= 2
        /\ SubSeq(files[l], 1, 2) = Encode(game', <<>>)
    BY ONLY <1>1, <1>2
  <2> QED
    BY ONLY <2>1, <2>2, <2>3
<1> QED
  BY ONLY <1>1, <1>5 DEF ReadInv, CompleteIsComplete

\* A record is read.
LEMMA ReadNext ==
  ASSUME TypeOK, FilesInv, HistoryInv, ReadInv, ReplayRecord
  PROVE  ReadInv'
<1>1. /\ pc \in {"loading", "replaying"} /\ pc \in Underway /\ load # NoPath
      /\ UNCHANGED <<files, load, game, grown, cancelled>>
  BY DEF ReplayRecord, config, Underway, FilesInv
<1>2. CASE AtEnd
  <2>1. /\ UNCHANGED <<pos, base, log, outcome>>
        /\ pc' = IF pc = "loading" THEN "loaded" ELSE "replayed"
    BY <1>2 DEF ReplayRecord
  <2>2. pos = Len(files[load])
    BY <1>2 DEF AtEnd
  <2>3. outcome # "complete"
    BY <1>1 DEF FilesInv
  <2>4. pc \in Underway \ {"live", "flush"}
    BY <1>1
  <2> QED
    BY ONLY <1>1, <2>1, <2>2, <2>3, <2>4, TypeOK, FilesInv, ReadInv, ReadKept
<1>3. CASE pc' = "ending" /\ outcome' # "complete"
  BY ONLY <1>3 DEF ReadInv, CompleteIsComplete, Underway
<1>4. CASE ~AtEnd /\ pos + 2 > Len(files[load])
  BY <1>3, <1>4 DEF ReplayRecord, Return
<1>5. CASE ~AtEnd /\ ~(pos + 2 > Len(files[load])) /\ pc' # "ending"
  <2>1. PICK r : r = RecordAt(files[load], pos + 1)
    OBVIOUS
  <2>2. /\ pos' = pos + 2 /\ log' = Append(log, r) /\ base' = base + 1 /\ UNCHANGED <<pc, outcome>>
    BY <1>5, <2>1 DEF ReplayRecord, Return
  <2>3. pos \in Nat /\ Len(files[load]) \in Nat /\ base \in Nat /\ log \in Seq(Record) /\ game \in Games
    BY <1>1, ReaderPlace DEF TypeOK
  <2>4. pos + 2 <= Len(files[load])
    BY <1>5, <2>3
  <2>5. r \in Record /\ SubSeq(files[load], 1, pos + 2) = Encode(game, SubSeq(log, 1, base)) \o Cells(r)
    BY <1>1, <2>1, <2>4, NextRead
  <2>6. base = Len(log)
    BY <1>1 DEF ReadInv
  <2>7. SubSeq(log, 1, Len(log)) = log
    BY ONLY <2>3, WholeCut
  <2>8. SubSeq(files[load], 1, pos + 2) = Encode(game, Append(log, r))
    <3>1. Encode(game, Append(log, r)) = Encode(game, log) \o Cells(r)
      BY ONLY <2>3, <2>5, EncodeAppend
    <3> QED
      BY ONLY <2>5, <2>6, <2>7, <3>1
  <2>9. /\ Append(log, r) \in Seq(Record) /\ Len(Append(log, r)) = base + 1
    BY ONLY <2>3, <2>5, <2>6
  <2>10. SubSeq(Append(log, r), 1, base + 1) = Append(log, r)
    <3>1. SubSeq(Append(log, r), 1, Len(Append(log, r))) = Append(log, r)
      BY ONLY <2>9, WholeCut
    <3> QED
      BY ONLY <2>9, <3>1
  <2>11. /\ base' <= Len(log') /\ pos' <= Len(files'[load']) /\ base' = Len(log') /\ load' # NoPath
         /\ SubSeq(files'[load'], 1, pos') = Encode(game', SubSeq(log', 1, base'))
    <3>1. base' = Len(log') /\ base' <= Len(log')
      BY ONLY <2>2, <2>3, <2>9
    <3>2. SubSeq(log', 1, base') = Append(log, r)
      BY ONLY <2>2, <2>10
    <3>3. files'[load'] = files[load] /\ game' = game /\ load' # NoPath
      BY ONLY <1>1
    <3> QED
      BY ONLY <2>2, <2>4, <2>8, <3>1, <3>2, <3>3
  <2>12. pc' \in {"loading", "replaying"}
    BY <1>1, <2>2
  <2> QED
    <3>1. outcome' # "complete"
      BY <1>1, <2>2 DEF FilesInv
    <3> QED
      BY ONLY <2>11, <2>12, <3>1 DEF ReadInv, CompleteIsComplete
<1>6. CASE ~AtEnd /\ ~(pos + 2 > Len(files[load])) /\ pc' = "ending"
  <2>1. outcome' # "complete"
    BY <1>1, <1>6 DEF ReplayRecord, Return, FilesInv
  <2> QED
    BY <1>3, <1>6, <2>1
<1> QED
  BY <1>2, <1>4, <1>5, <1>6

\* The replay is reported complete at the end of the file only.
LEMMA ReadReport ==
  ASSUME TypeOK, FilesInv, ReadInv, ReportReplay
  PROVE  ReadInv'
<1>1. /\ pc = "replayed" /\ pc' = "idle" /\ pc \in Underway /\ load # NoPath
      /\ UNCHANGED <<files, load, game, log, grown>>
      /\ outcome' = "complete" => ~cancelled
  BY DEF ReportReplay, ReplayVerdict, config, reader, Underway, FilesInv
<1>2. ASSUME outcome' = "complete", ~grown PROVE Encode(game, log) = files[load]
  <2>1. pos = Len(files[load]) /\ base = Len(log)
    BY <1>1, <1>2 DEF ReadInv
  <2> QED
    BY <1>1, <2>1, WholeRead
<1> QED
  BY ONLY <1>1, <1>2 DEF ReadInv, CompleteIsComplete, Underway

\* The file grows under the reader: what it has read of it stays.
LEMMA ReadOther ==
  ASSUME TypeOK, FilesInv, ReadInv, OtherRecorder
  PROVE  ReadInv'
<1>1. /\ pc # "idle" /\ load # NoPath /\ grown' = TRUE
      /\ UNCHANGED <<pc, load, game, pos, base, log, outcome, cancelled>>
  BY DEF OtherRecorder, config
<1>2. PICK cell \in Cell : files'[load] = Append(files[load], cell) /\ files[load] \in Seq(Cell)
  BY Extended
<1>3. ASSUME pc \in Underway
      PROVE  /\ pos <= Len(files'[load])
             /\ SubSeq(files'[load], 1, pos) = Encode(game, SubSeq(log, 1, base))
  <2>1. /\ pos \in Nat /\ pos <= Len(files[load])
        /\ SubSeq(files[load], 1, pos) = Encode(game, SubSeq(log, 1, base))
    BY <1>1, <1>3, ReaderPlace DEF TypeOK
  <2>2. pos \in 0 .. Len(files[load]) /\ Len(files'[load]) = Len(files[load]) + 1 /\ Len(files[load]) \in Nat
    BY <1>2, <2>1
  <2>3. SubSeq(Append(files[load], cell), 1, pos) = SubSeq(files[load], 1, pos)
    BY ONLY <1>2, <2>2, cell \in Cell, CutOfAppend
  <2> QED
    BY <1>2, <2>1, <2>2, <2>3
<1>4. pc \in Underway => /\ base <= Len(log) /\ (pc \notin {"live", "flush"} => base = Len(log))
  BY DEF ReadInv
<1> QED
  BY ONLY <1>1, <1>3, <1>4 DEF ReadInv, CompleteIsComplete

\* The reader has handed over the records before its position.
LEMMA ReadStep ==
  ASSUME TypeOK, FilesInv, HistoryInv, ReadInv, [Next]_vars
  PROVE  ReadInv'
<1> DEFINE Reads ==
      /\ pc' \in Underway => pc \in Underway /\ (log' = log \/ \E r \in Record : log' = Append(log, r))
      /\ pc' \in Underway \ {"live", "flush"} => pc \in Underway \ {"live", "flush"} /\ log' = log
      /\ pc' \in {"loaded", "waiting", "live", "flush"} =>
           pc \in {"loaded", "waiting", "live", "flush"} \/ pos = Len(files[load]) \/ load = NoPath
      /\ pc' = "replayed" => cancelled' \/ (pc = "replayed" /\ ~cancelled) \/ pos = Len(files[load])
      /\ outcome' = "complete" => log' = log /\ outcome = "complete" /\ pc = "idle"
<1>1. CASE UNCHANGED <<files, load, game, pos, base, grown>> /\ Reads
  <2>1. load # NoPath => files'[load] = files[load]
    BY <1>1
  <2> QED
    BY ONLY <1>1, <2>1, TypeOK, FilesInv, ReadInv, ReadKept
<1>2. CASE UNCHANGED vars
  <2>1. /\ UNCHANGED <<files, load, game, pos, base, grown, pc, log, outcome, cancelled>>
    BY <1>2 DEF vars, config, reader
  <2>2. Reads
    BY <2>1 DEF FilesInv
  <2> QED
    BY <1>1, <2>1, <2>2
<1>3. ASSUME NEW l \in Paths \cup {NoPath}, NEW r \in Paths \cup {NoPath}, StartSession(l, r)
      PROVE  ReadInv'
  BY <1>3, ReadStart
<1>4. ASSUME NEW l \in Paths \cup {NoPath}, NEW r \in Paths \cup {NoPath}, Refuse(l, r)
      PROVE  ReadInv'
  <2>1. pc' = "idle" /\ outcome' = "refused" /\ UNCHANGED <<load, game, pos, base, grown>>
    BY <1>4 DEF Refuse, reader
  <2> QED
    BY ONLY <2>1 DEF ReadInv, CompleteIsComplete, Underway
<1>5. ASSUME NEW l \in Paths, StartReplay(l) PROVE ReadInv'
  BY <1>5, ReadReplay
<1>6. CASE ReportReplay
  BY <1>6, ReadReport
<1>7. CASE CancelSeen
  <2>1. /\ UNCHANGED <<files, load, game, pos, base, grown, log, cancelled>> /\ cancelled
        /\ \/ pc' = "ending" /\ outcome' = "cancelled"
           \/ pc = "replaying" /\ pc' = "replayed" /\ outcome' = outcome
    BY <1>7 DEF CancelSeen, config, reader, Return
  <2>2. Reads
    BY <2>1 DEF Underway, FilesInv
  <2> QED
    BY <1>1, <2>1, <2>2
<1>8. CASE GoLive
  <2>1. /\ UNCHANGED <<files, load, game, pos, base, grown, log, outcome>> /\ pc = "waiting" /\ pc' = "live"
    BY <1>8 DEF GoLive, config, reader
  <2>2. Reads
    BY <2>1 DEF Underway, FilesInv
  <2> QED
    BY <1>1, <2>1, <2>2
<1>9. CASE SessionFails
  <2>1. /\ UNCHANGED <<files, load, game, pos, base, grown>> /\ pc' = "ending" /\ outcome' = "failed"
    BY <1>9 DEF SessionFails, config, reader, Return
  <2>2. Reads
    BY <2>1 DEF Underway
  <2> QED
    BY <1>1, <2>1, <2>2
<1>10. CASE RequestCancel
  <2>1. /\ UNCHANGED <<files, load, game, pos, base, grown, pc, log, outcome>> /\ pc # "idle" /\ cancelled' = TRUE
    BY <1>10 DEF RequestCancel, config, reader
  <2>2. Reads
    BY <2>1 DEF FilesInv
  <2> QED
    BY <1>1, <2>1, <2>2
<1>11. CASE Done
  BY <1>2, <1>11 DEF Done
<1>12. CASE ReplayRecord
  BY <1>12, ReadNext
<1>13. ASSUME NEW i \in Inputs, LiveTick(i) PROVE ReadInv'
  <2>1. [tick |-> Len(log) + 1, inputs |-> i] \in Record
    BY DEF Record, TypeOK
  <2>2. /\ UNCHANGED <<files, load, game, pos, base, grown>> /\ pc = "live"
        /\ \/ pc' \in {"live", "flush"} /\ outcome' = outcome
           \/ pc' = "ending" /\ outcome' = "simulation"
        /\ log' = log \/ \E r \in Record : log' = Append(log, r)
    BY <1>13, <2>1 DEF LiveTick, config, reader, Return
  <2>3. Reads
    BY <2>2 DEF Underway, FilesInv
  <2> QED
    BY <1>1, <2>2, <2>3
<1>14. CASE Writes
  <2>1. /\ UNCHANGED <<load, game, pos, base, grown, log, cancelled>>
        /\ \A p \in Paths : p # record => files'[p] = files[p]
    BY <1>14, WriteStep
  <2>2. load # NoPath => files'[load] = files[load]
    BY <2>1 DEF TypeOK, FilesInv
  <2>3. /\ \/ pc = "loaded" /\ pc' = "waiting"
           \/ pc = "flush" /\ pc' = "live"
           \/ pc' = pc /\ pc # "idle"
           \/ pc' = "idle" /\ pc # "idle"
        /\ outcome' \in {outcome, "io"}
    BY <1>14 DEF Writes, ServeSave, FlushTick, Spill, EndSession
  <2>4. outcome = "complete" => pc = "idle"
    BY DEF FilesInv
  <2>5. pc = "replayed" => cancelled' \/ (pc = "replayed" /\ ~cancelled)
    BY <2>1
  <2>6. Reads
    BY ONLY <2>1, <2>3, <2>4, <2>5 DEF Underway
  <2> QED
    BY ONLY <2>1, <2>2, <2>6, TypeOK, FilesInv, ReadInv, ReadKept
<1>15. CASE WriteFails
  <2>1. /\ UNCHANGED <<files, load, game, pos, base, grown>> /\ pc' = "ending" /\ outcome' = "io"
    BY <1>15 DEF WriteFails, config, reader, Return
  <2>2. Reads
    BY <2>1 DEF Underway
  <2> QED
    BY <1>1, <2>1, <2>2
<1>16. CASE Crash
  <2>1. /\ UNCHANGED <<files, load, game, pos, base, grown>> /\ pc' = "idle" /\ outcome' = "crashed"
    BY <1>16 DEF Crash, config, reader
  <2>2. Reads
    BY <2>1 DEF Underway
  <2> QED
    BY <1>1, <2>1, <2>2
<1>17. CASE OtherRecorder
  BY <1>17, ReadOther
<1> QED
  BY <1>2, <1>3, <1>4, <1>5, <1>6, <1>7, <1>8, <1>9, <1>10, <1>11, <1>12, <1>13, <1>14, <1>15, <1>16, <1>17
     DEF Next, Writes

-----------------------------------------------------------------------------
\* What the clients are served

\* A log that grows keeps its prefixes, whatever else they are.
LEMMA PrefixStays ==
  ASSUME NEW S, NEW s \in Seq(S), NEW e \in S, NEW u, Len(u) \in Nat, IsPrefix(u, s)
  PROVE  IsPrefix(u, Append(s, e))
<1>1. Len(u) <= Len(s) /\ SubSeq(u, 1, Len(u)) = SubSeq(s, 1, Len(u))
  BY DEF IsPrefix
<1>2. Len(u) \in 0 .. Len(s) /\ Len(u) <= Len(Append(s, e))
  BY <1>1
<1>3. SubSeq(Append(s, e), 1, Len(u)) = SubSeq(s, 1, Len(u))
  BY <1>2, CutOfAppend
<1> QED
  BY <1>1, <1>2, <1>3 DEF IsPrefix

\* The places at which nothing is served yet.
Unserved == {"loading", "loaded", "replaying", "replayed"}

\* Steps that serve and release nobody.
LEMMA ServedKept ==
  ASSUME TypeOK, ServedInv, UNCHANGED <<save, joined, game>>,
         log' = log \/ \E r \in Record : log' = Append(log, r),
         pc' = "waiting" => /\ pc = "waiting" /\ log' = log
                            /\ record' # NoPath \/ ~grown' => record # NoPath \/ ~grown,
         pc' \in Unserved => pc \in Unserved
  PROVE  ServedInv'
<1>1. ServedIsReplayed'
  <2>1. pc = "waiting" /\ (record # NoPath \/ ~grown) => save = Encode(game, log)
    BY DEF ServedInv, ServedAgree, ServedIsReplayed
  <2> QED
    BY <2>1 DEF ServedIsReplayed
<1>2. ReleasedAgree'
  <2> SUFFICES ASSUME joined PROVE IsPrefix(Readable(save), log')
    BY DEF ReleasedAgree
  <2>1. IsPrefix(Readable(save), log)
    BY DEF ServedInv, ServedAgree, ReleasedAgree
  <2>2. save \in Seq(Cell) /\ log \in Seq(Record)
    BY DEF TypeOK
  <2>3. Len(Readable(save)) \in Nat
    BY <2>2, ReadableLength
  <2>4. ASSUME NEW r \in Record PROVE IsPrefix(Readable(save), Append(log, r))
    BY ONLY <2>1, <2>2, <2>3, r \in Record, PrefixStays
  <2> QED
    BY <2>1, <2>4
<1>3. pc' \in Unserved => ~joined'
  BY DEF ServedInv, Unserved
<1> QED
  BY ONLY <1>1, <1>2, <1>3 DEF ServedInv, ServedAgree, Unserved

\* The save is served: it is the history, read from whichever file.
LEMMA ServeReads ==
  ASSUME TypeOK, FilesInv, HistoryInv, ReadInv, ServeSave
  PROVE  /\ record # NoPath \/ ~grown => save' = Encode(game, log)
         /\ save' \in Seq(Cell) /\ Len(save') >= 2
         /\ record # NoPath => files'[record] = Encode(game, log)
<1>1. pc = "loaded" /\ pc \in Underway /\ attempted = log /\ base = Len(log)
  BY DEF ServeSave, Underway, HistoryInv, ReadInv
<1>2. log \in Seq(Record) /\ game \in Games
  BY DEF TypeOK
<1>3. Encode(game, log) \in Seq(Cell) /\ Len(Encode(game, log)) >= 2
  <2>1. PICK n \in Nat : n = Len(log)
    BY <1>2
  <2>2. Encode(game, log) \in Seq(Cell) /\ Len(Encode(game, log)) = 2 + 2 * n
    BY <1>2, <2>1, EncodeShape DEF Spells
  <2> QED
    BY ONLY <2>2, n \in Nat
<1>4. CASE record # NoPath
  <2>1. save' = files'[record] /\ files'[record] = Written
    BY <1>4, WriteStep DEF ServeSave, Writes
  <2>2. Written = Encode(game, log)
    BY <1>1, <1>4 DEF HistoryInv
  <2> QED
    BY <1>3, <2>1, <2>2
<1>5. CASE record = NoPath /\ load # NoPath
  <2>1. save' = files[load] /\ files[load] \in Seq(Cell) /\ Len(files[load]) >= 2
    BY <1>1, <1>5, ReaderPlace DEF ServeSave
  <2>2. ~grown => pos = Len(files[load])
    BY <1>1, <1>5 DEF ReadInv
  <2>3. ~grown => files[load] = Encode(game, log)
    BY <1>1, <1>5, <2>2, WholeRead
  <2> QED
    BY <1>5, <2>1, <2>3
<1>6. CASE record = NoPath /\ load = NoPath
  <2>1. save' = Header(game) /\ Len(log) = 0
    BY <1>1, <1>6 DEF ServeSave, ReadInv
  <2>2. log = <<>>
    BY <1>2, <2>1
  <2>3. Header(game) = Encode(game, log)
    BY <1>2, <2>2, EncodeEmpty
  <2> QED
    BY <1>3, <1>6, <2>1, <2>3
<1> QED
  BY <1>4, <1>5, <1>6

\* The save a client was served stays what went live.
LEMMA ServedStep ==
  ASSUME TypeOK, FilesInv, HistoryInv, ReadInv, ServedInv, [Next]_vars
  PROVE  ServedInv'
<1> DEFINE Serves == /\ log' = log \/ \E r \in Record : log' = Append(log, r)
                     /\ pc' = "waiting" => /\ pc = "waiting" /\ log' = log
                                           /\ record' # NoPath \/ ~grown' => record # NoPath \/ ~grown
                     /\ pc' \in Unserved => pc \in Unserved
<1>1. CASE UNCHANGED <<save, joined, game>> /\ Serves
  BY ONLY <1>1, TypeOK, ServedInv, ServedKept
<1>2. CASE UNCHANGED vars
  <2>1. UNCHANGED <<save, joined, game, pc, log, record, grown>>
    BY <1>2 DEF vars, config, reader
  <2> QED
    BY <1>1, <2>1
<1>3. ASSUME ~joined', pc' # "waiting" PROVE ServedInv'
  BY <1>3 DEF ServedInv, ServedAgree, ServedIsReplayed, ReleasedAgree
<1>4. ASSUME NEW l \in Paths \cup {NoPath}, NEW r \in Paths \cup {NoPath}, StartSession(l, r)
      PROVE  ServedInv'
  <2>1. ~joined' /\ pc' # "waiting"
    BY <1>4 DEF StartSession
  <2> QED
    BY <1>3, <2>1
<1>5. ASSUME NEW l \in Paths \cup {NoPath}, NEW r \in Paths \cup {NoPath}, Refuse(l, r)
      PROVE  ServedInv'
  <2>1. UNCHANGED <<save, joined, game, pc, log>> /\ pc' = "idle"
    BY <1>5 DEF Refuse
  <2> QED
    BY <1>1, <2>1
<1>6. ASSUME NEW l \in Paths, StartReplay(l) PROVE ServedInv'
  <2>1. ~joined' /\ pc' # "waiting"
    BY <1>6 DEF StartReplay
  <2> QED
    BY <1>3, <2>1
<1>7. CASE ReportReplay
  <2>1. UNCHANGED <<save, joined, game, log>> /\ pc' = "idle"
    BY <1>7 DEF ReportReplay, config
  <2> QED
    BY <1>1, <2>1 DEF Unserved
<1>8. CASE CancelSeen
  <2>1. UNCHANGED <<save, joined, game, log>> /\ (pc' = "ending" \/ (pc = "replaying" /\ pc' = "replayed"))
    BY <1>8 DEF CancelSeen, config, Return
  <2> QED
    BY <1>1, <2>1 DEF Unserved
<1>9. CASE GoLive
  <2>1. pc' = "live" /\ UNCHANGED <<save, log>> /\ (~joined' \/ Readable(save) = log)
    BY <1>9 DEF GoLive, SaveAccepted
  <2>2. log \in Seq(Record)
    BY DEF TypeOK
  <2>3. IsPrefix(log, log)
    BY ONLY <2>2, WholeCut
  <2> QED
    BY ONLY <2>1, <2>3 DEF ServedInv, ServedAgree, ServedIsReplayed, ReleasedAgree
<1>10. CASE SessionFails
  <2>1. UNCHANGED <<save, joined, game, log>> /\ pc' = "ending"
    BY <1>10 DEF SessionFails, config, Return
  <2> QED
    BY <1>1, <2>1 DEF Unserved
<1>11. CASE RequestCancel
  <2>1. UNCHANGED <<save, joined, game, log, pc, record, grown>>
    BY <1>11 DEF RequestCancel, config, reader
  <2> QED
    BY <1>1, <2>1
<1>12. CASE Done
  BY <1>2, <1>12 DEF Done
<1>13. CASE ReplayRecord
  <2>1. /\ UNCHANGED <<save, joined, game>> /\ pc \in {"loading", "replaying"}
        /\ pc' \in {pc, "loaded", "replayed", "ending"}
    BY <1>13 DEF ReplayRecord, config, Return
  <2>2. ~joined
    BY <2>1 DEF ServedInv
  <2> QED
    BY <1>3, <2>1, <2>2
<1>14. ASSUME NEW i \in Inputs, LiveTick(i) PROVE ServedInv'
  <2>1. [tick |-> Len(log) + 1, inputs |-> i] \in Record
    BY DEF Record, TypeOK
  <2>2. /\ UNCHANGED <<save, joined, game>> /\ pc' \in {"live", "flush", "ending"}
        /\ log' = log \/ \E r \in Record : log' = Append(log, r)
    BY <1>14, <2>1 DEF LiveTick, config, Return
  <2> QED
    BY <1>1, <2>2 DEF Unserved
<1>15. CASE ServeSave
  <2>1. record # NoPath \/ ~grown => save' = Encode(game, log)
    BY <1>15, ServeReads
  <2>2. UNCHANGED <<record, grown, game, log, joined>> /\ pc = "loaded" /\ pc' = "waiting"
    BY <1>15 DEF ServeSave, config, reader
  <2>3. ~joined
    BY <2>2 DEF ServedInv
  <2>4. record' # NoPath \/ ~grown' => save' = Encode(game', log')
    BY <2>1, <2>2
  <2>5. ~joined' /\ pc' = "waiting"
    BY <2>2, <2>3
  <2> QED
    BY ONLY <2>4, <2>5 DEF ServedInv, ServedAgree, ServedIsReplayed, ReleasedAgree
<1>16. CASE FlushTick \/ Spill \/ EndSession
  <2>1. /\ UNCHANGED <<save, joined, game, log, record, grown>>
        /\ \/ pc' = pc
           \/ pc' \in {"live", "idle"}
    BY <1>16 DEF FlushTick, Spill, EndSession, config, reader
  <2> QED
    BY <1>1, <2>1 DEF Unserved
<1>17. CASE WriteFails
  <2>1. UNCHANGED <<save, joined, game, log>> /\ pc' = "ending"
    BY <1>17 DEF WriteFails, config, Return
  <2> QED
    BY <1>1, <2>1 DEF Unserved
<1>18. CASE Crash
  <2>1. UNCHANGED <<save, joined, game, log>> /\ pc' = "idle"
    BY <1>18 DEF Crash, config
  <2> QED
    BY <1>1, <2>1 DEF Unserved
<1>19. CASE OtherRecorder
  <2>1. UNCHANGED <<save, joined, game, log, pc, record>> /\ grown' = TRUE
    BY <1>19 DEF OtherRecorder, config
  <2> QED
    BY <1>1, <2>1
<1> QED
  BY <1>2, <1>4, <1>5, <1>6, <1>7, <1>8, <1>9, <1>10, <1>11, <1>12, <1>13, <1>14, <1>15, <1>16, <1>17,
     <1>18, <1>19 DEF Next

-----------------------------------------------------------------------------
\* A process failure

\* From one number to the next the remainder grows by one or falls to zero.
LEMMA NextRemainder ==
  ASSUME NEW t \in Nat, NEW n \in Nat \ {0}
  PROVE  /\ t % n \in 0 .. n - 1
         /\ (t + 1) % n = 0 \/ (t + 1) % n = (t % n) + 1
<1> DEFINE q == t \div n
           r == t % n
           p == (t + 1) \div n
           s == (t + 1) % n
<1>1. /\ q \in Int /\ p \in Int /\ r \in 0 .. n - 1 /\ s \in 0 .. n - 1
      /\ t = n * q + r /\ t + 1 = n * p + s
  OBVIOUS
<1>2. n * (p - q) = r + 1 - s
  BY <1>1
<1> HIDE DEF q, r, p, s
<1>3. ASSUME p - q >= 2 PROVE FALSE
  <2>1. n * (p - q) >= n * 2
    BY <1>1, <1>3
  <2> QED
    BY <2>1, <1>1, <1>2
<1>4. ASSUME p - q <= -1 PROVE FALSE
  <2>1. n * (p - q) <= n * (-1)
    BY <1>1, <1>4
  <2> QED
    BY <2>1, <1>1, <1>2
<1>5. p - q = 0 \/ p - q = 1
  BY <1>1, <1>3, <1>4
<1>6. CASE p - q = 0
  BY <1>1, <1>2, <1>6 DEF r, s
<1>7. CASE p - q = 1
  BY <1>1, <1>2, <1>7 DEF r, s
<1> QED
  BY <1>5, <1>6, <1>7

\* The records in the recording are counted, and not one fewer after more was written.
LEMMA DurableNumber ==
  ASSUME TypeOK, FilesInv, record # NoPath
  PROVE  Durable \in Nat
BY WrittenShape, ReadableLength DEF Durable

\* A file that grows has no fewer readable records.
LEMMA DurableGrows ==
  ASSUME TypeOK, FilesInv, record # NoPath, record' = record, files'[record] \in Seq(Cell),
         IsPrefix(files[record], files'[record])
  PROVE  Durable' \in Nat /\ Durable <= Durable'
<1>1. files[record] \in Seq(Cell) /\ Len(files[record]) <= Len(files'[record])
  BY WrittenShape DEF IsPrefix
<1>2. Len(Readable(files'[record])) \in Nat
  BY ReadableLength
<1>3. Len(Readable(files[record])) <= Len(Readable(files'[record]))
  BY <1>1, ReadableGrows
<1>4. Durable' = Len(Readable(files'[record]))
  BY DEF Durable
<1> QED
  BY <1>2, <1>3, <1>4 DEF Durable

\* A file that is not written keeps its readable records.
LEMMA DurableSame ==
  ASSUME TypeOK, FilesInv, record # NoPath, record' = record, files'[record] = files[record]
  PROVE  Durable' = Durable /\ Durable \in Nat
BY DurableNumber DEF Durable

\* Steps that append nothing and flush nothing.
LEMMA LossKept ==
  ASSUME TypeOK, FilesInv, LossInv, UNCHANGED <<save, base, record, log, attempted>>,
         pc' \in Unserved => pc \in Unserved,
         pc' \in {"waiting", "live", "flush"} => pc \in {"waiting", "live", "flush"},
         pc' = "waiting" => pc = "waiting",
         pc' = "live" => pc \in {"waiting", "live"},
         record # NoPath => Durable' \in Nat /\ Durable <= Durable'
  PROVE  LossInv'
<1>1. /\ pc' \in Unserved => save' = <<>>
      /\ pc' \in {"waiting", "live", "flush"} => save' # <<>>
  BY DEF LossInv, Unserved
<1>2. ASSUME record # NoPath, save # <<>>
      PROVE  /\ base <= Durable' /\ Len(attempted) - Durable' <= Interval
             /\ pc' = "waiting" => Len(log) <= Durable'
             /\ pc' = "live" => Len(log) - Durable' <= Len(log) % Interval
  <2>1. /\ base \in Nat /\ log \in Seq(Record) /\ attempted \in Seq(Record)
    BY DEF TypeOK
  <2>2. PICK n \in Nat, a \in Nat : n = Len(log) /\ a = Len(attempted)
    BY ONLY <2>1
  <2>3. PICK d \in Nat, e \in Nat : d = Durable /\ e = Durable' /\ d <= e
    BY <1>2, DurableNumber
  <2>4. PICK m \in Nat : m = n % Interval
    BY NextRemainder, BoundsAssumption
  <2>5. /\ base <= d /\ a - d <= Interval
        /\ pc = "waiting" => n <= d
        /\ pc = "live" => n - d <= m
    BY <1>2, <2>2, <2>3, <2>4 DEF LossInv
  <2>6. Interval \in Nat
    BY BoundsAssumption
  <2>7. n \in Nat /\ a \in Nat /\ d \in Nat /\ e \in Nat /\ m \in Nat /\ d <= e
    BY ONLY <2>3, n \in Nat, a \in Nat, d \in Nat, e \in Nat, m \in Nat
  <2>8. base <= e /\ a - e <= Interval
    <3>1. base <= d /\ a - d <= Interval /\ base \in Nat
      BY <2>1, <2>5
    <3> QED
      BY ONLY <2>6, <2>7, <3>1
  <2>9. n <= d => n <= e /\ n - e <= m
    BY ONLY <2>7
  <2>10. n - d <= m => n - e <= m
    BY ONLY <2>7
  <2>11. /\ pc' = "waiting" => n <= e
         /\ pc' = "live" => n - e <= m
    BY <2>5, <2>9, <2>10
  <2> QED
    BY ONLY <2>2, <2>3, <2>4, <2>8, <2>11
<1> QED
  BY ONLY <1>1, <1>2, UNCHANGED <<save, base, record, log, attempted>> DEF LossInv, Unserved

\* A tick is appended: at most as many are not in the file as lie behind the last flush.
LEMMA LossTick ==
  ASSUME TypeOK, FilesInv, HistoryInv, LossInv, pc = "live",
         NEW r \in Record, attempted' = Append(attempted, r), UNCHANGED <<save, base, record, files>>,
         \/ pc' \in {"ending", "flush"}
         \/ pc' = "live" /\ log' = Append(log, r) /\ (Len(log) + 1) % Interval # 0
  PROVE  LossInv'
<1>1. save # <<>> /\ save' = save /\ record' = record /\ base' = base /\ pc' \notin Unserved /\ pc' # "waiting"
  BY DEF LossInv, Unserved
<1>2. ASSUME record # NoPath
      PROVE  /\ base <= Durable' /\ Len(attempted') - Durable' <= Interval
             /\ pc' = "live" => Len(log') - Durable' <= Len(log') % Interval
  <2>1. log \in Seq(Record) /\ attempted = log /\ base \in Nat
    BY DEF TypeOK, HistoryInv, Underway
  <2>2. PICK n \in Nat : n = Len(log) /\ Len(attempted') = n + 1 /\ (log' = Append(log, r) => Len(log') = n + 1)
    <3>1. Len(log) \in Nat /\ Len(Append(log, r)) = Len(log) + 1
      BY <2>1
    <3> QED
      BY <2>1, <3>1
  <2>3. PICK d \in Nat : d = Durable /\ d = Durable'
    BY <1>1, <1>2, DurableSame
  <2>4. PICK m \in Nat : m = n % Interval /\ m < Interval /\ ((n + 1) % Interval = 0 \/ (n + 1) % Interval = m + 1)
    <3>1. Interval \in Nat \ {0}
      BY BoundsAssumption
    <3>2. n % Interval \in 0 .. Interval - 1 /\ ((n + 1) % Interval = 0 \/ (n + 1) % Interval = (n % Interval) + 1)
      BY ONLY <3>1, n \in Nat, NextRemainder
    <3>3. PICK m : m = n % Interval
      OBVIOUS
    <3>4. m \in 0 .. Interval - 1
      BY <3>2, <3>3
    <3>5. m \in Nat /\ m < Interval
      BY ONLY <3>1, <3>4
    <3> QED
      BY ONLY <3>2, <3>3, <3>5
  <2>5. base <= d /\ n - d <= m
    BY <1>1, <1>2, <2>2, <2>3, <2>4 DEF LossInv
  <2>6. Interval \in Nat
    BY BoundsAssumption
  <2>7. (n + 1) - d <= Interval /\ (n + 1) - d <= m + 1
    BY ONLY <2>4, <2>5, <2>6, n \in Nat, d \in Nat, m \in Nat
  <2>8. pc' = "live" => Len(log') = n + 1 /\ (n + 1) % Interval = m + 1
    BY <2>2, <2>4
  <2> QED
    BY ONLY <2>2, <2>3, <2>5, <2>7, <2>8
<1> QED
  BY ONLY <1>1, <1>2 DEF LossInv, Unserved

\* A flush, at a boundary or before the save is served, leaves nothing to lose.
LEMMA LossFlush ==
  ASSUME TypeOK, FilesInv, HistoryInv, ReadInv, LossInv, ServeSave \/ FlushTick
  PROVE  LossInv'
<1>1. /\ UNCHANGED <<record, base, log, attempted>> /\ pc \in Underway /\ pc' \in {"waiting", "live"}
      /\ attempted = log /\ base <= Len(log)
  <2>1. pc \in {"loaded", "flush"} /\ pc' \in {"waiting", "live"}
    BY DEF ServeSave, FlushTick
  <2>2. pc \in Underway
    BY <2>1 DEF Underway
  <2>3. UNCHANGED <<record, base, log, attempted>>
    BY WriteStep DEF Writes
  <2> QED
    BY <2>1, <2>2, <2>3 DEF HistoryInv, ReadInv
<1>2. save' # <<>>
  <2>1. CASE ServeSave
    <3>1. save' \in Seq(Cell) /\ Len(save') >= 2
      BY <2>1, ServeReads
    <3> QED
      BY <3>1
  <2>2. CASE FlushTick
    BY <2>2 DEF FlushTick, LossInv
  <2> QED
    BY <2>1, <2>2
<1>3. record # NoPath => Durable' = Len(log)
  <2> SUFFICES ASSUME record # NoPath PROVE Durable' = Len(log)
    OBVIOUS
  <2>1. files'[record] = Written /\ Written = Encode(game, attempted)
    BY <1>1, WriteStep DEF Writes, HistoryInv
  <2>2. log \in Seq(Record) /\ game \in Games
    BY DEF TypeOK
  <2>3. Len(Readable(files'[record])) = Len(log)
    BY <1>1, <2>1, <2>2, ReadableOfEncode
  <2> QED
    BY <1>1, <2>3 DEF Durable
<1>4. ASSUME record # NoPath
      PROVE  /\ base <= Durable' /\ Len(attempted) - Durable' <= Interval
             /\ Len(log) <= Durable' /\ Len(log) - Durable' <= Len(log) % Interval
  <2>1. PICK n \in Nat : n = Len(log)
    BY DEF TypeOK
  <2>2. Interval \in Nat /\ n % Interval \in Nat /\ base \in Nat
    BY NextRemainder, BoundsAssumption DEF TypeOK
  <2>3. Durable' = n /\ Len(attempted) = n /\ base <= n
    BY <1>1, <1>3, <1>4, <2>1
  <2>4. n - n <= Interval /\ n - n <= n % Interval /\ n <= n
    BY ONLY <2>2, n \in Nat
  <2> QED
    BY ONLY <2>1, <2>3, <2>4
<1>5. pc' \notin Unserved
  BY <1>1 DEF Unserved
<1> QED
  BY ONLY <1>1, <1>2, <1>4, <1>5 DEF LossInv, Unserved

\* No more than an interval is appended and not yet in the file.
LEMMA LossStep ==
  ASSUME TypeOK, FilesInv, HistoryInv, ReadInv, LossInv, [Next]_vars
  PROVE  LossInv'
<1> DEFINE Keeps == /\ pc' \in Unserved => pc \in Unserved
                    /\ pc' \in {"waiting", "live", "flush"} => pc \in {"waiting", "live", "flush"}
                    /\ pc' = "waiting" => pc = "waiting"
                    /\ pc' = "live" => pc \in {"waiting", "live"}
<1>1. CASE UNCHANGED <<save, base, record, log, attempted, files>> /\ Keeps
  <2>1. record # NoPath => Durable' \in Nat /\ Durable <= Durable'
    BY <1>1, DurableSame
  <2> QED
    BY ONLY <1>1, <2>1, TypeOK, FilesInv, LossInv, LossKept
<1>2. CASE UNCHANGED vars
  <2>1. UNCHANGED <<save, base, record, log, attempted, files, pc>>
    BY <1>2 DEF vars, config, reader
  <2> QED
    BY <1>1, <2>1
<1>3. ASSUME save' = <<>>, pc' \notin {"waiting", "live", "flush"} PROVE LossInv'
  BY ONLY <1>3 DEF LossInv
<1>4. ASSUME NEW l \in Paths \cup {NoPath}, NEW r \in Paths \cup {NoPath}, StartSession(l, r)
      PROVE  LossInv'
  <2>1. save' = <<>> /\ pc' \in {"loading", "loaded"}
    BY <1>4 DEF StartSession
  <2> QED
    BY <1>3, <2>1
<1>5. ASSUME NEW l \in Paths \cup {NoPath}, NEW r \in Paths \cup {NoPath}, Refuse(l, r)
      PROVE  LossInv'
  <2>1. record' = NoPath /\ pc' = "idle"
    BY <1>5 DEF Refuse
  <2> QED
    BY ONLY <2>1 DEF LossInv
<1>6. ASSUME NEW l \in Paths, StartReplay(l) PROVE LossInv'
  <2>1. save' = <<>> /\ pc' = "replaying"
    BY <1>6 DEF StartReplay
  <2> QED
    BY <1>3, <2>1
<1>7. CASE ReportReplay
  <2>1. UNCHANGED <<save, base, record, log, attempted, files>> /\ pc' = "idle"
    BY <1>7 DEF ReportReplay, config, reader
  <2> QED
    BY <1>1, <2>1 DEF Unserved
<1>8. CASE CancelSeen
  <2>1. /\ UNCHANGED <<save, base, record, log, attempted, files>>
        /\ pc' = "ending" \/ (pc = "replaying" /\ pc' = "replayed")
    BY <1>8 DEF CancelSeen, config, reader, Return
  <2> QED
    BY <1>1, <2>1 DEF Unserved
<1>9. CASE GoLive
  <2>1. UNCHANGED <<save, base, record, log, attempted, files>> /\ pc = "waiting" /\ pc' = "live"
    BY <1>9 DEF GoLive, config, reader
  <2> QED
    BY <1>1, <2>1 DEF Unserved
<1>10. CASE SessionFails
  <2>1. UNCHANGED <<save, base, record, log, attempted, files>> /\ pc' = "ending"
    BY <1>10 DEF SessionFails, config, reader, Return
  <2> QED
    BY <1>1, <2>1 DEF Unserved
<1>11. CASE RequestCancel
  <2>1. UNCHANGED <<save, base, record, log, attempted, files, pc>>
    BY <1>11 DEF RequestCancel, config, reader
  <2> QED
    BY <1>1, <2>1
<1>12. CASE Done
  BY <1>2, <1>12 DEF Done
<1>13. CASE ReplayRecord
  <2>1. /\ UNCHANGED <<save, record>> /\ pc \in {"loading", "replaying"}
        /\ pc' \in {pc, "loaded", "replayed", "ending"}
    BY <1>13 DEF ReplayRecord, config, Return
  <2>2. save' = <<>>
    BY <2>1 DEF LossInv
  <2> QED
    BY <1>3, <2>1, <2>2
<1>14. ASSUME NEW i \in Inputs, LiveTick(i) PROVE LossInv'
  <2>1. PICK r \in Record : r = [tick |-> Len(log) + 1, inputs |-> i]
    <3>1. [tick |-> Len(log) + 1, inputs |-> i] \in Record
      BY DEF Record, TypeOK
    <3> QED
      BY <3>1
  <2>2. /\ pc = "live" /\ attempted' = Append(attempted, r) /\ UNCHANGED <<save, base, record, files>>
        /\ \/ pc' = "ending"
           \/ log' = Append(log, r) /\ pc' = IF FlushedAfter(r.tick) THEN "flush" ELSE "live"
    BY <1>14, <2>1 DEF LiveTick, AppendRecord, config, reader, Return
  <2>3. FlushedAfter(r.tick) <=> (Len(log) + 1) % Interval = 0
    BY <2>1 DEF FlushedAfter, Sealed
  <2>4. \/ pc' \in {"ending", "flush"}
        \/ pc' = "live" /\ log' = Append(log, r) /\ (Len(log) + 1) % Interval # 0
    BY <2>2, <2>3
  <2> QED
    BY ONLY <2>2, <2>4, r \in Record, TypeOK, FilesInv, HistoryInv, LossInv, LossTick
<1>15. CASE ServeSave \/ FlushTick
  BY <1>15, LossFlush
<1>16. CASE Spill \/ EndSession
  <2>1. /\ UNCHANGED <<save, base, record, log, attempted>>
        /\ pc' = pc \/ pc' = "idle"
    BY <1>16 DEF Spill, EndSession, config, reader
  <2>2. record # NoPath => files'[record] \in Seq(Cell) /\ IsPrefix(files[record], files'[record])
    BY <1>16, WriteStep DEF Writes
  <2>3. record # NoPath => Durable' \in Nat /\ Durable <= Durable'
    BY <2>1, <2>2, DurableGrows
  <2>4. Keeps
    BY <2>1 DEF Unserved
  <2> QED
    BY ONLY <2>1, <2>3, <2>4, TypeOK, FilesInv, LossInv, LossKept
<1>17. CASE WriteFails
  <2>1. UNCHANGED <<save, base, record, log, files>> /\ pc' = "ending"
    BY <1>17 DEF WriteFails, config, reader, Return
  <2>2. CASE attempted' = attempted
    BY <1>1, <2>1, <2>2 DEF Unserved
  <2>3. CASE pc = "loading"
    <3>1. save' = <<>>
      BY <2>1, <2>3 DEF LossInv
    <3> QED
      BY <1>3, <2>1, <3>1
  <2>4. ASSUME pc = "live", NEW i \in Inputs, attempted' = Append(attempted, [tick |-> Len(log) + 1, inputs |-> i])
        PROVE  LossInv'
    <3>1. [tick |-> Len(log) + 1, inputs |-> i] \in Record
      BY DEF TypeOK, Record
    <3> QED
      BY <2>1, <2>4, <3>1, LossTick
  <2> QED
    BY <1>17, <2>2, <2>3, <2>4 DEF WriteFails
<1>18. CASE Crash
  <2>1. UNCHANGED <<save, base, record, log, attempted, files>> /\ pc' = "idle"
    BY <1>18 DEF Crash, config, reader
  <2> QED
    BY <1>1, <2>1 DEF Unserved
<1>19. CASE OtherRecorder
  <2>1. UNCHANGED <<save, base, record, log, attempted, pc>>
    BY <1>19 DEF OtherRecorder, config
  <2>2. record # NoPath => files'[record] = files[record]
    BY <1>19, WrittenShape, Extended DEF FilesInv
  <2>3. record # NoPath => Durable' \in Nat /\ Durable <= Durable'
    BY <2>1, <2>2, DurableSame
  <2>4. Keeps
    BY <2>1
  <2> QED
    BY ONLY <2>1, <2>3, <2>4, TypeOK, FilesInv, LossInv, LossKept
<1> QED
  BY <1>2, <1>4, <1>5, <1>6, <1>7, <1>8, <1>9, <1>10, <1>11, <1>12, <1>13, <1>14, <1>15, <1>16, <1>17,
     <1>18, <1>19 DEF Next

-----------------------------------------------------------------------------
\* The theorems

\* The invariant is inductive.
LEMMA RecordingInvariant == Spec => [](TypeOK /\ RecInv)
<1>1. Init => TypeOK /\ RecInv
  BY TypeInit
<1>2. TypeOK /\ RecInv /\ [Next]_vars => (TypeOK /\ RecInv)'
  <2> SUFFICES ASSUME TypeOK, FilesInv, HistoryInv, ReadInv, ServedInv, LossInv, [Next]_vars
               PROVE  TypeOK' /\ FilesInv' /\ HistoryInv' /\ ReadInv' /\ ServedInv' /\ LossInv'
    BY DEF RecInv
  <2> QED
    BY TypeStep, FilesStep, HistoryStep, ReadStep, ServedStep, LossStep
<1> QED
  BY <1>1, <1>2, PTL DEF Spec

\* Every file, and everything a session holds, is of its type in every state, so a reader
\* only ever decodes records from where a writer put records (replay.rs, ReplayReader).
THEOREM RecordingTypeCorrect == Spec => []TypeOK
BY RecordingInvariant, PTL

\* Whatever a session runs into, a cancelled, failed or crashed one too, its recording is
\* the header and a prefix of the ticks it attempted, under the header and after the ticks
\* it was resumed from (run_server.rs, run_server and tick_loop).
THEOREM RecordedIsHistory == Spec => []RecordingIsHistory
<1>1. TypeOK /\ RecInv => RecordingIsHistory
  <2> SUFFICES ASSUME TypeOK, FilesInv, HistoryInv, record # NoPath
               PROVE  /\ IsPrefix(Written, Encode(game, attempted))
                      /\ \A i \in DOMAIN attempted : attempted[i].tick = i
                      /\ IsPrefix(log, attempted) /\ Len(attempted) <= Len(log) + 1
                      /\ load # NoPath => game = files[load][1].game
    BY DEF RecInv, RecordingIsHistory
  <2>1. /\ IsPrefix(Written, Encode(game, attempted))
        /\ \A i \in DOMAIN attempted : attempted[i].tick = i
        /\ attempted = log \/ \E r \in Record : attempted = Append(log, r)
        /\ load # NoPath => game = files[load][1].game
    BY DEF HistoryInv, FilesInv
  <2>2. log \in Seq(Record)
    BY DEF TypeOK
  <2>3. IsPrefix(log, log) /\ Len(log) <= Len(log) + 1
    BY <2>2, WholeCut
  <2>4. ASSUME NEW r \in Record, attempted = Append(log, r)
        PROVE  IsPrefix(log, attempted) /\ Len(attempted) <= Len(log) + 1
    <3>1. IsPrefix(log, Append(log, r))
      BY ONLY <2>2, <2>3, r \in Record, PrefixOfAppend
    <3>2. Len(Append(log, r)) = Len(log) + 1 /\ Len(log) \in Nat
      BY <2>2
    <3> QED
      BY <2>4, <3>1, <3>2
  <2> QED
    BY <2>1, <2>3, <2>4
<1> QED
  BY <1>1, RecordingInvariant, PTL

\* No reader takes a part of a recording for the whole: a session that has gone live from
\* a save and a replay reported as complete have read the file to its last cell
\* (replay.rs, next_record; api.rs, replay).
THEOREM ReadToTheEnd == Spec => []ReadInFull
<1>1. TypeOK /\ RecInv => ReadInFull
  <2> SUFFICES ASSUME TypeOK, FilesInv, ReadInv PROVE ReadInFull
    BY DEF RecInv
  <2>1. NeverShortened
    <3> SUFFICES ASSUME pc \in {"waiting", "live", "flush"}, load # NoPath, ~grown
                 PROVE  Encode(game, SubSeq(log, 1, base)) = files[load]
      BY DEF NeverShortened
    <3>1. pc \in Underway
      BY DEF Underway
    <3>2. pos = Len(files[load])
      BY <3>1 DEF ReadInv
    <3> QED
      BY <3>1, <3>2, WholeRead
  <2>2. CompleteIsComplete
    BY DEF ReadInv
  <2> QED
    BY <2>1, <2>2 DEF ReadInFull
<1> QED
  BY <1>1, RecordingInvariant, PTL

\* The save the clients are served is what the authority replayed, and a client that is
\* released holds the history the authority goes live with, though the file is read a
\* second time (run_server.rs, run_session).
THEOREM ServedIsWhatIsLive == Spec => []ServedAgree
<1>1. TypeOK /\ RecInv => ServedAgree
  BY DEF RecInv, ServedInv
<1> QED
  BY <1>1, RecordingInvariant, PTL

\* A process failure in the live phase costs the ticks since the last flush and no more,
\* and none of the save the session was resumed from (replay.rs, ReplayWriter).
THEOREM LossAtMostInterval == Spec => []LossIsBounded
<1>1. TypeOK /\ RecInv => LossIsBounded
  <2> SUFFICES ASSUME TypeOK, LossInv, record # NoPath,
                      pc \in {"live", "flush"} \/ (pc = "idle" /\ outcome = "crashed" /\ save # <<>>)
               PROVE  /\ Len(attempted) - Len(Readable(files[record])) <= Interval
                      /\ Len(Readable(files[record])) >= base
    BY DEF RecInv, LossIsBounded
  <2>1. save # <<>>
    BY DEF LossInv
  <2>2. base <= Durable /\ Len(attempted) - Durable <= Interval
    BY <2>1 DEF LossInv
  <2> QED
    BY <2>2 DEF Durable
<1> QED
  BY <1>1, RecordingInvariant, PTL
=============================================================================
