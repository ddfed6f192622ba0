--------------------------- MODULE GameTickProofs ---------------------------
(***************************************************************************)
(* Theorems about GameTick, for every game. Whatever its rules are and     *)
(* wherever a tick fails, the next one starts clean. If each command does  *)
(* what it promises, the readers are shown promised states only, once      *)
(* each, whatever ticks are refused, fail or cannot be published.          *)
(***************************************************************************)
EXTENDS WalletGame, GardenGame, Sums

\* Only the steps inside a tick bring commands and effects into the world, and they
\* leave pc away from "rest", which only Finish brings back.
LEMMA CleanStep == CleanAtRest /\ [Next]_vars => CleanAtRest'
<1> SUFFICES ASSUME CleanAtRest, [Next]_vars PROVE CleanAtRest'
  OBVIOUS
<1> USE DEF CleanAtRest
<1>1. ASSUME NEW setup \in Setups, NEW start \in {0} \cup Strays, Initialize(setup, start)
      PROVE  CleanAtRest'
  <2>1. UNCHANGED <<pc, visible, effects>>
    BY <1>1 DEF Initialize, sim
  <2> QED
    BY <2>1
<1>2. ASSUME NEW t, Refuse(t) PROVE CleanAtRest'
  BY <1>2 DEF Refuse, sim
<1>3. ASSUME NEW t, NEW inputs, Advance(t, inputs) PROVE CleanAtRest'
  <2>1. pc' \in {"finish", "publish"}
    BY <1>3 DEF Advance
  <2> QED
    BY <2>1
<1>4. ASSUME NEW ok \in BOOLEAN, Publish(ok) PROVE CleanAtRest'
  BY <1>4 DEF Publish
<1>5. CASE Finish
  BY <1>5 DEF Finish, Finishes
<1>6. ASSUME NEW ok \in BOOLEAN, GoLive(ok) PROVE CleanAtRest'
  BY <1>6 DEF GoLive, sim
<1>7. CASE End
  BY <1>7 DEF End, sim
<1>8. CASE Animate
  BY <1>8 DEF Animate, sim
<1>9. CASE UNCHANGED vars
  BY <1>9 DEF vars, sim
<1> QED
  BY <1>1, <1>2, <1>3, <1>4, <1>5, <1>6, <1>7, <1>8, <1>9 DEF Next, Done

\* Between ticks the world holds no command and no effect of an earlier tick, whether
\* that tick succeeded or failed at any of its parts (simulation.rs, advance_tick).
THEOREM Clean == Spec => []CleanAtRest
<1>1. Init => CleanAtRest
  BY DEF Init, CleanAtRest
<1> QED
  BY <1>1, CleanStep, PTL DEF Spec
-----------------------------------------------------------------------------
\* The library's left fold, place by place

\* What one element does to the result so far: a command to the game's and to the promised
\* one, an amount to a checked sum and to a true one.
Step(kind, was, input) ==
  CASE kind = "rule"    -> Applied(was, input)
    [] kind = "promise" -> Promised(was, input)
    [] kind = "total"   -> CheckedSum(was, input)
    [] OTHER            -> Plus(was, input)

\* f takes start through the members of s whose places are in a set, for every set of
\* places up to n: the greatest place last.
Folds(kind, f, start, s, n) ==
  f = [T \in SUBSET (1 .. n) |->
         IF T = {} THEN start ELSE Step(kind, f[T \ {Max(T)}], s[Max(T)])]

\* What f does to each set.
Stepwise(kind, f, start, s, n) ==
  \A T \in SUBSET (1 .. n) :
    f[T] = IF T = {} THEN start ELSE Step(kind, f[T \ {Max(T)}], s[Max(T)])

\* A function that folds does so set by set.
LEMMA FoldsApplied ==
  ASSUME NEW kind, NEW n \in Nat, NEW f, NEW start, NEW s, Folds(kind, f, start, s, n)
  PROVE  Stepwise(kind, f, start, s, n)
<1> DEFINE G(g) == [T \in SUBSET (1 .. n) |->
                     IF T = {} THEN start ELSE Step(kind, g[T \ {Max(T)}], s[Max(T)])]
<1>1. f = G(f)
  BY DEF Folds
<1>2. \A T \in SUBSET (1 .. n) :
        G(f)[T] = IF T = {} THEN start ELSE Step(kind, f[T \ {Max(T)}], s[Max(T)])
  OBVIOUS
<1> QED
  BY <1>1, <1>2 DEF Stepwise

\* The greatest place of a set that holds n.
LEMMA GreatestPlace ==
  ASSUME NEW n \in Nat, NEW T \in SUBSET (1 .. n), T # {}
  PROVE  /\ Max(T) \in T /\ \A m \in T : Max(T) >= m
         /\ T \ {Max(T)} \in SUBSET (1 .. n)
         /\ n \in T => Max(T) = n
         /\ n \notin T => T \in SUBSET (1 .. n - 1) /\ T \ {Max(T)} \in SUBSET (1 .. n - 1)
<1>1. T \in SUBSET (0 .. n)
  OBVIOUS
<1>2. Max(T) \in T /\ \A m \in T : Max(T) >= m
  BY <1>1, Greatest
<1>3. Max(T) \in 1 .. n
  BY <1>2
<1>4. n \in T => Max(T) = n
  BY <1>2, <1>3
<1>5. n \notin T => T \in SUBSET (1 .. n - 1)
  <2>1. ASSUME n \notin T, NEW m \in T PROVE m \in 1 .. n - 1
    <3>1. m \in 1 .. n /\ m # n
      BY <2>1
    <3> QED
      BY <3>1
  <2> QED
    BY <2>1
<1> QED
  BY <1>2, <1>4, <1>5

\* Such a function exists: with one more place it does one more step.
LEMMA FoldsExist ==
  ASSUME NEW kind, NEW start, NEW s, NEW N \in Nat
  PROVE  \E f : Folds(kind, f, start, s, N)
<1> DEFINE Has(n) == \E f : Folds(kind, f, start, s, n)
<1>1. Has(0)
  <2> DEFINE f == [T \in SUBSET (1 .. 0) |-> start]
  <2>1. 1 .. 0 = {}
    OBVIOUS
  <2>2. \A T \in SUBSET (1 .. 0) : T = {}
    BY <2>1
  <2>3. f = [T \in SUBSET (1 .. 0) |->
              IF T = {} THEN start ELSE Step(kind, f[T \ {Max(T)}], s[Max(T)])]
    BY <2>2
  <2>4. Folds(kind, f, start, s, 0)
    BY <2>3 DEF Folds
  <2> QED
    BY <2>4
<1>2. ASSUME NEW n \in 1 .. N, Has(n - 1) PROVE Has(n)
  <2>1. PICK f : Folds(kind, f, start, s, n - 1)
    BY <1>2
  <2>2. \A T \in SUBSET (1 .. n - 1) :
           f[T] = IF T = {} THEN start ELSE Step(kind, f[T \ {Max(T)}], s[Max(T)])
    <3>1. PICK m \in Nat : m = n - 1
      OBVIOUS
    <3>2. Folds(kind, f, start, s, m)
      BY ONLY <2>1, <3>1
    <3>3. Stepwise(kind, f, start, s, m)
      BY <3>2, FoldsApplied
    <3> QED
      BY ONLY <3>1, <3>3 DEF Stepwise
  <2> DEFINE g == [T \in SUBSET (1 .. n) |->
                     IF n \in T THEN Step(kind, f[T \ {n}], s[n]) ELSE f[T]]
  <2>3. ASSUME NEW T \in SUBSET (1 .. n)
        PROVE  g[T] = IF T = {} THEN start ELSE Step(kind, g[T \ {Max(T)}], s[Max(T)])
    <3>1. CASE T = {}
      <4>1. T \in SUBSET (1 .. n - 1)
        BY <3>1
      <4> QED
        BY <2>2, <3>1, <4>1
    <3>2. CASE n \in T
      <4>1. Max(T) = n
        BY <3>2, GreatestPlace
      <4>2. g[T \ {n}] = f[T \ {n}]
        OBVIOUS
      <4>3. g[T] = Step(kind, f[T \ {n}], s[n])
        BY <3>2
      <4> HIDE DEF g
      <4> QED
        BY <3>2, <4>1, <4>2, <4>3
    <3>3. CASE T # {} /\ n \notin T
      <4>1. T \in SUBSET (1 .. n - 1) /\ Max(T) \in T /\ T \ {Max(T)} \in SUBSET (1 .. n)
        BY <3>3, GreatestPlace
      <4>2. g[T] = f[T] /\ g[T \ {Max(T)}] = f[T \ {Max(T)}]
        BY <3>3, <4>1
      <4> HIDE DEF g
      <4> QED
        BY <2>2, <3>3, <4>1, <4>2
    <3> QED
      BY <3>1, <3>2, <3>3
  <2>4. g = [T \in SUBSET (1 .. n) |->
              IF T = {} THEN start ELSE Step(kind, g[T \ {Max(T)}], s[Max(T)])]
    BY <2>3
  <2>5. Folds(kind, g, start, s, n)
    <3> HIDE DEF g
    <3> QED
      BY <2>4 DEF Folds
  <2> QED
    BY <2>5
<1>3. 0 .. N \subseteq {n \in 0 .. N : Has(n)}
  <2> DEFINE T == {n \in 0 .. N : Has(n)}
  <2> HIDE DEF Has
  <2>1. 0 \in T
    BY <1>1
  <2>2. \A n \in 1 .. N : n - 1 \in T => n \in T
    BY <1>2
  <2> HIDE DEF T
  <2>3. 0 .. N \subseteq T
    BY <2>1, <2>2, UpTo
  <2> QED
    BY <2>3 DEF T
<1>4. Has(N)
  <2> HIDE DEF Has
  <2> QED
    BY <1>3
<1> QED
  BY <1>4

\* What f does to the places up to k.
LEMMA FoldsPlace ==
  ASSUME NEW kind, NEW n \in Nat, NEW f, NEW start, NEW s, Folds(kind, f, start, s, n)
  PROVE  /\ f[1 .. 0] = start
         /\ \A k \in 1 .. n : f[1 .. k] = Step(kind, f[1 .. k - 1], s[k])
<1>1. \A T \in SUBSET (1 .. n) :
        f[T] = IF T = {} THEN start ELSE Step(kind, f[T \ {Max(T)}], s[Max(T)])
  BY FoldsApplied DEF Stepwise
<1>2. f[1 .. 0] = start
  <2>1. 1 .. 0 = {} /\ 1 .. 0 \in SUBSET (1 .. n)
    OBVIOUS
  <2> QED
    BY <1>1, <2>1
<1>3. ASSUME NEW k \in 1 .. n PROVE f[1 .. k] = Step(kind, f[1 .. k - 1], s[k])
  <2>1. PICK T : T = 1 .. k
    OBVIOUS
  <2>2. T \in SUBSET (1 .. n) /\ T # {} /\ k \in T /\ k \in Nat /\ T \in SUBSET (1 .. k)
    BY <2>1
  <2>3. Max(T) = k
    BY <2>2, GreatestPlace
  <2>4. T \ {k} = 1 .. k - 1
    BY <2>1
  <2> QED
    BY <1>1, <2>1, <2>2, <2>3, <2>4
<1> QED
  BY <1>2, <1>3

\* The result so far, as the library computes it.
AppliedUpTo(start, s) ==
  CHOOSE f : f = [T \in SUBSET (DOMAIN s) |->
                    IF T = {} THEN start ELSE Applied(f[T \ {Max(T)}], s[Max(T)])]

PromisedUpTo(start, s) ==
  CHOOSE f : f = [T \in SUBSET (DOMAIN s) |->
                    IF T = {} THEN start ELSE Promised(f[T \ {Max(T)}], s[Max(T)])]

\* The library's fold of Applied, place by place.
LEMMA AppliedFold ==
  ASSUME NEW start, NEW S, NEW s \in Seq(S)
  PROVE  /\ FoldLeft(Applied, start, s) = AppliedUpTo(start, s)[1 .. Len(s)]
         /\ Folds("rule", AppliedUpTo(start, s), start, s, Len(s))
<1>1. DOMAIN s = 1 .. Len(s) /\ Len(s) \in Nat
  OBVIOUS
<1>2. FoldLeft(Applied, start, s) = AppliedUpTo(start, s)[DOMAIN s]
  BY DEF FoldLeft, MapThenFoldSet, AppliedUpTo
<1>3. \A f : Folds("rule", f, start, s, Len(s)) <=>
        f = [T \in SUBSET (DOMAIN s) |->
               IF T = {} THEN start ELSE Applied(f[T \ {Max(T)}], s[Max(T)])]
  BY <1>1 DEF Folds, Step
<1>4. PICK f : Folds("rule", f, start, s, Len(s))
  BY <1>1, FoldsExist
<1>5. Folds("rule", AppliedUpTo(start, s), start, s, Len(s))
  BY <1>3, <1>4 DEF AppliedUpTo
<1> QED
  BY <1>1, <1>2, <1>5

\* The library's fold of Promised, place by place.
LEMMA PromisedFold ==
  ASSUME NEW start, NEW S, NEW s \in Seq(S)
  PROVE  /\ FoldLeft(Promised, start, s) = PromisedUpTo(start, s)[1 .. Len(s)]
         /\ Folds("promise", PromisedUpTo(start, s), start, s, Len(s))
<1>1. DOMAIN s = 1 .. Len(s) /\ Len(s) \in Nat
  OBVIOUS
<1>2. FoldLeft(Promised, start, s) = PromisedUpTo(start, s)[DOMAIN s]
  BY DEF FoldLeft, MapThenFoldSet, PromisedUpTo
<1>3. \A f : Folds("promise", f, start, s, Len(s)) <=>
        f = [T \in SUBSET (DOMAIN s) |->
               IF T = {} THEN start ELSE Promised(f[T \ {Max(T)}], s[Max(T)])]
  BY <1>1 DEF Folds, Step
<1>4. PICK f : Folds("promise", f, start, s, Len(s))
  BY <1>1, FoldsExist
<1>5. Folds("promise", PromisedUpTo(start, s), start, s, Len(s))
  BY <1>3, <1>4 DEF PromisedUpTo
<1> QED
  BY <1>1, <1>2, <1>5
-----------------------------------------------------------------------------
\* A game that does what it promises

\* What the driver asks of a game on the worlds it can reach and the commands each may
\* be brought: create returns what it should or nothing, and a command leads, when it
\* succeeds, to the promised world with the promised effects.
Faithful(Worlds, Inputs) ==
  /\ NoWorld \notin Worlds
  /\ \A setup \in Setups \ Foreign : Create(setup) # NoWorld =>
       Create(setup) \in Worlds /\ Create(setup) = PromisedStart(setup)
  /\ \A w \in Worlds : Ticks(w) \subseteq Seq(Inputs[w])
  /\ \A w \in Worlds : \A input \in Inputs[w] \ {Malformed} :
       /\ Rule(w, input).world \in Worlds /\ Inputs[Rule(w, input).world] = Inputs[w]
       /\ Rule(w, input).ok =>
            /\ Rule(w, input).world = Promise(w, input).world
            /\ Rule(w, input).effects = Promise(w, input).effects

\* The game stays among its worlds and, while no command has failed, has done what was promised.
Keeps(Worlds, Inputs, w, a, p) ==
  /\ a.world \in Worlds /\ Inputs[a.world] = Inputs[w]
  /\ a.ok => a.world = p.world /\ a.effects = p.effects

\* One more command keeps the promise.
LEMMA CommandKept ==
  ASSUME NEW Worlds, NEW Inputs, Faithful(Worlds, Inputs), NEW w \in Worlds,
         NEW a, NEW p, Keeps(Worlds, Inputs, w, a, p),
         NEW input \in Inputs[w] \ {Malformed}
  PROVE  Keeps(Worlds, Inputs, w, Applied(a, input), Promised(p, input))
<1>1. CASE ~a.ok
  BY <1>1 DEF Keeps, Applied
<1>2. CASE a.ok
  <2> DEFINE r == Rule(a.world, input)
  <2>1. a.world \in Worlds /\ Inputs[a.world] = Inputs[w] /\ a.world = p.world /\ a.effects = p.effects
    BY <1>2 DEF Keeps
  <2>2. /\ r.world \in Worlds /\ Inputs[r.world] = Inputs[w]
        /\ r.ok => r.world = Promise(a.world, input).world /\ r.effects = Promise(a.world, input).effects
    BY <2>1 DEF Faithful
  <2>3. Applied(a, input) = [ok |-> r.ok, world |-> r.world, effects |-> a.effects \o r.effects]
    BY <1>2 DEF Applied
  <2>4. /\ Promised(p, input).world = Promise(a.world, input).world
        /\ Promised(p, input).effects = a.effects \o Promise(a.world, input).effects
    BY <2>1 DEF Promised
  <2> HIDE DEF r
  <2> DEFINE A == Applied(a, input)
             P == Promised(p, input)
  <2>5. A.ok = r.ok /\ A.world = r.world /\ A.effects = a.effects \o r.effects
    <3>1. PICK e : e = a.effects \o r.effects
      OBVIOUS
    <3>2. PICK o, u : o = r.ok /\ u = r.world
      OBVIOUS
    <3>3. A = [ok |-> o, world |-> u, effects |-> e]
      BY <2>3, <3>1, <3>2
    <3> HIDE DEF A
    <3>4. A.ok = o /\ A.world = u /\ A.effects = e
      BY ONLY <3>3
    <3> QED
      BY <3>1, <3>2, <3>4
  <2>6. r.ok => r.world = P.world /\ A.effects = P.effects
    BY <2>2, <2>4, <2>5
  <2> HIDE DEF A, P
  <2>7. Keeps(Worlds, Inputs, w, A, P)
    BY <2>2, <2>5, <2>6 DEF Keeps
  <2> QED
    BY <2>7 DEF A, P
<1> QED
  BY <1>1, <1>2

\* A whole tick keeps it.
LEMMA TickKept ==
  ASSUME NEW Worlds, NEW Inputs, Faithful(Worlds, Inputs), NEW w \in Worlds,
         NEW inputs \in Ticks(w), Decodes(inputs)
  PROVE  Keeps(Worlds, Inputs, w, AppliedTick(w, <<>>, inputs), PromisedTick(w, inputs))
<1> DEFINE a == [ok |-> TRUE, world |-> w, effects |-> <<>>]
           p == [world |-> w, effects |-> <<>>]
           A == AppliedUpTo(a, inputs)
           P == PromisedUpTo(p, inputs)
           Fine(k) == Keeps(Worlds, Inputs, w, A[1 .. k], P[1 .. k])
           Held == {k \in 0 .. Len(inputs) : Fine(k)}
<1>1. inputs \in Seq(Inputs[w])
  BY DEF Faithful
<1>2. /\ Len(inputs) \in Nat
      /\ \A k \in 1 .. Len(inputs) : inputs[k] \in Inputs[w] \ {Malformed}
  BY <1>1 DEF Decodes
<1>3. /\ AppliedTick(w, <<>>, inputs) = A[1 .. Len(inputs)]
      /\ Folds("rule", A, a, inputs, Len(inputs))
  BY <1>1, AppliedFold DEF AppliedTick
<1>4. /\ PromisedTick(w, inputs) = P[1 .. Len(inputs)]
      /\ Folds("promise", P, p, inputs, Len(inputs))
  BY <1>1, PromisedFold DEF PromisedTick
<1>5. Fine(0)
  <2>1. A[1 .. 0] = a /\ P[1 .. 0] = p
    BY <1>2, <1>3, <1>4, FoldsPlace
  <2> QED
    BY <2>1 DEF Keeps
<1> HIDE DEF A, P, a, p
<1>6. ASSUME NEW k \in 1 .. Len(inputs), Fine(k - 1) PROVE Fine(k)
  <2>1. /\ A[1 .. k] = Step("rule", A[1 .. k - 1], inputs[k])
        /\ P[1 .. k] = Step("promise", P[1 .. k - 1], inputs[k])
    BY <1>2, <1>3, <1>4, FoldsPlace
  <2>2. /\ A[1 .. k] = Applied(A[1 .. k - 1], inputs[k])
        /\ P[1 .. k] = Promised(P[1 .. k - 1], inputs[k])
    BY <2>1 DEF Step
  <2>3. inputs[k] \in Inputs[w] \ {Malformed}
    BY <1>2
  <2>4. Keeps(Worlds, Inputs, w, Applied(A[1 .. k - 1], inputs[k]), Promised(P[1 .. k - 1], inputs[k]))
    BY ONLY <1>6, <2>3, CommandKept, Faithful(Worlds, Inputs), w \in Worlds
  <2> QED
    BY <2>2, <2>4
<1> HIDE DEF Fine
<1>7. Fine(Len(inputs))
  <2>1. 0 .. Len(inputs) \subseteq Held
    <3>1. 0 \in Held
      BY <1>2, <1>5
    <3>2. \A k \in 1 .. Len(inputs) : k - 1 \in Held => k \in Held
      BY <1>6
    <3> HIDE DEF Held
    <3> QED
      BY <1>2, <3>1, <3>2, UpTo
  <2>2. Len(inputs) \in 0 .. Len(inputs)
    BY <1>2
  <2> QED
    BY <2>1, <2>2
<1> QED
  BY <1>3, <1>4, <1>7 DEF Fine

\* What such a game may be promised for the start and for a tick.
Entries(Worlds) ==
  {[world |-> PromisedStart(setup), effects |-> <<>>] : setup \in Setups}
  \cup UNION {{PromisedTick(w, inputs) : inputs \in Ticks(w)} : w \in Worlds}

\* What the presentation may animate.
Shown(Worlds) == [tick : Nat, effects : {<<>>} \cup {e.effects : e \in Entries(Worlds)}]

-----------------------------------------------------------------------------
\* The inductive invariant

\* As long as no step of the current tick has failed the world is the promised one of
\* the tick reached, and the effects are those the snapshot will carry.
WorldInv(Worlds) ==
  /\ failed \in BOOLEAN /\ base \in Nat /\ past \in Seq(Entries(Worlds))
  /\ phase = "new" => past = <<>> /\ pc = "rest" /\ ~failed
  /\ phase \in {"replay", "live"} => world \in Worlds
  /\ (phase \in {"replay", "live"} /\ pc = "rest") => ~failed
  /\ (phase \in {"replay", "live"} /\ ~failed) =>
       tick \in 0..MaxTicks /\ Len(past) = tick + 1 /\ past[tick + 1].world = world
  /\ phase = "live" => base < Len(past)
  /\ pc = "publish" => base < tick /\ past[tick + 1].effects = effects

\* The readers' slot is one tick behind only between a tick and its publication.
SlotInv ==
  /\ phase \in {"new", "replay"} => slot = NoWorld /\ lit = <<>>
  /\ pc = "publish" => slot.tick = tick - 1
  /\ (phase = "live" /\ pc # "publish" /\ ~failed) => slot.tick = tick
  /\ slot # NoWorld =>
       /\ slot.tick \in base..(Len(past) - 1)
       /\ slot.world = past[slot.tick + 1].world
       /\ slot.effects = IF slot.tick = base THEN <<>> ELSE past[slot.tick + 1].effects

\* Nothing animated is ahead of the slot or of the history.
LitInv(Worlds) ==
  /\ lit \in Seq(Shown(Worlds))
  /\ \A i \in DOMAIN lit : lit[i].tick <= slot.tick /\ lit[i].tick < Len(past)
  /\ FlashedOnce

GameInv(Worlds) == TypeOK /\ CleanAtRest /\ WorldInv(Worlds) /\ SlotInv /\ LitInv(Worlds)

\* An element is added behind the others.
LEMMA Appended ==
  ASSUME NEW S, NEW s \in Seq(S), NEW e \in S
  PROVE  /\ Append(s, e) \in Seq(S) /\ Len(Append(s, e)) = Len(s) + 1 /\ Len(s) \in Nat
         /\ Append(s, e)[Len(s) + 1] = e
         /\ \A i \in 1 .. Len(s) : Append(s, e)[i] = s[i]
  OBVIOUS

\* A session starts with no world and an empty past.
LEMMA GameInit == ASSUME NEW Worlds PROVE Init => GameInv(Worlds)
<1> SUFFICES ASSUME Init PROVE GameInv(Worlds)
  OBVIOUS
<1>1. <<>> \in Seq(Entries(Worlds)) /\ <<>> \in Seq(Shown(Worlds)) /\ DOMAIN <<>> = {} /\ 0 \in Nat
  OBVIOUS
<1>2. TypeOK
  BY TicksAssumption DEF Init, TypeOK
<1>3. CleanAtRest
  BY DEF Init, CleanAtRest
<1>4. WorldInv(Worlds)
  BY <1>1 DEF Init, WorldInv
<1>5. SlotInv
  BY DEF Init, SlotInv
<1>6. LitInv(Worlds)
  BY <1>1 DEF Init, LitInv, FlashedOnce
<1> QED
  BY <1>2, <1>3, <1>4, <1>5, <1>6 DEF GameInv

-----------------------------------------------------------------------------
\* The steps that change the world

\* The game is created on the board it should be created on, or the session ends.
LEMMA InitializeShape ==
  ASSUME NEW Worlds, NEW Inputs, Faithful(Worlds, Inputs), NEW setup \in Setups, NEW start, Initialize(setup, start)
  PROVE  /\ phase = "new" /\ UNCHANGED <<pc, visible, effects, failed, slot, lit, base>>
         /\ \/ phase' = "ended" /\ UNCHANGED past
            \/ /\ phase' = "replay" /\ tick' = 0 /\ world' \in Worlds
               /\ \E e \in Entries(Worlds) : e.world = world' /\ past' = <<e>>
<1>1. /\ phase = "new" /\ UNCHANGED <<pc, visible, effects, failed, slot, lit, base>>
      /\ \/ phase' = "ended" /\ UNCHANGED past
         \/ /\ setup \notin Foreign /\ Create(setup) # NoWorld /\ start = 0
            /\ phase' = "replay" /\ world' = Create(setup) /\ tick' = start
            /\ past' = <<[world |-> PromisedStart(setup), effects |-> <<>>]>>
  BY DEF Initialize, sim
<1>2. ASSUME setup \notin Foreign, Create(setup) # NoWorld, world' = Create(setup),
             past' = <<[world |-> PromisedStart(setup), effects |-> <<>>]>>
      PROVE  world' \in Worlds /\ \E e \in Entries(Worlds) : e.world = world' /\ past' = <<e>>
  <2>1. Create(setup) \in Worlds /\ Create(setup) = PromisedStart(setup)
    BY <1>2 DEF Faithful
  <2>2. [world |-> PromisedStart(setup), effects |-> <<>>] \in Entries(Worlds)
    BY DEF Entries
  <2>3. [world |-> PromisedStart(setup), effects |-> <<>>].world = world'
    BY <1>2, <2>1
  <2> QED
    BY <1>2, <2>1, <2>2, <2>3
<1> QED
  BY <1>1, <1>2

\* A tick that succeeds reaches the promised world of the next tick with its effects.
LEMMA AdvanceShape ==
  ASSUME NEW Worlds, NEW Inputs, Faithful(Worlds, Inputs), GameInv(Worlds), NEW t, NEW inputs \in Ticks(world),
         Advance(t, inputs)
  PROVE  /\ phase \in {"replay", "live"} /\ pc = "rest" /\ UNCHANGED <<phase, slot, lit, base>>
         /\ failed' \in BOOLEAN /\ world' \in Worlds
         /\ pc' = IF failed' \/ phase = "replay" THEN "finish" ELSE "publish"
         /\ failed' => past' = past
         /\ ~failed' =>
              /\ tick' = tick + 1
              /\ \E e \in Entries(Worlds) :
                   e.world = world' /\ e.effects = effects' /\ past' = Append(past, e)
<1>1. /\ phase \in {"replay", "live"} /\ pc = "rest" /\ UNCHANGED <<phase, slot, lit, base>>
      /\ pc' = IF failed' \/ phase = "replay" THEN "finish" ELSE "publish"
      /\ t = tick + 1
  BY DEF Advance, Continuous
<1>2. world \in Worlds /\ effects = <<>> /\ past \in Seq(Entries(Worlds)) /\ ~failed
      /\ tick \in Nat /\ Len(past) = tick + 1 /\ past[tick + 1].world = world
  BY <1>1, TicksAssumption DEF GameInv, WorldInv, CleanAtRest
<1>3. PromisedTick(world, inputs) \in Entries(Worlds)
  BY <1>2 DEF Entries
<1>4. CASE Decodes(inputs)
  <2> DEFINE r == AppliedTick(world, <<>>, inputs)
  <2>1. /\ world' = r.world /\ effects' = r.effects
        /\ failed' = (~r.ok \/ tick' # t)
        /\ past' = IF failed' THEN past
                   ELSE Append(past, PromisedTick(Last(past).world, inputs))
    BY <1>2, <1>4 DEF Advance
  <2>2. r.world \in Worlds
        /\ (r.ok => r.world = PromisedTick(world, inputs).world
                    /\ r.effects = PromisedTick(world, inputs).effects)
    BY <1>2, <1>4, TickKept DEF Keeps
  <2>3. failed' \in BOOLEAN /\ (~failed' => r.ok /\ tick' = t)
    BY <2>1
  <2>4. Last(past).world = world
    BY <1>2 DEF Last
  <2> HIDE DEF r
  <2> QED
    BY <1>1, <1>3, <2>1, <2>2, <2>3, <2>4
<1>5. CASE ~Decodes(inputs)
  <2>1. failed' = TRUE /\ past' = past /\ world' = world
    BY <1>5 DEF Advance, sim
  <2> QED
    BY <1>1, <1>2, <2>1
<1> QED
  BY <1>4, <1>5
-----------------------------------------------------------------------------
\* Every step keeps the invariant

\* The driver's own state stays well formed.
LEMMA TypeStep ==
  ASSUME NEW Worlds, NEW Inputs, Faithful(Worlds, Inputs), GameInv(Worlds), WorldInv(Worlds)', [Next]_vars
  PROVE  TypeOK'
<1> SUFFICES /\ phase' \in {"new", "replay", "live", "ended"}
             /\ pc' \in {"rest", "publish", "finish"}
             /\ pc' # "rest" => phase' \in {"replay", "live"}
             /\ pc' = "publish" => phase' = "live" /\ ~failed'
             /\ base' \in 0 .. MaxTicks
  <2>1. phase' \in {"replay", "live"} => world' # NoWorld
    BY DEF WorldInv, Faithful
  <2>2. phase' \in {"replay", "live"} /\ ~failed' => Len(past') = tick' + 1
    BY DEF WorldInv
  <2> QED
    BY <2>1, <2>2 DEF TypeOK
<1>a. /\ phase \in {"new", "replay", "live", "ended"} /\ pc \in {"rest", "publish", "finish"}
      /\ pc # "rest" => phase \in {"replay", "live"}
      /\ pc = "publish" => phase = "live" /\ ~failed
      /\ base \in 0 .. MaxTicks
  BY DEF GameInv, TypeOK
<1>b. /\ phase = "new" => pc = "rest"
      /\ (phase = "replay" /\ pc = "rest") => tick \in 0 .. MaxTicks
  BY DEF GameInv, WorldInv
<1>1. ASSUME NEW setup \in Setups, NEW start, Initialize(setup, start)
      PROVE  phase' \in {"replay", "ended"} /\ pc' = "rest" /\ base' = base
  BY <1>1, <1>b, InitializeShape
<1>2. ASSUME NEW t, Refuse(t)
      PROVE  phase' = "ended" /\ pc' = "rest" /\ base' = base
  BY <1>2 DEF Refuse
<1>3. ASSUME NEW t, NEW inputs \in Ticks(world), Advance(t, inputs)
      PROVE  /\ phase' = phase /\ phase \in {"replay", "live"} /\ base' = base
             /\ pc' = IF failed' \/ phase = "replay" THEN "finish" ELSE "publish"
  BY <1>3, AdvanceShape
<1>4. ASSUME NEW ok \in BOOLEAN, Publish(ok)
      PROVE  pc = "publish" /\ pc' = "finish" /\ phase' = phase /\ base' = base
  BY <1>4 DEF Publish
<1>5. ASSUME Finish
      PROVE  pc' = "rest" /\ phase' \in {phase, "ended"} /\ base' = base
  BY <1>5 DEF Finish
<1>6. ASSUME NEW ok \in BOOLEAN, GoLive(ok)
      PROVE  phase = "replay" /\ pc' = "rest" /\ phase' \in {"live", "ended"} /\ base' = tick /\ pc = "rest"
  BY <1>6 DEF GoLive
<1>7. ASSUME End PROVE pc' = "rest" /\ phase' = "ended" /\ base' = base
  BY <1>7 DEF End
<1>8. ASSUME Animate \/ UNCHANGED vars PROVE UNCHANGED <<phase, pc, base, failed>>
  BY <1>8 DEF Animate, vars
<1> QED
  BY <1>a, <1>b, <1>1, <1>2, <1>3, <1>4, <1>5, <1>6, <1>7, <1>8 DEF Next, Done

\* The world stays the promised one until a part of a tick fails.
LEMMA WorldStep ==
  ASSUME NEW Worlds, NEW Inputs, Faithful(Worlds, Inputs), GameInv(Worlds), [Next]_vars
  PROVE  WorldInv(Worlds)'
<1>a. WorldInv(Worlds) /\ TypeOK /\ CleanAtRest
  BY DEF GameInv
<1>1. ASSUME NEW setup \in Setups, NEW start, Initialize(setup, start)
      PROVE  WorldInv(Worlds)'
  <2>1. /\ phase = "new" /\ UNCHANGED <<pc, failed, base>>
        /\ past = <<>> /\ pc = "rest" /\ ~failed /\ base \in Nat /\ failed \in BOOLEAN
        /\ past \in Seq(Entries(Worlds))
    BY <1>1, <1>a, InitializeShape DEF WorldInv
  <2>2. CASE phase' = "ended" /\ UNCHANGED past
    BY <2>1, <2>2 DEF WorldInv
  <2>3. CASE /\ phase' = "replay" /\ tick' = 0 /\ world' \in Worlds
             /\ \E e \in Entries(Worlds) : e.world = world' /\ past' = <<e>>
    <3>1. PICK e \in Entries(Worlds) : e.world = world' /\ past' = <<e>>
      BY <2>3
    <3>2. past' \in Seq(Entries(Worlds)) /\ Len(past') = 0 + 1 /\ past'[0 + 1].world = world'
      BY <3>1
    <3>3. 0 \in 0 .. MaxTicks
      BY TicksAssumption
    <3> QED
      BY <2>1, <2>3, <3>2, <3>3 DEF WorldInv
  <2> QED
    BY <1>1, <2>2, <2>3, InitializeShape
<1>2. ASSUME NEW t, Refuse(t) PROVE WorldInv(Worlds)'
  BY <1>2, <1>a DEF Refuse, sim, WorldInv
<1>3. ASSUME NEW t, NEW inputs \in Ticks(world), Advance(t, inputs), tick < MaxTicks
      PROVE  WorldInv(Worlds)'
  <2>1. /\ phase \in {"replay", "live"} /\ pc = "rest" /\ UNCHANGED <<phase, slot, lit, base>>
        /\ failed' \in BOOLEAN /\ world' \in Worlds
        /\ pc' = IF failed' \/ phase = "replay" THEN "finish" ELSE "publish"
        /\ failed' => past' = past
        /\ ~failed' =>
             /\ tick' = tick + 1
             /\ \E e \in Entries(Worlds) :
                  e.world = world' /\ e.effects = effects' /\ past' = Append(past, e)
    BY <1>3, AdvanceShape
  <2>2. /\ ~failed /\ base \in Nat /\ past \in Seq(Entries(Worlds))
        /\ tick \in 0 .. MaxTicks /\ Len(past) = tick + 1
        /\ phase = "live" => base < Len(past)
    BY <1>a, <2>1 DEF WorldInv
  <2>3. CASE failed'
    BY <2>1, <2>2, <2>3 DEF WorldInv
  <2>4. CASE ~failed'
    <3>1. PICK e \in Entries(Worlds) :
            e.world = world' /\ e.effects = effects' /\ past' = Append(past, e)
      BY <2>1, <2>4
    <3>2. /\ past' \in Seq(Entries(Worlds)) /\ Len(past') = tick' + 1
          /\ past'[tick' + 1].world = world' /\ past'[tick' + 1].effects = effects'
      BY <2>1, <2>2, <2>4, <3>1, Appended
    <3>3. tick' \in 0 .. MaxTicks /\ (phase = "live" => base < tick')
      BY <1>3, <2>1, <2>2, <2>4, TicksAssumption
    <3> QED
      BY <2>1, <2>2, <2>4, <3>2, <3>3 DEF WorldInv
  <2> QED
    BY <2>3, <2>4
<1>4. ASSUME NEW ok \in BOOLEAN, Publish(ok) PROVE WorldInv(Worlds)'
  <2>1. failed' \in BOOLEAN
    BY <1>4, Zenon DEF Publish
  <2>2. /\ pc = "publish" /\ pc' = "finish"
        /\ UNCHANGED <<phase, tick, world, past, base>>
    BY <1>4 DEF Publish, sim
  <2>3. phase = "live" /\ ~failed
    BY <1>a, <2>2 DEF TypeOK
  <2> QED
    BY <1>a, <2>1, <2>2, <2>3 DEF WorldInv
<1>5. CASE Finish
  BY <1>5, <1>a DEF Finish, WorldInv
<1>6. ASSUME NEW ok \in BOOLEAN, GoLive(ok) PROVE WorldInv(Worlds)'
  BY <1>6, <1>a, TicksAssumption DEF GoLive, sim, WorldInv
<1>7. CASE End
  BY <1>7, <1>a DEF End, sim, WorldInv
<1>8. CASE Animate \/ UNCHANGED vars
  BY <1>8, <1>a DEF Animate, vars, sim, WorldInv
<1> QED
  BY <1>1, <1>2, <1>3, <1>4, <1>5, <1>6, <1>7, <1>8 DEF Next, Done

\* The history only grows.
LEMMA PastGrows ==
  ASSUME NEW Worlds, NEW Inputs, Faithful(Worlds, Inputs), GameInv(Worlds), [Next]_vars, phase # "new"
  PROVE  /\ Len(past) \in Nat /\ Len(past') \in Nat /\ Len(past) <= Len(past')
         /\ \A i \in 1 .. Len(past) : past'[i] = past[i]
<1>a. past \in Seq(Entries(Worlds)) /\ Len(past) \in Nat
  BY DEF GameInv, WorldInv
<1>1. ASSUME NEW t, NEW inputs \in Ticks(world), Advance(t, inputs)
      PROVE  past' = past \/ \E e \in Entries(Worlds) : past' = Append(past, e)
  BY <1>1, AdvanceShape
<1>2. past' = past \/ \E e \in Entries(Worlds) : past' = Append(past, e)
  <2>1. ASSUME NEW setup, NEW start, Initialize(setup, start) PROVE FALSE
    BY <2>1 DEF Initialize
  <2>2. ASSUME NEW t, Refuse(t) PROVE past' = past
    BY <2>2 DEF Refuse
  <2>3. ASSUME NEW ok, Publish(ok) \/ GoLive(ok) PROVE past' = past
    BY <2>3 DEF Publish, GoLive
  <2>4. ASSUME Finish \/ End \/ Animate \/ UNCHANGED vars PROVE past' = past
    BY <2>4 DEF Finish, End, Animate, vars
  <2> QED
    BY <1>1, <2>1, <2>2, <2>3, <2>4 DEF Next, Done
<1> QED
  BY <1>a, <1>2, Appended
\* What a reader loads is kept, and replaced by that of the tick just taken.
LEMMA SlotStep ==
  ASSUME NEW Worlds, NEW Inputs, Faithful(Worlds, Inputs), GameInv(Worlds), [Next]_vars
  PROVE  SlotInv'
<1>a. WorldInv(Worlds) /\ TypeOK /\ CleanAtRest /\ SlotInv
  BY DEF GameInv
<1>b. ASSUME phase # "new", slot' = slot, base' = base
      PROVE  slot' # NoWorld =>
               /\ slot'.tick \in base' .. (Len(past') - 1)
               /\ slot'.world = past'[slot'.tick + 1].world
               /\ slot'.effects = IF slot'.tick = base' THEN <<>> ELSE past'[slot'.tick + 1].effects
  <2>1. SUFFICES ASSUME slot # NoWorld
        PROVE  /\ slot.tick \in base .. (Len(past') - 1)
               /\ slot.world = past'[slot.tick + 1].world
               /\ slot.effects = IF slot.tick = base THEN <<>> ELSE past'[slot.tick + 1].effects
    BY <1>b
  <2>2. /\ slot.tick \in base .. (Len(past) - 1) /\ base \in Nat
        /\ slot.world = past[slot.tick + 1].world
        /\ slot.effects = IF slot.tick = base THEN <<>> ELSE past[slot.tick + 1].effects
    BY <1>a, <2>1 DEF SlotInv, WorldInv
  <2>3. /\ Len(past) \in Nat /\ Len(past') \in Nat /\ Len(past) <= Len(past')
        /\ \A i \in 1 .. Len(past) : past'[i] = past[i]
    BY <1>b, PastGrows
  <2>4. (slot.tick + 1) \in 1 .. Len(past) /\ slot.tick \in base .. (Len(past') - 1)
    BY <2>2, <2>3
  <2> QED
    BY <2>2, <2>3, <2>4
<1>1. ASSUME NEW setup \in Setups, NEW start, Initialize(setup, start) PROVE SlotInv'
  <2>1. phase = "new" /\ pc = "rest" /\ UNCHANGED <<pc, slot, lit>> /\ phase' \in {"replay", "ended"}
    BY <1>1, <1>a, InitializeShape DEF WorldInv
  <2>2. slot = NoWorld /\ lit = <<>>
    BY <1>a, <2>1 DEF SlotInv
  <2> QED
    BY <2>1, <2>2 DEF SlotInv
<1>2. ASSUME NEW t, Refuse(t) PROVE SlotInv'
  BY <1>2, <1>a DEF Refuse, sim, SlotInv
<1>3. ASSUME NEW t, NEW inputs \in Ticks(world), Advance(t, inputs) PROVE SlotInv'
  <2>1. /\ phase \in {"replay", "live"} /\ pc = "rest" /\ UNCHANGED <<phase, slot, lit, base>>
        /\ pc' = IF failed' \/ phase = "replay" THEN "finish" ELSE "publish"
        /\ ~failed' => tick' = tick + 1
    BY <1>3, AdvanceShape
  <2>2. /\ phase \in {"new", "replay"} => slot = NoWorld /\ lit = <<>>
        /\ phase = "live" => slot.tick = tick
        /\ tick \in 0 .. MaxTicks
    BY <1>a, <2>1 DEF SlotInv, WorldInv
  <2>3. pc' = "publish" => phase = "live" /\ ~failed'
    BY <2>1
  <2>4. pc' = "publish" => slot'.tick = tick' - 1
    BY <2>1, <2>2, <2>3, TicksAssumption
  <2>5. ~(phase' = "live" /\ pc' # "publish" /\ ~failed')
    BY <2>1
  <2> QED
    BY <1>b, <2>1, <2>2, <2>4, <2>5 DEF SlotInv
<1>4. ASSUME NEW ok \in BOOLEAN, Publish(ok) PROVE SlotInv'
  <2>1. /\ pc = "publish" /\ pc' = "finish" /\ UNCHANGED <<phase, tick, world, effects, past, base>>
        /\ slot' = (IF ok THEN Snapshot ELSE slot)
    BY <1>4 DEF Publish, sim
  <2>2. failed' = ~ok
    BY <1>4, Zenon DEF Publish
  <2>3. phase = "live" /\ ~failed
    BY <1>a, <2>1 DEF TypeOK
  <2>4. CASE ok
    <3>1. slot'.tick = tick /\ slot'.world = world /\ slot'.effects = effects
      BY <2>1, <2>4 DEF Snapshot
    <3>2. /\ tick \in 0 .. MaxTicks /\ Len(past) = tick + 1 /\ past[tick + 1].world = world
          /\ base < tick /\ past[tick + 1].effects = effects /\ base \in Nat
      BY <1>a, <2>1, <2>3 DEF WorldInv
    <3>3. tick \in base .. (Len(past) - 1)
      BY <3>2, TicksAssumption
    <3> QED
      BY <2>1, <2>3, <3>1, <3>2, <3>3 DEF SlotInv
  <2>5. CASE ~ok
    <3>1. slot' = slot
      BY <2>1, <2>5
    <3>2. failed'
      BY <2>2, <2>5, Zenon
    <3> QED
      BY <1>b, <2>1, <2>3, <3>1, <3>2 DEF SlotInv
  <2> QED
    BY <2>4, <2>5
<1>5. CASE Finish
  <2>1. /\ pc = "finish" /\ pc' = "rest" /\ UNCHANGED <<tick, failed, slot, lit, past, base>>
        /\ phase' = IF failed THEN "ended" ELSE phase
    BY <1>5 DEF Finish
  <2> QED
    BY <1>a, <2>1 DEF SlotInv, TypeOK
<1>6. ASSUME NEW ok \in BOOLEAN, GoLive(ok) PROVE SlotInv'
  <2>1. /\ phase = "replay" /\ pc = "rest" /\ UNCHANGED <<pc, tick, world, effects, failed, lit, past>>
        /\ phase' = (IF ok THEN "live" ELSE "ended") /\ base' = tick
        /\ slot' = (IF ok THEN Snapshot ELSE slot)
    BY <1>6 DEF GoLive, sim
  <2>2. /\ slot = NoWorld /\ effects = <<>> /\ tick \in 0 .. MaxTicks
        /\ Len(past) = tick + 1 /\ past[tick + 1].world = world
    BY <1>a, <2>1 DEF SlotInv, CleanAtRest, WorldInv
  <2>3. CASE ok
    <3>1. slot'.tick = tick /\ slot'.world = world /\ slot'.effects = <<>> /\ phase' = "live"
      BY <2>1, <2>2, <2>3 DEF Snapshot
    <3>2. tick \in tick .. (Len(past) - 1)
      BY <2>2, TicksAssumption
    <3> QED
      BY <2>1, <2>2, <3>1, <3>2 DEF SlotInv
  <2>4. CASE ~ok
    BY <2>1, <2>2, <2>4 DEF SlotInv
  <2> QED
    BY <2>3, <2>4
<1>7. CASE End
  BY <1>7, <1>a DEF End, sim, SlotInv
<1>8. CASE Animate \/ UNCHANGED vars
  <2>1. UNCHANGED <<phase, pc, tick, failed, slot, past, base>>
    BY <1>8 DEF Animate, vars, sim
  <2>2. phase \in {"new", "replay"} => slot = NoWorld /\ lit' = lit
    BY <1>8, <1>a DEF Animate, vars, SlotInv
  <2> QED
    BY <1>a, <2>1, <2>2 DEF SlotInv
<1> QED
  BY <1>1, <1>2, <1>3, <1>4, <1>5, <1>6, <1>7, <1>8 DEF Next, Done
\* Frames animate the slot's tick if it is another than the last one they animated.
LEMMA LitStep ==
  ASSUME NEW Worlds, NEW Inputs, Faithful(Worlds, Inputs), GameInv(Worlds), [Next]_vars
  PROVE  LitInv(Worlds)'
<1>a. WorldInv(Worlds) /\ TypeOK /\ CleanAtRest /\ SlotInv /\ LitInv(Worlds)
  BY DEF GameInv
<1>b. ASSUME lit = <<>>, lit' = lit PROVE LitInv(Worlds)'
  <2>1. lit' \in Seq(Shown(Worlds)) /\ DOMAIN lit' = {}
    BY <1>b
  <2> QED
    BY <2>1 DEF LitInv, FlashedOnce
<1>c. ASSUME phase # "new", lit' = lit, slot' = slot PROVE LitInv(Worlds)'
  <2>1. /\ Len(past) \in Nat /\ Len(past') \in Nat /\ Len(past) <= Len(past')
        /\ \A i \in 1 .. Len(past) : past'[i] = past[i]
    BY <1>c, PastGrows
  <2>2. ASSUME NEW i \in DOMAIN lit
        PROVE  /\ lit[i].tick <= slot.tick /\ lit[i].tick < Len(past')
               /\ lit[i].effects \in {<<>>, past'[lit[i].tick + 1].effects}
    <3>1. /\ lit[i].tick \in Nat /\ lit[i].tick <= slot.tick /\ lit[i].tick < Len(past)
          /\ lit[i].effects \in {<<>>, past[lit[i].tick + 1].effects}
      <4>1. lit[i] \in Shown(Worlds)
        BY <1>a DEF LitInv
      <4> QED
        BY <1>a, <4>1 DEF LitInv, FlashedOnce, Shown
    <3>2. (lit[i].tick + 1) \in 1 .. Len(past)
      BY <2>1, <3>1
    <3> QED
      BY <2>1, <3>1, <3>2
  <2> QED
    BY <1>a, <1>c, <2>2 DEF LitInv, FlashedOnce
<1>1. ASSUME NEW setup \in Setups, NEW start, Initialize(setup, start) PROVE LitInv(Worlds)'
  <2>1. phase = "new" /\ lit' = lit
    BY <1>1, InitializeShape
  <2> QED
    BY <1>a, <1>b, <2>1 DEF SlotInv
<1>2. ASSUME NEW t, Refuse(t) PROVE LitInv(Worlds)'
  <2>1. phase # "new" /\ UNCHANGED <<lit, slot>>
    BY <1>2 DEF Refuse
  <2> QED
    BY <1>c, <2>1
<1>3. ASSUME NEW t, NEW inputs \in Ticks(world), Advance(t, inputs) PROVE LitInv(Worlds)'
  <2>1. phase # "new" /\ UNCHANGED <<lit, slot>>
    BY <1>3 DEF Advance
  <2> QED
    BY <1>c, <2>1
<1>4. ASSUME NEW ok \in BOOLEAN, Publish(ok) PROVE LitInv(Worlds)'
  <2>1. /\ pc = "publish" /\ UNCHANGED <<tick, lit, past>>
        /\ slot' = (IF ok THEN Snapshot ELSE slot)
    BY <1>4 DEF Publish, sim
  <2>2. phase = "live" /\ ~failed /\ slot.tick = tick - 1 /\ tick \in 0 .. MaxTicks
    BY <1>a, <2>1 DEF TypeOK, SlotInv, WorldInv
  <2>3. CASE ok
    <3>1. slot'.tick = tick
      BY <2>1, <2>3 DEF Snapshot
    <3>2. ASSUME NEW i \in DOMAIN lit PROVE lit[i].tick <= tick
      <4>1. lit[i] \in Shown(Worlds) /\ lit[i].tick <= tick - 1
        BY <1>a, <2>2 DEF LitInv
      <4> QED
        BY <2>2, <4>1, TicksAssumption DEF Shown
    <3> QED
      BY <1>a, <2>1, <3>1, <3>2 DEF LitInv, FlashedOnce
  <2>4. CASE ~ok
    BY <1>c, <2>1, <2>2, <2>4
  <2> QED
    BY <2>3, <2>4
<1>5. CASE Finish
  <2>1. phase # "new" /\ UNCHANGED <<lit, slot>>
    BY <1>5, <1>a DEF Finish, TypeOK
  <2> QED
    BY <1>c, <2>1
<1>6. ASSUME NEW ok \in BOOLEAN, GoLive(ok) PROVE LitInv(Worlds)'
  <2>1. phase = "replay" /\ lit' = lit
    BY <1>6 DEF GoLive
  <2> QED
    BY <1>a, <1>b, <2>1 DEF SlotInv
<1>7. CASE End
  <2>1. UNCHANGED <<lit, slot, past>>
    BY <1>7 DEF End
  <2> QED
    BY <1>a, <2>1 DEF LitInv, FlashedOnce
<1>8. CASE Animate
  <2>1. /\ slot # NoWorld /\ Fresh /\ UNCHANGED <<slot, past>>
        /\ lit' = Append(lit, [tick |-> slot.tick, effects |-> slot.effects])
    BY <1>8 DEF Animate
  <2>2. /\ slot.tick \in Nat /\ slot.tick < Len(past) /\ Len(past) \in Nat
        /\ slot.effects \in {<<>>, past[slot.tick + 1].effects}
    BY <1>a, <2>1 DEF SlotInv, WorldInv
  <2>3. PICK shown : shown = [tick |-> slot.tick, effects |-> slot.effects]
    OBVIOUS
  <2>4. shown \in Shown(Worlds) /\ shown.tick = slot.tick /\ shown.effects = slot.effects
    <3>1. (slot.tick + 1) \in DOMAIN past /\ past \in Seq(Entries(Worlds))
      BY <1>a, <2>2 DEF WorldInv
    <3>2. past[slot.tick + 1] \in Entries(Worlds)
      BY <3>1
    <3>3. slot.effects \in {<<>>} \cup {e.effects : e \in Entries(Worlds)}
      BY <2>2, <3>2
    <3> QED
      BY <2>2, <2>3, <3>3 DEF Shown
  <2>5. lit \in Seq(Shown(Worlds)) /\ Len(lit) \in Nat /\ DOMAIN lit = 1 .. Len(lit)
    BY <1>a DEF LitInv
  <2>6. ASSUME NEW i \in 1 .. Len(lit)
        PROVE  lit[i].tick \in Nat /\ lit[i].tick < slot.tick
    <3>1. lit[i].tick \in Nat /\ lit[i].tick <= slot.tick
      <4>1. lit[i] \in Shown(Worlds)
        BY <2>5
      <4> QED
        BY <1>a, <2>5, <4>1 DEF Shown, LitInv
    <3>2. lit[Len(lit)].tick \in Nat /\ lit[Len(lit)].tick # slot.tick /\ lit[Len(lit)].tick <= slot.tick
      <4>1. Len(lit) \in 1 .. Len(lit) /\ lit # <<>>
        BY <2>5
      <4>2. lit[Len(lit)].tick # slot.tick
        BY <2>1, <4>1 DEF Fresh, Last
      <4>3. lit[Len(lit)] \in Shown(Worlds)
        BY <2>5, <4>1
      <4> QED
        BY <1>a, <2>5, <4>1, <4>2, <4>3 DEF Shown, LitInv
    <3>3. i < Len(lit) => lit[i].tick < lit[Len(lit)].tick
      <4>1. Len(lit) \in 1 .. Len(lit)
        BY <2>5
      <4> QED
        BY <1>a, <2>5, <4>1 DEF LitInv, FlashedOnce
    <3> QED
      BY <2>2, <2>5, <3>1, <3>2, <3>3
  <2>7. /\ lit' \in Seq(Shown(Worlds)) /\ DOMAIN lit' = 1 .. (Len(lit) + 1)
        /\ lit'[Len(lit) + 1] = shown
        /\ \A i \in 1 .. Len(lit) : lit'[i] = lit[i]
    BY <2>1, <2>3, <2>4, <2>5, Appended
  <2>8. ASSUME NEW i \in DOMAIN lit'
        PROVE  /\ lit'[i].tick <= slot.tick /\ lit'[i].tick < Len(past)
               /\ lit'[i].effects \in {<<>>, past[lit'[i].tick + 1].effects}
    <3>1. CASE i = Len(lit) + 1
      BY <2>2, <2>4, <2>7, <3>1
    <3>2. CASE i \in 1 .. Len(lit)
      BY <1>a, <2>5, <2>7, <3>2 DEF LitInv, FlashedOnce
    <3> QED
      BY <2>5, <2>7, <3>1, <3>2
  <2>9. ASSUME NEW i \in DOMAIN lit', NEW j \in DOMAIN lit', i < j
        PROVE  lit'[i].tick < lit'[j].tick
    <3>1. i \in 1 .. Len(lit)
      BY <2>5, <2>7, <2>9
    <3>2. CASE j = Len(lit) + 1
      BY <2>4, <2>6, <2>7, <3>1, <3>2
    <3>3. CASE j \in 1 .. Len(lit)
      BY <1>a, <2>5, <2>7, <2>9, <3>1, <3>3 DEF LitInv, FlashedOnce
    <3> QED
      BY <2>5, <2>7, <3>2, <3>3
  <2> QED
    BY <2>1, <2>7, <2>8, <2>9 DEF LitInv, FlashedOnce
<1>9. CASE UNCHANGED vars
  <2>1. UNCHANGED <<lit, slot, past>>
    BY <1>9 DEF vars
  <2> QED
    BY <1>a, <2>1 DEF LitInv, FlashedOnce
<1> QED
  BY <1>1, <1>2, <1>3, <1>4, <1>5, <1>6, <1>7, <1>8, <1>9 DEF Next, Done

\* The invariant outlasts every step.
LEMMA GameStable ==
  ASSUME NEW Worlds, NEW Inputs, Faithful(Worlds, Inputs)
  PROVE  GameInv(Worlds) /\ [Next]_vars => GameInv(Worlds)'
<1> SUFFICES ASSUME GameInv(Worlds), [Next]_vars PROVE GameInv(Worlds)'
  OBVIOUS
<1>1. CleanAtRest'
  BY CleanStep DEF GameInv
<1>2. WorldInv(Worlds)' /\ SlotInv' /\ LitInv(Worlds)'
  BY WorldStep, SlotStep, LitStep
<1>3. TypeOK'
  BY <1>2, TypeStep
<1> QED
  BY <1>1, <1>2, <1>3 DEF GameInv

\* It holds of every session of a faithful game.
LEMMA GameAlways == ASSUME NEW Worlds, NEW Inputs, Faithful(Worlds, Inputs) PROVE Spec => []GameInv(Worlds)
<1>1. Init => GameInv(Worlds)
  BY GameInit
<1>2. GameInv(Worlds) /\ [Next]_vars => GameInv(Worlds)'
  BY GameStable
<1> QED
  BY <1>1, <1>2, PTL DEF Spec

\* The driver's own state is well formed while any game that does what it promises is
\* played: a tick is pending only while the session runs, on a world, and the history
\* grows by the ticks that succeeded (simulation.rs, advance_tick).
THEOREM GameTypeCorrect ==
  ASSUME NEW Worlds, NEW Inputs, Faithful(Worlds, Inputs) PROVE Spec => []TypeOK
<1>1. GameInv(Worlds) => TypeOK
  BY DEF GameInv
<1> QED
  BY <1>1, GameAlways, PTL

\* Whatever a game that does what it promises may be, and wherever a tick is refused or
\* fails, the readers are shown promised states only, each with the effects of its own
\* tick, nothing before the session is live, and nothing late between two ticks
\* (simulation.rs, advance_tick; api.rs, Adapter; Adapter's publish in both adapters).
THEOREM SnapshotsFaithful ==
  ASSUME NEW Worlds, NEW Inputs, Faithful(Worlds, Inputs) PROVE Spec => []SnapshotsKeepPromise
<1>1. GameInv(Worlds) => SnapshotsKeepPromise
  BY DEF GameInv, TypeOK, WorldInv, SlotInv, SnapshotsKeepPromise
<1> QED
  BY <1>1, GameAlways, PTL

\* However frames fall between publications, a tick is animated at most once, in order,
\* and with effects it had (presentation.rs, animate).
THEOREM Flashed ==
  ASSUME NEW Worlds, NEW Inputs, Faithful(Worlds, Inputs) PROVE Spec => []FlashedOnce
<1>1. GameInv(Worlds) => FlashedOnce
  BY DEF GameInv, LitInv
<1> QED
  BY <1>1, GameAlways, PTL

-----------------------------------------------------------------------------
\* The amounts of a transfer

TotalUpTo(s) ==
  CHOOSE f : f = [T \in SUBSET (DOMAIN s) |->
                    IF T = {} THEN 0 ELSE CheckedSum(f[T \ {Max(T)}], s[Max(T)])]

TrueUpTo(s) ==
  CHOOSE f : f = [T \in SUBSET (DOMAIN s) |->
                    IF T = {} THEN 0 ELSE Plus(f[T \ {Max(T)}], s[Max(T)])]

\* The library's fold of CheckedSum, place by place.
LEMMA TotalFold ==
  ASSUME NEW S, NEW s \in Seq(S)
  PROVE  Total(s) = TotalUpTo(s)[1 .. Len(s)] /\ Folds("total", TotalUpTo(s), 0, s, Len(s))
<1>1. DOMAIN s = 1 .. Len(s) /\ Len(s) \in Nat
  OBVIOUS
<1>2. Total(s) = TotalUpTo(s)[DOMAIN s]
  BY DEF Total, FoldLeft, MapThenFoldSet, TotalUpTo
<1>3. \A f : Folds("total", f, 0, s, Len(s)) <=>
        f = [T \in SUBSET (DOMAIN s) |->
               IF T = {} THEN 0 ELSE CheckedSum(f[T \ {Max(T)}], s[Max(T)])]
  BY <1>1 DEF Folds, Step
<1>4. PICK f : Folds("total", f, 0, s, Len(s))
  BY <1>1, FoldsExist
<1>5. Folds("total", TotalUpTo(s), 0, s, Len(s))
  BY <1>3, <1>4 DEF TotalUpTo
<1> QED
  BY <1>1, <1>2, <1>5

\* The library's fold of Plus, place by place.
LEMMA TrueFold ==
  ASSUME NEW S, NEW s \in Seq(S)
  PROVE  FoldLeft(Plus, 0, s) = TrueUpTo(s)[1 .. Len(s)] /\ Folds("sum", TrueUpTo(s), 0, s, Len(s))
<1>1. DOMAIN s = 1 .. Len(s) /\ Len(s) \in Nat
  OBVIOUS
<1>2. FoldLeft(Plus, 0, s) = TrueUpTo(s)[DOMAIN s]
  BY DEF FoldLeft, MapThenFoldSet, TrueUpTo
<1>3. \A f : Folds("sum", f, 0, s, Len(s)) <=>
        f = [T \in SUBSET (DOMAIN s) |->
               IF T = {} THEN 0 ELSE Plus(f[T \ {Max(T)}], s[Max(T)])]
  BY <1>1 DEF Folds, Step
<1>4. PICK f : Folds("sum", f, 0, s, Len(s))
  BY <1>1, FoldsExist
<1>5. Folds("sum", TrueUpTo(s), 0, s, Len(s))
  BY <1>3, <1>4 DEF TrueUpTo
<1> QED
  BY <1>1, <1>2, <1>5

\* What a checked sum says of the true one: it is that, or it does not fit.
Says(checked, sum) == sum \in Nat /\ checked = IF sum > MaxU THEN -1 ELSE sum

\* The sum checked at each amount is the true one, unless that does not fit.
LEMMA TotalSays ==
  ASSUME NEW amounts \in Seq(0..MaxU)
  PROVE  Says(Total(amounts), FoldLeft(Plus, 0, amounts))
<1>1. Len(amounts) \in Nat /\ \A k \in 1 .. Len(amounts) : amounts[k] \in 0..MaxU
  BY WidthAssumption
<1> DEFINE C == TotalUpTo(amounts)
           T == TrueUpTo(amounts)
           Fine(k) == Says(C[1 .. k], T[1 .. k])
           Held == {k \in 0 .. Len(amounts) : Fine(k)}
<1>2. Total(amounts) = C[1 .. Len(amounts)] /\ Folds("total", C, 0, amounts, Len(amounts))
  BY TotalFold
<1>3. FoldLeft(Plus, 0, amounts) = T[1 .. Len(amounts)] /\ Folds("sum", T, 0, amounts, Len(amounts))
  BY TrueFold
<1> HIDE DEF C, T
<1>4. Fine(0)
  <2>1. C[1 .. 0] = 0 /\ T[1 .. 0] = 0
    BY <1>1, <1>2, <1>3, FoldsPlace
  <2> QED
    BY <2>1, WidthAssumption DEF Says
<1>5. ASSUME NEW k \in 1 .. Len(amounts), Fine(k - 1) PROVE Fine(k)
  <2>1. /\ C[1 .. k] = Step("total", C[1 .. k - 1], amounts[k])
        /\ T[1 .. k] = Step("sum", T[1 .. k - 1], amounts[k])
    BY <1>1, <1>2, <1>3, FoldsPlace
  <2>2. PICK c, t, a : c = C[1 .. k - 1] /\ t = T[1 .. k - 1] /\ a = amounts[k]
    OBVIOUS
  <2>3. a \in 0..MaxU /\ C[1 .. k] = CheckedSum(c, a) /\ T[1 .. k] = t + a /\ Says(c, t)
    BY <1>1, <1>5, <2>1, <2>2 DEF Step, Plus
  <2>4. Says(CheckedSum(c, a), t + a)
    BY <2>3, WidthAssumption DEF Says, CheckedSum, CheckedAdd
  <2> QED
    BY <2>3, <2>4
<1> HIDE DEF Fine
<1>6. Fine(Len(amounts))
  <2>1. 0 .. Len(amounts) \subseteq Held
    <3>1. 0 \in Held
      BY <1>1, <1>4
    <3>2. \A k \in 1 .. Len(amounts) : k - 1 \in Held => k \in Held
      BY <1>5
    <3> HIDE DEF Held
    <3> QED
      BY <1>1, <3>1, <3>2, UpTo
  <2>2. Len(amounts) \in 0 .. Len(amounts)
    BY <1>1
  <2> QED
    BY <2>1, <2>2
<1> QED
  BY <1>2, <1>3, <1>6 DEF Fine

-----------------------------------------------------------------------------
\* One transfer

\* A wallet and its parts.
LEMMA WalletShape ==
  ASSUME NEW w \in Wallets
  PROVE  /\ \E n \in Nat \ {0} : w.balances \in [0..n-1 -> 0..MaxU]
         /\ IsFiniteSet(DOMAIN w.balances) /\ DOMAIN w.balances \subseteq Nat
         /\ \A i \in DOMAIN w.balances : w.balances[i] \in 0..MaxU
         /\ w.rejected \in 0..MaxU
         /\ w = [balances |-> w.balances, rejected |-> w.rejected]
<1>1. w.balances \in Vectors /\ w.rejected \in 0..MaxU
  BY DEF Wallets
<1>2. PICK n \in Nat \ {0} : w.balances \in [0..n-1 -> 0..MaxU]
  BY <1>1 DEF Vectors
<1>3. DOMAIN w.balances = 0..n-1 /\ 0 \in Int /\ n - 1 \in Int
  BY <1>2
<1>4. IsFiniteSet(DOMAIN w.balances)
  BY <1>3, FS_Interval
<1>5. w = [balances |-> w.balances, rejected |-> w.rejected]
  BY DEF Wallets
<1> QED
  BY <1>1, <1>2, <1>3, <1>4, <1>5

\* The balances after a transfer that passed the checks: both sides changed, or none.
LEMMA PaidShape ==
  ASSUME NEW w \in Wallets, NEW from, NEW to, NEW amount \in Nat,
         Transferable(w, from, to, amount)
  PROVE  /\ from \in DOMAIN w.balances /\ to \in DOMAIN w.balances
         /\ DOMAIN Paid(w, from, to, amount) = DOMAIN w.balances
         /\ from = to => Paid(w, from, to, amount) = w.balances
         /\ from # to =>
              /\ Paid(w, from, to, amount)[from] = w.balances[from] - amount
              /\ Paid(w, from, to, amount)[to] = w.balances[to] + amount
         /\ \A i \in DOMAIN w.balances \ {from, to} : Paid(w, from, to, amount)[i] = w.balances[i]
         /\ \A i \in DOMAIN w.balances : Paid(w, from, to, amount)[i] \in 0..MaxU
<1>1. PICK n \in Nat \ {0} : w.balances \in [0..n-1 -> 0..MaxU]
  BY WalletShape
<1>2. PICK b : b = w.balances
  OBVIOUS
<1>3. b \in [0..n-1 -> 0..MaxU] /\ DOMAIN b = 0..n-1
  BY <1>1, <1>2
<1>4. from \in DOMAIN b /\ to \in DOMAIN b /\ b[from] >= amount
  BY <1>2 DEF Transferable
<1>5. from # to => b[to] + amount <= MaxU
  <2>1. b[to] \in 0..MaxU
    BY <1>3, <1>4
  <2> QED
    BY <1>2, <2>1, WidthAssumption DEF Transferable, CheckedAdd
<1>6. PICK p : p = Paid(w, from, to, amount)
  OBVIOUS
<1>7. CASE from = to
  <2>1. p = b
    BY <1>2, <1>6, <1>7 DEF Paid
  <2> QED
    BY <1>2, <1>3, <1>4, <1>6, <1>7, <2>1
<1>8. CASE from # to
  <2>1. p = [b EXCEPT ![from] = @ - amount, ![to] = @ + amount]
    BY <1>2, <1>6, <1>8 DEF Paid
  <2>2. /\ DOMAIN p = DOMAIN b /\ p[from] = b[from] - amount /\ p[to] = b[to] + amount
        /\ \A i \in DOMAIN b \ {from, to} : p[i] = b[i]
    BY <1>3, <1>4, <1>8, <2>1
  <2>3. ASSUME NEW i \in DOMAIN b PROVE p[i] \in 0..MaxU
    <3>1. b[i] \in 0..MaxU /\ b[from] \in 0..MaxU /\ b[to] \in 0..MaxU
      BY <1>3, <1>4
    <3> QED
      BY <1>4, <1>5, <1>8, <2>2, <3>1, WidthAssumption
  <2> QED
    BY <1>2, <1>4, <1>6, <1>8, <2>2, <2>3
<1> QED
  BY <1>7, <1>8

\* A transfer that passed the checks moves money and makes none.
LEMMA PaidKeeps ==
  ASSUME NEW w \in Wallets, NEW from, NEW to, NEW amount \in Nat,
         Transferable(w, from, to, amount)
  PROVE  Paid(w, from, to, amount) \in Vectors /\ Money(Paid(w, from, to, amount)) = Money(w.balances)
<1>1. PICK n \in Nat \ {0} : w.balances \in [0..n-1 -> 0..MaxU]
  BY WalletShape
<1>2. PICK b, p : b = w.balances /\ p = Paid(w, from, to, amount)
  OBVIOUS
<1>3. PICK D : D = DOMAIN b
  OBVIOUS
<1>4. /\ D = 0..n-1 /\ IsFiniteSet(D) /\ DOMAIN p = D /\ from \in D /\ to \in D
      /\ \A i \in D : b[i] \in Nat /\ p[i] \in 0..MaxU /\ p[i] \in Nat
      /\ from = to => p = b
      /\ from # to => p[from] = b[from] - amount /\ p[to] = b[to] + amount
      /\ \A i \in D \ {from, to} : p[i] = b[i]
  <2>1. DOMAIN p = DOMAIN b /\ from \in D /\ to \in D
    BY <1>2, <1>3, PaidShape
  <2>2. \A i \in D : b[i] \in 0..MaxU /\ p[i] \in 0..MaxU
    BY <1>2, <1>3, PaidShape, WalletShape
  <2>3. D = 0..n-1 /\ IsFiniteSet(D)
    BY <1>1, <1>2, <1>3, WalletShape
  <2>4. /\ from = to => p = b
        /\ from # to => p[from] = b[from] - amount /\ p[to] = b[to] + amount
        /\ \A i \in D \ {from, to} : p[i] = b[i]
    BY <1>2, <1>3, PaidShape
  <2> QED
    BY <1>3, <2>1, <2>2, <2>3, <2>4
<1>5. p \in Vectors
  <2>1. p = [i \in DOMAIN p |-> p[i]]
    <3>1. CASE from = to
      BY <1>1, <1>2, <1>4, <3>1
    <3>2. CASE from # to
      BY <1>2, <3>2, <1>1 DEF Paid
    <3> QED
      BY <3>1, <3>2
  <2>2. p \in [0..n-1 -> 0..MaxU]
    BY <1>4, <2>1
  <2> QED
    BY <2>2 DEF Vectors
<1>6. Money(p) = SumOf(p, D) /\ Money(b) = SumOf(b, D)
  BY <1>3, <1>4 DEF Money, SumOf
<1>7. SumOf(p, D) = SumOf(b, D)
  <2>1. CASE from = to
    BY <1>4, <2>1
  <2>2. CASE from # to
    <3>1. PICK R : R = (D \ {from}) \ {to}
      OBVIOUS
    <3>2. IsFiniteSet(R) /\ IsFiniteSet(D \ {from}) /\ to \in D \ {from}
      BY <1>4, <2>2, <3>1, FinitePart
    <3>3. SumOf(p, D) = p[from] + SumOf(p, D \ {from})
      BY <1>4, SumElement
    <3>4. SumOf(b, D) = b[from] + SumOf(b, D \ {from})
      BY <1>4, SumElement
    <3>5. SumOf(p, D \ {from}) = p[to] + SumOf(p, R)
      <4>1. \A i \in D \ {from} : p[i] \in Nat
        BY <1>4
      <4> QED
        BY <3>1, <3>2, <4>1, SumElement
    <3>6. SumOf(b, D \ {from}) = b[to] + SumOf(b, R)
      <4>1. \A i \in D \ {from} : b[i] \in Nat
        BY <1>4
      <4> QED
        BY <3>1, <3>2, <4>1, SumElement
    <3>7. SumOf(p, R) = SumOf(b, R)
      <4>1. \A i \in R : p[i] = b[i]
        BY <1>4, <3>1
      <4> QED
        BY <3>2, <4>1, SumAgrees
    <3>8. SumOf(b, R) \in Nat
      <4>1. \A i \in R : b[i] \in Nat
        BY <1>4, <3>1
      <4> QED
        BY <3>2, <4>1, SumType
    <3>9. b[from] \in Nat /\ b[to] \in Nat
      BY <1>4
    <3>10. PICK x, y, rest : x = b[from] /\ y = b[to] /\ rest = SumOf(b, R)
      OBVIOUS
    <3>11. SumOf(p, D) = (x - amount) + ((y + amount) + rest) /\ SumOf(b, D) = x + (y + rest)
      BY <1>4, <2>2, <3>3, <3>4, <3>5, <3>6, <3>7, <3>10
    <3>12. x \in Nat /\ y \in Nat /\ rest \in Nat
      BY <3>8, <3>9, <3>10
    <3> QED
      BY <3>11, <3>12
  <2> QED
    BY <2>1, <2>2
<1> QED
  BY <1>2, <1>5, <1>6, <1>7

\* Whatever it makes of a command, the wallet's rule keeps the wallet one and its money.
LEMMA TransferKeeps ==
  ASSUME NEW w \in Wallets, NEW input \in Transfers
  PROVE  /\ TransferRule(w, input).world \in Wallets
         /\ Money(TransferRule(w, input).world.balances) = Money(w.balances)
<1>1. PICK from, to, amount :
        from = Sender(input.participant) /\ to = input.recipient /\ amount = Total(input.amounts)
  OBVIOUS
<1>2. amount = -1 \/ amount \in Nat
  <2>1. input.amounts \in Seq(0..MaxU)
    BY DEF Transfers
  <2> QED
    BY <1>1, <2>1, TotalSays DEF Says
<1>3. w.balances \in Vectors /\ w.rejected \in 0..MaxU
  BY DEF Wallets
<1>4. CASE Transferable(w, from, to, amount)
  <2>1. TransferRule(w, input).world = [w EXCEPT !.balances = Paid(w, from, to, amount)]
    BY <1>1, <1>4 DEF TransferRule
  <2>2. amount \in Nat
    BY <1>2, <1>4 DEF Transferable
  <2>3. PICK p : p = Paid(w, from, to, amount)
    OBVIOUS
  <2>4. p \in Vectors /\ Money(p) = Money(w.balances)
    BY <1>4, <2>2, <2>3, PaidKeeps
  <2>5. TransferRule(w, input).world = [balances |-> p, rejected |-> w.rejected]
    BY <2>1, <2>3 DEF Wallets
  <2> QED
    BY <1>3, <2>4, <2>5 DEF Wallets
<1>5. CASE ~Transferable(w, from, to, amount)
  <2>1. TransferRule(w, input).world = w \/
        (w.rejected + 1 <= MaxU /\ TransferRule(w, input).world = [w EXCEPT !.rejected = @ + 1])
    BY <1>1, <1>3, <1>5, WidthAssumption DEF TransferRule, CheckedAdd
  <2>2. CASE TransferRule(w, input).world = w
    BY <2>2
  <2>3. CASE w.rejected + 1 <= MaxU /\ TransferRule(w, input).world = [w EXCEPT !.rejected = @ + 1]
    <3>1. TransferRule(w, input).world = [balances |-> w.balances, rejected |-> w.rejected + 1]
      BY <2>3 DEF Wallets
    <3>2. w.rejected + 1 \in 0..MaxU
      BY <1>3, <2>3, WidthAssumption
    <3> QED
      BY <1>3, <3>1, <3>2 DEF Wallets
  <2> QED
    BY <2>1, <2>2, <2>3
<1> QED
  BY <1>4, <1>5

-----------------------------------------------------------------------------
\* Sessions that may run the wallet

\* A session runs the wallet's code on what it plays as a wallet; it may play other games.
HostsWallet ==
  /\ \A setup \in Setups \ Foreign :
       Create(setup) # NoWorld /\ IsWallet(PromisedStart(setup)) =>
         /\ \E n \in Nat : setup.balances \in [0..n-1 -> 0..MaxU]
         /\ Create(setup) = CreateWallet(setup.balances, NoWorld)
         /\ PromisedStart(setup) = [balances |-> setup.balances, rejected |-> 0]
  /\ \A w \in Wallets :
       /\ Ticks(w) \subseteq Seq(Transfers \cup {Malformed})
       /\ \A input \in Transfers : Rule(w, input) = TransferRule(w, input)

\* A wallet with as much money.
Worth(w, money) == w \in Wallets /\ Money(w.balances) = money

\* The wallet a session starts with.
LEMMA WalletCreated ==
  ASSUME HostsWallet, NEW setup \in Setups \ Foreign,
         Create(setup) # NoWorld, IsWallet(PromisedStart(setup))
  PROVE  Create(setup) = PromisedStart(setup) /\ Create(setup) \in Wallets
<1>1. PICK b : b = setup.balances
  OBVIOUS
<1>2. /\ Create(setup) = CreateWallet(b, NoWorld)
      /\ PromisedStart(setup) = [balances |-> b, rejected |-> 0]
  BY <1>1 DEF HostsWallet
<1>3. PICK n \in Nat : b \in [0..n-1 -> 0..MaxU]
  BY <1>1 DEF HostsWallet
<1>4. DOMAIN b # {} /\ Create(setup) = [balances |-> b, rejected |-> 0]
  BY <1>2 DEF CreateWallet
<1>5. b \in Vectors
  <2>1. n \in Nat \ {0}
    BY <1>3, <1>4
  <2> QED
    BY <1>3, <2>1 DEF Vectors
<1>6. 0 \in 0..MaxU
  BY WidthAssumption
<1>7. [balances |-> b, rejected |-> 0] \in Wallets
  BY <1>5, <1>6 DEF Wallets
<1> QED
  BY <1>2, <1>4, <1>7

\* One more command neither makes nor loses money.
LEMMA CommandConserves ==
  ASSUME HostsWallet, NEW a, NEW money, Worth(a.world, money), NEW input \in Transfers
  PROVE  Worth(Applied(a, input).world, money)
<1>1. CASE ~a.ok
  BY <1>1 DEF Applied
<1>2. CASE a.ok
  <2>1. PICK w : w = a.world
    OBVIOUS
  <2>2. w \in Wallets /\ Money(w.balances) = money /\ Rule(w, input) = TransferRule(w, input)
    BY <2>1 DEF Worth, HostsWallet
  <2>3. Applied(a, input).world = TransferRule(w, input).world
    BY <1>2, <2>1, <2>2 DEF Applied
  <2> QED
    BY <2>2, <2>3, TransferKeeps DEF Worth
<1> QED
  BY <1>1, <1>2

\* Nor does a whole tick.
LEMMA TickConserves ==
  ASSUME HostsWallet, NEW w \in Wallets, NEW raised, NEW inputs \in Ticks(w), Decodes(inputs)
  PROVE  Worth(AppliedTick(w, raised, inputs).world, Money(w.balances))
<1> DEFINE a == [ok |-> TRUE, world |-> w, effects |-> raised]
           A == AppliedUpTo(a, inputs)
           Fine(k) == Worth(A[1 .. k].world, Money(w.balances))
           Held == {k \in 0 .. Len(inputs) : Fine(k)}
<1>1. inputs \in Seq(Transfers \cup {Malformed})
  BY DEF HostsWallet
<1>2. Len(inputs) \in Nat /\ \A k \in 1 .. Len(inputs) : inputs[k] \in Transfers
  BY <1>1 DEF Decodes
<1>3. /\ AppliedTick(w, raised, inputs) = A[1 .. Len(inputs)]
      /\ Folds("rule", A, a, inputs, Len(inputs))
  BY <1>1, AppliedFold DEF AppliedTick
<1>4. Fine(0)
  <2>1. A[1 .. 0] = a
    BY <1>2, <1>3, FoldsPlace
  <2> QED
    BY <2>1 DEF Worth
<1> HIDE DEF A, a
<1>5. ASSUME NEW k \in 1 .. Len(inputs), Fine(k - 1) PROVE Fine(k)
  <2>1. A[1 .. k] = Applied(A[1 .. k - 1], inputs[k])
    BY <1>2, <1>3, FoldsPlace DEF Step
  <2> QED
    BY <1>2, <1>5, <2>1, CommandConserves
<1> HIDE DEF Fine
<1>6. Fine(Len(inputs))
  <2>1. 0 .. Len(inputs) \subseteq Held
    <3>1. 0 \in Held
      BY <1>2, <1>4
    <3>2. \A k \in 1 .. Len(inputs) : k - 1 \in Held => k \in Held
      BY <1>5
    <3> HIDE DEF Held
    <3> QED
      BY <1>2, <3>1, <3>2, UpTo
  <2>2. Len(inputs) \in 0 .. Len(inputs)
    BY <1>2
  <2> QED
    BY <2>1, <2>2
<1> QED
  BY <1>3, <1>6 DEF Fine

\* A session that started with a wallet still has one, with as much money.
MoneyInv ==
  /\ phase = "new" => past = <<>>
  /\ phase \in {"replay", "live"} => past # <<>>
  /\ \E S : past \in Seq(S)
  /\ past # <<>> /\ IsWallet(past[1].world) => Worth(world, Money(past[1].world.balances))

\* The start of a session.
LEMMA MoneyInitialize ==
  ASSUME HostsWallet, MoneyInv, NEW setup \in Setups, NEW start, Initialize(setup, start)
  PROVE  MoneyInv'
<1>1. CASE phase' = "ended" /\ UNCHANGED <<world, past>>
  BY <1>1 DEF MoneyInv
<1>2. CASE /\ phase' = "replay" /\ world' = Create(setup)
           /\ past' = <<[world |-> PromisedStart(setup), effects |-> <<>>]>>
           /\ setup \notin Foreign /\ Create(setup) # NoWorld
  <2>1. PICK e : e = [world |-> PromisedStart(setup), effects |-> <<>>]
    OBVIOUS
  <2>2. e.world = PromisedStart(setup) /\ past' = << e >>
    BY <1>2, <2>1
  <2>3. past' # <<>> /\ past'[1] = e /\ \E S : past' \in Seq(S)
    <3>1. past' \in Seq({e})
      BY <2>2
    <3> QED
      BY <2>2, <3>1
  <2>4. IsWallet(PromisedStart(setup)) =>
          Worth(Create(setup), Money(PromisedStart(setup).balances))
    BY <1>2, WalletCreated DEF Worth
  <2> QED
    BY <1>2, <2>2, <2>3, <2>4 DEF MoneyInv
<1> QED
  BY <1>1, <1>2 DEF Initialize, sim

\* A tick.
LEMMA MoneyAdvance ==
  ASSUME HostsWallet, MoneyInv, NEW t, NEW inputs \in Ticks(world), Advance(t, inputs)
  PROVE  MoneyInv'
<1>1. phase \in {"replay", "live"} /\ phase' = phase /\ past # <<>>
  BY DEF Advance, MoneyInv
<1>2. PICK S : past \in Seq(S)
  BY DEF MoneyInv
<1>3. past' = past \/ \E e : past' = Append(past, e)
  BY DEF Advance, sim
<1>4. past' # <<>> /\ past'[1] = past[1] /\ \E T : past' \in Seq(T)
  <2>1. CASE past' = past
    BY <1>1, <1>2, <2>1
  <2>2. ASSUME NEW e, past' = Append(past, e)
        PROVE  past' # <<>> /\ past'[1] = past[1] /\ \E T : past' \in Seq(T)
    <3>1. past \in Seq(S \cup {e}) /\ 1 \in 1 .. Len(past)
      BY <1>1, <1>2
    <3>2. past' \in Seq(S \cup {e}) /\ Len(past') = Len(past) + 1 /\ Len(past) \in Nat /\ past'[1] = past[1]
      BY <2>2, <3>1, Appended
    <3> QED
      BY <3>2
  <2> QED
    BY <1>3, <2>1, <2>2
<1>5. ASSUME IsWallet(past[1].world) PROVE Worth(world', Money(past[1].world.balances))
  <2>1. Worth(world, Money(past[1].world.balances))
    BY <1>1, <1>5 DEF MoneyInv
  <2>2. CASE world' = world
    BY <2>1, <2>2
  <2>3. CASE Decodes(inputs) /\ world' = AppliedTick(world, effects, inputs).world
    <3>1. Worth(world', Money(world.balances))
      BY <2>1, <2>3, TickConserves DEF Worth
    <3> QED
      BY <2>1, <3>1 DEF Worth
  <2> QED
    BY <2>2, <2>3 DEF Advance, sim
<1> QED
  BY <1>1, <1>4, <1>5 DEF MoneyInv

\* No step makes or loses money.
LEMMA MoneyStep == ASSUME HostsWallet PROVE MoneyInv /\ [Next]_vars => MoneyInv'
<1> SUFFICES ASSUME MoneyInv, [Next]_vars PROVE MoneyInv'
  OBVIOUS
<1>1. ASSUME NEW setup \in Setups, NEW start, Initialize(setup, start) PROVE MoneyInv'
  BY <1>1, MoneyInitialize
<1>2. ASSUME NEW t, Refuse(t) PROVE MoneyInv'
  BY <1>2 DEF Refuse, sim, MoneyInv
<1>3. ASSUME NEW t, NEW inputs \in Ticks(world), Advance(t, inputs) PROVE MoneyInv'
  BY <1>3, MoneyAdvance
<1>4. ASSUME NEW ok, Publish(ok) PROVE MoneyInv'
  BY <1>4 DEF Publish, sim, MoneyInv
<1>5. CASE Finish
  BY <1>5 DEF Finish, MoneyInv
<1>6. ASSUME NEW ok, GoLive(ok) PROVE MoneyInv'
  BY <1>6 DEF GoLive, sim, MoneyInv
<1>7. CASE End \/ Animate \/ UNCHANGED vars
  BY <1>7 DEF End, Animate, vars, sim, MoneyInv
<1> QED
  BY <1>1, <1>2, <1>3, <1>4, <1>5, <1>6, <1>7 DEF Next, Done

\* In a session that runs the wallet, whatever other games it may run and whatever it
\* promises of them, no transfer, refusal or failed tick makes or loses money, and every
\* balance fits its width (model.rs, State::transfer; simulation.rs, advance).
THEOREM MoneyConserved == ASSUME HostsWallet PROVE Spec => []Conserved
<1>1. Init => MoneyInv
  <2>1. <<>> \in Seq({})
    OBVIOUS
  <2> QED
    BY <2>1 DEF Init, MoneyInv
<1>2. MoneyInv => Conserved
  BY WalletShape DEF MoneyInv, Worth, Conserved
<1> QED
  BY <1>1, <1>2, MoneyStep, PTL DEF Spec

-----------------------------------------------------------------------------
\* The wallet as a game that does what it promises

\* What a balance is promised to be after so much went from one wallet to another.
After(w, from, to, sum, i) ==
  w.balances[i] + (IF i = to THEN sum ELSE 0) - (IF i = from THEN sum ELSE 0)

\* When a transfer is promised.
Fair(w, participant, from, to, sum) ==
  /\ participant # 0 /\ from \in DOMAIN w.balances /\ to \in DOMAIN w.balances
  /\ sum <= w.balances[from] /\ After(w, from, to, sum, to) <= MaxU

\* The checks of the rule let through what is promised, and nothing else.
LEMMA FairChecked ==
  ASSUME NEW w \in Wallets, NEW participant \in {Host} \cup Nat, NEW from, NEW to,
         from = IF participant = Host THEN 0 ELSE participant,
         NEW amount, NEW sum, Says(amount, sum)
  PROVE  /\ Fair(w, participant, from, to, sum)
              <=> Transferable(w, Sender(participant), to, amount)
         /\ Transferable(w, Sender(participant), to, amount) =>
              amount = sum /\ Sender(participant) = from
<1>1. PICK b : b = w.balances
  OBVIOUS
<1>2. DOMAIN b \subseteq Nat /\ \A i \in DOMAIN b : b[i] \in 0..MaxU
  BY <1>1, WalletShape
<1>3. CASE participant = 0
  <2>1. Sender(participant) = -1
    BY <1>3, HostAssumption DEF Sender
  <2>2. ~Fair(w, participant, from, to, sum)
    BY <1>3 DEF Fair
  <2>3. ~Transferable(w, -1, to, amount)
    <3>1. -1 \notin DOMAIN b
      BY <1>2
    <3> QED
      BY <1>1, <3>1 DEF Transferable
  <2> QED
    BY <2>1, <2>2, <2>3
<1>4. CASE participant # 0
  <2>1. Sender(participant) = from
    BY <1>4 DEF Sender
  <2>2. ASSUME ~(from \in DOMAIN b /\ to \in DOMAIN b)
        PROVE  ~Fair(w, participant, from, to, sum) /\ ~Transferable(w, from, to, amount)
    BY <1>1, <2>2 DEF Fair, Transferable
  <2>3. ASSUME from \in DOMAIN b, to \in DOMAIN b
        PROVE  /\ Fair(w, participant, from, to, sum) <=> Transferable(w, from, to, amount)
               /\ Transferable(w, from, to, amount) => amount = sum
    <3>1. PICK x, y : x = b[from] /\ y = b[to]
      OBVIOUS
    <3>2. x \in 0..MaxU /\ y \in 0..MaxU /\ (from = to => x = y)
      BY <1>2, <2>3, <3>1
    <3>3. Fair(w, participant, from, to, sum) <=>
            sum <= x /\ y + sum - (IF to = from THEN sum ELSE 0) <= MaxU
      BY <1>1, <1>4, <2>3, <3>1 DEF Fair, After
    <3>4. Transferable(w, from, to, amount) <=>
            amount # -1 /\ x >= amount /\ (from # to => CheckedAdd(y, amount) # -1)
      BY <1>1, <2>3, <3>1 DEF Transferable
    <3>5. sum \in Nat /\ amount = IF sum > MaxU THEN -1 ELSE sum
      BY DEF Says
    <3>6. /\ (sum <= x /\ y + sum - (IF to = from THEN sum ELSE 0) <= MaxU)
               <=> (amount # -1 /\ x >= amount /\ (from # to => CheckedAdd(y, amount) # -1))
          /\ amount # -1 => amount = sum
      BY <3>2, <3>5, WidthAssumption DEF CheckedAdd
    <3> QED
      BY <3>3, <3>4, <3>6
  <2> QED
    BY <2>1, <2>2, <2>3
<1> QED
  BY <1>3, <1>4

\* What the rule makes of a transfer that passed is what is promised of the balances.
LEMMA PaidPromised ==
  ASSUME NEW w \in Wallets, NEW from, NEW to, NEW sum \in Nat, Transferable(w, from, to, sum)
  PROVE  Paid(w, from, to, sum) = [i \in DOMAIN w.balances |-> After(w, from, to, sum, i)]
<1>1. PICK n \in Nat \ {0} : w.balances \in [0..n-1 -> 0..MaxU]
  BY WalletShape
<1>2. PICK b, p : b = w.balances /\ p = Paid(w, from, to, sum)
  OBVIOUS
<1>3. b \in [0..n-1 -> 0..MaxU] /\ DOMAIN b = 0..n-1 /\ from \in DOMAIN b /\ to \in DOMAIN b
  BY <1>1, <1>2, PaidShape
<1>4. p = [i \in DOMAIN b |-> p[i]]
  <2>1. CASE from = to
    BY <1>2, <1>3, <2>1 DEF Paid
  <2>2. CASE from # to
    BY <1>2, <1>3, <2>2 DEF Paid
  <2> QED
    BY <2>1, <2>2
<1>5. ASSUME NEW i \in DOMAIN b PROVE p[i] = After(w, from, to, sum, i)
  <2>1. b[i] \in Int /\ After(w, from, to, sum, i)
          = b[i] + (IF i = to THEN sum ELSE 0) - (IF i = from THEN sum ELSE 0)
    BY <1>2, <1>3, <1>5, WidthAssumption DEF After
  <2>2. /\ from = to => p[i] = b[i]
        /\ from # to => /\ i = from => p[i] = b[i] - sum
                        /\ i = to => p[i] = b[i] + sum
                        /\ i \notin {from, to} => p[i] = b[i]
    BY <1>2, <1>5, PaidShape
  <2> QED
    BY <2>1, <2>2
<1> QED
  BY <1>2, <1>4, <1>5

\* The wallet's rule does what the example promises, unless the count of refusals is full.
LEMMA TransferPromised ==
  ASSUME NEW w \in Wallets, NEW input \in Transfers, TransferRule(w, input).ok
  PROVE  /\ TransferRule(w, input).world = PromisedTransfer(w, input).world
         /\ TransferRule(w, input).effects = PromisedTransfer(w, input).effects
<1>1. PICK p, from, to, amount, sum :
        /\ p = input.participant /\ from = (IF p = Host THEN 0 ELSE p) /\ to = input.recipient
        /\ amount = Total(input.amounts) /\ sum = FoldLeft(Plus, 0, input.amounts)
  OBVIOUS
<1>2. p \in {Host} \cup Nat /\ Says(amount, sum)
  BY <1>1, TotalSays DEF Transfers
<1>3. /\ PromisedTransfer(w, input).effects = <<>>
      /\ PromisedTransfer(w, input).world =
           IF Fair(w, p, from, to, sum)
             THEN [w EXCEPT !.balances = [i \in DOMAIN w.balances |-> After(w, from, to, sum, i)]]
             ELSE [w EXCEPT !.rejected = w.rejected + 1]
  BY <1>1 DEF PromisedTransfer, Fair, After
<1>4. Fair(w, p, from, to, sum) <=> Transferable(w, Sender(p), to, amount)
  BY <1>1, <1>2, FairChecked
<1>5. CASE Transferable(w, Sender(p), to, amount)
  <2>1. amount = sum /\ Sender(p) = from /\ sum \in Nat
    BY <1>1, <1>2, <1>5, FairChecked DEF Says
  <2>2. /\ TransferRule(w, input).effects = <<>>
        /\ TransferRule(w, input).world = [w EXCEPT !.balances = Paid(w, from, to, sum)]
    BY <1>1, <1>5, <2>1 DEF TransferRule
  <2>3. Paid(w, from, to, sum) = [i \in DOMAIN w.balances |-> After(w, from, to, sum, i)]
    BY <1>5, <2>1, PaidPromised
  <2> QED
    BY <1>3, <1>4, <1>5, <2>2, <2>3
<1>6. CASE ~Transferable(w, Sender(p), to, amount)
  <2>1. /\ TransferRule(w, input).effects = <<>>
        /\ TransferRule(w, input).world = [w EXCEPT !.rejected = w.rejected + 1]
    BY <1>1, <1>6 DEF TransferRule
  <2> QED
    BY <1>3, <1>4, <1>6, <2>1
<1> QED
  BY <1>5, <1>6

\* A session plays nothing but the wallet, of which it promises what the example does.
PlaysWallet ==
  /\ HostsWallet /\ NoWorld \notin Wallets
  /\ \A setup \in Setups \ Foreign : Create(setup) # NoWorld => IsWallet(PromisedStart(setup))
  /\ \A w \in Wallets : \A input \in Transfers : Promise(w, input) = PromisedTransfer(w, input)

\* The commands a wallet may be brought, whichever it is.
WalletInputs == [w \in Wallets |-> Transfers \cup {Malformed}]

\* The wallet keeps to the contract: in unsigned integers of any width, and with every
\* check made before a balance is written, its rule leads where true integers would
\* (model.rs, State::transfer; simulation.rs, create and advance).
THEOREM WalletFaithful == ASSUME PlaysWallet PROVE Faithful(Wallets, WalletInputs)
<1>1. HostsWallet /\ NoWorld \notin Wallets
  BY DEF PlaysWallet
<1>2. ASSUME NEW setup \in Setups \ Foreign, Create(setup) # NoWorld
      PROVE  Create(setup) \in Wallets /\ Create(setup) = PromisedStart(setup)
  BY <1>1, <1>2, WalletCreated DEF PlaysWallet
<1>3. ASSUME NEW w \in Wallets PROVE Ticks(w) \subseteq Seq(WalletInputs[w])
  BY <1>1 DEF HostsWallet, WalletInputs
<1>4. ASSUME NEW w \in Wallets, NEW input \in WalletInputs[w] \ {Malformed}
      PROVE  /\ Rule(w, input).world \in Wallets
             /\ WalletInputs[Rule(w, input).world] = WalletInputs[w]
             /\ Rule(w, input).ok =>
                  /\ Rule(w, input).world = Promise(w, input).world
                  /\ Rule(w, input).effects = Promise(w, input).effects
  <2>1. input \in Transfers
    BY DEF WalletInputs
  <2>2. Rule(w, input) = TransferRule(w, input) /\ Promise(w, input) = PromisedTransfer(w, input)
    BY <1>1, <2>1 DEF HostsWallet, PlaysWallet
  <2>3. Rule(w, input).world \in Wallets
    BY <2>1, <2>2, TransferKeeps
  <2> QED
    BY <2>1, <2>2, <2>3, TransferPromised DEF WalletInputs
<1> QED
  BY <1>1, <1>2, <1>3, <1>4 DEF Faithful

\* What the readers of a wallet session load is what true integers give, whatever the
\* transfers, refusals, failed ticks and failed publications were.
THEOREM WalletSnapshots == ASSUME PlaysWallet PROVE Spec => [](TypeOK /\ SnapshotsKeepPromise /\ FlashedOnce)
<1>1. Faithful(Wallets, WalletInputs)
  BY WalletFaithful
<1>2. (Spec => []TypeOK) /\ (Spec => []SnapshotsKeepPromise) /\ (Spec => []FlashedOnce)
  BY <1>1, GameTypeCorrect, SnapshotsFaithful, Flashed
<1> QED
  BY <1>2, PTL

-----------------------------------------------------------------------------
\* Power Garden, for a board of any size: the search of connectivity.rs powers the cells
\* a path leads to, within the queue it has, and the game keeps its promise.

\* Cells are as many as the product of the sides, and finitely many.
LEMMA CellsShape ==
  /\ Side \in Nat \ {0} /\ Side * Side \in Nat \ {0}
  /\ Cells = 0..Side * Side - 1 /\ IsFiniteSet(Cells) /\ Cardinality(Cells) = Side * Side
<1>1. Side \in Nat \ {0} /\ Side * Side \in Nat \ {0}
  BY SideAssumption
<1>2. PICK n \in Nat \ {0} : n = Side * Side
  BY <1>1
<1>3. IsFiniteSet(0..n - 1) /\ Cardinality(0..n - 1) = n
  BY FS_Interval
<1> QED
  BY <1>1, <1>2, <1>3 DEF Cells

\* A set of cells is finite and no larger than the board.
LEMMA CellSets ==
  ASSUME NEW S \in SUBSET Cells
  PROVE  /\ IsFiniteSet(S) /\ Cardinality(S) \in 0..Side * Side
         /\ Cardinality(S) = Side * Side => S = Cells
<1>1. IsFiniteSet(S) /\ Cardinality(S) <= Cardinality(Cells) /\ Cardinality(S) \in Nat
         /\ (Cardinality(Cells) = Cardinality(S) => Cells = S)
  BY CellsShape, FS_Subset, FS_CardinalityType
<1> QED
  BY <1>1, CellsShape

\* A neighbour is a cell or there is none.
LEMMA NeighborShape ==
  ASSUME NEW c \in Cells, NEW d \in Directions
  PROVE  Neighbor(c, d) \in Cells \cup {-1}
<1>1. PICK n \in Nat \ {0}, s \in Nat \ {0} : n = Side * Side /\ s = Side /\ Side * (Side - 1) = n - s
  BY CellsShape
<1>2. c \in 0..n - 1 /\ c % s \in 0..s - 1 /\ d \in 0..3 /\ Cells = 0..n - 1
  BY <1>1, CellsShape DEF Directions
<1>3. Neighbor(c, d) = CASE d = 0 -> IF c >= s THEN c - s ELSE -1
                         [] d = 1 -> IF c % s < s - 1 THEN c + 1 ELSE -1
                         [] d = 2 -> IF c < n - s THEN c + s ELSE -1
                         [] d = 3 -> IF c % s > 0 THEN c - 1 ELSE -1
  BY <1>1 DEF Neighbor
<1>4. d = 1 /\ c % s < s - 1 => c + 1 <= n - 1
  <2>1. c = s * (c \div s) + (c % s) /\ c \div s \in Nat
    BY <1>2
  <2>2. PICK q \in Nat, r \in Nat : q = c \div s /\ r = c % s /\ c = s * q + r
    BY <1>2, <2>1
  <2>3. n = s * s
    BY <1>1
  <2>4. q <= s - 1
    <3>1. ASSUME q >= s PROVE FALSE
      <4>1. s * q >= s * s
        BY <3>1
      <4> QED
        BY <1>2, <2>2, <2>3, <4>1
    <3> QED
      BY <3>1
  <2>5. s * q <= n - s
    <3>1. s * q <= s * (s - 1)
      BY <2>4
    <3> QED
      BY <1>1, <3>1
  <2> QED
    BY <2>2, <2>5
<1>5. CASE d = 0 \/ d = 3
  BY <1>2, <1>3, <1>5
<1>6. CASE d = 1
  BY <1>2, <1>3, <1>4, <1>6
<1>7. CASE d = 2
  BY <1>2, <1>3, <1>7
<1> QED
  BY <1>2, <1>5, <1>6, <1>7

-----------------------------------------------------------------------------
\* Sets of cells that power cannot leave

\* The pairs of cells that join.
Joined(ports) == {e \in Cells \X Cells : \E d \in Directions : Joins(ports, e[1], d) /\ e[2] = Neighbor(e[1], d)}

Shut(edges, P) == \A e \in edges : e[1] \in P => e[2] \in P

\* The state of the search.
Searched(source, s) ==
  /\ s.queue \in Seq(Cells) /\ s.powered \in SUBSET Cells /\ source \in s.powered
  /\ \A i \in DOMAIN s.queue : s.queue[i] \in s.powered

\* Whatever it powered and did not look at yet is in the queue, which shortens with every turn.
Pending(ports, k, s) ==
  /\ \A e \in Joined(ports) : e[1] \in s.powered =>
       e[2] \in s.powered \/ \E i \in DOMAIN s.queue : s.queue[i] = e[1]
  /\ s.queue = <<>> \/ Cardinality(s.powered) = k + Len(s.queue)

\* The same within a turn for c, whose neighbours in the directions D have been seen.
Amid(ports, k, c, D, s) ==
  /\ c \in s.powered
  /\ \A e \in Joined(ports) : e[1] \in s.powered =>
       \/ e[2] \in s.powered \/ \E i \in DOMAIN s.queue : s.queue[i] = e[1]
       \/ e[1] = c /\ \A d \in D : Joins(ports, c, d) => Neighbor(c, d) # e[2]
  /\ Cardinality(s.powered) = k + Len(s.queue)

\* One direction of a turn.
LEMMA EnqueuedStep ==
  ASSUME NEW ports, NEW source, NEW k \in Nat, NEW c \in Cells, NEW D, NEW d \in Directions,
         NEW s, Searched(source, s), Amid(ports, k, c, D, s)
  PROVE  /\ Searched(source, Enqueued(ports, c, s, d))
         /\ Amid(ports, k, c, D \cup {d}, Enqueued(ports, c, s, d))
<1>1. PICK n, q, p : n = Neighbor(c, d) /\ q = s.queue /\ p = s.powered
  OBVIOUS
<1>2. q \in Seq(Cells) /\ p \in SUBSET Cells /\ c \in p /\ source \in p
      /\ (\A i \in DOMAIN q : q[i] \in p) /\ Len(q) \in Nat
      /\ Cardinality(p) = k + Len(q)
  BY <1>1 DEF Searched, Amid
<1>3. CASE Joins(ports, c, d) /\ n \notin p
  <2>1. n \in Cells
    BY <1>1, <1>3, NeighborShape DEF Joins
  <2>2. PICK r, u : r = Append(q, n) /\ u = p \cup {n}
    OBVIOUS
  <2>3. PICK t : t = Enqueued(ports, c, s, d)
    OBVIOUS
  <2>4. t.queue = r /\ t.powered = u
    BY <1>1, <1>3, <2>2, <2>3 DEF Enqueued
  <2>5. /\ r \in Seq(Cells) /\ Len(r) = Len(q) + 1 /\ DOMAIN r = 1..Len(q) + 1
        /\ \A i \in 1..Len(q) : r[i] = q[i]
        /\ r[Len(q) + 1] = n
    BY <1>2, <2>1, <2>2
  <2>6. Cardinality(u) = k + Len(r)
    <3>1. Cardinality(u) = Cardinality(p) + 1
      BY <1>2, <1>3, <2>2, CellSets, FS_AddElement
    <3> QED
      BY <1>2, <2>5, <3>1
  <2>7. \A i \in DOMAIN r : r[i] \in u
    BY <1>2, <2>2, <2>5
  <2>8. Searched(source, t)
    BY <1>2, <2>1, <2>2, <2>4, <2>5, <2>7 DEF Searched
  <2>9. ASSUME NEW e \in Joined(ports), e[1] \in u
        PROVE  \/ e[2] \in u \/ \E i \in DOMAIN r : r[i] = e[1]
               \/ e[1] = c /\ \A b \in D \cup {d} : Joins(ports, c, b) => Neighbor(c, b) # e[2]
    <3>1. CASE e[1] = n
      BY <1>2, <2>5, <3>1
    <3>2. CASE e[1] \in p
      <4>1. \/ e[2] \in p \/ \E i \in DOMAIN q : q[i] = e[1]
            \/ e[1] = c /\ \A b \in D : Joins(ports, c, b) => Neighbor(c, b) # e[2]
        BY <1>1, <3>2 DEF Amid
      <4>2. CASE \E i \in DOMAIN q : q[i] = e[1]
        BY <1>2, <2>5, <4>2
      <4> QED
        BY <1>1, <2>2, <4>1, <4>2
    <3> QED
      BY <2>2, <2>9, <3>1, <3>2
  <2> QED
    BY <1>2, <2>2, <2>3, <2>4, <2>6, <2>8, <2>9 DEF Amid
<1>4. CASE ~(Joins(ports, c, d) /\ n \notin p)
  <2>1. Enqueued(ports, c, s, d) = s
    BY <1>1, <1>4 DEF Enqueued
  <2>2. ASSUME NEW e \in Joined(ports), e[1] \in p, e[2] \notin p
        PROVE  Joins(ports, c, d) => Neighbor(c, d) # e[2]
    BY <1>1, <1>4, <2>2
  <2>3. Amid(ports, k, c, D \cup {d}, s)
    BY <1>1, <2>2 DEF Amid
  <2> QED
    BY <2>1, <2>3
<1> QED
  BY <1>3, <1>4

\* A turn.
LEMMA VisitedStep ==
  ASSUME NEW ports, NEW source, NEW k \in Nat, NEW s, Searched(source, s), Pending(ports, k, s)
  PROVE  /\ Searched(source, Visited(ports, s))
         /\ Pending(ports, k + 1, Visited(ports, s))
<1>1. CASE s.queue = <<>>
  <2>1. Visited(ports, s) = s
    BY <1>1 DEF Visited
  <2>2. Pending(ports, k + 1, s)
    BY <1>1 DEF Pending
  <2> QED
    BY <2>1, <2>2
<1>2. CASE s.queue # <<>>
  <2>1. PICK q, p, c, r, a : /\ q = s.queue /\ p = s.powered /\ c = Head(s.queue)
                             /\ r = Tail(s.queue) /\ a = [s EXCEPT !.queue = Tail(@)]
    OBVIOUS
  <2>2. /\ q \in Seq(Cells) /\ q # <<>> /\ p \in SUBSET Cells /\ source \in p
        /\ \A i \in DOMAIN q : q[i] \in p
        /\ Cardinality(p) = k + Len(q)
    BY <1>2, <2>1 DEF Searched, Pending
  <2>3. /\ c = q[1] /\ c \in Cells /\ c \in p /\ r \in Seq(Cells) /\ Len(r) = Len(q) - 1
        /\ Len(q) \in Nat \ {0} /\ DOMAIN q = 1..Len(q) /\ DOMAIN r = 1..Len(q) - 1
        /\ \A i \in DOMAIN r : r[i] = q[i + 1]
    BY <2>1, <2>2
  <2>4. a.powered = p /\ a.queue = r
    BY <2>1
  <2>5. Searched(source, a)
    BY <2>2, <2>3, <2>4 DEF Searched
  <2>6. ASSUME NEW e \in Joined(ports), e[1] \in p
        PROVE  e[2] \in p \/ (\E i \in DOMAIN r : r[i] = e[1]) \/ e[1] = c
    <3>1. e[2] \in p \/ \E i \in DOMAIN q : q[i] = e[1]
      BY <2>1, <2>6 DEF Pending
    <3>2. ASSUME NEW i \in DOMAIN q, q[i] = e[1], e[1] # c PROVE \E j \in DOMAIN r : r[j] = e[1]
      <4>1. i - 1 \in DOMAIN r /\ r[i - 1] = q[i]
        BY <2>3, <3>2
      <4> QED
        BY <3>2, <4>1
    <3> QED
      BY <3>1, <3>2
  <2>7. PICK m \in Nat : m = k + 1
    OBVIOUS
  <2>8. Amid(ports, m, c, {}, a)
    <3>1. Cardinality(p) = m + Len(r)
      BY <2>2, <2>3, <2>7
    <3> QED
      BY <2>3, <2>4, <2>6, <3>1 DEF Amid
  <2>9. PICK a0, a1, a2, a3 : /\ a0 = Enqueued(ports, c, a, 0) /\ a1 = Enqueued(ports, c, a0, 1)
                              /\ a2 = Enqueued(ports, c, a1, 2) /\ a3 = Enqueued(ports, c, a2, 3)
    OBVIOUS
  <2>10. Visited(ports, s) = a3
    BY <1>2, <2>1, <2>9 DEF Visited
  <2>11. c \in Cells /\ 0 \in Directions /\ 1 \in Directions /\ 2 \in Directions /\ 3 \in Directions
    BY <2>3 DEF Directions
  <2>12. Searched(source, a0) /\ Amid(ports, m, c, {} \cup {0}, a0)
    BY <2>5, <2>8, <2>9, <2>11, EnqueuedStep
  <2>13. PICK D : D = {} \cup {0}
    OBVIOUS
  <2>14. Searched(source, a1) /\ Amid(ports, m, c, D \cup {1}, a1)
    BY <2>9, <2>11, <2>12, <2>13, EnqueuedStep
  <2>15. PICK E : E = D \cup {1}
    OBVIOUS
  <2>16. Searched(source, a2) /\ Amid(ports, m, c, E \cup {2}, a2)
    BY <2>9, <2>11, <2>14, <2>15, EnqueuedStep
  <2>17. PICK F : F = E \cup {2}
    OBVIOUS
  <2>18. Searched(source, a3) /\ Amid(ports, m, c, F \cup {3}, a3)
    BY <2>9, <2>11, <2>16, <2>17, EnqueuedStep
  <2>19. F \cup {3} = Directions
    BY <2>13, <2>15, <2>17 DEF Directions
  <2>20. Pending(ports, m, a3)
    BY <2>18, <2>19 DEF Amid, Pending, Joined
  <2> QED
    BY <2>7, <2>10, <2>18, <2>20
<1> QED
  BY <1>1, <1>2

\* A turn stays within a set of cells that power cannot leave.
LEMMA VisitedWithin ==
  ASSUME NEW ports, NEW source, NEW s, Searched(source, s),
         NEW P, Shut(Joined(ports), P), s.powered \subseteq P
  PROVE  Visited(ports, s).powered \subseteq P
<1>1. CASE s.queue = <<>>
  BY <1>1 DEF Visited
<1>2. CASE s.queue # <<>>
  <2>1. PICK c, a : c = Head(s.queue) /\ a = [s EXCEPT !.queue = Tail(@)]
    OBVIOUS
  <2>2. c \in Cells /\ c \in P /\ a.powered = s.powered
    <3>1. 1 \in DOMAIN s.queue /\ Head(s.queue) = s.queue[1]
      BY <1>2 DEF Searched
    <3> QED
      BY <2>1, <3>1 DEF Searched
  <2>3. ASSUME NEW b, b.powered \subseteq P, NEW d \in Directions
        PROVE  Enqueued(ports, c, b, d).powered \subseteq P
    <3>1. ASSUME Joins(ports, c, d) PROVE Neighbor(c, d) \in P
      <4>1. Neighbor(c, d) \in Cells
        BY <2>2, <3>1, NeighborShape DEF Joins
      <4>2. PICK e : e = <<c, Neighbor(c, d)>>
        OBVIOUS
      <4>3. e \in Joined(ports) /\ e[1] = c /\ e[2] = Neighbor(c, d)
        BY <2>2, <3>1, <4>1, <4>2 DEF Joined
      <4> QED
        BY <2>2, <4>3 DEF Shut
    <3> QED
      BY <2>3, <3>1 DEF Enqueued
  <2>4. PICK a0, a1, a2, a3 : /\ a0 = Enqueued(ports, c, a, 0) /\ a1 = Enqueued(ports, c, a0, 1)
                              /\ a2 = Enqueued(ports, c, a1, 2) /\ a3 = Enqueued(ports, c, a2, 3)
    OBVIOUS
  <2>5. Visited(ports, s) = a3
    BY <1>2, <2>1, <2>4 DEF Visited
  <2>6. 0 \in Directions /\ 1 \in Directions /\ 2 \in Directions /\ 3 \in Directions
    BY DEF Directions
  <2>7. a0.powered \subseteq P
    BY <2>2, <2>3, <2>4, <2>6
  <2>8. a1.powered \subseteq P
    BY <2>3, <2>4, <2>6, <2>7
  <2>9. a2.powered \subseteq P
    BY <2>3, <2>4, <2>6, <2>8
  <2> QED
    BY <2>3, <2>4, <2>5, <2>6, <2>9
<1> QED
  BY <1>1, <1>2
-----------------------------------------------------------------------------
\* What repeats as often as there are cells

\* One turn of the search, or one step of all paths.
Turn(search, graph, was) == IF search THEN Visited(graph, was) ELSE Spread(graph, was)

\* f is what comes of start in each of n turns.
Turns(search, graph, start, n, f) ==
  f = [k \in 0..n |-> IF k = 0 THEN start ELSE Turn(search, graph, f[k - 1])]

\* What f is after each turn.
AfterEach(search, graph, start, n, f) ==
  f[0] = start /\ \A k \in 1..n : f[k] = Turn(search, graph, f[k - 1])

\* A function that does so does it turn by turn.
LEMMA TurnsApplied ==
  ASSUME NEW search, NEW graph, NEW start, NEW n \in Nat, NEW f, Turns(search, graph, start, n, f)
  PROVE  AfterEach(search, graph, start, n, f)
<1> DEFINE G(g) == [k \in 0..n |-> IF k = 0 THEN start ELSE Turn(search, graph, g[k - 1])]
<1>1. f = G(f)
  BY DEF Turns
<1>2. \A k \in 0..n : G(f)[k] = IF k = 0 THEN start ELSE Turn(search, graph, f[k - 1])
  OBVIOUS
<1> HIDE DEF G
<1> QED
  BY <1>1, <1>2 DEF AfterEach

\* There is such a function.
LEMMA TurnsExist ==
  ASSUME NEW search, NEW graph, NEW start, NEW N \in Nat
  PROVE  \E f : Turns(search, graph, start, N, f)
<1> DEFINE Has(n) == \E f : Turns(search, graph, start, n, f)
           T == {n \in 0..N : Has(n)}
<1>1. Has(0)
  <2> DEFINE f == [k \in 0..0 |-> start]
  <2>1. f = [k \in 0..0 |-> IF k = 0 THEN start ELSE Turn(search, graph, f[k - 1])]
    <3>1. \A k \in 0..0 : k = 0
      OBVIOUS
    <3> QED
      BY <3>1
  <2> HIDE DEF f
  <2>2. Turns(search, graph, start, 0, f)
    BY <2>1 DEF Turns
  <2> QED
    BY <2>2
<1>2. ASSUME NEW n \in 1..N, Has(n - 1) PROVE Has(n)
  <2>1. PICK m \in Nat : m = n - 1
    OBVIOUS
  <2>2. PICK f : Turns(search, graph, start, n - 1, f)
    BY <1>2
  <2>3. f[0] = start /\ \A k \in 1..m : f[k] = Turn(search, graph, f[k - 1])
    <3>1. Turns(search, graph, start, m, f)
      BY ONLY <2>1, <2>2
    <3>2. AfterEach(search, graph, start, m, f)
      BY <3>1, TurnsApplied
    <3> QED
      BY <3>2 DEF AfterEach
  <2> DEFINE g == [k \in 0..n |-> IF k = n THEN Turn(search, graph, f[m]) ELSE f[k]]
  <2>4. /\ g[0] = start /\ \A k \in 1..n : g[k] = Turn(search, graph, g[k - 1])
    BY <2>1, <2>3
  <2>5. g = [k \in 0..n |-> g[k]]
    OBVIOUS
  <2> HIDE DEF g
  <2>6. g = [k \in 0..n |-> IF k = 0 THEN start ELSE Turn(search, graph, g[k - 1])]
    <3>1. ASSUME NEW k \in 0..n
          PROVE  g[k] = IF k = 0 THEN start ELSE Turn(search, graph, g[k - 1])
      BY <2>4
    <3> QED
      BY <2>5, <3>1
  <2>7. Turns(search, graph, start, n, g)
    BY <2>6 DEF Turns
  <2> QED
    BY <2>7
<1> HIDE DEF Has
<1>3. 0 \in T /\ \A n \in 1..N : n - 1 \in T => n \in T
  BY <1>1, <1>2
<1> HIDE DEF T
<1>4. 0..N \subseteq T
  BY <1>3, UpTo
<1>5. Has(N)
  BY <1>4 DEF T
<1> QED
  BY <1>5 DEF Has

\* The search powers what power reaches: the source, and with a cell all that it joins,
\* and nothing that a set with this property lacks. When it has taken as many turns as
\* there are cells the queue is empty.
LEMMA FloodReaches ==
  ASSUME NEW ports, NEW source \in Cells
  PROVE  /\ Flood(ports, source) \in SUBSET Cells /\ source \in Flood(ports, source)
         /\ Shut(Joined(ports), Flood(ports, source))
         /\ \A P : source \in P /\ Shut(Joined(ports), P) => Flood(ports, source) \subseteq P
<1> DEFINE start == [queue |-> <<source>>, powered |-> {source}]
           f == CHOOSE f : f = [k \in 0..Side * Side |->
                                  IF k = 0 THEN start ELSE Visited(ports, f[k - 1])]
<1>1. PICK n \in Nat \ {0} : n = Side * Side
  BY CellsShape
<1>2. \A g : Turns(TRUE, ports, start, n, g) <=>
        g = [k \in 0..Side * Side |-> IF k = 0 THEN start ELSE Visited(ports, g[k - 1])]
  BY <1>1 DEF Turns, Turn
<1>3. Turns(TRUE, ports, start, n, f)
  <2> HIDE DEF start
  <2>1. \E g : Turns(TRUE, ports, start, n, g)
    BY TurnsExist
  <2> QED
    BY <1>2, <2>1
<1>4. Flood(ports, source) = f[n].powered
  BY <1>1 DEF Flood
<1> HIDE DEF f
<1>5. AfterEach(TRUE, ports, start, n, f)
  <2> HIDE DEF start
  <2> QED
    BY <1>3, TurnsApplied
<1>6. f[0] = start /\ \A k \in 1..n : f[k] = Visited(ports, f[k - 1])
  BY <1>5 DEF AfterEach, Turn
<1> DEFINE Fine(k) == Searched(source, f[k]) /\ Pending(ports, k, f[k])
           Within(P, k) == f[k].powered \subseteq P
<1>7. Searched(source, start) /\ Pending(ports, 0, start)
  <2>1. start.queue = <<source>> /\ start.powered = {source}
    OBVIOUS
  <2>2. <<source>> \in Seq(Cells) /\ Len(<<source>>) = 1 /\ <<source>>[1] = source
        /\ DOMAIN <<source>> = {1}
    OBVIOUS
  <2>3. Cardinality({source}) = 1
    BY FS_Singleton
  <2> HIDE DEF start
  <2> QED
    BY <2>1, <2>2, <2>3 DEF Searched, Pending
<1>8. \A k \in 0..n : Fine(k)
  <2> DEFINE T == {k \in 0..n : Fine(k)}
  <2>1. 0 \in T
    BY <1>6, <1>7
  <2>2. ASSUME NEW k \in 1..n, k - 1 \in T PROVE k \in T
    <3>1. PICK m \in Nat : m = k - 1 /\ m + 1 = k
      OBVIOUS
    <3>2. Fine(m)
      BY <2>2, <3>1
    <3>3. Searched(source, Visited(ports, f[m])) /\ Pending(ports, m + 1, Visited(ports, f[m]))
      BY <3>2, VisitedStep
    <3> QED
      BY <1>6, <3>1, <3>3
  <2> HIDE DEF T
  <2>3. 0..n \subseteq T
    BY <2>1, <2>2, UpTo
  <2> QED
    BY <2>3 DEF T
<1>9. Searched(source, f[n]) /\ Pending(ports, n, f[n])
  BY <1>8
<1>10. f[n].queue = <<>>
  <2>1. Cardinality(f[n].powered) \in 0..n
    BY <1>1, <1>9, CellSets DEF Searched
  <2>2. f[n].queue # <<>> => Len(f[n].queue) \in Nat \ {0}
    BY <1>9 DEF Searched
  <2>3. ASSUME f[n].queue # <<>> PROVE FALSE
    <3>1. Cardinality(f[n].powered) = n + Len(f[n].queue)
      BY <1>9, <2>3 DEF Pending
    <3> QED
      BY <2>1, <2>2, <2>3, <3>1
  <2> QED
    BY <2>3
<1>11. Shut(Joined(ports), f[n].powered)
  BY <1>9, <1>10 DEF Pending, Shut
<1>12. ASSUME NEW P, source \in P, Shut(Joined(ports), P) PROVE f[n].powered \subseteq P
  <2> DEFINE T == {k \in 0..n : Within(P, k)}
  <2>1. 0 \in T
    BY <1>6, <1>12
  <2>2. ASSUME NEW k \in 1..n, k - 1 \in T PROVE k \in T
    <3>1. k - 1 \in 0..n /\ Within(P, k - 1)
      BY <2>2
    <3>2. Searched(source, f[k - 1])
      BY <1>8, <3>1
    <3>3. Visited(ports, f[k - 1]).powered \subseteq P
      BY <1>12, <3>1, <3>2, VisitedWithin
    <3> QED
      BY <1>6, <3>3
  <2> HIDE DEF T
  <2>3. 0..n \subseteq T
    BY <2>1, <2>2, UpTo
  <2> QED
    BY <2>3 DEF T
<1> QED
  BY <1>4, <1>9, <1>11, <1>12 DEF Searched

\* One step of all paths adds a cell, until power cannot leave.
Widened(edges, start, k, S) ==
  S \in SUBSET Cells /\ start \subseteq S /\ (Shut(edges, S) \/ Cardinality(S) >= k)

LEMMA SpreadStep ==
  ASSUME NEW edges \in SUBSET (Cells \X Cells), NEW start, NEW k \in Nat, NEW S,
         Widened(edges, start, k, S)
  PROVE  Widened(edges, start, k + 1, Spread(edges, S))
<1>1. S \in SUBSET Cells /\ start \subseteq S
  BY DEF Widened
<1>2. Spread(edges, S) \in SUBSET Cells /\ S \subseteq Spread(edges, S)
  BY <1>1 DEF Spread
<1>3. \A e \in edges : e = <<e[1], e[2]>> /\ e[1] \in Cells /\ e[2] \in Cells
  OBVIOUS
<1>4. CASE Shut(edges, S)
  <2>1. Spread(edges, S) = S
    <3>1. ASSUME NEW n \in Cells, NEW m \in S, <<m, n>> \in edges PROVE n \in S
      <4>1. PICK e \in edges : e[1] = m /\ e[2] = n
        BY <3>1
      <4> QED
        BY <1>4, <4>1 DEF Shut
    <3> QED
      BY <1>2, <3>1 DEF Spread
  <2> QED
    BY <1>1, <1>4, <2>1 DEF Widened
<1>5. CASE ~Shut(edges, S)
  <2>1. PICK e \in edges : e[1] \in S /\ e[2] \notin S
    BY <1>5 DEF Shut
  <2>2. S \cup {e[2]} \in SUBSET Spread(edges, S)
    BY <1>2, <1>3, <2>1 DEF Spread
  <2>3. Cardinality(S \cup {e[2]}) = Cardinality(S) + 1 /\ Cardinality(S) \in Nat
    BY <1>1, <2>1, CellSets, FS_AddElement
  <2>4. Cardinality(S \cup {e[2]}) <= Cardinality(Spread(edges, S)) /\ Cardinality(Spread(edges, S)) \in Nat
    BY <1>2, <2>2, CellSets, FS_Subset
  <2>5. Cardinality(S) >= k
    BY <1>5 DEF Widened
  <2> QED
    BY <1>1, <1>2, <2>3, <2>4, <2>5 DEF Widened
<1> QED
  BY <1>4, <1>5

\* The cells within as many steps as there are cells are what power reaches, too.
LEMMA PathsReach ==
  ASSUME NEW tiles
  PROVE  /\ PoweredBy(tiles) \in SUBSET Cells /\ Sources(tiles) \subseteq PoweredBy(tiles)
         /\ Shut(Facing(tiles), PoweredBy(tiles))
         /\ \A P : Sources(tiles) \subseteq P /\ Shut(Facing(tiles), P) => PoweredBy(tiles) \subseteq P
<1> DEFINE edges == Facing(tiles)
           start == Sources(tiles)
           f == CHOOSE f : f = [k \in 0..Side * Side |->
                                  IF k = 0 THEN start ELSE Spread(edges, f[k - 1])]
<1>1. PICK n \in Nat \ {0} : n = Side * Side
  BY CellsShape
<1>2. edges \in SUBSET (Cells \X Cells) /\ start \in SUBSET Cells
  BY DEF Facing, Sources
<1>3. PoweredBy(tiles) = f[n]
  BY <1>1 DEF PoweredBy, Sources
<1> HIDE DEF edges, start
<1>4. \A g : Turns(FALSE, edges, start, n, g) <=>
        g = [k \in 0..Side * Side |-> IF k = 0 THEN start ELSE Spread(edges, g[k - 1])]
  BY <1>1 DEF Turns, Turn
<1>5. Turns(FALSE, edges, start, n, f)
  <2>1. \E g : Turns(FALSE, edges, start, n, g)
    BY TurnsExist
  <2> QED
    BY <1>4, <2>1
<1> HIDE DEF f
<1>6. AfterEach(FALSE, edges, start, n, f)
  BY <1>5, TurnsApplied
<1>7. f[0] = start /\ \A k \in 1..n : f[k] = Spread(edges, f[k - 1])
  BY <1>6 DEF AfterEach, Turn
<1> DEFINE Fine(k) == Widened(edges, start, k, f[k])
           Within(P, k) == f[k] \subseteq P
<1>8. \A k \in 0..n : Fine(k)
  <2> DEFINE T == {k \in 0..n : Fine(k)}
  <2>1. 0 \in T
    <3>1. Cardinality(start) >= 0
      BY <1>2, CellSets
    <3> QED
      BY <1>2, <1>7, <3>1 DEF Widened
  <2>2. ASSUME NEW k \in 1..n, k - 1 \in T PROVE k \in T
    <3>1. PICK m \in Nat : m = k - 1 /\ m + 1 = k
      OBVIOUS
    <3>2. Fine(m)
      BY <2>2, <3>1
    <3>3. Widened(edges, start, m + 1, Spread(edges, f[m]))
      BY <1>2, <3>2, SpreadStep
    <3> QED
      BY <1>7, <3>1, <3>3
  <2> HIDE DEF T
  <2>3. 0..n \subseteq T
    BY <2>1, <2>2, UpTo
  <2> QED
    BY <2>3 DEF T
<1>9. f[n] \in SUBSET Cells /\ start \subseteq f[n] /\ (Shut(edges, f[n]) \/ Cardinality(f[n]) >= n)
  BY <1>8 DEF Widened
<1>10. Shut(edges, f[n])
  <2>1. ASSUME Cardinality(f[n]) >= n PROVE Shut(edges, f[n])
    <3>1. f[n] = Cells
      BY <1>1, <1>9, <2>1, CellSets
    <3> QED
      BY <1>2, <3>1 DEF Shut
  <2> QED
    BY <1>9, <2>1
<1>11. ASSUME NEW P, start \subseteq P, Shut(edges, P) PROVE f[n] \subseteq P
  <2> DEFINE T == {k \in 0..n : Within(P, k)}
  <2>1. 0 \in T
    BY <1>7, <1>11
  <2>2. ASSUME NEW k \in 1..n, k - 1 \in T PROVE k \in T
    <3>1. f[k - 1] \subseteq P
      BY <2>2
    <3>2. ASSUME NEW b \in Cells, NEW m \in f[k - 1], <<m, b>> \in edges PROVE b \in P
      <4>1. PICK e \in edges : e[1] = m /\ e[2] = b
        BY <3>2
      <4> QED
        BY <1>11, <3>1, <4>1 DEF Shut
    <3>3. Spread(edges, f[k - 1]) \subseteq P
      BY <3>1, <3>2 DEF Spread
    <3> QED
      BY <1>7, <3>3
  <2> HIDE DEF T
  <2>3. 0..n \subseteq T
    BY <2>1, <2>2, UpTo
  <2> QED
    BY <2>3 DEF T
<1> QED
  BY <1>3, <1>9, <1>10, <1>11 DEF edges, start
-----------------------------------------------------------------------------
\* The geometry of the board

\* Quotient and remainder are the only ones.
LEMMA DivUnique ==
  ASSUME NEW s \in Nat \ {0}, NEW a \in Int, NEW b \in Int, NEW x \in 0..s - 1, NEW z \in 0..s - 1,
         s * a + x = s * b + z
  PROVE  a = b /\ x = z
<1>1. ASSUME NEW i \in Int, NEW j \in Int, NEW u \in 0..s - 1, NEW v \in 0..s - 1,
             s * i + u = s * j + v, i < j
      PROVE  FALSE
  <2>1. s * j >= s * (i + 1)
    BY <1>1
  <2>2. s * (i + 1) = s * i + s
    OBVIOUS
  <2> QED
    BY <1>1, <2>1, <2>2
<1>2. ~(a < b) /\ ~(b < a)
  BY <1>1
<1> QED
  BY <1>2

\* A cell's column and row.
LEMMA Coordinates ==
  ASSUME NEW c \in Cells
  PROVE  /\ c % Side \in 0..Side - 1 /\ c \div Side \in 0..Side - 1
         /\ c = Side * (c \div Side) + (c % Side)
<1>1. PICK s \in Nat \ {0}, n \in Nat \ {0} : s = Side /\ n = s * s
  BY CellsShape
<1>2. c \in 0..n - 1
  BY <1>1, CellsShape
<1>3. c % s \in 0..s - 1 /\ c \div s \in Nat /\ c = s * (c \div s) + (c % s)
  BY <1>1, <1>2
<1>4. PICK q \in Nat, r \in 0..s - 1 : q = c \div s /\ r = c % s /\ c = s * q + r
  BY <1>3
<1>5. q <= s - 1
  <2>1. ASSUME q >= s PROVE FALSE
    <3>1. s * q >= s * s
      BY <2>1
    <3> QED
      BY <1>1, <1>2, <1>4, <3>1
  <2> QED
    BY <2>1
<1> QED
  BY <1>1, <1>3, <1>4, <1>5

\* The neighbour on a side is the cell that lies there.
LEMMA NeighborTowards ==
  ASSUME NEW c \in Cells, NEW n \in Cells, NEW d \in Directions
  PROVE  Neighbor(c, d) = n <=> Towards(c, n) = d
<1>1. PICK s \in Nat \ {0} : s = Side
  BY CellsShape
<1>2. PICK q \in 0..s - 1, x \in 0..s - 1 : q = c \div s /\ x = c % s /\ c = s * q + x
  BY <1>1, Coordinates
<1>3. PICK p \in 0..s - 1, z \in 0..s - 1 : p = n \div s /\ z = n % s /\ n = s * p + z
  BY <1>1, Coordinates
<1>4. s * (s - 1) = s * s - s /\ s * (q - 1) = s * q - s /\ s * (q + 1) = s * q + s
  OBVIOUS
<1>5. s * q >= 0 /\ s * p >= 0
  OBVIOUS
<1>6. c \in Int /\ n \in 0..s * s - 1
  BY <1>1, CellsShape
<1>7. Towards(c, n) = CASE z - x = 0 /\ p - q = -1 -> 0 [] z - x = 1 /\ p - q = 0 -> 1
                        [] z - x = 0 /\ p - q = 1  -> 2 [] z - x = -1 /\ p - q = 0 -> 3 [] OTHER -> -1
  BY <1>1, <1>2, <1>3 DEF Towards
<1>8. CASE d = 0
  <2>1. Neighbor(c, d) = n <=> c >= s /\ n = c - s
    <3>1. Neighbor(c, d) = IF c >= s THEN c - s ELSE -1
      BY <1>1, <1>8 DEF Neighbor
    <3>2. n # -1 /\ c \in Int /\ s \in Int /\ x = c % s
      BY <1>2, <1>6
    <3> QED
      BY <3>1, <3>2
  <2>2. Towards(c, n) = d <=> z = x /\ p = q - 1
    BY <1>7, <1>8
  <2>3. ASSUME n = c - s PROVE z = x /\ p = q - 1
    <3>1. s * p + z = s * (q - 1) + x
      BY <1>2, <1>3, <1>4, <2>3
    <3> QED
      BY <3>1, DivUnique
  <2>4. ASSUME z = x, p = q - 1 PROVE n = c - s /\ c >= s
    BY <1>2, <1>3, <1>4, <1>5, <2>4
  <2> QED
    BY <2>1, <2>2, <2>3, <2>4
<1>9. CASE d = 1
  <2>1. Neighbor(c, d) = n <=> x < s - 1 /\ n = c + 1
    <3>1. Neighbor(c, d) = IF c % s < s - 1 THEN c + 1 ELSE -1
      BY <1>1, <1>9 DEF Neighbor
    <3>2. n # -1 /\ c \in Int /\ s \in Int /\ x = c % s
      BY <1>2, <1>6
    <3> QED
      BY <3>1, <3>2
  <2>2. Towards(c, n) = d <=> z = x + 1 /\ p = q
    BY <1>7, <1>9
  <2>3. ASSUME x < s - 1, n = c + 1 PROVE z = x + 1 /\ p = q
    <3>1. s * p + z = s * q + (x + 1) /\ x + 1 \in 0..s - 1
      BY <1>2, <1>3, <2>3
    <3> QED
      BY <3>1, DivUnique
  <2>4. ASSUME z = x + 1, p = q PROVE n = c + 1 /\ x < s - 1
    BY <1>2, <1>3, <2>4
  <2> QED
    BY <2>1, <2>2, <2>3, <2>4
<1>10. CASE d = 2
  <2>1. Neighbor(c, d) = n <=> c < s * (s - 1) /\ n = c + s
    <3>1. Neighbor(c, d) = IF c < s * (s - 1) THEN c + s ELSE -1
      BY <1>1, <1>10 DEF Neighbor
    <3>2. n # -1 /\ c \in Int /\ s \in Int /\ x = c % s
      BY <1>2, <1>6
    <3> QED
      BY <3>1, <3>2
  <2>2. Towards(c, n) = d <=> z = x /\ p = q + 1
    BY <1>7, <1>10
  <2>3. ASSUME n = c + s PROVE z = x /\ p = q + 1
    <3>1. s * p + z = s * (q + 1) + x
      BY <1>2, <1>3, <1>4, <2>3
    <3> QED
      BY <3>1, DivUnique
  <2>4. ASSUME z = x, p = q + 1 PROVE n = c + s /\ c < s * (s - 1)
    <3>1. n = c + s
      BY <1>2, <1>3, <1>4, <2>4
    <3> QED
      BY <1>4, <1>6, <3>1
  <2> QED
    BY <2>1, <2>2, <2>3, <2>4
<1>11. CASE d = 3
  <2>1. Neighbor(c, d) = n <=> x > 0 /\ n = c - 1
    <3>1. Neighbor(c, d) = IF c % s > 0 THEN c - 1 ELSE -1
      BY <1>1, <1>11 DEF Neighbor
    <3>2. n # -1 /\ c \in Int /\ s \in Int /\ x = c % s
      BY <1>2, <1>6
    <3> QED
      BY <3>1, <3>2
  <2>2. Towards(c, n) = d <=> z = x - 1 /\ p = q
    BY <1>7, <1>11
  <2>3. ASSUME x > 0, n = c - 1 PROVE z = x - 1 /\ p = q
    <3>1. s * p + z = s * q + (x - 1) /\ x - 1 \in 0..s - 1
      BY <1>2, <1>3, <2>3
    <3> QED
      BY <3>1, DivUnique
  <2>4. ASSUME z = x - 1, p = q PROVE n = c - 1 /\ x > 0
    BY <1>2, <1>3, <2>4
  <2> QED
    BY <2>1, <2>2, <2>3, <2>4
<1> QED
  BY <1>8, <1>9, <1>10, <1>11 DEF Directions

\* Seen from the other cell, the direction is the opposite one.
LEMMA TowardsBack ==
  ASSUME NEW c \in Cells, NEW n \in Cells
  PROVE  /\ Towards(c, n) \in Directions \cup {-1}
         /\ Towards(c, n) # -1 => Towards(n, c) = Opposite(Towards(c, n))
<1>1. PICK x, y, z, w : x = c % Side /\ y = c \div Side /\ z = n % Side /\ w = n \div Side
  OBVIOUS
<1>2. x \in Int /\ y \in Int /\ z \in Int /\ w \in Int
  BY <1>1, CellsShape, Coordinates
<1>3. /\ Towards(c, n) = CASE z - x = 0 /\ w - y = -1 -> 0 [] z - x = 1 /\ w - y = 0 -> 1
                           [] z - x = 0 /\ w - y = 1  -> 2 [] z - x = -1 /\ w - y = 0 -> 3 [] OTHER -> -1
      /\ Towards(n, c) = CASE x - z = 0 /\ y - w = -1 -> 0 [] x - z = 1 /\ y - w = 0 -> 1
                           [] x - z = 0 /\ y - w = 1  -> 2 [] x - z = -1 /\ y - w = 0 -> 3 [] OTHER -> -1
  BY <1>1 DEF Towards
<1>4. Opposite(0) = 2 /\ Opposite(1) = 3 /\ Opposite(2) = 0 /\ Opposite(3) = 1
  BY DEF Opposite
<1>5. CASE z - x = 0 /\ w - y = -1
  BY <1>2, <1>3, <1>4, <1>5 DEF Directions
<1>6. CASE z - x = 1 /\ w - y = 0
  BY <1>2, <1>3, <1>4, <1>6 DEF Directions
<1>7. CASE z - x = 0 /\ w - y = 1
  BY <1>2, <1>3, <1>4, <1>7 DEF Directions
<1>8. CASE z - x = -1 /\ w - y = 0
  BY <1>2, <1>3, <1>4, <1>8 DEF Directions
<1> QED
  BY <1>3, <1>5, <1>6, <1>7, <1>8

-----------------------------------------------------------------------------
\* Boards

\* What a setup may hold, and what validate lets through of it.
Tiles     == [kind : {"empty", "wire", "source", "beacon"}, ports : SUBSET Nat, rotation : Nat]
SoundTile == [kind : {"empty", "wire", "source", "beacon"}, ports : SUBSET Directions, rotation : 0..3]

Boards == {tiles \in [Cells -> SoundTile] :
             Cardinality(Sources(tiles)) = 1 /\ Cardinality(Beaming(tiles)) = Beacons}

\* Two cells face each other exactly if they join in the code's sense.
LEMMA FacingJoined == ASSUME NEW tiles \in [Cells -> SoundTile] PROVE Facing(tiles) = Joined(CurrentPorts(tiles))
<1>1. PICK ports : ports = CurrentPorts(tiles)
  OBVIOUS
<1>2. \A c \in Cells : ports[c] = {(p + tiles[c].rotation) % 4 : p \in tiles[c].ports}
  BY <1>1 DEF CurrentPorts, Connections
<1>3. \A c, n \in Cells : PortTowards(tiles, c, n) <=> Towards(c, n) \in ports[c]
  BY <1>2 DEF PortTowards
<1>4. ASSUME NEW c \in Cells PROVE ports[c] \subseteq Directions
  <2>1. PICK r : r = tiles[c].rotation
    OBVIOUS
  <2>2. r \in 0..3 /\ tiles[c].ports \subseteq Directions
    BY <2>1 DEF SoundTile
  <2>3. \A p \in Directions : (p + r) % 4 \in Directions
    BY <2>2 DEF Directions
  <2> QED
    BY <1>2, <2>1, <2>2, <2>3
<1>5. ASSUME NEW c \in Cells, NEW n \in Cells
      PROVE  PortTowards(tiles, c, n) /\ PortTowards(tiles, n, c)
               <=> \E d \in Directions : Joins(ports, c, d) /\ n = Neighbor(c, d)
  <2>1. ASSUME PortTowards(tiles, c, n), PortTowards(tiles, n, c)
        PROVE  \E d \in Directions : Joins(ports, c, d) /\ n = Neighbor(c, d)
    <3>1. PICK d : d = Towards(c, n)
      OBVIOUS
    <3>2. d \in Directions /\ d \in ports[c] /\ d # -1
      BY <1>3, <1>4, <2>1, <3>1 DEF Directions
    <3>3. Opposite(d) \in ports[n]
      BY <1>3, <2>1, <3>1, <3>2, TowardsBack
    <3>4. Neighbor(c, d) = n /\ n # -1
      BY <3>1, <3>2, NeighborTowards, CellsShape
    <3> QED
      BY <3>2, <3>3, <3>4 DEF Joins
  <2>2. ASSUME NEW d \in Directions, Joins(ports, c, d), n = Neighbor(c, d)
        PROVE  PortTowards(tiles, c, n) /\ PortTowards(tiles, n, c)
    <3>1. Towards(c, n) = d /\ d # -1
      BY <2>2, NeighborTowards DEF Directions
    <3>2. Towards(n, c) = Opposite(d)
      BY <3>1, TowardsBack
    <3> QED
      BY <1>3, <2>2, <3>1, <3>2 DEF Joins
  <2> QED
    BY <2>1, <2>2
<1>6. ASSUME NEW e \in Cells \X Cells PROVE e \in Facing(tiles) <=> e \in Joined(ports)
  <2>1. e[1] \in Cells /\ e[2] \in Cells
    OBVIOUS
  <2> QED
    BY <1>5, <2>1 DEF Facing, Joined
<1> QED
  BY <1>1, <1>6 DEF Facing, Joined

\* On a board with one source, the search powers the cells a path of facing ones leads to
\* and no others, and a queue as long as the board has cells suffices (connectivity.rs).
THEOREM SearchIsReach ==
  ASSUME NEW tiles \in [Cells -> SoundTile], Cardinality(Sources(tiles)) = 1
  PROVE  Connectivity(tiles, CurrentPorts(tiles)) = PoweredBy(tiles)
<1>1. PICK source : Sources(tiles) = {source}
  <2>1. Sources(tiles) \in SUBSET Cells
    BY DEF Sources
  <2> QED
    BY <2>1, CellSets, FS_Singleton
<1>2. source \in Cells /\ (CHOOSE c \in Sources(tiles) : TRUE) = source
  <2>1. source \in Cells
    BY <1>1 DEF Sources
  <2>2. \E c : c \in Sources(tiles)
    BY <1>1
  <2>3. (CHOOSE c \in Sources(tiles) : TRUE) \in Sources(tiles)
    BY <2>2
  <2> QED
    BY <1>1, <2>1, <2>3
<1>3. PICK ports : ports = CurrentPorts(tiles)
  OBVIOUS
<1>4. Connectivity(tiles, ports) = Flood(ports, source)
  BY <1>2 DEF Connectivity
<1>5. Facing(tiles) = Joined(ports)
  BY <1>3, FacingJoined
<1>6. Flood(ports, source) \subseteq PoweredBy(tiles)
  <2>1. source \in PoweredBy(tiles) /\ Shut(Joined(ports), PoweredBy(tiles))
    BY <1>1, <1>5, PathsReach
  <2> QED
    BY <1>2, <2>1, FloodReaches
<1>7. PoweredBy(tiles) \subseteq Flood(ports, source)
  <2>1. Sources(tiles) \subseteq Flood(ports, source) /\ Shut(Facing(tiles), Flood(ports, source))
    BY <1>1, <1>2, <1>5, FloodReaches
  <2> QED
    BY <2>1, PathsReach
<1> QED
  BY <1>3, <1>4, <1>6, <1>7

\* The cached connectivity of a board, and whether it is complete, are what is promised:
\* with four beacons, four lit ones are all (board.rs, recompute).
LEMMA RecomputedPromised ==
  ASSUME NEW tiles \in Boards, NEW moves
  PROVE  Recomputed(tiles, moves) = PromisedGarden(tiles, moves)
<1>1. PICK P : P = PoweredBy(tiles)
  OBVIOUS
<1>2. Connectivity(tiles, CurrentPorts(tiles)) = P /\ P \in SUBSET Cells
  BY <1>1, SearchIsReach, PathsReach DEF Boards
<1>3. {c \in P : tiles[c].kind = "beacon"} = P \cap Beaming(tiles)
  BY <1>2 DEF Beaming
<1>4. Cardinality(P \cap Beaming(tiles)) = Beacons <=> Beaming(tiles) \subseteq P
  <2>1. PICK B : B = Beaming(tiles)
    OBVIOUS
  <2>2. IsFiniteSet(B) /\ Cardinality(B) = Beacons
    BY <2>1, CellSets DEF Boards, Beaming
  <2>3. P \cap B \in SUBSET B
    OBVIOUS
  <2>4. Cardinality(P \cap B) = Cardinality(B) => P \cap B = B
    BY <2>2, <2>3, FS_Subset
  <2>5. B \subseteq P => P \cap B = B
    OBVIOUS
  <2> QED
    BY <2>1, <2>2, <2>4, <2>5
<1> QED
  BY <1>1, <1>2, <1>3, <1>4 DEF Recomputed, ConnectedBeacons, PromisedGarden

\* A setup that passes validation is a board.
LEMMA ValidBoard ==
  ASSUME NEW S, NEW tiles \in [S -> Tiles], Valid(tiles)
  PROVE  tiles \in Boards
<1>1. DOMAIN tiles = Cells /\ \A c \in Cells : tiles[c].ports \subseteq Directions /\ tiles[c].rotation \in 0..3
  BY DEF Valid
<1>2. tiles \in [Cells -> Tiles]
  BY <1>1
<1>3. ASSUME NEW c \in Cells PROVE tiles[c] \in SoundTile
  <2>1. PICK u : u = tiles[c]
    OBVIOUS
  <2>2. u \in Tiles /\ u.ports \in SUBSET Directions /\ u.rotation \in 0..3
    BY <1>1, <1>2, <2>1
  <2>3. u = [kind |-> u.kind, ports |-> u.ports, rotation |-> u.rotation]
    BY <2>2 DEF Tiles
  <2>4. u \in SoundTile
    BY <2>2, <2>3 DEF Tiles, SoundTile
  <2> QED
    BY <2>1, <2>4
<1>4. tiles \in [Cells -> SoundTile]
  BY <1>2, <1>3
<1>5. Cardinality(Sources(tiles)) = 1 /\ Cardinality(Beaming(tiles)) = Beacons
  BY DEF Valid, Beaming
<1> QED
  BY <1>4, <1>5 DEF Boards

\* The board with every tile turned back as it was recorded.
Upright(tiles) == [c \in Cells |-> [tiles[c] EXCEPT !.rotation = 0]]

\* No session starts on a board that cannot be lit: with every wire turned back, a path
\* leads from the source to each beacon (initialization.rs, validate).
THEOREM SetupsLightable ==
  ASSUME NEW S, NEW tiles \in [S -> Tiles], Valid(tiles)
  PROVE  Upright(tiles) \in Boards /\ Beaming(Upright(tiles)) \subseteq PoweredBy(Upright(tiles))
<1>1. PICK up : up = Upright(tiles)
  OBVIOUS
<1>2. tiles \in [Cells -> SoundTile] /\ tiles \in Boards
  BY ValidBoard DEF Boards
<1>3. ASSUME NEW c \in Cells
      PROVE  /\ up[c] \in SoundTile /\ up[c].kind = tiles[c].kind
             /\ up[c].ports = tiles[c].ports /\ up[c].rotation = 0
  <2>1. PICK u, v : u = tiles[c] /\ v = [u EXCEPT !.rotation = 0]
    OBVIOUS
  <2>2. u \in SoundTile /\ up[c] = v
    BY <1>1, <1>2, <2>1 DEF Upright
  <2>3. v \in SoundTile /\ v.kind = u.kind /\ v.ports = u.ports /\ v.rotation = 0
    BY <2>1, <2>2 DEF SoundTile
  <2> QED
    BY <2>1, <2>2, <2>3
<1>4. up \in [Cells -> SoundTile]
  BY <1>1, <1>3 DEF Upright
<1>5. Sources(up) = Sources(tiles) /\ Beaming(up) = Beaming(tiles)
  BY <1>3 DEF Sources, Beaming
<1>6. up \in Boards
  BY <1>2, <1>4, <1>5 DEF Boards
<1>7. CurrentPorts(up) = BasePorts(tiles)
  <2>1. ASSUME NEW c \in Cells PROVE {(p + up[c].rotation) % 4 : p \in up[c].ports} = tiles[c].ports
    <3>1. tiles[c].ports \subseteq Directions
      BY <1>2 DEF SoundTile
    <3>2. \A p \in Directions : (p + 0) % 4 = p
      BY DEF Directions
    <3> QED
      BY <1>3, <3>1, <3>2
  <2> QED
    BY <2>1 DEF CurrentPorts, BasePorts, Connections
<1>8. Connectivity(tiles, BasePorts(tiles)) = PoweredBy(up)
  <2>1. Connectivity(up, CurrentPorts(up)) = PoweredBy(up)
    BY <1>4, <1>6, SearchIsReach DEF Boards
  <2>2. Connectivity(tiles, BasePorts(tiles)) = Connectivity(up, BasePorts(tiles))
    BY <1>5 DEF Connectivity
  <2> QED
    BY <1>7, <2>1, <2>2
<1>9. {c \in PoweredBy(up) : tiles[c].kind = "beacon"} = PoweredBy(up) \cap Beaming(up)
  <2>1. PoweredBy(up) \subseteq Cells
    BY PathsReach
  <2> QED
    BY <1>5, <2>1 DEF Beaming
<1>10. Cardinality(PoweredBy(up) \cap Beaming(up)) = Beacons
  BY <1>8, <1>9 DEF Valid, Solvable, ConnectedBeacons
<1>11. PoweredBy(up) \cap Beaming(up) = Beaming(up)
  <2>1. PICK B, P : B = Beaming(up) /\ P = PoweredBy(up)
    OBVIOUS
  <2>2. IsFiniteSet(B) /\ Cardinality(B) = Beacons
    BY <1>6, <2>1, CellSets DEF Boards, Beaming
  <2>3. P \cap B \in SUBSET B
    OBVIOUS
  <2> QED
    BY <1>10, <2>1, <2>2, <2>3, FS_Subset
<1> QED
  BY <1>1, <1>6, <1>11

-----------------------------------------------------------------------------
\* Power Garden as a game that does what it promises

Gardens == {PromisedGarden(tiles, moves) : tiles \in Boards, moves \in Nat}

\* A session plays Power Garden and promises what it does: its setups are boards of any
\* size and in any state, its commands those of a set.
PlaysGarden(Commands) ==
  /\ NoWorld \notin Gardens
  /\ \A setup \in Setups \ Foreign :
       /\ \E S : setup.tiles \in [S -> Tiles]
       /\ Create(setup) = CreateGarden(setup.tiles, NoWorld)
       /\ Create(setup) # NoWorld => PromisedStart(setup) = PromisedGarden(setup.tiles, 0)
  /\ \A g \in Gardens : Ticks(g) \subseteq Seq(Commands \cup {Malformed})
  /\ \A g \in Gardens : \A input \in Commands \ {Malformed} :
       Rule(g, input) = RotateRule(g, input) /\ Promise(g, input) = PromisedRotation(g, input)

GardenInputs(Commands) == [g \in Gardens |-> Commands \cup {Malformed}]

\* A rotation leads to the promised garden.
LEMMA RotationPromised ==
  ASSUME NEW g \in Gardens, NEW input
  PROVE  /\ RotateRule(g, input).ok /\ RotateRule(g, input).world \in Gardens
         /\ RotateRule(g, input).world = PromisedRotation(g, input).world
         /\ RotateRule(g, input).effects = PromisedRotation(g, input).effects
<1>1. PICK tiles \in Boards, moves \in Nat : g = PromisedGarden(tiles, moves)
  BY DEF Gardens
<1>2. g.tiles = tiles /\ g.moves = moves
  BY <1>1 DEF PromisedGarden
<1>3. PICK cell : cell = input.cell
  OBVIOUS
<1>4. CASE Rotatable(g, cell)
  <2>1. PICK next : next = [tiles EXCEPT ![cell].rotation = (@ + 1) % 4]
    OBVIOUS
  <2>2. cell \in Cells /\ tiles \in [Cells -> SoundTile]
    BY <1>4 DEF Rotatable, Boards
  <2>3. next \in Boards
    <3>1. PICK u, v : u = tiles[cell] /\ v = [u EXCEPT !.rotation = (@ + 1) % 4]
      OBVIOUS
    <3>2. u \in SoundTile /\ next = [tiles EXCEPT ![cell] = v]
      BY <2>1, <2>2, <3>1
    <3>3. v \in SoundTile /\ v.kind = u.kind
      <4>1. u.rotation \in 0..3
        BY <3>2 DEF SoundTile
      <4>2. (u.rotation + 1) % 4 \in 0..3
        BY <4>1
      <4> QED
        BY <3>1, <3>2, <4>2 DEF SoundTile
    <3>4. next \in [Cells -> SoundTile] /\ \A c \in Cells : next[c].kind = tiles[c].kind
      BY <2>2, <3>1, <3>2, <3>3
    <3>5. Sources(next) = Sources(tiles) /\ Beaming(next) = Beaming(tiles)
      BY <3>4 DEF Sources, Beaming
    <3> QED
      BY <3>4, <3>5 DEF Boards
  <2>4. Rotated(g, cell) = PromisedGarden(next, moves + 1)
    BY <1>2, <2>1, <2>3, RecomputedPromised DEF Rotated
  <2>5. RotateRule(g, input) = [ok |-> TRUE, world |-> PromisedGarden(next, moves + 1), effects |-> << input >>]
    BY <1>3, <1>4, <2>4 DEF RotateRule
  <2>6. PromisedRotation(g, input) = [effects |-> << input >>, world |-> PromisedGarden(next, moves + 1)]
    BY <1>2, <1>3, <1>4, <2>1 DEF Rotatable, PromisedRotation
  <2>7. PromisedGarden(next, moves + 1) \in Gardens
    <3>1. moves + 1 \in Nat
      OBVIOUS
    <3> QED
      BY <2>3, <3>1 DEF Gardens
  <2> QED
    BY <2>5, <2>6, <2>7
<1>5. CASE ~Rotatable(g, cell)
  <2>1. RotateRule(g, input) = [ok |-> TRUE, world |-> g, effects |-> <<>>]
    BY <1>3, <1>5 DEF RotateRule
  <2>2. PromisedRotation(g, input) = [effects |-> <<>>, world |-> g]
    BY <1>3, <1>5 DEF Rotatable, PromisedRotation
  <2> QED
    BY <2>1, <2>2
<1> QED
  BY <1>4, <1>5

\* The garden keeps to the contract, whatever the size of its board: the connectivity it
\* caches and calls complete is what a path reaches from the source, at the start and
\* after every rotation (board.rs; connectivity.rs; simulation.rs).
THEOREM GardenFaithful ==
  ASSUME NEW Commands, PlaysGarden(Commands) PROVE Faithful(Gardens, GardenInputs(Commands))
<1>1. ASSUME NEW setup \in Setups \ Foreign, Create(setup) # NoWorld
      PROVE  Create(setup) \in Gardens /\ Create(setup) = PromisedStart(setup)
  <2>1. PICK tiles, S : tiles = setup.tiles /\ tiles \in [S -> Tiles]
    BY DEF PlaysGarden
  <2>2. /\ Create(setup) = CreateGarden(tiles, NoWorld)
        /\ PromisedStart(setup) = PromisedGarden(tiles, 0)
    BY <1>1, <2>1 DEF PlaysGarden
  <2>3. Valid(tiles) /\ Create(setup) = Recomputed(tiles, 0)
    BY <1>1, <2>2 DEF CreateGarden
  <2>4. tiles \in Boards
    BY <2>1, <2>3, ValidBoard
  <2>5. Recomputed(tiles, 0) = PromisedGarden(tiles, 0)
    BY <2>4, RecomputedPromised
  <2> QED
    BY <2>2, <2>3, <2>4, <2>5 DEF Gardens
<1>2. ASSUME NEW g \in Gardens PROVE Ticks(g) \subseteq Seq(GardenInputs(Commands)[g])
  BY DEF PlaysGarden, GardenInputs
<1>3. ASSUME NEW g \in Gardens, NEW input \in GardenInputs(Commands)[g] \ {Malformed}
      PROVE  /\ Rule(g, input).world \in Gardens
             /\ GardenInputs(Commands)[Rule(g, input).world] = GardenInputs(Commands)[g]
             /\ Rule(g, input).ok =>
                  /\ Rule(g, input).world = Promise(g, input).world
                  /\ Rule(g, input).effects = Promise(g, input).effects
  <2>1. Rule(g, input) = RotateRule(g, input) /\ Promise(g, input) = PromisedRotation(g, input)
    BY DEF PlaysGarden, GardenInputs
  <2> QED
    BY <2>1, RotationPromised DEF GardenInputs
<1> QED
  BY <1>1, <1>2, <1>3 DEF Faithful, PlaysGarden

\* What the readers of a garden session load is the board its rotations lead to, with the
\* cells lit that power reaches, whatever was refused, failed or could not be published.
THEOREM GardenSnapshots ==
  ASSUME NEW Commands, PlaysGarden(Commands)
  PROVE  Spec => [](TypeOK /\ SnapshotsKeepPromise /\ FlashedOnce)
<1>1. Faithful(Gardens, GardenInputs(Commands))
  BY GardenFaithful
<1>2. (Spec => []TypeOK) /\ (Spec => []SnapshotsKeepPromise) /\ (Spec => []FlashedOnce)
  BY <1>1, GameTypeCorrect, SnapshotsFaithful, Flashed
<1> QED
  BY <1>2, PTL
=============================================================================
