------------------------------ MODULE GameTick ------------------------------
(***************************************************************************)
(* The tick contract between the session driver and a game:                *)
(* simulation.rs (advance_tick, validate_tick), the Adapter of api.rs, the *)
(* Bevy adapter of synctick-bevy/src/simulation.rs, and the presentation   *)
(* that reads the published snapshots from another thread. Loading runs    *)
(* the recorded ticks without publishing; going live publishes once;       *)
(* every live tick is advanced, published and finished, in that order, and *)
(* a failure at any of these points still finishes the tick.               *)
(*                                                                         *)
(* The game is a parameter: Create and Rule are its code, Promise and      *)
(* PromisedStart what its documentation says of them. MCGames gives it the *)
(* two example games.                                                      *)
(***************************************************************************)
EXTENDS Integers, SequencesExt

CONSTANTS
  Setups,           \* initializations a header may carry
  Foreign,          \* those whose header names another game or version
  Ticks(_),         \* world -> the input lists a tick may bring it
  Malformed,        \* a payload the game's decoder refuses
  Create(_),        \* Game::create: setup -> world, or NoWorld
  Rule(_, _),       \* one command: world, input -> [ok, world, effects]
  Hosted(_),        \* whether the Bevy adapter runs the game
  PromisedStart(_), \* what create should return
  Promise(_, _),    \* what a command should do
  NoWorld,
  Strays,           \* wrong ticks a game may claim to have reached
  MaxTicks          \* bound: ticks of a session

ASSUME TicksAssumption == MaxTicks \in Nat

VARIABLES
  phase,   \* "new", "replay" (TickPhase::Replay), "live", "ended"
  pc,      \* where advance_tick is; "rest" between ticks
  tick,    \* Simulation::current_tick
  world,   \* the game's state
  visible, \* TickInputs
  effects, \* the effects the tick has raised
  failed,  \* the result advance_tick will return is an error
  slot,    \* the snapshot readers can load, or NoWorld
  lit,     \* the snapshots the presentation has animated (history)
  past,    \* what was promised for the start and each finished tick (history)
  base     \* the tick at which the session went live (history)

sim  == <<tick, world, visible, effects>>
vars == <<phase, pc, sim, failed, slot, lit, past, base>>

Init ==
  /\ phase = "new" /\ pc = "rest" /\ failed = FALSE
  /\ tick = 0 /\ world = NoWorld /\ visible = <<>> /\ effects = <<>>
  /\ slot = NoWorld /\ lit = <<>> /\ past = <<>> /\ base = 0

-----------------------------------------------------------------------------
\* What the session promises

Promised(was, input) ==
  LET r == Promise(was.world, input)
  IN [world |-> r.world, effects |-> was.effects \o r.effects]

\* The promised world and effects once these inputs have been applied in order.
PromisedTick(w, inputs) == FoldLeft(Promised, [world |-> w, effects |-> <<>>], inputs)

-----------------------------------------------------------------------------
\* The driver

\* Adapter::initialize: the header, the game's create, and its first tick.
Initialize(setup, start) ==
  /\ phase = "new"
  /\ IF setup \in Foreign \/ Create(setup) = NoWorld \/ start # 0
       THEN phase' = "ended" /\ UNCHANGED <<sim, past>>
       ELSE /\ phase' = "replay" /\ world' = Create(setup) /\ tick' = start
            /\ past' = <<[world |-> PromisedStart(setup), effects |-> <<>>]>>
            /\ UNCHANGED <<visible, effects>>
  /\ UNCHANGED <<pc, failed, slot, lit, base>>

\* One command; a game whose rule fails stops there.
Applied(was, input) ==
  IF ~was.ok THEN was
  ELSE LET r == Rule(was.world, input)
       IN [ok |-> r.ok, world |-> r.world, effects |-> was.effects \o r.effects]

\* The commands of a tick, one after the other.
AppliedTick(w, raised, inputs) ==
  FoldLeft(Applied, [ok |-> TRUE, world |-> w, effects |-> raised], inputs)

\* Adapter::advance decodes every command before the game sees any.
Decodes(inputs) == \A i \in DOMAIN inputs : inputs[i] # Malformed

\* Mutant: a gap in the ticks is let through.
AnyLater(t) == t > tick

\* validate_tick
Continuous(t) == t = tick + 1

\* A tick that does not follow never enters the simulation.
Refuse(t) ==
  /\ phase \in {"replay", "live"} /\ pc = "rest" /\ ~Continuous(t)
  /\ phase' = "ended"
  /\ UNCHANGED <<pc, sim, failed, slot, lit, past, base>>

\* advance_tick up to the game's return, which ends at the tick it reached.
Advance(t, inputs) ==
  /\ phase \in {"replay", "live"} /\ pc = "rest" /\ Continuous(t)
  /\ IF Decodes(inputs)
       THEN LET r == AppliedTick(world, effects, inputs)
            IN /\ world' = r.world /\ effects' = r.effects
               /\ visible' = IF Hosted(world) THEN inputs ELSE <<>>
               /\ tick' \in {t} \cup Strays
               /\ failed' = (~r.ok \/ tick' # t)
               /\ past' = IF failed' THEN past
                          ELSE Append(past, PromisedTick(Last(past).world, inputs))
       ELSE failed' = TRUE /\ UNCHANGED <<sim, past>>
  /\ pc' = IF failed' \/ phase = "replay" THEN "finish" ELSE "publish"
  /\ UNCHANGED <<phase, slot, lit, base>>

\* What publish stores for the readers.
Snapshot == [tick |-> tick, world |-> world, effects |-> effects]

\* The publication of a live tick, which may fail without undoing the tick.
Publish(ok) ==
  /\ pc = "publish" /\ pc' = "finish"
  /\ slot' = IF ok THEN Snapshot ELSE slot
  /\ failed' = ~ok
  /\ UNCHANGED <<phase, sim, lit, past, base>>

\* Mutant: an error returns before the tick is finished.
FinishesUnlessFailed == ~failed

\* finish_tick runs whatever the tick returned.
Finishes == TRUE

\* The end of advance_tick: finish_tick, and the session ends on an error.
Finish ==
  /\ pc = "finish" /\ pc' = "rest"
  /\ IF Finishes THEN visible' = <<>> /\ effects' = <<>> ELSE UNCHANGED <<visible, effects>>
  /\ phase' = IF failed THEN "ended" ELSE phase
  /\ UNCHANGED <<tick, world, failed, slot, lit, past, base>>

\* Going live: the first publication, on the host and on every replica.
GoLive(ok) ==
  /\ phase = "replay" /\ pc = "rest"
  /\ phase' = IF ok THEN "live" ELSE "ended"
  /\ slot' = IF ok THEN Snapshot ELSE slot
  /\ base' = tick
  /\ UNCHANGED <<pc, sim, failed, lit, past>>

\* The session is cancelled, or ends for a reason outside the simulation.
End ==
  /\ phase \in {"new", "replay", "live"} /\ pc = "rest" /\ phase' = "ended"
  /\ UNCHANGED <<pc, sim, failed, slot, lit, past, base>>

-----------------------------------------------------------------------------
\* The presentation

\* Mutant: every frame animates what it loads.
AlwaysFresh == TRUE

\* A snapshot is animated when its tick differs from the last one animated.
Fresh == IF lit = <<>> THEN TRUE ELSE Last(lit).tick # slot.tick

\* A frame, at any moment of the worker's.
Animate ==
  /\ slot # NoWorld /\ Fresh
  /\ lit' = Append(lit, [tick |-> slot.tick, effects |-> slot.effects])
  /\ UNCHANGED <<phase, pc, sim, failed, slot, past, base>>

Done == phase = "ended" /\ UNCHANGED vars

Next ==
  \/ \E setup \in Setups, start \in {0} \cup Strays : Initialize(setup, start)
  \/ /\ phase \in {"replay", "live"} /\ pc = "rest" /\ tick < MaxTicks
     /\ \E t \in tick..(tick + 2) :
          \/ Refuse(t)
          \/ \E inputs \in Ticks(world) : Advance(t, inputs)
  \/ \E ok \in BOOLEAN : Publish(ok)
  \/ Finish
  \/ \E ok \in BOOLEAN : GoLive(ok)
  \/ End
  \/ Animate
  \/ Done

Spec == Init /\ [][Next]_vars

-----------------------------------------------------------------------------
\* The driver's own state is well formed: a tick is pending only while the
\* session runs, a world exists once it is initialized, and the history grows
\* with the ticks that succeeded.
TypeOK ==
  /\ phase \in {"new", "replay", "live", "ended"}
  /\ pc \in {"rest", "publish", "finish"}
  /\ pc # "rest" => phase \in {"replay", "live"}
  /\ pc = "publish" => phase = "live" /\ ~failed
  /\ phase \in {"replay", "live"} => world # NoWorld
  /\ phase \in {"replay", "live"} /\ ~failed => Len(past) = tick + 1
  /\ base \in 0..MaxTicks

\* Between ticks no command and no effect of an earlier tick is left in the
\* world, whether that tick succeeded, failed to decode, broke its contract or
\* could not be published: advance_tick runs finish_tick on every path.
CleanAtRest == pc = "rest" => visible = <<>> /\ effects = <<>>

\* Each snapshot a reader can load is the promised state of its tick with
\* exactly that tick's effects (none for the first publication), loading has
\* published nothing, and between live ticks the latest one is loaded. The
\* game's rules, the driver's order and the adapter's decoding all bear on it.
SnapshotsKeepPromise ==
  /\ slot # NoWorld =>
       /\ slot.tick \in base..(Len(past) - 1)
       /\ slot.world = past[slot.tick + 1].world
       /\ slot.effects = IF slot.tick = base THEN <<>> ELSE past[slot.tick + 1].effects
  /\ phase \in {"new", "replay"} => slot = NoWorld
  /\ phase = "live" /\ pc = "rest" => slot.tick = tick

\* The presentation animates a tick at most once and never goes back, however
\* its frames fall between the worker's publications, and what it animates are
\* effects that tick really had (presentation.rs, animate).
FlashedOnce ==
  /\ \A i, j \in DOMAIN lit : i < j => lit[i].tick < lit[j].tick
  /\ \A i \in DOMAIN lit :
       lit[i].effects \in {<<>>, past[lit[i].tick + 1].effects}
=============================================================================
