--------------------------- MODULE MCLiveSession ---------------------------
(***************************************************************************)
(* Small instances of LiveSession.                                         *)
(***************************************************************************)
EXTENDS LiveSession

\* The order of ticks is the Sequencer's order, each client's simulation a view
\* of it, and the last verified tick what the authority has confirmed.
Abstract == INSTANCE Sequencer WITH
  Replicas <- Clients, Unreliable <- Faulty, Wrong <- Corrupt,
  Batches <- BoundedSeq(Input, TickBudget),
  order <- log, view <- replica,
  confirmed <- [c \in Clients |-> verified[c] - StartTick]

\* Lockstep refinement: the tick loop, the channels and the replicas together do
\* only what the Sequencer allows.
ImplementsSequencer == Abstract!SSpec
=============================================================================
