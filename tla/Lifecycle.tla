----------------------------- MODULE Lifecycle -----------------------------
(***************************************************************************)
(* What a session handle promises its owner, whatever its worker thread    *)
(* goes through: a session starts, may go live, and ends once and for all, *)
(* stopped if and only if the owner asked for it and nothing failed; it    *)
(* takes commands only while it is live, and consumes them in the order    *)
(* they were accepted.                                                     *)
(***************************************************************************)
EXTENDS Integers, Sequences

CONSTANTS Sessions, Commands

VARIABLES
  view,     \* "new", "starting", "live", "stopped" or "failed"
  asked,    \* the owner has asked it to end
  accepted, \* the commands a submission reported as accepted
  taken     \* those of them the session has consumed

vars == <<view, asked, accepted, taken>>

Init ==
  /\ view = [s \in Sessions |-> "new"]
  /\ asked = [s \in Sessions |-> FALSE]
  /\ accepted = [s \in Sessions |-> <<>>]
  /\ taken = [s \in Sessions |-> <<>>]

Begin(s) ==
  /\ view[s] = "new"
  /\ view' = [view EXCEPT ![s] = "starting"]
  /\ UNCHANGED <<asked, accepted, taken>>

GoLive(s) ==
  /\ view[s] = "starting"
  /\ view' = [view EXCEPT ![s] = "live"]
  /\ UNCHANGED <<asked, accepted, taken>>

Ask(s) ==
  /\ asked' = [asked EXCEPT ![s] = TRUE]
  /\ UNCHANGED <<view, accepted, taken>>

Accept(s, c) ==
  /\ view[s] = "live"
  /\ accepted' = [accepted EXCEPT ![s] = Append(@, c)]
  /\ UNCHANGED <<view, asked, taken>>

Take(s) ==
  /\ view[s] = "live"
  /\ Len(taken[s]) < Len(accepted[s])
  /\ taken' = [taken EXCEPT ![s] = Append(@, accepted[s][Len(taken[s]) + 1])]
  /\ UNCHANGED <<view, asked, accepted>>

Stop(s) ==
  /\ view[s] \in {"starting", "live"} /\ asked[s]
  /\ view' = [view EXCEPT ![s] = "stopped"]
  /\ UNCHANGED <<asked, accepted, taken>>

Fail(s) ==
  /\ view[s] \in {"starting", "live"}
  /\ view' = [view EXCEPT ![s] = "failed"]
  /\ UNCHANGED <<asked, accepted, taken>>

Next ==
  \E s \in Sessions :
    \/ Begin(s) \/ GoLive(s) \/ Ask(s) \/ Take(s) \/ Stop(s) \/ Fail(s)
    \/ \E c \in Commands : Accept(s, c)

Spec == Init /\ [][Next]_vars
=============================================================================
