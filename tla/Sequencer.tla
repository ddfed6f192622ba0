----------------------------- MODULE Sequencer -----------------------------
(***************************************************************************)
(* What lockstep synchronization promises, without channels, batching of   *)
(* work or failures: one authority orders batches of commands, replicas    *)
(* learn that order and nothing else, and the authority confirms only what *)
(* a replica has in common with it. A replica in Unreliable may also get a *)
(* batch wrong.                                                            *)
(***************************************************************************)
EXTENDS Naturals, Sequences

CONSTANTS Replicas, Unreliable, Batches, Wrong

VARIABLES order, view, confirmed

svars == <<order, view, confirmed>>

SInit ==
  /\ order = <<>>
  /\ view = [r \in Replicas |-> <<>>]
  /\ confirmed = [r \in Replicas |-> 0]

\* The authority's next batch.
Order ==
  /\ \E batch \in Batches : order' = Append(order, batch)
  /\ UNCHANGED <<view, confirmed>>

\* A replica applies the next batch of the order, rightly or not.
Learn(r) ==
  /\ Len(view[r]) < Len(order)
  /\ \E outcome \in {order[Len(view[r]) + 1]} \cup (IF r \in Unreliable THEN {Wrong} ELSE {}) :
       view' = [view EXCEPT ![r] = Append(@, outcome)]
  /\ UNCHANGED <<order, confirmed>>

\* The authority has evidence that r agrees with the first n batches.
Confirm(r, n) ==
  /\ confirmed[r] < n /\ n <= Len(view[r])
  /\ SubSeq(view[r], 1, n) = SubSeq(order, 1, n)
  /\ confirmed' = [confirmed EXCEPT ![r] = n]
  /\ UNCHANGED <<order, view>>

SNext ==
  \/ Order
  \/ \E r \in Replicas : Learn(r) \/ \E n \in 1 .. Len(view[r]) : Confirm(r, n)

SSpec == SInit /\ [][SNext]_svars
=============================================================================
