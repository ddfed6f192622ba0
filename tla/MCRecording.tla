---------------------------- MODULE MCRecording ----------------------------
(* Instances of Recording for TLC. *)
EXTENDS Recording

\* A save as an earlier session may have left it: complete, cut inside its last
\* record or its header, edited so that a tick is missing, or of another game.
Saves(x) ==
  LET first == [tick |-> 1, inputs |-> x]
      gap   == [tick |-> 3, inputs |-> x]
  IN UNION {{Encode(g, <<first>>), SubSeq(Encode(g, <<first>>), 1, 3),
             SubSeq(Encode(g, <<>>), 1, 1), Encode(g, <<first, gap>>)} : g \in Games}

MCInitialFiles ==
  {[p \in Paths |-> IF p = "save" THEN s ELSE Absent] :
     s \in Saves(CHOOSE x \in Inputs : TRUE)}
=============================================================================
