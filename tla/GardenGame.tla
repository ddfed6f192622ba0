----------------------------- MODULE GardenGame -----------------------------
(***************************************************************************)
(* What Power Garden promises its players, as reachability on the board    *)
(* and not as the search the rules of Garden translate.                    *)
(***************************************************************************)
EXTENDS Garden

\* The direction in which a neighbouring cell lies, by coordinates; else -1.
Towards(c, n) ==
  LET x == (n % Side) - (c % Side)
      y == (n \div Side) - (c \div Side)
  IN CASE x = 0 /\ y = -1 -> 0 [] x = 1 /\ y = 0 -> 1
       [] x = 0 /\ y = 1  -> 2 [] x = -1 /\ y = 0 -> 3 [] OTHER -> -1

PortTowards(tiles, c, n) == Towards(c, n) \in {(p + tiles[c].rotation) % 4 : p \in tiles[c].ports}

\* Two cells face each other when each has a port towards the other.
Facing(tiles) ==
  {e \in Cells \X Cells : PortTowards(tiles, e[1], e[2]) /\ PortTowards(tiles, e[2], e[1])}

\* One step further than a set of cells.
Spread(facing, S) == S \cup {n \in Cells : \E m \in S : <<m, n>> \in facing}

\* The cells a path leads to from the source; no path needs more steps than there are cells.
PoweredBy(tiles) ==
  LET facing == Facing(tiles)
      within[k \in 0..Side * Side] ==
        IF k = 0 THEN {c \in Cells : tiles[c].kind = "source"}
        ELSE Spread(facing, within[k - 1])
  IN within[Side * Side]

Beaming(tiles) == {c \in Cells : tiles[c].kind = "beacon"}

PromisedGarden(tiles, moves) ==
  LET powered == PoweredBy(tiles)
  IN [tiles |-> tiles, moves |-> moves, powered |-> powered,
      complete |-> Beaming(tiles) \subseteq powered]

\* A wire of a board that is not lit yet turns clockwise, and its player sees it.
PromisedRotation(g, input) ==
  IF /\ input.cell \in Cells /\ ~g.complete /\ g.moves < MaxMoves
     /\ g.tiles[input.cell].kind = "wire"
    THEN [effects |-> <<input>>,
          world |-> PromisedGarden([g.tiles EXCEPT ![input.cell].rotation = (@ + 1) % 4],
                                   g.moves + 1)]
    ELSE [effects |-> <<>>, world |-> g]
=============================================================================
