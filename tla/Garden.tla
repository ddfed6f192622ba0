------------------------------- MODULE Garden -------------------------------
(***************************************************************************)
(* The rules of Power Garden (examples/power-garden/src/model and          *)
(* simulation.rs): a square board of tiles whose ports join reciprocally,  *)
(* power flowing from one source, and rotations of the wires that light    *)
(* the beacons. The board's side is a parameter (the game's is 5).         *)
(*                                                                         *)
(* A tile is [kind, ports, rotation], its ports a set of directions with   *)
(* north 0, east 1, south 2, west 3. A garden is [tiles, powered, moves,   *)
(* complete].                                                              *)
(***************************************************************************)
EXTENDS Integers, FiniteSets, Sequences

CONSTANTS
  Side,     \* width and height of the board
  MaxMoves, \* the largest value of the move counter
  Beacons   \* how many beacons light a complete garden

ASSUME SideAssumption == Side \in Nat \ {0}

Cells      == 0..(Side * Side - 1)
Directions == 0..3
Opposite(d) == (d + 2) % 4

\* The cell on that side of a cell, or -1 at the border.
Neighbor(c, d) ==
  CASE d = 0 -> IF c >= Side THEN c - Side ELSE -1
    [] d = 1 -> IF c % Side < Side - 1 THEN c + 1 ELSE -1
    [] d = 2 -> IF c < Side * (Side - 1) THEN c + Side ELSE -1
    [] d = 3 -> IF c % Side > 0 THEN c - 1 ELSE -1

\* Tile::connections: the ports after the tile's quarter turns.
Connections(tile) == {(p + tile.rotation) % 4 : p \in tile.ports}

BasePorts(tiles)    == [c \in Cells |-> tiles[c].ports]
CurrentPorts(tiles) == [c \in Cells |-> Connections(tiles[c])]

\* Both tiles must have a port on their common side.
Joins(ports, c, d) ==
  Neighbor(c, d) # -1 /\ d \in ports[c] /\ Opposite(d) \in ports[Neighbor(c, d)]

\* connectivity's inner loop, for one direction: a neighbour the cell joins that is
\* not powered yet is powered and enqueued.
Enqueued(ports, c, s, d) ==
  IF Joins(ports, c, d) /\ Neighbor(c, d) \notin s.powered
    THEN [queue   |-> Append(s.queue, Neighbor(c, d)),
          powered |-> s.powered \cup {Neighbor(c, d)}]
  ELSE s

\* One turn of its outer loop: the cell at the head of the queue, all four directions.
Visited(ports, s) ==
  LET c == Head(s.queue)
      Onward(d, t) == Enqueued(ports, c, t, d)
  IN IF s.queue = <<>> THEN s
     ELSE Onward(3, Onward(2, Onward(1, Onward(0, [s EXCEPT !.queue = Tail(@)]))))

\* Each cell is enqueued once: as many turns as there are cells empty the queue.
Flood(ports, source) ==
  LET turn[k \in 0..Side * Side] ==
        IF k = 0 THEN [queue |-> <<source>>, powered |-> {source}]
        ELSE Visited(ports, turn[k - 1])
  IN turn[Side * Side].powered

Sources(tiles) == {c \in Cells : tiles[c].kind = "source"}

\* connectivity: the powered cells of a board with these ports.
Connectivity(tiles, ports) ==
  LET source == CHOOSE c \in Sources(tiles) : TRUE
  IN Flood(ports, source)

\* connected_beacons
ConnectedBeacons(tiles, powered) == Cardinality({c \in powered : tiles[c].kind = "beacon"})

-----------------------------------------------------------------------------
\* A tile's ports and rotation fit its role.
FitsRole(tile) ==
  /\ CASE tile.kind = "empty"  -> tile.ports = {}
       [] tile.kind = "wire"   -> Cardinality(tile.ports) \in {2, 3}
       [] tile.kind = "source" -> tile.ports # {}
       [] tile.kind = "beacon" -> Cardinality(tile.ports) = 1
  /\ tile.kind # "wire" => tile.rotation = 0

\* The unrotated board lights every beacon.
Solvable(tiles) == ConnectedBeacons(tiles, Connectivity(tiles, BasePorts(tiles))) = Beacons

\* Initialization::validate, in the order in which it rejects.
Valid(tiles) ==
  /\ DOMAIN tiles = Cells
  /\ \A c \in Cells : tiles[c].ports \subseteq Directions /\ tiles[c].rotation \in 0..3
  /\ \A c \in Cells : FitsRole(tiles[c])
  /\ Cardinality(Sources(tiles)) = 1
  /\ Cardinality({c \in Cells : tiles[c].kind = "beacon"}) = Beacons
  /\ Solvable(tiles)

\* Board::recompute, of the cache and of what is complete.
Recomputed(tiles, moves) ==
  LET powered == Connectivity(tiles, CurrentPorts(tiles))
  IN [tiles |-> tiles, moves |-> moves, powered |-> powered,
      complete |-> ConnectedBeacons(tiles, powered) = Beacons]

\* PowerGarden::build and Board::new.
CreateGarden(tiles, none) == IF Valid(tiles) THEN Recomputed(tiles, 0) ELSE none

\* What Board::rotate asks before it changes anything.
Rotatable(g, cell) ==
  /\ cell \in Cells
  /\ ~g.complete /\ g.tiles[cell].kind = "wire"
  /\ g.moves < MaxMoves

\* Mutant: the cache of a rotation is the one before it.
RotatedStale(g, cell) ==
  [g EXCEPT !.tiles = [g.tiles EXCEPT ![cell].rotation = (@ + 1) % 4], !.moves = @ + 1]

\* Board::rotate of a cell that may turn.
Rotated(g, cell) ==
  Recomputed([g.tiles EXCEPT ![cell].rotation = (@ + 1) % 4], g.moves + 1)

\* apply_rotations for one input: an accepted rotation raises an effect.
RotateRule(g, input) ==
  IF Rotatable(g, input.cell)
    THEN [ok |-> TRUE, world |-> Rotated(g, input.cell), effects |-> <<input>>]
    ELSE [ok |-> TRUE, world |-> g, effects |-> <<>>]
=============================================================================
