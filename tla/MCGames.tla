------------------------------ MODULE MCGames ------------------------------
(***************************************************************************)
(* GameTick with the two example games, a session running one of them.     *)
(***************************************************************************)
EXTENDS WalletGame, GardenGame

-----------------------------------------------------------------------------
\* Setups: two and three wallets, no wallet; two 3 x 3 boards, as recorded and
\* scrambled, and one defect of each kind validate looks for.

Tile(kind, ports) == [kind |-> kind, ports |-> ports, rotation |-> 0]
Beacon(d) == Tile("beacon", {d})
Empty     == Tile("empty", {})
Board(row1, row2, row3) == [c \in Cells |-> (row1 \o row2 \o row3)[c + 1]]

\* The game's own board, shrunk: two T-shaped wires join beacons to the source.
Standard == Board(<<Beacon(1), Tile("wire", {1, 2, 3}), Beacon(3)>>,
                  <<Empty, Tile("source", {0, 2}), Empty>>,
                  <<Beacon(1), Tile("wire", {0, 1, 3}), Beacon(3)>>)
\* A board with a loop through its source.
Loop == Board(<<Tile("wire", {1, 2}), Tile("wire", {1, 2, 3}), Beacon(3)>>,
              <<Tile("wire", {0, 1, 2}), Tile("source", {0, 1, 2, 3}), Beacon(3)>>,
              <<Beacon(0), Beacon(0), Empty>>)
Turned(board, turns) ==
  [c \in Cells |-> IF c \in DOMAIN turns THEN [board[c] EXCEPT !.rotation = turns[c]]
                   ELSE board[c]]

\* Boards with one defect each: in their dimensions, a tile, the endpoints, the solution.
Defects ==
  {[c \in Cells \ {8} |-> Standard[c]],
   [Standard EXCEPT ![0].rotation = 1], [Standard EXCEPT ![1].ports = {1, 3}],
   [Standard EXCEPT ![4].kind = "wire"], [Standard EXCEPT ![3] = Beacon(0)],
   [Standard EXCEPT ![1].ports = {0, 1, 2, 3}], [Standard EXCEPT ![1].ports = {4, 1, 2}],
   \* Solved as scrambled but not as recorded.
   [Standard EXCEPT ![1].ports = {0, 2, 3}, ![1].rotation = 3]}

MCForeign == {[balances |-> (0 :> 1)]}

MCSetups ==
  MCForeign \cup
  {[balances |-> b] : b \in {<<>>, (0 :> 2) @@ (1 :> 3), (0 :> 1) @@ (1 :> 0) @@ (2 :> 3)}}
  \cup {[tiles |-> t] : t \in {Standard, Loop,
          Turned(Standard, (1 :> 1) @@ (7 :> 0)),
          Turned(Loop, (0 :> 2) @@ (1 :> 3) @@ (3 :> 0))} \cup Defects}

\* What a tick may bring: up to two commands, of participants with and without a
\* wallet, to cells and wallets that exist or not, and one undecodable payload.
Inputs(w) ==
  IF IsWallet(w)
    THEN [participant : {Host, 1}, recipient : {0, 1, 2}, amounts : {<<2>>}]
         \cup [participant : {Host}, recipient : {1}, amounts : {<<>>, <<3, 2>>}]
         \cup [participant : {0, 5}, recipient : {1}, amounts : {<<1>>}]
    ELSE [participant : {Host, 1}, cell : {1, 3, 7}]
         \cup [participant : {1}, cell : {0, 4, 9}]

MCTicks(w) ==
  {<<>>} \cup {<<i>> : i \in Inputs(w) \cup {Malformed}}
  \cup {<<i, j>> : i \in Inputs(w), j \in Inputs(w)}
  \cup {<<i, Malformed>> : i \in Inputs(w)}

MCCreate(setup) ==
  IF "tiles" \in DOMAIN setup THEN CreateGarden(setup.tiles, NoWorld)
  ELSE CreateWallet(setup.balances, NoWorld)
MCRule(w, input) == IF IsWallet(w) THEN TransferRule(w, input) ELSE RotateRule(w, input)
MCHosted(w) == ~IsWallet(w)

-----------------------------------------------------------------------------
\* What the games promise.
MCPromise(w, input) ==
  IF IsWallet(w) THEN PromisedTransfer(w, input) ELSE PromisedRotation(w, input)

\* Only a board that can be lit is ever played.
MCPromisedStart(setup) ==
  IF "balances" \in DOMAIN setup THEN [balances |-> setup.balances, rejected |-> 0]
  ELSE IF setup.tiles \notin Defects THEN PromisedGarden(setup.tiles, 0)
  ELSE NoWorld
=============================================================================
