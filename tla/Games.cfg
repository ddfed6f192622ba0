\* The two example games under the tick contract, two ticks of up to two commands.
SPECIFICATION Spec
CONSTANTS
  Setups <- MCSetups
  Foreign <- MCForeign
  Ticks <- MCTicks
  Malformed = Malformed
  Create <- MCCreate
  Rule <- MCRule
  Hosted <- MCHosted
  PromisedStart <- MCPromisedStart
  Promise <- MCPromise
  NoWorld = NoWorld
  Strays = {7}
  MaxTicks = 2
  MaxU = 3
  Host = Host
  Side = 3
  MaxMoves = 3
  Beacons = 4
INVARIANTS TypeOK CleanAtRest SnapshotsKeepPromise FlashedOnce Conserved
