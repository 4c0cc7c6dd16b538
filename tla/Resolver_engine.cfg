SPECIFICATION Spec
CONSTANTS
  any = any
  either = either
  low = low
  high = high
  NoText = NoText
  Names = {1, 2, 3, 4}
  Vers = {1, 2}
  Texts = {any, either, low, high}
  Accepts <- Accepting
  Registered = {1, 2, 3}
  Starts <- AllStarts
  MaxEdits = 1
  MaxFaults = 1
INVARIANTS
  CyclesReported
  CyclePathIsWalk
  SuccessIsClosed
  RequirersFirst
  HighestForFirstRequirement
  FailureJustified
PROPERTIES
  Terminates
