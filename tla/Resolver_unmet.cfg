SPECIFICATION Spec
CONSTANTS
  any = any
  either = either
  low = low
  high = high
  NoText = NoText
  Names = {1, 2, 3, 4}
  Vers = {1, 2}
  Texts = {any, either, low, high}
  Accepts <- Accepting
  Registered = {1, 2, 3}
  Starts <- VersionStarts
  MaxEdits = 0
  MaxFaults = 0
INVARIANTS
  SuccessSatisfiesAll
