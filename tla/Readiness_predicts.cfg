SPECIFICATION ReadinessSpec
CONSTANTS
  any = any
  low = low
  high = high
  NoText = NoText
  Names = {1, 2, 3, 4}
  Vers = {1, 2}
  Texts = {any, low, high}
  Accepts <- Accepting
  Registered = {1, 2, 3}
  Starts <- DraftStarts
  Drafts <- AskedAbout
  MaxEdits = 0
  MaxFaults = 1
INVARIANTS
  ReadinessPredictsResolution
