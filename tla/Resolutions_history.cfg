SPECIFICATION Spec
CONSTANTS
  Manifests = {m1, m2}
  Refused = {bad}
  Graphs = {g1, g2}
  NoGraph = NoGraph
  Diags <- TwoDiags
  Handlers = {h1, h2}
  NoManifest = NoManifest
  MaxRequests = 2
  MaxFaults = 1
INVARIANTS
  TypeOK
  OneRunPerRow
  StoredInOrder
  AnswersKept
  RerunRecordsTrue
  FinishedIsWhole
PROPERTIES
  TerminalForGood
  PendingEnds
