SPECIFICATION HistorySpec
CONSTANTS
  Manifests = {m1}
  Refused = {}
  Graphs = {g1}
  NoGraph = NoGraph
  Diags <- OneDiag
  Handlers = {h1, h2}
  NoManifest = NoManifest
  MaxRequests = 3
  MaxFaults = 0
  Limits = {0, 1}
SYMMETRY Symmetric
VIEW WithoutAnswers
INVARIANTS
  DetailConsistent
  ScanComplete
