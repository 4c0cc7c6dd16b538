SPECIFICATION Spec
CONSTANTS
  a = a
  b = b
  unknown = unknown
  v1 = v1
  v2 = v2
  any = any
  old = old
  bad = bad
  Names = {a, b, unknown}
  ValidNames = {a, b}
  Vers = {v1, v2}
  ValidVers = {v1}
  Texts = {any, old, bad}
  ValidTexts = {any, old}
  Bodies <- AloneBodies
  Handlers = {h1}
  NoVer = NoVer
  NoText = NoText
  NoRow = NoRow
  NoCall = NoCall
  MaxVersions = 2
  MaxChanges = 6
  MaxFaults = 1
PROPERTIES
  ReplacedWhole
  RefinesLifecycle
  PublishedDepsFrozen
