SPECIFICATION MCSpec
CONSTANTS
  any = any
  old = old
  Names = {1, 2}
  ValidNames = {1, 2}
  Vers = {v1, v2}
  ValidVers = {v1, v2}
  Texts = {any, old}
  ValidTexts = {any, old}
  Bodies <- DiffBodies
  Handlers = {h1}
  NoVer = NoVer
  NoText = NoText
  NoRow = NoRow
  NoCall = NoCall
  MaxVersions = 2
  MaxChanges = 6
  MaxFaults = 1
SYMMETRY Symmetric
INVARIANTS
  DiffExact
