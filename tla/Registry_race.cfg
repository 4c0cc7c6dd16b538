SPECIFICATION Spec
CONSTANTS
  a = a
  b = b
  unknown = unknown
  v1 = v1
  v2 = v2
  any = any
  old = old
  bad = bad
  Names = {a}
  ValidNames = {a}
  Vers = {v1}
  ValidVers = {v1}
  Texts = {any, bad}
  ValidTexts = {any}
  Bodies <- LifeBodies
  Handlers = {h1, h2}
  NoVer = NoVer
  NoText = NoText
  NoRow = NoRow
  NoCall = NoCall
  MaxVersions = 2
  MaxChanges = 6
  MaxFaults = 1
SYMMETRY Symmetric
INVARIANTS
  TypeOK
  TimestampsAgree
  InHandSound
  DeclarationsSound
  NoWriteUnaudited
  AuditNamesOneVersion
  DeletionFinal
  DeprecationRecordTrue
PROPERTIES
  LeavesDraftForever
  RefinesRelaxed
