\* Three runs over pairs of APIs in either order and over one manifest of five,
\* stopped anywhere, with edits between them.
SPECIFICATION Spec
CONSTANTS
  Node <- MCNode
  Kind <- MCKind
  Key <- MCKey
  Items <- MCItems
  Depth <- MCDepth
  Manifests <- MCManifests
  AuthClasses <- MCAuth
  Revision <- MCRevision
  Correction <- MCCorrection
  NewAuth <- MCNewAuth
  PolicyIds = {"schools"}
  Explained <- MCExplained
  NullTypes <- MCNullTypes
  IdKeys = {"accountId", "transactionId", "cursor"}
  OptionalKeys = {"currency"}
  Forced <- MCForced
  NoNode = "noNode"
  MaxEdits = 1
  MaxRuns = 3
INVARIANTS
  TypeOK
  TablesComplete
  ParentsShown
  TypesDeclared
  IndexIsContents
  NothingUnexplained
  CountsNotAhead
