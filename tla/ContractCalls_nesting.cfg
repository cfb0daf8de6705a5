SPECIFICATION Spec
CONSTANTS
  Address <- MCAddress
  Key = {k}
  Value = {"zero", "word"}
  Zero = "zero"
  Stored = {"zero"}
  Passed = {"word"}
  Data = {nil, d}
  NoData = nil
  Nothing = nothing
  Code <- MCCode
  EmptyCode = "empty"
  ShortCode = {"short"}
  Loadable = {"raw"}
  StripPrefix <- MCStripPrefix
  CreationCode = {"prefixed"}
  NoCode = "nocode"
  InitRegistry <- MCInitRegistry
  CreateAddress = "c9"
  Create2Address = "c99"
  Contexts <- MCContexts
  Target = {"b"}
  TxGas = 2
  MaxDepth = 3
  MaxEvents = 0
INVARIANTS
  TypeOK
  CellsFollowTop
  VerdictFaithful
  DelegationKeepsAccount
CHECK_DEADLOCK FALSE
