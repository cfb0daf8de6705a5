SPECIFICATION Spec
CONSTANTS
  Address <- MCAddress
  Key = {k}
  Value = {"zero", "word"}
  Zero = "zero"
  Stored = {"zero", "word"}
  Passed = {"word"}
  Data = {nil, d}
  NoData = nil
  Nothing = nothing
  Code <- MCCode
  EmptyCode = "empty"
  ShortCode = {"short"}
  Loadable = {"raw"}
  StripPrefix <- MCStripPrefix
  CreationCode = {"empty", "short", "prefixed", "raw"}
  NoCode = "nocode"
  InitRegistry <- MCInitRegistry
  CreateAddress = "c9"
  Create2Address = "c99"
  Contexts <- MCContexts
  Target = {"b", "c9"}
  TxGas = 2
  MaxDepth = 2
  MaxEvents = 0
INVARIANTS
  ReportedRevertsHappened
CHECK_DEADLOCK FALSE
