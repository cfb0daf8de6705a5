SPECIFICATION FairSpec
CONSTANTS
  Address <- MCAddress
  Key = {k}
  Value = {"zero", "word"}
  Zero = "zero"
  Stored = {"zero"}
  Passed = {"word"}
  Data = {nil, d}
  NoData = nil
  Nothing = nothing
  Code <- MCCode
  EmptyCode = "empty"
  ShortCode = {"short"}
  Loadable = {"raw"}
  StripPrefix <- MCStripPrefix
  CreationCode = {"empty", "short", "prefixed", "raw"}
  NoCode = "nocode"
  InitRegistry <- MCInitRegistry
  CreateAddress = "c9"
  Create2Address = "c99"
  Contexts <- MCContexts
  Target = {"c9"}
  TxGas = 2
  MaxDepth = 2
  MaxEvents = 1
PROPERTIES
  RegisteredOnSuccessOnly
  ImplementsProtocol
  StepsRunOut
  CallsConclude
CHECK_DEADLOCK FALSE
