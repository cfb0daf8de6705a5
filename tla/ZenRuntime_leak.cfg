SPECIFICATION Spec
CONSTANTS
  r1 = r1
  r2 = r2
  d1 = d1
  d2 = d2
  h1 = h1
  h2 = h2
  m1 = m1
  m2 = m2
  i1 = i1
  i2 = i2
  n1 = n1
  n2 = n2
  Runtime = {r1}
  Desc = {d1}
  HostModule = {h1}
  Module = {m1}
  Isolation = {i1}
  Instance = {n1}
  MaxHandles = 2
CHECK_DEADLOCK FALSE
INVARIANT NothingLeftBehind
