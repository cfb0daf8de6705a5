\* Four names of each kind: executors of the harness and calls, three deep.
SPECIFICATION FairExecSpec
CONSTANTS
  r1 = r1  r2 = r2  r3 = r3  r4 = r4
  d1 = d1  d2 = d2  d3 = d3  d4 = d4
  h1 = h1  h2 = h2  h3 = h3  h4 = h4
  m1 = m1  m2 = m2  m3 = m3  m4 = m4
  i1 = i1  i2 = i2  i3 = i3  i4 = i4
  n1 = n1  n2 = n2  n3 = n3  n4 = n4
  Runtime = {r1, r2, r3, r4}
  Desc = {d1, d2, d3, d4}
  HostModule = {h1, h2, h3, h4}
  Module = {m1, m2, m3, m4}
  Isolation = {i1, i2, i3, i4}
  Instance = {n1, n2, n3, n4}
  MaxHandles = 1
  MaxLevels = 3
INVARIANTS LevelsOK RunningGuestsReachLiveObjects NothingOfACallRemains
PROPERTIES LevelsUnwind
\* The harness stops when its names are used up.
CHECK_DEADLOCK FALSE
