SPECIFICATION FairSpec
CONSTANTS
  alpha = alpha
  beta = beta
  runA = runA
  runB = runB
  regA = regA
  regB = regB
  regC = regC
  loginA = loginA
  loginB = loginB
  enable = enable
  disable = disable
  Nobody = Nobody
  Keys = {alpha, beta}
  Tokens <- MCTokens
  KeyOf <- MCKeyOf
  Procs = {runA, runB, regA, regB, regC, loginA, loginB, enable, disable}
  Job <- MCJob
  Scenarios <- MCScenarios
CHECK_DEADLOCK FALSE
INVARIANTS
  FilesTellTruth
  SecondHeadHasCause
  AttemptTellsOfItsViewer
PROPERTIES
  NothingWaitsForEver
