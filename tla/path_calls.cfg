SPECIFICATION Spec
CONSTANTS
  a = a
  b = b
  nobody = nobody
  Proc = {a, b}
  Callers = {a}
  Crashers = {a}
  NoPid = nobody
  Outs <- CallOuts
  Ins <- RadioIns
  Jacks = {"none"}
  Duals = {FALSE}
  Forces = {TRUE, FALSE}
  AifFirst = TRUE
  ScriptFails = FALSE
  AifFails = TRUE
  Resets = FALSE
INVARIANT TypeOK
INVARIANT CallDevicesHaveAnOwner
INVARIANT CallIsHeard
PROPERTY OnlyTheLivingAreProtected
