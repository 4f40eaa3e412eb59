SPECIFICATION Spec
CONSTANTS
  a = a
  b = b
  nobody = nobody
  Proc = {a, b}
  Callers = {a, b}
  Crashers = {}
  NoPid = nobody
  Outs <- CallOuts
  Ins <- CallIns
  Jacks = {"none", "four"}
  Duals = {FALSE}
  Forces = {FALSE}
  AifFirst = TRUE
  ScriptFails = FALSE
  AifFails = FALSE
  Resets = FALSE
INVARIANT CallKeepsItsSound
