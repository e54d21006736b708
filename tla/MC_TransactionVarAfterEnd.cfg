CONSTANTS
  f1 = f1
  f2 = f2
  v1 = v1
  x0 = x0
  x1 = x1
  x2 = x2
  NoFocus = NoFocus
  Foci <- MCFoci
  Vars <- MCVars
  Values <- MCValues
  Default = x0
  MaxExec = 3

SPECIFICATION Spec

PROPERTY GetVariableApplicable
