SPECIFICATION Spec
CONSTANTS
  s1 = s1
  s2 = s2
  t1 = t1
  t2 = t2
  Directories = {d1, d2}
  Sessions <- MCSessions
  Targets <- MCTargets
  Calls = {k1, k2, k3}
  Inputs <- MCInputs
  MaxServices = 2
  MaxApprovals = 3
SYMMETRY CallSymmetry
CHECK_DEADLOCK FALSE
INVARIANTS
  OpenIsPending
  AllowedIsJustified
  DeniedIsNeverPrompted
  OnlyLateRepliesStray
PROPERTY RepliesAreSessionWide
