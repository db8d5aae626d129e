SPECIFICATION Spec

CONSTANTS
  Cmds = {c1, c2}
  Known = {flag}
  Unknown = {other}
  Inputs <- AllInputs
  NULL = NULL

INVARIANTS
  NonblockNeverSleeps

