SPECIFICATION Spec
CONSTANTS
  Chans = {c1}
  Environments = {{"retype"}}
  None = None
INVARIANT NoOops
