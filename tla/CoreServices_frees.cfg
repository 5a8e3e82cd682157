\* The allocation failures of the service constructors.
SPECIFICATION Spec
CONSTANTS
  Answers = {taipei}
  Host = host
  Forced = forced
  Offsets = {o1}
  None = None
INVARIANT StateFreedOnce
CHECK_DEADLOCK FALSE
