\* Two zones and two corrections, every setting, every failure of an allocation.
SPECIFICATION Spec
CONSTANTS
  Answers = {taipei, lisbon}
  Host = host
  Forced = forced
  Offsets = {o1, o2}
  None = None
INVARIANTS
  NoLostWakeup
  SyncOutlivesUsers
  SourceIsTrue
  NothingStaysUntold
  KeyCustody
PROPERTIES
  ZoneKept
  ShutdownCompletes
  ShutdownProgress
CHECK_DEADLOCK FALSE
