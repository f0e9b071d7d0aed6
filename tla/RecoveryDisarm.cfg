SPECIFICATION Spec
CONSTANTS
  None = None
  Events = {}
INVARIANTS
  ArmedOffQueueIsDue
CHECK_DEADLOCK FALSE
