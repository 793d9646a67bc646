CONSTANTS
  NoArgs = NoArgs
  None = None
SPECIFICATION Spec
INVARIANT LogLevelOptionUsable
CHECK_DEADLOCK FALSE
