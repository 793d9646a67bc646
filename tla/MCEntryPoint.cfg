\* main() ends: it hands over to run_core / run_gui, or raises; the
\* process has nothing more to do in this model after that.
CONSTANTS
  NoArgs = NoArgs
  None = None
SPECIFICATION Spec
INVARIANTS TypeOK
CHECK_DEADLOCK FALSE
