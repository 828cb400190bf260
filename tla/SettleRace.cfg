SPECIFICATION Spec
CONSTANT None = None
INVARIANT SettleReported
CHECK_DEADLOCK FALSE
