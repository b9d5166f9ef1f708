SPECIFICATION Spec
CONSTANT MaxEvents = 3
PROPERTY RecoveredIsResolved
CHECK_DEADLOCK FALSE
