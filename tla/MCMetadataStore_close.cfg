CONSTANTS
    TimerIds = {1, 2, 3}
    NoTimer = NoTimer
SPECIFICATION Spec
INVARIANT NoVacuumAfterClose
CHECK_DEADLOCK FALSE
