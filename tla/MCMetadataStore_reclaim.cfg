CONSTANTS
    TimerIds = {1, 2, 3}
    NoTimer = NoTimer
SPECIFICATION Spec
INVARIANT VacuumReclaims
CHECK_DEADLOCK FALSE
