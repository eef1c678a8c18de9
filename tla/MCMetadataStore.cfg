CONSTANTS
    TimerIds = {1, 2, 3}
    NoTimer = NoTimer
SPECIFICATION Spec
PROPERTY VacuumRecurs
CHECK_DEADLOCK FALSE
