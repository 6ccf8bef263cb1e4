CONSTANT MaxAttempt = 8
SPECIFICATION MachineSpec
INVARIANT MachineTypeOK
INVARIANT AttemptTracksPhase
INVARIANT DetailBelongsToPhase
PROPERTY AttemptsAreFresh
CHECK_DEADLOCK FALSE
