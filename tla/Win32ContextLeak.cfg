CONSTANTS
    Commands <- MCCommands
    Capacities <- MCCapacities
    AnswerLen <- MCAnswerLen
    TpmVersions <- MCTpmVersions
    NoResp = NoResp
    MaxCalls = 4

SPECIFICATION Spec
INVARIANT ContextsReleased
\* The caller stops after MaxCalls calls.
CHECK_DEADLOCK FALSE
