CONSTANTS
    Commands <- MCCommands
    Capacities <- MCCapacities
    AnswerLen <- MCAnswerLen
    NoResp = NoResp
    OtherUser = FALSE
    MaxCalls = 5
    MaxDevErrors = 0

SPECIFICATION Spec
INVARIANT SubmitSucceedsOnIdleDevice
\* The caller stops after MaxCalls calls.
CHECK_DEADLOCK FALSE
