CONSTANTS
    FileKinds <- MCFileKinds
    MsgPrios <- MCMsgPrios
    Masks <- MCMasks
SPECIFICATION Spec
INVARIANT LoggerTypeOK
INVARIANT ReadyOnlyWhenOpened
INVARIANT ClosedOnlyWhenEnded
PROPERTY LoggerAnswers
