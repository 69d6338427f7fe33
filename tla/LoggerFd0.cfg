CONSTANTS
    FileKinds <- MCFileKindsFd0
    MsgPrios <- MCMsgPrios
    Masks <- MCMasks
SPECIFICATION Spec
INVARIANT ReadyOnlyWhenOpened
