CONSTANTS
    FileKinds <- MCFileKinds
    MsgPrios <- MCMsgPrios
    Masks <- MCMasks
SPECIFICATION Spec
INVARIANT CallbackOnce
