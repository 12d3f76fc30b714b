\* The encryption core: safety and refinement from every power-up state.
CONSTANTS
    Block <- MCBlock
    Xor <- MCXor
    SubShift <- MCSubShift
    MixColumns <- MCMixColumns
    InvShiftSub <- MCInvShiftSub
    InvMixColumns <- MCInvMixColumns
    ExpandKey <- MCExpandKey
    Keys <- MCKeys
    Texts <- MCTexts
    Unknown <- MCUnknown
    UnknownRcon <- MCUnknownRcon
SPECIFICATION FairSpec
INVARIANTS
    TypeOK
    PipelineInv
    ResultCorrect
PROPERTIES
    ImplementsEngine
    Quiesces
