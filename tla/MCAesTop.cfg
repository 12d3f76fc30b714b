\* aes_top under a host that does anything.
CONSTANTS
    Block <- MCBlock
    Xor <- MCXor
    SubShift <- MCSubShift
    MixColumns <- MCMixColumns
    InvShiftSub <- MCInvShiftSub
    InvMixColumns <- MCInvMixColumns
    ExpandKey <- MCExpandKey
    Keys <- MCOneKey
    Texts <- MCOneText
    Unknown <- MCUnknown
    UnknownRcon <- MCUnknownRcon
    UnknownCount <- MCUnknownCount
    Undriven = Undriven
    MaxOps = 3
    MaxGap = 13
SPECIFICATION MCAnySpec
INVARIANT AnswersShown
