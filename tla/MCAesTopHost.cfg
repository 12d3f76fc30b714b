\* aes_top under a host that asks one block at a time.
CONSTANTS
    Block <- MCBlock
    Xor <- MCXor
    SubShift <- MCSubShift
    MixColumns <- MCMixColumns
    InvShiftSub <- MCInvShiftSub
    InvMixColumns <- MCInvMixColumns
    ExpandKey <- MCExpandKey
    Keys <- MCOneKey
    Texts <- MCOneText
    Unknown <- MCUnknown
    UnknownRcon <- MCUnknownRcon
    UnknownCount <- MCUnknownCount
    Undriven = Undriven
    MaxOps = 4
    MaxGap = 13
SPECIFICATION MCHostedSpec
PROPERTY TopImplementsEngine
