\* The decryption core under a host that keeps to its side.
CONSTANTS
    Block <- MCBlock
    Xor <- MCXor
    SubShift <- MCSubShift
    MixColumns <- MCMixColumns
    InvShiftSub <- MCInvShiftSub
    InvMixColumns <- MCInvMixColumns
    ExpandKey <- MCExpandKey
    Keys <- MCKeys
    Texts <- MCOneText
    Unknown <- MCUnknown
    UnknownRcon <- MCUnknownRcon
    UnknownCount <- MCUnknownCount
    MaxOps = 4
    MaxGap = 13
SPECIFICATION MCSpec
INVARIANT AlwaysReady
PROPERTY ImplementsEngine
