\* The decryption core comes to rest, from any power-up counters.
CONSTANTS
    Block <- MCBlock
    Xor <- MCXor
    SubShift <- MCSubShift
    MixColumns <- MCMixColumns
    InvShiftSub <- MCInvShiftSub
    InvMixColumns <- MCInvMixColumns
    ExpandKey <- MCExpandKey
    Keys <- MCKeys
    Texts <- MCOneText
    Unknown <- MCUnknown
    UnknownRcon <- MCUnknownRcon
    UnknownCount <- MCManyCounts
    MaxOps = 1
    MaxGap = 15
SPECIFICATION MCSpec
PROPERTY Quiesces
