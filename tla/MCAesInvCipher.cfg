\* The decryption core under a host that acts at any cycle.
CONSTANTS
    Block <- MCBlock
    Xor <- MCXor
    SubShift <- MCSubShift
    MixColumns <- MCMixColumns
    InvShiftSub <- MCInvShiftSub
    InvMixColumns <- MCInvMixColumns
    ExpandKey <- MCExpandKey
    Keys <- MCKeys
    Texts <- MCOneText
    Unknown <- MCUnknown
    UnknownRcon <- MCUnknownRcon
    UnknownCount <- MCUnknownCount
    MaxOps = 3
    MaxGap = 15
SPECIFICATION MCSpec
INVARIANTS
    TypeOK
    KeyBufferInv
    ControlInv
    CleanInv
    CleanResult
PROPERTIES
    KeyDoneWhenFull
    DoneIsPulse
