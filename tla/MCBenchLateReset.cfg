\* The bench with resets in the last two calls of a block.
CONSTANTS
    Block <- MCBlock
    Xor <- MCXor
    SubShift <- MCSubShift
    MixColumns <- MCMixColumns
    InvShiftSub <- MCInvShiftSub
    InvMixColumns <- MCInvMixColumns
    ExpandKey <- MCExpandKey
    Keys <- MCKeys
    Texts <- MCTexts
    Unknown <- MCUnknown
    UnknownRcon <- MCUnknownRcon
    Reversed <- MCReversed
    Zero = 0
    Warmup = 10
    ResetsAt <- LateResets
    UnpassedRst <- NonZero
SPECIFICATION BenchSpec
INVARIANT ChecksPass
