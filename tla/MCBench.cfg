\* The bench with resets up to the twelfth call of a block.
CONSTANTS
    Block <- MCBlock
    Xor <- MCXor
    SubShift <- MCSubShift
    MixColumns <- MCMixColumns
    InvShiftSub <- MCInvShiftSub
    InvMixColumns <- MCInvMixColumns
    ExpandKey <- MCExpandKey
    Keys <- MCKeys
    Texts <- MCTexts
    Unknown <- MCUnknown
    UnknownRcon <- MCUnknownRcon
    Reversed <- MCReversed
    Zero = 0
    Warmup = 10
    ResetsAt <- EarlyResets
    UnpassedRst <- NonZero
SPECIFICATION BenchSpec
INVARIANTS
    LockStep
    ChecksPass
PROPERTY AnswersCompared
