\* The examples of FIPS-197 through aes_top.
CONSTANTS
    Block <- ByteBlock
    Xor <- XorBlock
    SubShift <- SubShiftBlock
    MixColumns <- MixColumnsBlock
    InvShiftSub <- InvShiftSubBlock
    InvMixColumns <- InvMixColumnsBlock
    ExpandKey <- ExpandKeyBlock
    Keys <- FipsKeys
    Texts <- MCTexts
    Unknown <- MCUnknown
    UnknownRcon <- MCUnknownRcon
    UnknownCount <- MCUnknownCount
    Undriven = Undriven
    MaxOps = 3
    MaxGap = 13
    ActGaps = {8, 11}
SPECIFICATION MCSpec
INVARIANTS
    KnownAnswerCipher
    KnownAnswerInvCipher
