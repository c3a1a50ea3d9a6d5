SPECIFICATION Spec
CONSTANTS
    Ixl = Ixl
    Oc = Oc
    NameLength = 4
    MaxPayload = 20
    Files <- MCFiles
    Packets <- MCPackets
    Damages <- MCDamages
    MaxSends = 2
    Hash <- MCHash
INVARIANTS
    ReadAsWritten
    ChecksumIsRemainder
    NeverMisread
    MatchingUnderstand
    SpoiltOnlyByMismatch
CHECK_DEADLOCK FALSE
