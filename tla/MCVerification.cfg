SPECIFICATION Spec
CONSTANTS
    ByteBits = 2
    CiL = 2
    HexBits = 1
    MaxRadix = 3
    MaxLimbs = 10
    WindowBits <- MCWindowBits
    WindowSize = 4
    SeedsA <- MCSeedsA
    SeedsB <- MCSeedsB
    Dirty <- MCDirty
    Exponents <- MCExponents
    Ints <- MCInts
    Shifts = {0, 1, 3, 5, 9}
    Strings <- MCStrings
    Buffers = {0, 2, 5, 12}
    MaxSize = 3
    Budgets = {0, 1, 3, 99}
    MaxCalls = 1
    Keys <- MCKeys
    Inputs = {2, 55}
    Draws = {5, 8}
    Blinds = {0, 2}
    RsaByteBits = 2
    MinKeyBits = 5
    MaxKeyBits = 8
    MaxRsaCalls = 4
    Asn1Templates <- MCTemplates
    Asn1Bytes = {0, 1, 2, 3, 5, 6, 8, 129, 130}
    IntBytes = 2
    Mds <- MCMds
    MinPad = 8
    MinLen = 16
    SizeMod = 64
    Blocks = {12, 16, 24, 25}
    Hashes <- MCHashes
    Messages <- MCMessages
    Lengths = {0, 1, 5, 62}
    Rooms = {0, 5}
    Substitutes = {0, 1, 2, 3, 4, 5, 48, 129, 255}
    BlockSize = 8
    LenSize = 2
    WordMod = 32
    HighMod = 4
    DigestSize = 2
    Pieces = {0, 1, 5, 6, 8, 17}
    MaxTotal = 34
    KeyLens = {0, 3, 8, 9}
    Ring = "ring"
    KeyIds = {"k1", "k2"}
    CertIds = {"a", "b"}
    MaxHeld = 2
    RsaLen = 3
    MaxPuts = 5
INVARIANTS MpiArithmetic KeyHalvesMatch OnlyTheEncoding DigestOfTheWhole KeysOutliveTheRing
CHECK_DEADLOCK FALSE
