CONSTANTS
    Params <- MCParams
    Provided = {15, 33}
    MaxThreads = 3
    WordValues = 16
    BLOCK_WORDS = 3
    BlockLen = 4
    LengthBytes = 2
    DigestLen = 1
    Rate = 3
    ChunkBlocks = 2
    MaxLen = 44
    MaxPiece = 9
    MaxOut = 7
    Calls <- MCCalls
    BlockBytes = 2
    CounterValues = 64
    Narrow = 4
    Keks = {"k1", "k2"}
    MaxBlocks = 3
    LengthBits = 16
    Plaintexts <- MCPlaintexts
    Ciphertexts <- MCCiphertexts
    FieldBits = 3
    MODULUS = 3
    Splits <- MCSplits
    Picks <- MCPicks
SPECIFICATION Spec
CHECK_DEADLOCK FALSE
INVARIANTS SlicesInStep ReadsSettled ArenaWiped DigestOfWholeMessage OutputIsOneStream KeystreamOnce TagOverEverything NothingUnverified UnwrapExact ThresholdExact
