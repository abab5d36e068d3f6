CONSTANTS
    c1 = c1
    c2 = c2
    None = None
    Callers <- MCCallers
    Keys <- MCKeys
    Nonces <- MCNonces
    DrawnLen = 2
    NONCE_MEMORY = 2
    Inputs <- MCInputs
    MAX_MESSAGE = 2
    CHUNK = 2
    MAX_DEPTH = 3
    JsonTexts <- MCJsonTexts
    JsonValues <- MCJsonValues
    BYTE = 32
    MaxCount = 2
    WordBytes = 2
    Signatures <- MCSignatures
    SignatureInputs <- MCSignatureInputs
    Contents <- MCContents
    ElementInputs <- MCElementInputs
    Rooms = {0, 1, 2, 3, 5, 6, 8, 9, 14, 15, 16, 17, 18, 19, 20, 40}
SPECIFICATION FairServicesSpec
CHECK_DEADLOCK TRUE
INVARIANTS PairOnce RefusedOnlyIfClaimed OneResponsePerMessage JsonExact DerCanonical
PROPERTIES EndsWithInput
