CONSTANTS
    p1 = p1
    p2 = p2
    Senders = {"c->s", "s->c"}
    Payloads <- MCPayloads
    MaxCounter = 2
    Plaintexts <- MCPayloads
    MaxSeq = 4
SPECIFICATION StreamsSpec
CHECK_DEADLOCK TRUE
INVARIANTS NonceOnce WindowFollowsOpened NothingStranded ContextNonceOnce NoReflection OpenedIsPrefix
PROPERTIES ImplementsChannel StaysInStep
