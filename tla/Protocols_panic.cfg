CONSTANTS
    p = p
    q = q
    alice = alice
    bob = bob
    Users = {alice, bob}
    Passwords = {p, q}
    Registrations = {1, 2}
    Clients = {1, 2}
    Servers = {1, 2}
    Args <- MCArgs
    MaxSessions = 4
    Payloads <- MCPayloads
    MaxSeq = 3
    MaxEpoch = 1
    IvBits = 3
SPECIFICATION Spec
SYMMETRY Renaming
CHECK_DEADLOCK FALSE
INVARIANTS NeverPanics
