SPECIFICATION Spec
CONSTANTS
    kb = kb
    ks = ks
    vf = vf
    text = text
    noise = noise
    Block = {kb, ks}
    Version = {vf}
    Client = {c1, c2}
    Content = {text, noise}
    None = None
    Garbled = Garbled
    Unreadable = {ks}
    Module <- MCModule
    Chain <- MCChain
    Weight <- MCWeight
    Small = {text}
    Attempts = 2
    CheckWrites = {kb, vf}
    MaxCalls = 3
    MaxFaults = 1
INVARIANTS NoHalfObjects
PROPERTIES IsRegularStore
SYMMETRY Clients
CHECK_DEADLOCK FALSE
