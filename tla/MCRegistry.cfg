SPECIFICATION Spec
CONSTANTS
    Account = {zero, alice, bob}
    ZeroAddress = zero
    s1 = s1
    s2 = s2
    issuer = issuer
    zeroRoot = zeroRoot
    root1 = root1
    root2 = root2
    Secret = {s1, s2}
    Issuer = {issuer}
    Root = {zeroRoot, root1, root2}
    Leaves <- MCLeaves
    Field = 4
    MaxTime = 2
INVARIANTS
    TypeOK
    OneRedemptionPerEpoch
    StorageMatchesEvents
    VerificationIsBacked
PROPERTIES
    ExtendingBurns
    LedgerImplemented
SYMMETRY AccountSymmetry
