SPECIFICATION FairDeployedSpec
CONSTANTS
    Account = {zero, alice, bob}
    ZeroAddress = zero
    s1 = s1
    issuer = issuer
    root1 = root1
    root2 = root2
    Secret = {s1}
    Issuer = {issuer}
    Root = {root1, root2}
    Leaves <- MCLeaves
    Field = 3
    MaxTime = 2
    MaxUint = 1
INVARIANTS
    HoldersRedeemed
PROPERTIES
    MovesOnlyIfEntitled
    TradingEnds
    VerificationLapses
