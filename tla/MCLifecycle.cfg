SPECIFICATION FairDeployedSpec
CONSTANTS
    Account = {zero, alice, bob}
    ZeroAddress = zero
    alice = alice
    bob = bob
    s1 = s1
    issuer = issuer
    p1 = p1
    p2 = p2
    Secret = {s1}
    Issuer = {issuer}
    Issuance = {p1, p2}
    LeafOf <- MCLeafOf
    HolderOf <- MCHolderOf
    Root <- MCRoot
    Leaves <- MCLeaves
    Field = 3
    NoFile = NoFile
    Empty = Empty
    Garbled = Garbled
    MaxTime = 1
    MaxRunning = 2
    MaxCrashes = 1
    MaxSetbacks = 1
INVARIANTS
    OnlyHolderRedeems
    RedeemedWereIssued
PROPERTIES
    IssuedIsRedeemed
