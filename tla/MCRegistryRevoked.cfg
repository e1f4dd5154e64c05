SPECIFICATION Spec
CONSTANTS
    Account = {zero, alice, bob}
    ZeroAddress = zero
    s1 = s1
    s2 = s2
    issuer = issuer
    zeroRoot = zeroRoot
    root1 = root1
    root2 = root2
    Secret = {s1}
    Issuer = {issuer}
    Root = {root1, root2}
    Leaves <- KeptLeaves
    Field = 3
    MaxTime = 2
INVARIANTS
    RevocationIsFinal
