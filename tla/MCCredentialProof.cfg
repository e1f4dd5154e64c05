SPECIFICATION Spec
CONSTANTS
    alice = alice
    s1 = s1
    s2 = s2
    issuer = issuer
    i1 = i1
    i2 = i2
    i3 = i3
    Account = {zero, alice}
    ZeroAddress = zero
    Secret = {s1, s2}
    Issuer = {issuer}
    Root <- MCRoot
    Leaves <- MCLeaves
    Field = 3
    Command = {c1}
    Numeral <- MCNumeral
    Hashable <- MCHashable
    BadAddress = BadAddress
    BadSecret = BadSecret
    Capacity = 2
    None = None
    Issuance = {i1, i2, i3}
    IssueArgs <- MCIssueArgs
    NoFile = NoFile
    Empty = Empty
    Garbled = Garbled
    MaxRunning = 2
    MaxCrashes = 1
INVARIANTS
    TypeOK
    OutputRedeemable
    SuccessIsEarned
    SecretsRemoved
CHECK_DEADLOCK FALSE
