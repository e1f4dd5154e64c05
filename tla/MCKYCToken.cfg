SPECIFICATION TokenSpec
CONSTANTS
    Account = {zero, alice, bob}
    ZeroAddress = zero
    MaxUint = 3
INVARIANTS
    TokenTypeOK
    AllowanceAccounting
    SupplyIsSumOfBalances
PROPERTIES
    FrozenWhileUnverified
SYMMETRY AccountSymmetry
