SPECIFICATION Spec
CONSTANTS
    alice = alice
    bob = bob
    Users <- TwoUsers
    Amounts = {1, 2}
    Rate = 2
    Launch = 2
    Closure = 5
    Precision = 5
    FeePrecision = 2
    FeeCap = 1
    Cooldowns = {0, 1}
    DefaultCooldown = 1
    MaxTime = 6
    MaxStakes = 3
    MaxTokens = 4
SYMMETRY UserSymmetry
INVARIANTS
    Accounted
    RewardsAreBacked
    OwnerLeavesRewards
    PaidIsEarned
CHECK_DEADLOCK FALSE
