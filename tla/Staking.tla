------------------------------- MODULE Staking -------------------------------
(***************************************************************************)
(* The staking contract: contracts/StakingContract/src/Staking.sol. Ether  *)
(* is staked, rewards are paid in a token. A call that reverts changes     *)
(* nothing, so what makes it revert is the guard of its action.            *)
(*                                                                         *)
(* The amounts are small and so are the scales: Precision stands for 1e18, *)
(* FeePrecision for 10000. Words of 256 bits do not overflow here.         *)
(***************************************************************************)
EXTENDS Integers, FiniteSets, Functions

CONSTANTS Users,
          Amounts,         \* ether a user may stake at a time
          Rate,            \* rewardRatePerBlock
          Launch, Closure, \* launchTime, closureTime
          Precision, FeePrecision, FeeCap,
          Cooldowns, DefaultCooldown, \* values setUnstakeTime accepts; the first one
          MaxTime,         \* bound: last block time
          MaxStakes,       \* bound: ether at stake
          MaxTokens        \* bound: tokens the contract is given

ASSUME StakingConstants ==
    /\ IsFiniteSet(Users)
    /\ Amounts \subseteq Nat \ {0} /\ Cooldowns \subseteq Nat /\ DefaultCooldown \in Cooldowns
    /\ Rate \in Nat /\ Launch \in Nat /\ Closure \in Nat /\ Launch <= Closure
    /\ Precision \in Nat \ {0} /\ FeePrecision \in Nat \ {0} /\ FeeCap \in 0..FeePrecision
    /\ MaxTime \in Nat /\ MaxStakes \in Nat /\ MaxTokens \in Nat

VARIABLES now,         \* block.timestamp
          stakers,
          totalStaked,     \* totalStakedAmount
          accruing,        \* totalRewardsAccrued: the stakes that earn
          lastUpdate,      \* lastUpdateTime
          perToken,        \* rewardPerTokenAccrued
          pending,         \* rewardsPendingAccumulated
          fees,            \* unstakeFeeAccumulated
          feePercent, cooldown,
          ether, tokens,   \* what the contract holds
          given,           \* history: tokens the contract was given
          paid,            \* history: rewards paid
          short,           \* history: a stake was withdrawn with more reward than was free
          withdrawn        \* history: the owner has withdrawn the remaining tokens

rewards == <<lastUpdate, perToken, pending>>
config == <<feePercent, cooldown>>
vars == <<now, stakers, totalStaked, accruing, rewards, fees, config, ether, tokens, given,
          paid, short, withdrawn>>

Init ==
    /\ now = 1
    /\ stakers = [u \in Users |-> [staked |-> 0, debt |-> 0, earned |-> 0, unstake |-> 0]]
    /\ totalStaked = 0 /\ accruing = 0
    /\ lastUpdate = 0 /\ perToken = 0 /\ pending = 0
    /\ fees = 0 /\ feePercent = 0 /\ cooldown = DefaultCooldown
    /\ ether = 0 /\ tokens = 0
    /\ given = 0 /\ paid = 0 /\ short = FALSE /\ withdrawn = FALSE

-----------------------------------------------------------------------------
LastApplicableTime == IF now < Closure THEN now ELSE Closure
FullPendingRewards == (LastApplicableTime - lastUpdate) * Rate * Precision

CalculatePendingRewards ==
    IF accruing = 0 THEN pending
    ELSE pending + FullPendingRewards - (FullPendingRewards % accruing)

RewardPerToken ==
    IF accruing = 0 THEN perToken ELSE perToken + (FullPendingRewards \div accruing)

CalculateEarnedRewards(u) ==
    LET s == stakers[u] IN
    IF s.unstake # 0 THEN s.earned
    ELSE ((s.staked * (RewardPerToken - s.debt)) \div Precision) + s.earned

\* The modifier updateReward, for the contract and for the staker who calls.
UpdateReward ==
    /\ perToken' = RewardPerToken
    /\ pending' = CalculatePendingRewards
    /\ lastUpdate' = LastApplicableTime
Updated(u) ==
    LET s == stakers[u] IN
    IF s.unstake # 0 THEN s
    ELSE [s EXCEPT !.earned = CalculateEarnedRewards(u), !.debt = RewardPerToken]

Free == tokens - totalStaked - fees   \* getBalance, which reverts below zero

-----------------------------------------------------------------------------
StakeWithoutUpdate(u, amount) ==
    /\ Launch <= now /\ now <= Closure
    /\ stakers[u].unstake = 0
    /\ totalStaked + amount <= MaxStakes
    /\ UpdateReward
    /\ stakers' = [stakers EXCEPT ![u].staked = @ + amount]
    /\ totalStaked' = totalStaked + amount
    /\ accruing' = accruing + amount
    /\ ether' = ether + amount
    /\ UNCHANGED <<now, fees, config, tokens, given, paid, short, withdrawn>>
Stake(u, amount) ==
    /\ Launch <= now /\ now <= Closure
    /\ stakers[u].unstake = 0
    /\ totalStaked + amount <= MaxStakes
    /\ UpdateReward
    /\ stakers' = [stakers EXCEPT ![u] = [Updated(u) EXCEPT !.staked = @ + amount]]
    /\ totalStaked' = totalStaked + amount
    /\ accruing' = accruing + amount
    /\ ether' = ether + amount
    /\ UNCHANGED <<now, fees, config, tokens, given, paid, short, withdrawn>>

ClaimRewardAgain(u) ==
    LET reward == Updated(u).earned IN
    /\ reward > 0 /\ Free >= reward
    /\ perToken' = RewardPerToken
    /\ lastUpdate' = LastApplicableTime
    /\ CalculatePendingRewards >= reward * Precision
    /\ pending' = CalculatePendingRewards - reward * Precision
    /\ stakers' = [stakers EXCEPT ![u] = Updated(u)]
    /\ tokens' = tokens - reward
    /\ paid' = paid + reward
    /\ UNCHANGED <<now, totalStaked, accruing, fees, config, ether, given, short, withdrawn>>
ClaimReward(u) ==
    LET reward == Updated(u).earned IN
    /\ reward > 0 /\ Free >= reward
    /\ perToken' = RewardPerToken
    /\ lastUpdate' = LastApplicableTime
    /\ CalculatePendingRewards >= reward * Precision
    /\ pending' = CalculatePendingRewards - reward * Precision
    /\ stakers' = [stakers EXCEPT ![u] = [Updated(u) EXCEPT !.earned = 0]]
    /\ tokens' = tokens - reward
    /\ paid' = paid + reward
    /\ UNCHANGED <<now, totalStaked, accruing, fees, config, ether, given, short, withdrawn>>

WithdrawAllTokens ==
    /\ UpdateReward
    /\ now > Closure
    /\ Free > CalculatePendingRewards \div Precision
    /\ tokens' = tokens - Free
    /\ withdrawn' = TRUE
    /\ UNCHANGED <<now, stakers, totalStaked, accruing, fees, config, ether, given, paid, short>>
\* The owner takes what is free beyond the pending rewards.
WithdrawRemainingTokens ==
    /\ UpdateReward
    /\ now > Closure
    /\ Free > CalculatePendingRewards \div Precision
    /\ tokens' = tokens - (Free - (CalculatePendingRewards \div Precision))
    /\ withdrawn' = TRUE
    /\ UNCHANGED <<now, stakers, totalStaked, accruing, fees, config, ether, given, paid, short>>

CommenceStillAccruing(u) ==
    /\ stakers[u].staked > 0
    /\ stakers[u].unstake = 0
    /\ UpdateReward
    /\ stakers' = [stakers EXCEPT ![u] = [Updated(u) EXCEPT !.unstake = now]]
    /\ UNCHANGED <<now, totalStaked, accruing, fees, config, ether, tokens, given, paid, short,
                   withdrawn>>
CommenceUnstaking(u) ==
    /\ stakers[u].staked > 0
    /\ stakers[u].unstake = 0
    /\ UpdateReward
    /\ stakers' = [stakers EXCEPT ![u] = [Updated(u) EXCEPT !.unstake = now]]
    /\ accruing' = accruing - stakers[u].staked
    /\ UNCHANGED <<now, totalStaked, fees, config, ether, tokens, given, paid, short, withdrawn>>

SetUnstakeFeePercent(fee) ==
    /\ fee <= FeeCap
    /\ feePercent' = fee
    /\ UNCHANGED <<now, stakers, totalStaked, accruing, rewards, fees, cooldown, ether, tokens,
                   given, paid, short, withdrawn>>

SetUnstakeTime(time) ==
    /\ cooldown' = time
    /\ UNCHANGED <<now, stakers, totalStaked, accruing, rewards, fees, feePercent, ether,
                   tokens, given, paid, short, withdrawn>>

\* The reward is paid with the stake; it is struck off only if it was free.
WithdrawStake(u) ==
    LET s == stakers[u]
        fee == (s.staked * feePercent) \div FeePrecision
        covered == s.earned > 0 /\ Free >= s.earned
        owed == CalculatePendingRewards
    IN /\ s.staked > 0 /\ s.unstake > 0
       /\ now >= s.unstake + cooldown
       /\ Free >= 0 /\ tokens >= s.earned
       /\ perToken' = RewardPerToken
       /\ lastUpdate' = LastApplicableTime
       /\ pending' = IF covered /\ owed >= s.earned * Precision
                     THEN owed - s.earned * Precision ELSE owed
       /\ stakers' = [stakers EXCEPT ![u] =
             [staked |-> 0, debt |-> 0, unstake |-> 0,
              earned |-> IF covered THEN 0 ELSE s.earned]]
       /\ fees' = fees + fee
       /\ totalStaked' = totalStaked - s.staked
       /\ tokens' = tokens - s.earned
       /\ ether' = ether - (s.staked - fee)
       /\ paid' = paid + s.earned
       /\ short' = (short \/ (s.earned > 0 /\ ~covered))
       /\ UNCHANGED <<now, accruing, config, given, withdrawn>>

-----------------------------------------------------------------------------
\* Anyone may send the contract tokens; time passes.
GiveToken ==
    /\ given < MaxTokens
    /\ given' = given + 1 /\ tokens' = tokens + 1
    /\ UNCHANGED <<now, stakers, totalStaked, accruing, rewards, fees, config, ether, paid,
                   short, withdrawn>>

Tick ==
    /\ now < MaxTime
    /\ now' = now + 1
    /\ UNCHANGED <<stakers, totalStaked, accruing, rewards, fees, config, ether, tokens, given,
                   paid, short, withdrawn>>

Next == \/ \E u \in Users : \/ \E amount \in Amounts : Stake(u, amount)
                            \/ ClaimReward(u) \/ CommenceUnstaking(u) \/ WithdrawStake(u)
        \/ WithdrawRemainingTokens
        \/ \E fee \in 0..FeePrecision : SetUnstakeFeePercent(fee)
        \/ \E time \in Cooldowns : SetUnstakeTime(time)
        \/ GiveToken \/ Tick

Spec == Init /\ [][Next]_vars

-----------------------------------------------------------------------------
EarnedRewards == SumFunction([u \in Users |-> CalculateEarnedRewards(u)])

\* The ether the contract holds is the stakes and the fees kept back from them, and what
\* earns rewards is the stakes whose owners have not begun to unstake.
Accounted ==
    /\ totalStaked = SumFunction([u \in Users |-> stakers[u].staked])
    /\ ether = totalStaked + fees
    /\ accruing = SumFunction([u \in Users |->
                      IF stakers[u].unstake = 0 THEN stakers[u].staked ELSE 0])

\* The pending rewards, which the owner may not touch, cover what all stakers have earned,
\* at any time between two updates and in spite of the rounding: claimReward never reverts
\* because it cannot strike a reward off.
RewardsAreBacked ==
    CalculatePendingRewards >= Precision * EarnedRewards

\* Once the owner has withdrawn the remaining tokens, what is left covers the rewards of
\* everyone: stakers who come after the closure are paid in full.
OwnerLeavesRewards == withdrawn => Free >= EarnedRewards

\* No more reward is paid and earned than the rate gives for the time since the launch,
\* unless a stake was withdrawn when its reward was not free: the reward is then paid
\* and kept.
PaidIsEarned ==
    ~short /\ now >= Launch =>
        paid + EarnedRewards <= Rate * (LastApplicableTime - Launch)
=============================================================================
