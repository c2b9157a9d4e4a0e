--------------------------- MODULE RewardSchedule ---------------------------
(***************************************************************************)
(* The SOLNET reward of a settled batch: the era loop of                   *)
(* settle_compressed_batch (sns-program lib.rs).  The receipts of a batch  *)
(* are numbered from the global request count on, every HalvingInterval    *)
(* receipts start a new era and each era pays half of the one before.      *)
(***************************************************************************)
EXTENDS Integers, FiniteSets, Functions

CONSTANTS InitialReward,    \* base units minted per receipt in era 0
          HalvingInterval,  \* receipts per era
          Word              \* u64::MAX

ASSUME RewardAssumption ==
    /\ InitialReward \in Nat
    /\ HalvingInterval \in Nat \ {0}
    /\ Word \in Nat

\* The era a receipt number falls in.
EraOf(g) == g \div HalvingInterval

\* "initial_reward >> era", one place after the other.
Shifted[era \in 0..63] == IF era = 0 THEN InitialReward ELSE Shifted[era - 1] \div 2

\* Mutant: the reward doubles.
MutantEraReward(era) == InitialReward * 2^era

\* "if era >= 64 { 0 } else { initial_reward >> era }"
EraReward(era) == IF era >= 64 THEN 0 ELSE Shifted[era]

\* The number of the first receipt of the next era: (era + 1) * halving_interval.
NextHalving(g) == (EraOf(g) + 1) * HalvingInterval

\* One pass of the loop takes what is left of the batch or of the era.
ToProcess(g, r) ==
    LET canFill == NextHalving(g) - g
    IN  IF canFill < r THEN canFill ELSE r

\* The while loop.  current_global + remaining never changes, so remaining
\* alone tells where the loop is.
LoopReward(g, count) ==
    LET loop[r \in 0..count] ==
            IF r = 0
            THEN 0
            ELSE LET cur == g + count - r
                     n == ToProcess(cur, r)
                 IN  n * EraReward(EraOf(cur)) + loop[r - n]
    IN  loop[count]

\* The largest intermediate of the loop is the end of the last era it enters;
\* the program is built with overflow checks, so an overflow aborts it.
LoopTop(g, r) == IF r = 0 THEN g ELSE NextHalving(g + r - 1)

\* The loop computes a reward: neither checked_mul and checked_add nor the
\* unchecked arithmetic on current_global overflows.
RewardFits(g, r) ==
    /\ LoopTop(g, r) <= Word
    /\ LoopReward(g, r) \in 0..Word

\* What the schedule promises, receipt by receipt.
ScheduledReward(g, r) ==
    SumFunction([i \in g..(g + r - 1) |-> EraReward(EraOf(i))])
=============================================================================
