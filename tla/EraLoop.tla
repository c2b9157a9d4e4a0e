------------------------------- MODULE EraLoop -------------------------------
(***************************************************************************)
(* The while loop of settle_compressed_batch pass by pass, with its u64    *)
(* variables: what the operators of RewardSchedule stand for.  An          *)
(* overflow, reported by checked_mul or checked_add or trapped by the      *)
(* overflow checks of the build, fails the instruction.                    *)
(***************************************************************************)
EXTENDS RewardSchedule

VARIABLES start,           \* global_request_count the loop starts from
          receipt_count,   \* of the batch
          current_global, remaining, total_reward,
          failed           \* the instruction was aborted by an overflow

loopVars == <<start, receipt_count, current_global, remaining, total_reward, failed>>

LoopTypeOK ==
    /\ {start, receipt_count, current_global, remaining, total_reward} \subseteq 0..Word
    /\ failed \in BOOLEAN

LoopInit ==
    /\ start \in 0..Word
    /\ receipt_count \in 0..Word
    /\ current_global = start
    /\ remaining = receipt_count
    /\ total_reward = 0
    /\ failed = FALSE

\* Mutant: the pass that ends an era takes one receipt too many.
MutantPassSize(g, r) == IF NextHalving(g) - g + 1 < r THEN NextHalving(g) - g + 1 ELSE r

PassSize(g, r) == ToProcess(g, r)

\* Mutant: no overflow checks.
MutantPassFits(n, reward) == TRUE

\* Every product and sum of the pass is a u64.
PassFits(n, reward) ==
    /\ NextHalving(current_global) <= Word
    /\ n * reward <= Word
    /\ total_reward + n * reward <= Word
    /\ current_global + n <= Word

\* One pass of the loop body.
Pass ==
    LET n == PassSize(current_global, remaining)
        reward == EraReward(EraOf(current_global))
    IN  /\ ~failed
        /\ remaining > 0
        /\ IF PassFits(n, reward)
           THEN /\ total_reward' = total_reward + n * reward
                /\ current_global' = current_global + n
                /\ remaining' = remaining - n
                /\ UNCHANGED failed
           ELSE /\ failed' = TRUE
                /\ UNCHANGED <<current_global, remaining, total_reward>>
        /\ UNCHANGED <<start, receipt_count>>

LoopNext == Pass

LoopSpec == LoopInit /\ [][LoopNext]_loopVars /\ WF_loopVars(LoopNext)

\* Every pass pays its receipts what the halving schedule promises them: the
\* loop's shortcut over whole eras never takes a receipt into the wrong era.
PaysSchedule ==
    /\ current_global + remaining = start + receipt_count
    /\ total_reward = ScheduledReward(start, receipt_count - remaining)

\* The loop ends, and it ends with a failure exactly when the operator
\* SnsProgram uses for it says the reward of the batch does not fit.
EndsAsSummarised ==
    <>(/\ failed \/ remaining = 0
       /\ failed <=> ~RewardFits(start, receipt_count)
       /\ ~failed => total_reward = LoopReward(start, receipt_count))
=============================================================================
